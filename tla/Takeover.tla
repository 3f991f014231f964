------------------------------ MODULE Takeover ------------------------------
(***************************************************************************)
(* Taking the adapter from bluetoothd and handing it back: hci.New, the    *)
(* deferred hci.Conn.Close and run of cmd/hohd, the kernel's mgmt          *)
(* interface, and the signals that may arrive at any point of it.          *)
(*                                                                         *)
(* The kernel carries out a Set Powered command asynchronously and queues  *)
(* its reply on the control socket; the program matches a reply by the     *)
(* command's opcode alone, which is the same for on and off.               *)
(***************************************************************************)
EXTENDS Naturals, Sequences

CONSTANTS
  CatchesSignals, \* the program installs a handler: hohd does, hoh-verify not
  MayFail,        \* the kernel may fail a command or refuse a socket
  Slow,           \* a Set Powered may take longer than the read timeout
  BusyStart,      \* bluetoothd may have an operation under way at the start
  MaxSignals,     \* bound: signals sent to the process
  SignalPoints    \* bound: the points of the program at which they arrive

ASSUME FlagsAssumption ==
  /\ CatchesSignals \in BOOLEAN /\ MayFail \in BOOLEAN
  /\ Slow \in BOOLEAN /\ BusyStart \in BOOLEAN
ASSUME SignalsAssumption == MaxSignals \in Nat

Attempts == 6  \* powerDownWithRetry

VARIABLES
  pc,        \* where the main goroutine is
  attempt,   \* powerDownWithRetry's attempt counter
  userFd,    \* the user channel is bound
  ctrlFd,    \* the control (mgmt) socket is open
  handler,   \* signal.NotifyContext is in effect
  ctx,       \* the run context is cancelled
  failed,    \* New is on one of its error paths
  closeErr,  \* Close's firstErr
  powered,   \* the kernel has the controller powered, for bluetoothd
  pending,   \* the Set Powered the kernel is carrying out
  busy,      \* bluetoothd has an operation under way on the controller
  replies,   \* replies queued on the control socket
  signals    \* history: signals sent so far

procVars == <<pc, attempt, userFd, ctrlFd, failed, closeErr>>
sigVars  == <<handler, ctx, signals>>
kernVars == <<powered, pending, busy, replies>>
vars == <<procVars, sigVars, kernVars>>

NewPoints   == {"open_ctrl", "power_off", "await_off", "backoff", "open_user", "reset"}
RunPoints   == {"notify", "run"}
ClosePoints == {"stop", "close_adv", "close_user", "power_on", "await_on", "close_ctrl"}
EndPoints   == {"exited", "killed"}

Statuses == {"ok", "busy", "error"}

Ended == pc \in EndPoints

Init ==
  /\ pc = "open_ctrl" /\ attempt = 0
  /\ userFd = FALSE /\ ctrlFd = FALSE
  /\ failed = FALSE /\ closeErr = FALSE
  /\ handler = FALSE /\ ctx = FALSE /\ signals = 0
  /\ powered = TRUE /\ pending = "none" /\ replies = <<>>
  /\ busy \in BOOLEAN /\ (busy => BusyStart)

-----------------------------------------------------------------------------
(* The kernel and bluetoothd.                                              *)

\* Set Powered is answered Busy at once while another is under way, or when it
\* would power off a controller bluetoothd is using; one that changes nothing
\* succeeds at once; any other is answered when it is done.
SetPowered(cmd) ==
  LET refused == pending # "none" \/ (cmd = "off" /\ busy)
      idle    == powered = (cmd = "on")
  IN /\ pending' = IF refused \/ idle THEN pending ELSE cmd
     /\ replies' = IF refused THEN Append(replies, "busy")
                   ELSE IF idle THEN Append(replies, "ok")
                   ELSE replies

Reply(status) == replies' = IF ctrlFd THEN Append(replies, status) ELSE <<>>

PowerDone ==
  /\ pending # "none"
  /\ powered' = (pending = "on")
  /\ pending' = "none"
  /\ Reply("ok")
  /\ UNCHANGED <<procVars, sigVars, busy>>

PowerFailed ==
  /\ MayFail
  /\ pending # "none"
  /\ pending' = "none"
  /\ Reply("error")
  /\ UNCHANGED <<procVars, sigVars, powered, busy>>

BusyEnds ==
  /\ busy
  /\ busy' = FALSE
  /\ UNCHANGED <<procVars, sigVars, powered, pending, replies>>

Kernel == PowerDone \/ PowerFailed \/ BusyEnds

-----------------------------------------------------------------------------
(* hci.New.                                                                *)

\* Close on a Conn that holds the user channel or not.
CloseFrom(user) == pc' = IF user THEN "close_adv" ELSE "power_on"

OpenCtrl ==
  /\ pc = "open_ctrl"
  /\ \/ pc' = "power_off" /\ ctrlFd' = TRUE /\ UNCHANGED failed
     \/ MayFail /\ pc' = "exited" /\ failed' = TRUE /\ UNCHANGED ctrlFd
  /\ UNCHANGED <<attempt, userFd, closeErr, sigVars, kernVars>>

PowerOff ==
  /\ pc = "power_off"
  /\ SetPowered("off")
  /\ pc' = "await_off" /\ attempt' = attempt + 1
  /\ UNCHANGED <<userFd, ctrlFd, failed, closeErr, sigVars, powered, busy>>

\* Variants of AwaitOff: a timeout is retried like Busy; no timeout at all.
AwaitOffRetryingTimeout ==
  /\ pc = "await_off"
  /\ \/ /\ replies # <<>>
        /\ replies' = Tail(replies)
        /\ CASE Head(replies) = "ok" -> pc' = "open_user" /\ UNCHANGED failed
             [] Head(replies) = "busy" /\ attempt < Attempts ->
                  pc' = "backoff" /\ UNCHANGED failed
             [] OTHER -> CloseFrom(userFd) /\ failed' = TRUE
     \/ /\ Slow /\ replies = <<>> /\ attempt < Attempts
        /\ pc' = "backoff" /\ UNCHANGED <<failed, replies>>
  /\ UNCHANGED <<attempt, userFd, ctrlFd, closeErr, sigVars, powered, pending, busy>>

AwaitOffForever ==
  /\ pc = "await_off"
  /\ replies # <<>>
  /\ replies' = Tail(replies)
  /\ CASE Head(replies) = "ok" -> pc' = "open_user" /\ UNCHANGED failed
       [] Head(replies) = "busy" /\ attempt < Attempts -> pc' = "backoff" /\ UNCHANGED failed
       [] OTHER -> CloseFrom(userFd) /\ failed' = TRUE
  /\ UNCHANGED <<attempt, userFd, ctrlFd, closeErr, sigVars, powered, pending, busy>>

\* powerDownWithRetry retries on Busy only, and only so often.
AwaitOff ==
  /\ pc = "await_off"
  /\ \/ /\ replies # <<>>
        /\ replies' = Tail(replies)
        /\ CASE Head(replies) = "ok" -> pc' = "open_user" /\ UNCHANGED failed
             [] Head(replies) = "busy" /\ attempt < Attempts ->
                  pc' = "backoff" /\ UNCHANGED failed
             [] OTHER -> CloseFrom(userFd) /\ failed' = TRUE
     \/ /\ Slow /\ replies = <<>>
        /\ CloseFrom(userFd) /\ failed' = TRUE /\ UNCHANGED replies
  /\ UNCHANGED <<attempt, userFd, ctrlFd, closeErr, sigVars, powered, pending, busy>>

Backoff ==
  /\ pc = "backoff"
  /\ pc' = "power_off"
  /\ UNCHANGED <<attempt, userFd, ctrlFd, failed, closeErr, sigVars, kernVars>>

\* The kernel binds the user channel only to a controller that is down.
OpenUser ==
  /\ pc = "open_user"
  /\ \/ /\ ~powered /\ pending = "none"
        /\ pc' = "reset" /\ userFd' = TRUE /\ UNCHANGED failed
     \/ /\ MayFail \/ powered \/ pending # "none"
        /\ CloseFrom(userFd) /\ failed' = TRUE /\ UNCHANGED userFd
  /\ UNCHANGED <<attempt, ctrlFd, closeErr, sigVars, kernVars>>

\* setRcvTimeout, Reset and the best-effort initController.
Reset ==
  /\ pc = "reset"
  /\ \/ pc' = "notify" /\ UNCHANGED failed
     \/ MayFail /\ CloseFrom(userFd) /\ failed' = TRUE
  /\ UNCHANGED <<attempt, userFd, ctrlFd, closeErr, sigVars, kernVars>>

-----------------------------------------------------------------------------
(* run: the handler is installed only now; the loop; the deferred calls,   *)
(* last registered first: stop, then Close.                                *)

Notify ==
  /\ pc = "notify"
  /\ handler' = CatchesSignals
  /\ pc' = "run"
  /\ UNCHANGED <<attempt, userFd, ctrlFd, failed, closeErr, ctx, signals, kernVars>>

RunEnds ==
  /\ pc = "run"
  /\ pc' = IF handler THEN "stop" ELSE "close_adv"
  /\ UNCHANGED <<attempt, userFd, ctrlFd, failed, closeErr, sigVars, kernVars>>

Stop ==
  /\ pc = "stop"
  /\ handler' = FALSE
  /\ CloseFrom(userFd)
  /\ UNCHANGED <<attempt, userFd, ctrlFd, failed, closeErr, ctx, signals, kernVars>>

-----------------------------------------------------------------------------
(* hci.Conn.Close.                                                         *)

\* Variants: power on before releasing the user channel; release the channel
\* and leave the controller down.
CloseAdvThenPower ==
  /\ pc = "close_adv"
  /\ pc' = "power_on"
  /\ UNCHANGED <<attempt, userFd, ctrlFd, failed, closeErr, sigVars, kernVars>>

CloseUserOnly ==
  /\ pc = "close_user"
  /\ userFd' = FALSE
  /\ pc' = "close_ctrl"
  /\ UNCHANGED <<attempt, ctrlFd, failed, closeErr, sigVars, kernVars>>

CloseAdv ==
  /\ pc = "close_adv"
  /\ pc' = "close_user"
  /\ UNCHANGED <<attempt, userFd, ctrlFd, failed, closeErr, sigVars, kernVars>>

CloseUser ==
  /\ pc = "close_user"
  /\ userFd' = FALSE
  /\ pc' = "power_on"
  /\ UNCHANGED <<attempt, ctrlFd, failed, closeErr, sigVars, kernVars>>

PowerOn ==
  /\ pc = "power_on"
  /\ SetPowered("on")
  /\ pc' = "await_on"
  /\ UNCHANGED <<attempt, userFd, ctrlFd, failed, closeErr, sigVars, powered, busy>>

\* One attempt: a Busy or a timeout is reported, not retried.
AwaitOn ==
  /\ pc = "await_on"
  /\ pc' = "close_ctrl"
  /\ \/ /\ replies # <<>>
        /\ replies' = Tail(replies)
        /\ closeErr' = (Head(replies) # "ok")
     \/ /\ Slow /\ replies = <<>>
        /\ closeErr' = TRUE /\ UNCHANGED replies
  /\ UNCHANGED <<attempt, userFd, ctrlFd, failed, sigVars, powered, pending, busy>>

CloseCtrl ==
  /\ pc = "close_ctrl"
  /\ ctrlFd' = FALSE /\ replies' = <<>>
  /\ pc' = "exited"
  /\ UNCHANGED <<attempt, userFd, failed, closeErr, sigVars, powered, pending, busy>>

Program ==
  \/ OpenCtrl \/ PowerOff \/ AwaitOff \/ Backoff \/ OpenUser \/ Reset
  \/ Notify \/ RunEnds \/ Stop
  \/ CloseAdv \/ CloseUser \/ PowerOn \/ AwaitOn \/ CloseCtrl

-----------------------------------------------------------------------------
(* SIGINT or SIGTERM: cancels ctx under the handler, otherwise the default *)
(* action ends the process and the kernel closes its sockets.              *)

Signal ==
  /\ ~Ended /\ signals < MaxSignals /\ pc \in SignalPoints
  /\ signals' = signals + 1
  /\ IF handler
       THEN ctx' = TRUE /\ UNCHANGED <<pc, userFd, ctrlFd, replies>>
       ELSE /\ pc' = "killed" /\ userFd' = FALSE /\ ctrlFd' = FALSE /\ replies' = <<>>
            /\ UNCHANGED ctx
  /\ UNCHANGED <<attempt, failed, closeErr, handler, powered, pending, busy>>

Next == Program \/ Kernel \/ Signal

Spec == Init /\ [][Next]_vars

\* The program runs, except that its loop need not end on its own; it ends
\* once ctx is cancelled (Engine's ShutdownCompletes).
ProgramRuns ==
  /\ WF_vars(Program /\ pc # "run")
  /\ WF_vars(RunEnds /\ (ctx \/ ~CatchesSignals))

\* The kernel finishes what it started.
FairSpec == Spec /\ ProgramRuns /\ WF_vars(Kernel)

\* A hung controller: nothing is assumed of the kernel.
HungSpec == Spec /\ ProgramRuns
-----------------------------------------------------------------------------
TypeOK ==
  /\ pc \in NewPoints \cup RunPoints \cup ClosePoints \cup EndPoints
  /\ attempt \in 0..Attempts
  /\ userFd \in BOOLEAN /\ ctrlFd \in BOOLEAN
  /\ failed \in BOOLEAN /\ closeErr \in BOOLEAN
  /\ handler \in BOOLEAN /\ ctx \in BOOLEAN /\ signals \in 0..MaxSignals
  /\ powered \in BOOLEAN /\ pending \in {"none", "on", "off"} /\ busy \in BOOLEAN
  /\ replies \in Seq(Statuses)

\* bluetoothd's stack and the user channel never have the controller together:
\* it is powered for bluetoothd only while the program does not hold the user
\* channel, whatever fails, times out or is retried.
Exclusive == userFd => ~powered /\ pending = "none"

\* "controller restored to bluetoothd" is logged only when it is true: after a
\* run (New succeeded), a Close without error leaves the controller powered.
\* The reply Close reads is that of its own command: none of the takeover's
\* commands is still unanswered by then.
RestoredIsTrue == pc = "exited" /\ ~failed /\ ~closeErr => powered

\* The adapter is handed back on every exit path: once the process is gone and
\* the kernel has nothing left to do, the controller is powered.
HandedBack == Ended /\ pending = "none" => powered

\* The same, of a takeover that failed without any signal.
HandedBackOnFailure == pc = "exited" /\ failed /\ pending = "none" => powered

\* Who has the adapter, as bluetoothd sees it.
Lease == INSTANCE AdapterLease WITH
  holder   <- IF powered THEN "bluetoothd"
              ELSE IF Ended /\ pending = "none" THEN "nobody" ELSE "hohd",
  recalled <- ctx,
  over     <- powered /\ pc \in {"power_on", "await_on", "close_ctrl", "exited", "killed"}

\* With a kernel that does what it is asked and signals that arrive while the
\* loop runs, the takeover implements the lease: the adapter is lent at most
\* once, is never lost, and comes back once a signal asks for it.  The failure
\* path of a New that meets Busy on every attempt is included.
LeaseKept == Lease!FairSpec

\* A program that was told to end ends, and New ends, even when the controller
\* hangs in the middle of a Set Powered for ever.
NeverBlocked == <>(pc = "run" \/ Ended) /\ (ctx ~> Ended)
=============================================================================
