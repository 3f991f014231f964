------------------------------- MODULE Engine -------------------------------
(***************************************************************************)
(* The decoy rotation loop, engine.Run of internal/engine/engine.go, with  *)
(* what it shares with the dashboard's key thread (the pause switch, the   *)
(* Apple and tracker toggles, the LearnControl) and with the LE controller *)
(* it commands through hci.Conn.                                           *)
(*                                                                         *)
(* One value of pc is one point at which the loop can be overtaken by a    *)
(* key press or a signal.  Each HCI command is one step whose answer the   *)
(* controller chooses: obeyed and confirmed, obeyed with the confirmation  *)
(* lost (a read timeout), or refused.                                      *)
(***************************************************************************)
EXTENDS Naturals

CONSTANTS
  Addr,        \* the random static addresses a cycle may draw
  Mix,         \* the ambient vendor mixes a learn scan may hear
  NoAddr,      \* no address programmed yet
  NoData,      \* no payload programmed yet
  NoMix,       \* nothing learned (nil weights), nothing heard
  ScanError,   \* what Scan returns when it fails
  AppleMode,   \* cfg.AppleMode: the Apple kind the loop starts with
  TrackersOn,  \* cfg.Trackers: the tracker switch the loop starts with
  Benchmark,   \* cfg.Benchmark: no dwell between cycles
  MayFail,     \* the controller may refuse or not confirm a legal command
  Keys,        \* bound: the dashboard keys pressed, of {"space", "a", "s", "l"}
  MaxPerTick   \* bound: cycles between two ticks of the one-second ticker

ASSUME DistinctAssumption ==
  /\ NoAddr \notin Addr \cup {NoData}
  /\ NoMix \notin Mix
  /\ ScanError \notin Mix \cup {NoMix}
ASSUME ConfigAssumption ==
  /\ AppleMode \in {"off", "naive", "nearform"}
  /\ TrackersOn \in BOOLEAN /\ Benchmark \in BOOLEAN /\ MayFail \in BOOLEAN
ASSUME MaxPerTickAssumption == MaxPerTick \in Nat \ {0}

VARIABLES
  pc,         \* where engine.Run is
  cancelled,  \* ctx is done: a signal, or q on the dashboard
  paused,     \* BroadcastControl.paused
  apple,      \* AppleControl.kind
  trackers,   \* TrackerControl.on
  requested, learning, weights, devices,  \* LearnControl
  heard,      \* the reports, or the error, of the scan in progress
  opts,       \* decoy.Options read for the cycle in progress
  minted,     \* the address drawn by the cycle in progress
  ok, fail,   \* cycles since the last Rate report
  adv, addr, data, scanning,  \* the controller; data is the address of the
              \* decoy whose payload it holds
  aired,      \* history: identities put on the air since the last Rate report
  staleMints, \* history: identities put on the air since the last change of
              \* the controls, against what the controls now say
  unserved    \* history: an l key pressed that no scan has started after

ctlVars     == <<adv, addr, data, scanning>>
controlVars == <<cancelled, paused, apple, trackers>>
learnVars   == <<requested, learning, weights, devices, heard>>
cycleVars   == <<opts, minted>>
rateVars    == <<ok, fail, aired>>
histVars    == <<staleMints, unserved>>
vars == <<pc, ctlVars, controlVars, learnVars, cycleVars, rateVars, histVars>>

-----------------------------------------------------------------------------
(* The data the properties tell apart.                                     *)

AppleKinds == {"off", "naive", "nearform"}

Options == [apple: AppleKinds, trackers: BOOLEAN, weights: Mix \cup {NoMix}]

AppleNext(k) ==
  CASE k = "off" -> "naive" [] k = "naive" -> "nearform" [] k = "nearform" -> "off"

\* The answers a controller may give a command: success is only reported for
\* a command obeyed, an illegal command is never obeyed, and only a controller
\* that MayFail refuses a legal command or loses the confirmation.
Answers(legal) ==
  {a \in [obeyed: BOOLEAN, ok: BOOLEAN] :
     /\ a.ok => a.obeyed
     /\ a.obeyed => legal
     /\ legal /\ ~MayFail => a.ok}

-----------------------------------------------------------------------------
DefaultOptions == [apple |-> "off", trackers |-> FALSE, weights |-> NoMix]

\* The controls as runLoop creates them.  The controller is freshly reset, or,
\* after a dense calibration whose last disable failed, still advertising.
Init ==
  /\ pc = "params"
  /\ cancelled = FALSE /\ paused = FALSE
  /\ apple = AppleMode /\ trackers = TrackersOn
  /\ requested = FALSE /\ learning = FALSE
  /\ weights = NoMix /\ devices = NoMix /\ heard = NoMix
  /\ opts = DefaultOptions /\ minted = NoAddr
  /\ ok = 0 /\ fail = 0
  /\ scanning = FALSE
  /\ \/ adv = FALSE /\ addr = NoAddr /\ data = NoData
     \/ /\ MayFail
        /\ adv = TRUE
        /\ addr \in Addr
        /\ data = addr
  /\ aired = 0 /\ staleMints = 0 /\ unserved = FALSE

-----------------------------------------------------------------------------
(* engine.Run: start, top of the loop, learn mode.                         *)

SetAdvParams ==
  /\ pc = "params"
  /\ \E a \in Answers(~adv) : pc' = IF a.ok THEN "top" ELSE "done"
  /\ UNCHANGED <<ctlVars, controlVars, learnVars, cycleVars, rateVars, histVars>>

\* Variant of Top without the ctx check at the head of the loop.
TopIgnoringCancel ==
  /\ pc = "top"
  /\ pc' = IF requested THEN "learn_off" ELSE "mode"
  /\ requested' = FALSE
  /\ learning' = requested
  /\ UNCHANGED <<ctlVars, controlVars, weights, devices, heard, cycleVars,
                 rateVars, histVars>>

Top ==
  /\ pc = "top"
  /\ IF cancelled
       THEN pc' = "defer_off" /\ UNCHANGED <<requested, learning>>
       ELSE /\ pc' = IF requested THEN "learn_off" ELSE "mode"
            /\ requested' = FALSE
            /\ learning' = requested
  /\ UNCHANGED <<ctlVars, controlVars, weights, devices, heard, cycleVars,
                 rateVars, histVars>>

\* SetAdvEnable(false), the error ignored, on the way to pc = next.
Disable(next) ==
  /\ \E a \in Answers(TRUE) : adv' = (adv /\ ~a.obeyed)
  /\ pc' = next
  /\ UNCHANGED <<addr, data, scanning, controlVars, learnVars, cycleVars, rateVars>>

LearnOff ==
  /\ pc = "learn_off"
  /\ Disable("scan_clear")
  /\ unserved' = FALSE
  /\ UNCHANGED staleMints

\* Variant of ScanClear that leaves a lingering scan alone.
ScanClearMissing ==
  /\ pc = "scan_clear"
  /\ pc' = "scan_params"
  /\ UNCHANGED <<ctlVars, controlVars, learnVars, cycleVars, rateVars, histVars>>

\* Scan first clears a lingering scan, best effort: scan parameters are
\* refused while scanning is enabled.
ScanClear ==
  /\ pc = "scan_clear"
  /\ \E a \in Answers(TRUE) : scanning' = (scanning /\ ~a.obeyed)
  /\ pc' = "scan_params"
  /\ UNCHANGED <<adv, addr, data, controlVars, learnVars, cycleVars, rateVars, histVars>>

ScanParams ==
  /\ pc = "scan_params"
  /\ \E a \in Answers(~scanning) :
       IF a.ok THEN pc' = "scan_on" /\ UNCHANGED heard
               ELSE pc' = "result" /\ heard' = ScanError
  /\ UNCHANGED <<ctlVars, controlVars, requested, learning, weights, devices,
                 cycleVars, rateVars, histVars>>

\* An error returns before the deferred disable is registered.
ScanOn ==
  /\ pc = "scan_on"
  /\ \E a \in Answers(TRUE) :
       /\ scanning' = (scanning \/ a.obeyed)
       /\ IF a.ok THEN pc' = "listen" /\ UNCHANGED heard
                  ELSE pc' = "result" /\ heard' = ScanError
  /\ UNCHANGED <<adv, addr, data, controlVars, requested, learning, weights, devices,
                 cycleVars, rateVars, histVars>>

\* The read loop, for the whole window whatever happens to ctx.
Listen ==
  /\ pc = "listen"
  /\ heard' \in Mix \cup (IF MayFail THEN {ScanError} ELSE {})
  /\ pc' = "scan_off"
  /\ UNCHANGED <<ctlVars, controlVars, requested, learning, weights, devices,
                 cycleVars, rateVars, histVars>>

ScanOff ==
  /\ pc = "scan_off"
  /\ \E a \in Answers(TRUE) : scanning' = (scanning /\ ~a.obeyed)
  /\ pc' = "result"
  /\ UNCHANGED <<adv, addr, data, controlVars, learnVars, cycleVars, rateVars, histVars>>

\* Variant of LearnResult: a failed scan resets the weights.
LearnResultResetting ==
  /\ pc = "result"
  /\ IF heard = ScanError
       THEN pc' = "learn_end" /\ weights' = NoMix
       ELSE pc' = "set_devices" /\ weights' = heard
  /\ UNCHANGED <<ctlVars, controlVars, requested, learning, devices, heard, cycleVars,
                 rateVars, histVars>>

\* setSummary, or setResult: one critical section of the LearnControl (its
\* summary is in Learn).
LearnResult ==
  /\ pc = "result"
  /\ IF heard = ScanError
       THEN pc' = "learn_end" /\ UNCHANGED weights
       ELSE pc' = "set_devices" /\ weights' = heard
  /\ UNCHANGED <<ctlVars, controlVars, requested, learning, devices, heard, cycleVars,
                 rateVars, histVars>>

SetDevices ==
  /\ pc = "set_devices"
  /\ devices' = heard
  /\ pc' = "learn_end"
  /\ UNCHANGED <<ctlVars, controlVars, requested, learning, weights, heard,
                 cycleVars, rateVars, histVars>>

\* Variant of LearnEnd that takes the request at the end of the scan.
LearnEndTakingRequest ==
  /\ pc = "learn_end"
  /\ learning' = FALSE /\ requested' = FALSE
  /\ heard' = NoMix
  /\ pc' = "mode"
  /\ UNCHANGED <<ctlVars, controlVars, weights, devices, cycleVars, rateVars,
                 histVars>>

LearnEnd ==
  /\ pc = "learn_end"
  /\ learning' = FALSE
  /\ heard' = NoMix
  /\ pc' = "mode"
  /\ UNCHANGED <<ctlVars, controlVars, requested, weights, devices, cycleVars,
                 rateVars, histVars>>

-----------------------------------------------------------------------------
(* The pause switch, and one decoy cycle.                                  *)

\* Variant of CheckPause that stops minting but leaves advertising alone.
CheckPauseOnly ==
  /\ pc = "mode"
  /\ pc' = IF paused THEN "tick" ELSE "read_apple"
  /\ UNCHANGED <<ctlVars, controlVars, learnVars, cycleVars, rateVars, histVars>>

CheckPause ==
  /\ pc = "mode"
  /\ pc' = IF paused THEN "pause_off" ELSE "read_apple"
  /\ UNCHANGED <<ctlVars, controlVars, learnVars, cycleVars, rateVars, histVars>>

PauseOff ==
  /\ pc = "pause_off"
  /\ Disable("tick")
  /\ UNCHANGED histVars

ReadApple ==
  /\ pc = "read_apple"
  /\ opts' = [opts EXCEPT !.apple = apple]
  /\ pc' = "read_rest"
  /\ UNCHANGED <<ctlVars, controlVars, learnVars, minted, rateVars, histVars>>

\* The weights are the loop's own: no other thread writes them.
ReadRest ==
  /\ pc = "read_rest"
  /\ opts' = [opts EXCEPT !.trackers = trackers, !.weights = weights]
  /\ pc' = "cycle_off"
  /\ UNCHANGED <<ctlVars, controlVars, learnVars, minted, rateVars, histVars>>

\* Variant of CycleOff: no leading disable.
CycleOffMissing ==
  /\ pc = "cycle_off"
  /\ pc' = "cycle_addr"
  /\ UNCHANGED <<ctlVars, controlVars, learnVars, cycleVars, rateVars, histVars>>

CycleOff ==
  /\ pc = "cycle_off"
  /\ Disable("cycle_addr")
  /\ UNCHANGED histVars

\* A cycle that fails ends at its first error.
CycleFails ==
  /\ pc' = "tick"
  /\ fail' = fail + 1

\* Variant of CycleAddr that ignores the error, as the leading disable does.
CycleAddrIgnoringError ==
  /\ pc = "cycle_addr"
  /\ minted' \in Addr
  /\ \E a \in Answers(~adv) : addr' = IF a.obeyed THEN minted' ELSE addr
  /\ pc' = "cycle_data"
  /\ UNCHANGED <<adv, data, scanning, controlVars, learnVars, opts, rateVars, histVars>>

\* SetRandomAddr, legal only while advertising is off.
CycleAddr ==
  /\ pc = "cycle_addr"
  /\ minted' \in Addr
  /\ \E a \in Answers(~adv) :
       /\ addr' = IF a.obeyed THEN minted' ELSE addr
       /\ IF a.ok THEN pc' = "cycle_data" /\ UNCHANGED fail ELSE CycleFails
  /\ UNCHANGED <<adv, data, scanning, controlVars, learnVars, opts, ok, aired,
                 histVars>>

CycleData ==
  /\ pc = "cycle_data"
  /\ \E a \in Answers(TRUE) :
       /\ data' = IF a.obeyed THEN minted ELSE data
       /\ IF a.ok THEN pc' = "cycle_on" /\ UNCHANGED fail ELSE CycleFails
  /\ UNCHANGED <<adv, addr, scanning, controlVars, learnVars, cycleVars, ok,
                 aired, histVars>>

\* What the controls say now is not what the cycle was minted from.
Outdated ==
  \/ cancelled
  \/ paused
  \/ opts.apple # apple
  \/ opts.trackers # trackers

\* SetAdvEnable(true); on success the loop counts the cycle and reports it.
CycleOn ==
  /\ pc = "cycle_on"
  /\ \E a \in Answers(TRUE) :
       /\ adv' = (adv \/ a.obeyed)
       /\ aired' = IF a.obeyed THEN aired + 1 ELSE aired
       /\ staleMints' = IF a.obeyed /\ Outdated THEN staleMints + 1 ELSE staleMints
       /\ IF a.ok THEN pc' = "tick" /\ ok' = ok + 1 /\ UNCHANGED fail
                  ELSE CycleFails /\ UNCHANGED ok
  /\ UNCHANGED <<addr, data, scanning, controlVars, learnVars, cycleVars,
                 unserved>>

\* Variant of Report that forgets to reset the success counter.
ReportWithoutReset ==
  /\ pc = "tick"
  /\ \E due \in BOOLEAN :
       /\ ok + fail >= MaxPerTick => due
       /\ IF due THEN fail' = 0 /\ aired' = 0 /\ UNCHANGED ok
                 ELSE UNCHANGED <<ok, fail, aired>>
  /\ pc' = IF Benchmark THEN "top" ELSE "wait"
  /\ opts' = DefaultOptions /\ minted' = NoAddr
  /\ UNCHANGED <<ctlVars, controlVars, learnVars, histVars>>

\* The rate report, when a tick of the ticker is due.  A cycle dwells at least
\* AdvMs >= 20 ms: MaxPerTick stands for the cycles that fit between two ticks.
Report ==
  /\ pc = "tick"
  /\ \E due \in BOOLEAN :
       /\ ok + fail >= MaxPerTick => due
       /\ IF due THEN ok' = 0 /\ fail' = 0 /\ aired' = 0 ELSE UNCHANGED <<ok, fail, aired>>
  /\ pc' = IF Benchmark THEN "top" ELSE "wait"
  /\ opts' = DefaultOptions /\ minted' = NoAddr  \* out of scope
  /\ UNCHANGED <<ctlVars, controlVars, learnVars, histVars>>

\* The dwell: select between ctx.Done and the timer, both may be ready.
WaitCancelled ==
  /\ pc = "wait" /\ cancelled
  /\ pc' = "defer_off"
  /\ UNCHANGED <<ctlVars, controlVars, learnVars, cycleVars, rateVars, histVars>>

WaitElapsed ==
  /\ pc = "wait"
  /\ pc' = "top"
  /\ UNCHANGED <<ctlVars, controlVars, learnVars, cycleVars, rateVars, histVars>>

DeferredOff ==
  /\ pc = "defer_off"
  /\ Disable("done")
  /\ UNCHANGED histVars

Step ==
  \/ SetAdvParams \/ Top
  \/ LearnOff \/ ScanClear \/ ScanParams \/ ScanOn \/ Listen \/ ScanOff
  \/ LearnResult \/ SetDevices \/ LearnEnd
  \/ CheckPause \/ PauseOff \/ ReadApple \/ ReadRest
  \/ CycleOff \/ CycleAddr \/ CycleData \/ CycleOn
  \/ Report \/ WaitCancelled \/ WaitElapsed \/ DeferredOff

-----------------------------------------------------------------------------
(* The dashboard's keys and the signal.  The key thread outlives the       *)
(* cancellation of ctx, so keys arrive at any time.                        *)

Cancel ==
  /\ ~cancelled /\ cancelled' = TRUE
  /\ staleMints' = 0
  /\ UNCHANGED <<pc, ctlVars, paused, apple, trackers, learnVars, cycleVars, rateVars,
                 unserved>>

KeyPause ==
  /\ "space" \in Keys
  /\ paused' = ~paused
  /\ staleMints' = 0
  /\ UNCHANGED <<pc, ctlVars, cancelled, apple, trackers, learnVars, cycleVars, rateVars,
                 unserved>>

KeyApple ==
  /\ "a" \in Keys
  /\ apple' = AppleNext(apple)
  /\ staleMints' = 0
  /\ UNCHANGED <<pc, ctlVars, cancelled, paused, trackers, learnVars, cycleVars, rateVars,
                 unserved>>

KeyTrackers ==
  /\ "s" \in Keys
  /\ trackers' = ~trackers
  /\ staleMints' = 0
  /\ UNCHANGED <<pc, ctlVars, cancelled, paused, apple, learnVars, cycleVars, rateVars,
                 unserved>>

KeyLearn ==
  /\ "l" \in Keys
  /\ requested' = TRUE
  /\ unserved' = TRUE
  /\ UNCHANGED <<pc, ctlVars, controlVars, learning, weights, devices, heard,
                 cycleVars, rateVars, staleMints>>

Environment == Cancel \/ KeyPause \/ KeyApple \/ KeyTrackers \/ KeyLearn

Next == Step \/ Environment

Spec == Init /\ [][Next]_vars

\* The Go scheduler runs the loop, its timers fire and every read times out.
FairSpec == Spec /\ WF_vars(Step)

\* A controller that is not wedged for good: it does not refuse for ever a
\* disable while it advertises, nor each further command of a cycle.
Obeys ==
  /\ SF_vars(CycleOff /\ ~adv') /\ SF_vars(PauseOff /\ ~adv')
  /\ SF_vars(CycleAddr /\ pc' = "cycle_data")
  /\ SF_vars(CycleData /\ pc' = "cycle_on")
  /\ SF_vars(CycleOn /\ ok' = ok + 1)

\* One that does not fail for ever any one of a scan's steps.
LearnObeys ==
  /\ SF_vars(ScanClear /\ ~scanning')
  /\ SF_vars(ScanParams /\ pc' = "scan_on")
  /\ SF_vars(ScanOn /\ pc' = "listen")
  /\ SF_vars(Listen /\ heard' # ScanError)

-----------------------------------------------------------------------------
TypeOK ==
  /\ pc \in {"params", "top", "learn_off", "scan_clear", "scan_params", "scan_on",
             "listen", "scan_off", "result", "set_devices", "learn_end", "mode",
             "pause_off", "read_apple", "read_rest", "cycle_off", "cycle_addr",
             "cycle_data", "cycle_on", "tick", "wait", "defer_off", "done"}
  /\ cancelled \in BOOLEAN /\ paused \in BOOLEAN
  /\ apple \in AppleKinds /\ trackers \in BOOLEAN
  /\ requested \in BOOLEAN /\ learning \in BOOLEAN
  /\ weights \in Mix \cup {NoMix} /\ devices \in Mix \cup {NoMix}
  /\ heard \in Mix \cup {NoMix, ScanError}
  /\ opts \in Options
  /\ minted \in Addr \cup {NoAddr}
  /\ ok \in Nat /\ fail \in Nat
  /\ adv \in BOOLEAN /\ scanning \in BOOLEAN
  /\ addr \in Addr \cup {NoAddr} /\ data \in Addr \cup {NoData}
  /\ aired \in Nat /\ staleMints \in Nat /\ unserved \in BOOLEAN

-----------------------------------------------------------------------------
(* Safety.                                                                 *)

\* While the controller advertises, its address and its payload are those of
\* one minted decoy: no failed, unconfirmed or aborted cycle ever leaves the
\* address of one decoy on the air with the payload of another.
OnAirCoherent == adv => data = addr /\ addr \in Addr

\* What a scanner sees of the loop is a DecoyRadio: one decoy at a time, whole,
\* and silence before the next.  cycle's leading disable, and its abort when the
\* controller refuses the address because that disable did not work, are what
\* implements it; NoData stands for an address on the air with another's payload.
Radio == INSTANCE DecoyRadio WITH
  Decoy  <- Addr,
  Silent <- NoAddr,
  onAir  <- IF ~adv THEN NoAddr ELSE IF data = addr THEN addr ELSE NoData

AiredByRadio == Radio!Spec

\* After Space, a or s, or after the cancellation of ctx, at most one identity
\* that disagrees with the controls still goes on the air: the cycle under way
\* when the key was pressed.
AtMostOneStaleMint == staleMints <= 1

\* The devices-per-second figure never exceeds the identities that really went
\* on the air since the last report, and every one of those was counted, as a
\* success or, when its confirmation was lost, as a failure.
RateHonest == ok <= aired /\ aired <= ok + fail

\* Outside a learn scan the learned-devices table and the decoy weights come
\* from the same scan: a failed scan replaces neither.
LearnedTogether == ~learning => devices = weights

-----------------------------------------------------------------------------
(* Liveness.                                                               *)

\* After a signal or q the loop ends, even with a controller that fails every
\* command, and even in the middle of a learn scan.  (Both states are for good.)
ShutdownCompletes == []<>cancelled => []<>(pc = "done")

\* An l key is answered by a scan that starts after the key, also when it is
\* pressed while a scan is running, whatever the controller does.
LearnServed == []<>(~unserved \/ cancelled \/ pc = "done")

\* If broadcasting stays paused, a controller that is not wedged falls silent for
\* good: the loop keeps trying to disable until it works.
PauseSilences ==
  Obeys /\ <>[](paused /\ ~cancelled /\ pc # "done") => <>[]~adv

\* If nobody pauses or quits, new identities keep going on the air of a controller
\* that is not wedged, whatever failures and learn scans happen in between.
RotationContinues ==
  Obeys /\ <>[](~paused /\ ~cancelled /\ pc # "done") => []<><<CycleOn /\ adv'>>_vars

\* A scan left running by an enable that was obeyed but not confirmed, or by a
\* disable that was refused, does not spoil learning for good: with a controller
\* that does not fail some step of a scan for ever, as long as l is pressed some
\* scan is learned from.
ScanRecovers == LearnObeys /\ []<>(pc = "learn_off") => []<>(pc = "set_devices")
=============================================================================
