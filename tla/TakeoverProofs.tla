--------------------------- MODULE TakeoverProofs ---------------------------
(***************************************************************************)
(* Proofs about Takeover, with every failure, delay and signal allowed.    *)
(***************************************************************************)
EXTENDS Takeover, TLAPS

\* The points between a takeover that succeeded and Close's Set Powered.
HeldPoints == {"open_user", "reset", "notify", "run", "stop", "close_adv", "close_user",
               "power_on"}

\* The points at which the program may hold the user channel.
UserPoints == {"reset", "notify", "run", "stop", "close_adv", "close_user"}

\* The one command of the program the kernel has not answered, or the one answer
\* the program has not read; an ok among them tells the truth.
Unread(cmd) ==
  \/ pending = cmd /\ replies = <<>>
  \/ pending = "none" /\ \E s \in Statuses :
       replies = <<s>> /\ (s = "ok" => powered = (cmd = "on"))

\* As long as New has not failed, the program and the kernel are in step.
StepInv ==
  /\ pc \notin {"open_ctrl", "exited", "killed"} => ctrlFd
  /\ userFd => ~powered /\ pending = "none" /\ pc \in UserPoints
  /\ pc \in {"open_ctrl", "power_off", "backoff"} =>
       ~failed /\ pending = "none" /\ replies = <<>>
  /\ pc = "await_off" => ~failed /\ Unread("off")
  /\ pc \in HeldPoints /\ ~failed => ~powered /\ pending = "none" /\ replies = <<>>
  /\ pc = "await_on" /\ ~failed => Unread("on")
  /\ pc \in {"close_ctrl", "exited"} /\ ~failed /\ ~closeErr =>
       powered /\ pending = "none"

\* powerDownWithRetry comes back only while it has attempts left.
CountInv == pc \in {"open_ctrl", "power_off", "backoff"} => attempt < Attempts

IInv == TypeOK /\ CountInv /\ StepInv

USE DEF procVars, sigVars, kernVars, vars
-----------------------------------------------------------------------------
LEMMA InitInv == Init => IInv
<1> SUFFICES ASSUME Init PROVE IInv
  OBVIOUS
<1>1. TypeOK
  <2>1. replies \in Seq(Statuses) BY DEF Init
  <2>2. attempt \in 0..Attempts /\ signals \in 0..MaxSignals
    BY SignalsAssumption DEF Init, Attempts
  <2>. QED BY <2>1, <2>2 DEF Init, TypeOK, NewPoints
<1>2. CountInv /\ StepInv
  BY DEF Init, CountInv, StepInv, Attempts, UserPoints, HeldPoints
<1>. QED BY <1>1, <1>2 DEF IInv

\* A step keeps every variable in its type.
LEMMA TypeStep == IInv /\ [Next]_vars => TypeOK'
<1> SUFFICES ASSUME IInv, [Next]_vars PROVE TypeOK'
  OBVIOUS
<1> DEFINE Points == NewPoints \cup RunPoints \cup ClosePoints \cup EndPoints
<1> USE SignalsAssumption DEF IInv, TypeOK
<1>0. {"ok", "busy", "error"} \subseteq Statuses BY DEF Statuses
<1>a. <<>> \in Seq(Statuses) OBVIOUS
<1>b. \A s \in Statuses : Append(replies, s) \in Seq(Statuses) OBVIOUS
<1>c. replies # <<>> => Tail(replies) \in Seq(Statuses) OBVIOUS
<1>1. CASE PowerDone
  <2>1. replies' \in Seq(Statuses) BY <1>0, <1>a, <1>b, <1>1 DEF PowerDone, Reply
  <2>. QED BY <2>1, <1>1 DEF PowerDone
<1>2. CASE PowerFailed
  <2>1. replies' \in Seq(Statuses) BY <1>0, <1>a, <1>b, <1>2 DEF PowerFailed, Reply
  <2>. QED BY <2>1, <1>2 DEF PowerFailed
<1>3. CASE BusyEnds BY <1>3 DEF BusyEnds
<1>4. CASE OpenCtrl
  <2>1. pc' \in Points BY <1>4 DEF OpenCtrl, NewPoints, RunPoints, ClosePoints, EndPoints
  <2>. QED BY <2>1, <1>4 DEF OpenCtrl
<1>5. CASE PowerOff
  <2>1. replies' \in Seq(Statuses) BY <1>0, <1>b, <1>5 DEF PowerOff, SetPowered
  <2>2. pending' \in {"none", "on", "off"} BY <1>5 DEF PowerOff, SetPowered
  <2>3. attempt' \in 0..Attempts BY <1>5 DEF PowerOff, CountInv, Attempts
  <2>4. pc' \in Points BY <1>5 DEF PowerOff, NewPoints, RunPoints, ClosePoints, EndPoints
  <2>5. UNCHANGED <<userFd, ctrlFd, failed, closeErr, sigVars, powered, busy>>
    BY <1>5 DEF PowerOff
  <2>. QED BY <2>1, <2>2, <2>3, <2>4, <2>5
<1>6. CASE AwaitOff
  <2>1. replies' \in Seq(Statuses) BY <1>c, <1>6 DEF AwaitOff
  <2>2. pc' \in Points BY <1>6 DEF AwaitOff, CloseFrom, NewPoints, RunPoints, ClosePoints, EndPoints
  <2>3. failed' \in BOOLEAN BY <1>6 DEF AwaitOff
  <2>4. UNCHANGED <<attempt, userFd, ctrlFd, closeErr, sigVars, powered, pending, busy>>
    BY <1>6 DEF AwaitOff
  <2>. QED BY <2>1, <2>2, <2>3, <2>4
<1>7. CASE Backoff
  <2>1. pc' \in Points BY <1>7 DEF Backoff, NewPoints, RunPoints, ClosePoints, EndPoints
  <2>. QED BY <2>1, <1>7 DEF Backoff
<1>8. CASE OpenUser
  <2>1. pc' \in Points BY <1>8 DEF OpenUser, CloseFrom, NewPoints, RunPoints, ClosePoints, EndPoints
  <2>. QED BY <2>1, <1>8 DEF OpenUser
<1>9. CASE Reset
  <2>1. pc' \in Points BY <1>9 DEF Reset, CloseFrom, NewPoints, RunPoints, ClosePoints, EndPoints
  <2>. QED BY <2>1, <1>9 DEF Reset
<1>10. CASE Notify
  <2>1. pc' \in Points BY <1>10 DEF Notify, NewPoints, RunPoints, ClosePoints, EndPoints
  <2>. QED BY FlagsAssumption, <2>1, <1>10 DEF Notify
<1>11. CASE RunEnds
  <2>1. pc' \in Points BY <1>11 DEF RunEnds, NewPoints, RunPoints, ClosePoints, EndPoints
  <2>. QED BY <2>1, <1>11 DEF RunEnds
<1>12. CASE Stop
  <2>1. pc' \in Points BY <1>12 DEF Stop, CloseFrom, NewPoints, RunPoints, ClosePoints, EndPoints
  <2>. QED BY <2>1, <1>12 DEF Stop
<1>13. CASE CloseAdv
  <2>1. pc' \in Points BY <1>13 DEF CloseAdv, NewPoints, RunPoints, ClosePoints, EndPoints
  <2>. QED BY <2>1, <1>13 DEF CloseAdv
<1>14. CASE CloseUser
  <2>1. pc' \in Points BY <1>14 DEF CloseUser, NewPoints, RunPoints, ClosePoints, EndPoints
  <2>. QED BY <2>1, <1>14 DEF CloseUser
<1>15. CASE PowerOn
  <2>1. replies' \in Seq(Statuses) BY <1>0, <1>b, <1>15 DEF PowerOn, SetPowered
  <2>2. pending' \in {"none", "on", "off"} BY <1>15 DEF PowerOn, SetPowered
  <2>3. pc' \in Points BY <1>15 DEF PowerOn, NewPoints, RunPoints, ClosePoints, EndPoints
  <2>4. UNCHANGED <<attempt, userFd, ctrlFd, failed, closeErr, sigVars, powered, busy>>
    BY <1>15 DEF PowerOn
  <2>. QED BY <2>1, <2>2, <2>3, <2>4
<1>16. CASE AwaitOn
  <2>1. replies' \in Seq(Statuses) BY <1>c, <1>16 DEF AwaitOn
  <2>2. closeErr' \in BOOLEAN BY <1>16 DEF AwaitOn
  <2>3. pc' \in Points BY <1>16 DEF AwaitOn, NewPoints, RunPoints, ClosePoints, EndPoints
  <2>4. UNCHANGED <<attempt, userFd, ctrlFd, failed, sigVars, powered, pending, busy>>
    BY <1>16 DEF AwaitOn
  <2>. QED BY <2>1, <2>2, <2>3, <2>4
<1>17. CASE CloseCtrl
  <2>1. replies' \in Seq(Statuses) BY <1>a, <1>17 DEF CloseCtrl
  <2>2. pc' \in Points BY <1>17 DEF CloseCtrl, NewPoints, RunPoints, ClosePoints, EndPoints
  <2>. QED BY <1>17, <2>1, <2>2 DEF CloseCtrl
<1>18. CASE Signal
  <2>1. replies' \in Seq(Statuses) BY <1>a, <1>18 DEF Signal
  <2>2. signals' \in 0..MaxSignals BY <1>18 DEF Signal
  <2>3. pc' \in Points BY <1>18 DEF Signal, EndPoints
  <2>4. userFd' \in BOOLEAN /\ ctrlFd' \in BOOLEAN /\ ctx' \in BOOLEAN
    BY <1>18 DEF Signal
  <2>5. UNCHANGED <<attempt, failed, closeErr, handler, powered, pending, busy>>
    BY <1>18 DEF Signal
  <2>. QED BY <2>1, <2>2, <2>3, <2>4, <2>5
<1>19. CASE UNCHANGED vars BY <1>19
<1>. QED
  BY <1>1, <1>2, <1>3, <1>4, <1>5, <1>6, <1>7, <1>8, <1>9, <1>10, <1>11, <1>12,
     <1>13, <1>14, <1>15, <1>16, <1>17, <1>18, <1>19
  DEF Next, Program, Kernel

\* A step keeps the retry counter below its limit.
LEMMA CountStep == IInv /\ [Next]_vars => CountInv'
<1> SUFFICES ASSUME IInv, [Next]_vars PROVE CountInv'
  OBVIOUS
<1> USE DEF IInv, TypeOK, CountInv, Attempts, UserPoints
<1>1. CASE PowerDone BY <1>1 DEF PowerDone, Reply
<1>2. CASE PowerFailed BY <1>2 DEF PowerFailed, Reply
<1>3. CASE BusyEnds BY <1>3 DEF BusyEnds
<1>4. CASE OpenCtrl BY <1>4 DEF OpenCtrl
<1>5. CASE PowerOff BY <1>5 DEF PowerOff, SetPowered, Attempts
<1>6. CASE AwaitOff BY <1>6 DEF AwaitOff, CloseFrom, Attempts
<1>7. CASE Backoff BY <1>7 DEF Backoff
<1>8. CASE OpenUser BY <1>8 DEF OpenUser, CloseFrom
<1>9. CASE Reset BY <1>9 DEF Reset, CloseFrom
<1>10. CASE Notify BY <1>10 DEF Notify
<1>11. CASE RunEnds BY <1>11 DEF RunEnds
<1>12. CASE Stop BY <1>12 DEF Stop, CloseFrom
<1>13. CASE CloseAdv BY <1>13 DEF CloseAdv
<1>14. CASE CloseUser BY <1>14 DEF CloseUser
<1>15. CASE PowerOn BY <1>15 DEF PowerOn, SetPowered
<1>16. CASE AwaitOn BY <1>16 DEF AwaitOn
<1>17. CASE CloseCtrl BY <1>17 DEF CloseCtrl
<1>18. CASE Signal BY <1>18 DEF Signal, Ended
<1>19. CASE UNCHANGED vars BY <1>19
<1>. QED
  BY <1>1, <1>2, <1>3, <1>4, <1>5, <1>6, <1>7, <1>8, <1>9, <1>10, <1>11, <1>12,
     <1>13, <1>14, <1>15, <1>16, <1>17, <1>18, <1>19
  DEF Next, Program, Kernel

\* A step keeps the program and the kernel in step.
LEMMA StepStep == IInv /\ [Next]_vars => StepInv'
<1> SUFFICES ASSUME IInv, [Next]_vars PROVE StepInv'
  OBVIOUS
<1> USE DEF IInv, TypeOK, StepInv, Unread, Statuses, UserPoints, HeldPoints
<1>0. replies = <<>> => \A s : Append(replies, s) = <<s>> OBVIOUS
<1>1. CASE PowerDone
  <2>1. ctrlFd /\ replies = <<>> => replies' = <<"ok">> BY <1>0, <1>1 DEF PowerDone, Reply
  <2>2. pc' = pc /\ pending' = "none" /\ powered' = (pending = "on")
        /\ UNCHANGED <<userFd, ctrlFd, failed, closeErr>>
    BY <1>1 DEF PowerDone
  <2>3. pending # "none" BY <1>1 DEF PowerDone
  <2>4. \A cmd \in {"on", "off"} : ctrlFd /\ Unread(cmd) => Unread(cmd)'
    BY <2>1, <2>2, <2>3
  <2>. QED BY <2>2, <2>3, <2>4
<1>2. CASE PowerFailed
  <2>1. ctrlFd /\ replies = <<>> => replies' = <<"error">>
    BY <1>0, <1>2 DEF PowerFailed, Reply
  <2>2. pc' = pc /\ pending' = "none" /\ powered' = powered
        /\ UNCHANGED <<userFd, ctrlFd, failed, closeErr>>
    BY <1>2 DEF PowerFailed
  <2>3. pending # "none" BY <1>2 DEF PowerFailed
  <2>4. \A cmd \in {"on", "off"} : ctrlFd /\ Unread(cmd) => Unread(cmd)'
    BY <2>1, <2>2, <2>3
  <2>. QED BY <2>2, <2>3, <2>4
<1>3. CASE BusyEnds BY <1>3 DEF BusyEnds
<1>4. CASE OpenCtrl BY <1>4 DEF OpenCtrl
<1>5. CASE PowerOff BY <1>5 DEF PowerOff, SetPowered, Attempts
<1>6. CASE AwaitOff BY <1>6 DEF AwaitOff, CloseFrom, Attempts
<1>7. CASE Backoff BY <1>7 DEF Backoff
<1>8. CASE OpenUser BY <1>8 DEF OpenUser, CloseFrom
<1>9. CASE Reset BY <1>9 DEF Reset, CloseFrom
<1>10. CASE Notify BY <1>10 DEF Notify
<1>11. CASE RunEnds BY <1>11 DEF RunEnds
<1>12. CASE Stop BY <1>12 DEF Stop, CloseFrom
<1>13. CASE CloseAdv BY <1>13 DEF CloseAdv
<1>14. CASE CloseUser BY <1>14 DEF CloseUser
<1>15. CASE PowerOn BY <1>15 DEF PowerOn, SetPowered
<1>16. CASE AwaitOn
  <2>1. pc = "await_on" /\ pc' = "close_ctrl"
        /\ UNCHANGED <<userFd, ctrlFd, failed, powered, pending>>
    BY <1>16 DEF AwaitOn
  <2>2. ASSUME ~failed, ~closeErr' PROVE powered /\ pending = "none"
    <3>1. replies # <<>> /\ Head(replies) = "ok" BY <1>16, <2>2 DEF AwaitOn
    <3>2. Unread("on") BY <2>1, <2>2
    <3>3. pending = "none" BY <3>1, <3>2
    <3>4. PICK s \in Statuses : replies = <<s>> /\ (s = "ok" => powered = TRUE)
      BY <3>1, <3>2
    <3>5. Head(<<s>>) = s OBVIOUS
    <3>. QED BY <3>1, <3>3, <3>4, <3>5
  <2>. QED BY <2>1, <2>2
<1>17. CASE CloseCtrl BY <1>17 DEF CloseCtrl
<1>18. CASE Signal BY <1>18 DEF Signal, Ended
<1>19. CASE UNCHANGED vars BY <1>19
<1>. QED
  BY <1>1, <1>2, <1>3, <1>4, <1>5, <1>6, <1>7, <1>8, <1>9, <1>10, <1>11, <1>12,
     <1>13, <1>14, <1>15, <1>16, <1>17, <1>18, <1>19
  DEF Next, Program, Kernel

LEMMA Inductive == Spec => []IInv
<1>1. Init => IInv BY InitInv
<1>2. IInv /\ [Next]_vars => IInv'
  <2>. SUFFICES ASSUME IInv, [Next]_vars PROVE IInv' OBVIOUS
  <2>. QED BY TypeStep, CountStep, StepStep DEF IInv
<1>. QED BY <1>1, <1>2, PTL DEF Spec
-----------------------------------------------------------------------------
\* Every variable keeps its type; in particular powerDownWithRetry gives up after
\* its six attempts however often the controller answers Busy.
THEOREM TypeCorrect == Spec => []TypeOK
<1>1. IInv => TypeOK BY DEF IInv
<1>. QED BY <1>1, Inductive, PTL

\* hci.New and hci.Conn.Close: while the program holds the user channel the
\* controller is down for bluetoothd and no Set Powered is under way, whatever
\* fails, is late or is interrupted by a signal.
THEOREM ExclusiveAlways == Spec => []Exclusive
<1>1. IInv => Exclusive BY DEF IInv, StepInv, Exclusive
<1>. QED BY <1>1, Inductive, PTL

\* hci.Conn.Close: after a takeover that succeeded, a Close that reports no error
\* has restored the controller: the reply it matched by opcode was its own.
THEOREM RestoredTrue == Spec => []RestoredIsTrue
<1>1. IInv => RestoredIsTrue BY DEF IInv, StepInv, RestoredIsTrue
<1>. QED BY <1>1, Inductive, PTL
-----------------------------------------------------------------------------
(* The lease.                                                              *)

\* What the lease asks of the environment: a kernel that carries out each Set
\* Powered, and before the read timeout, and signals only while the handler is
\* installed.  bluetoothd may be busy with the controller at the start.
Prompt ==
  /\ CatchesSignals /\ ~MayFail /\ ~Slow
  /\ SignalPoints \subseteq {"run", "stop"}

\* Every command is answered while the program waits for it, so at each point the
\* program knows who has the controller.
LeaseInv ==
  /\ pc \in {"open_ctrl", "power_off", "backoff"} => powered
  /\ pc = "await_off" =>
       \/ pending = "off" /\ powered /\ replies = <<>>
       \/ pending = "none" /\ ~powered /\ replies = <<"ok">>
       \/ pending = "none" /\ powered /\ replies = <<"busy">>
  /\ pc \in {"open_user", "reset", "notify", "run", "stop", "close_adv", "close_user"} =>
       ~powered /\ pending = "none" /\ replies = <<>>
  /\ pc = "power_on" => pending = "none" /\ replies = <<>>
  /\ pc = "await_on" =>
       \/ pending = "on" /\ ~powered /\ replies = <<>>
       \/ pending = "none" /\ powered /\ replies = <<"ok">>
  /\ pc \in {"close_ctrl", "exited"} => powered /\ pending = "none"
  /\ pc # "killed"
  /\ pc \in {"run", "stop"} => handler

\* A step keeps the program informed.
LEMMA LeaseStep ==
  ASSUME Prompt, IInv, LeaseInv, [Next]_vars
  PROVE  LeaseInv'
<1> USE DEF LeaseInv, Prompt, IInv, TypeOK, StepInv, UserPoints
<1>0. replies = <<>> => \A s : Append(replies, s) = <<s>> OBVIOUS
<1>h. \A s : Head(<<s>>) = s /\ Tail(<<s>>) = <<>> OBVIOUS
<1>1. CASE PowerDone
  <2>1. /\ pc' = pc /\ handler' = handler /\ pending' = "none" /\ pending # "none"
        /\ powered' = (pending = "on") /\ Reply("ok") /\ ctrlFd' = ctrlFd
    BY <1>1 DEF PowerDone
  <2>2. \/ pc = "await_off" /\ pending = "off" /\ replies = <<>> /\ ctrlFd
        \/ pc = "await_on" /\ pending = "on" /\ replies = <<>> /\ ctrlFd
    BY <2>1 DEF NewPoints, RunPoints, ClosePoints, EndPoints
  <2>3. replies' = <<"ok">> BY <1>0, <2>1, <2>2 DEF Reply
  <2> QED BY <2>1, <2>2, <2>3
<1>2. CASE PowerFailed BY <1>2 DEF PowerFailed
<1>3. CASE BusyEnds BY <1>3 DEF BusyEnds
<1>4. CASE OpenCtrl BY <1>4 DEF OpenCtrl
<1>5. CASE PowerOff
  <2>1. /\ pc' = "await_off" /\ handler' = handler /\ powered' = powered /\ powered
        /\ pending = "none" /\ replies = <<>> /\ SetPowered("off")
    BY <1>5 DEF PowerOff
  <2>2. \/ pending' = "none" /\ replies' = <<"busy">>
        \/ pending' = "off" /\ replies' = <<>>
    BY <1>0, <2>1 DEF SetPowered
  <2> QED BY <2>1, <2>2
<1>6. CASE AwaitOff
  <2>1. /\ replies # <<>> /\ replies' = Tail(replies) /\ pc = "await_off"
        /\ userFd = FALSE /\ UNCHANGED <<handler, powered, pending>>
        /\ CASE Head(replies) = "ok" -> pc' = "open_user"
             [] Head(replies) = "busy" /\ attempt < Attempts -> pc' = "backoff"
             [] OTHER -> CloseFrom(userFd)
    BY <1>6 DEF AwaitOff
  <2>2. CASE replies = <<"ok">>
    BY <1>h, <2>1, <2>2
  <2>3. CASE replies = <<"busy">>
    <3>1. pc' \in {"backoff", "power_on"} /\ replies' = <<>> /\ powered /\ pending = "none"
      BY <1>h, <2>1, <2>3 DEF CloseFrom
    <3> QED BY <2>1, <3>1
  <2> QED BY <2>1, <2>2, <2>3
<1>7. CASE Backoff BY <1>7 DEF Backoff
<1>8. CASE OpenUser BY <1>8 DEF OpenUser, CloseFrom
<1>9. CASE Reset BY <1>9 DEF Reset, CloseFrom
<1>10. CASE Notify BY <1>10 DEF Notify
<1>11. CASE RunEnds BY <1>11 DEF RunEnds
<1>12. CASE Stop BY <1>12 DEF Stop, CloseFrom
<1>13. CASE CloseAdv BY <1>13 DEF CloseAdv
<1>14. CASE CloseUser BY <1>14 DEF CloseUser
<1>15. CASE PowerOn
  <2>1. /\ pc' = "await_on" /\ handler' = handler /\ powered' = powered
        /\ pending = "none" /\ replies = <<>> /\ SetPowered("on")
    BY <1>15 DEF PowerOn
  <2>2. \/ powered /\ pending' = "none" /\ replies' = <<"ok">>
        \/ ~powered /\ pending' = "on" /\ replies' = <<>>
    BY <1>0, <2>1 DEF SetPowered
  <2> QED BY <2>1, <2>2
<1>16. CASE AwaitOn BY <1>16 DEF AwaitOn
<1>17. CASE CloseCtrl BY <1>17 DEF CloseCtrl
<1>18. CASE Signal BY <1>18 DEF Signal
<1>19. CASE UNCHANGED vars BY <1>19
<1>. QED
  BY <1>1, <1>2, <1>3, <1>4, <1>5, <1>6, <1>7, <1>8, <1>9, <1>10, <1>11, <1>12,
     <1>13, <1>14, <1>15, <1>16, <1>17, <1>18, <1>19
  DEF Next, Program, Kernel

LEMMA LeaseInductive == ASSUME Prompt PROVE Spec => [](IInv /\ LeaseInv)
<1>1. Init => LeaseInv
  BY DEF Init, LeaseInv
<1>2. IInv /\ LeaseInv /\ [Next]_vars => LeaseInv'
  BY LeaseStep
<1>. QED BY Inductive, <1>1, <1>2, PTL DEF Spec

\* hci.New, hci.Conn.Close and run implement the lease: the adapter is lent once at
\* most, behind a reply that says so, it is given back or was never taken, and nobody
\* is left without it, however often New finds it busy and wherever in the run or in
\* its last moment under the handler the signals come.
THEOREM LeaseImplemented == ASSUME Prompt PROVE Spec => Lease!Spec
<1>1. Init => Lease!Init
  BY DEF Init, Lease!Init, Ended, EndPoints
<1>2. ASSUME IInv, LeaseInv, LeaseInv', [Next]_vars
      PROVE  [Lease!Next]_Lease!vars
  <2> DEFINE holder == IF powered THEN "bluetoothd"
                       ELSE IF Ended /\ pending = "none" THEN "nobody" ELSE "hohd"
             over == powered /\ pc \in {"power_on", "await_on", "close_ctrl", "exited", "killed"}
  <2> USE DEF Lease!Next, Lease!Lend, Lease!Recall, Lease!HandBack, Lease!Decline, Lease!vars
  <2>t. powered \in BOOLEAN /\ ctx \in BOOLEAN /\ pc # "killed"
    BY <1>2 DEF IInv, TypeOK, LeaseInv
  <2>h. holder = IF powered THEN "bluetoothd" ELSE "hohd"
    BY <1>2 DEF LeaseInv, Ended, EndPoints
  <2>g. holder' = IF powered' THEN "bluetoothd" ELSE "hohd"
    BY <1>2 DEF LeaseInv, Ended, EndPoints
  <2>1. CASE PowerDone
    <3>1. /\ pc' = pc /\ ctx' = ctx /\ pending # "none" /\ powered' = (pending = "on")
      BY <2>1 DEF PowerDone
    <3>2. \/ pc = "await_off" /\ pending = "off" /\ powered
          \/ pc = "await_on" /\ pending = "on" /\ ~powered
      BY <1>2, <3>1 DEF LeaseInv, IInv, StepInv, TypeOK, NewPoints, RunPoints, ClosePoints,
         EndPoints
    <3>3. \/ holder = "bluetoothd" /\ ~over /\ holder' = "hohd" /\ over' = over
          \/ holder = "hohd" /\ holder' = "bluetoothd" /\ over' = TRUE
      BY <2>h, <2>g, <3>1, <3>2
    <3> QED BY <3>1, <3>3
  <2>2. CASE Signal
    <3>1. /\ pc' = pc /\ powered' = powered /\ ctx' = TRUE
      BY <1>2, <2>2 DEF Signal, LeaseInv, Prompt
    <3>2. holder' = holder /\ over' = over
      BY <2>h, <2>g, <3>1
    <3> QED BY <2>t, <3>1, <3>2
  <2>3. CASE AwaitOff
    <3>1. powered' = powered /\ ctx' = ctx /\ pc = "await_off"
      BY <2>3 DEF AwaitOff
    <3>2. holder' = holder /\ ~over
      BY <2>h, <2>g, <3>1
    <3>3. over' => holder = "bluetoothd"
      BY <2>h, <3>1
    <3> QED BY <3>1, <3>2, <3>3
  <2>4. CASE OpenUser \/ Reset \/ RunEnds \/ Stop \/ CloseAdv \/ CloseUser
    <3>1. powered' = powered /\ powered = FALSE /\ ctx' = ctx
      BY <1>2, <2>4 DEF OpenUser, Reset, RunEnds, Stop, CloseAdv, CloseUser, LeaseInv, IInv, TypeOK
    <3>2. holder' = holder /\ over' = over
      BY <2>h, <2>g, <3>1
    <3> QED BY <3>1, <3>2
  <2>5. CASE OpenCtrl \/ PowerOff \/ Backoff \/ Notify
    <3>1. /\ powered' = powered /\ ctx' = ctx
          /\ pc \in {"open_ctrl", "power_off", "backoff", "notify"}
          /\ pc' \in {"power_off", "await_off", "run"}
      BY <1>2, <2>5 DEF OpenCtrl, PowerOff, Backoff, Notify, Prompt
    <3>2. holder' = holder /\ over' = over
      BY <2>h, <2>g, <3>1
    <3> QED BY <3>1, <3>2
  <2>6. CASE PowerOn \/ AwaitOn \/ CloseCtrl
    <3>1. /\ powered' = powered /\ ctx' = ctx
          /\ pc \in {"power_on", "await_on", "close_ctrl"}
          /\ pc' \in {"await_on", "close_ctrl", "exited"}
      BY <2>6 DEF PowerOn, AwaitOn, CloseCtrl
    <3>2. holder' = holder /\ over' = over
      BY <2>h, <2>g, <3>1
    <3> QED BY <3>1, <3>2
  <2>7. CASE PowerFailed \/ BusyEnds \/ UNCHANGED vars
    <3>1. powered' = powered /\ ctx' = ctx /\ pc' = pc
      BY <2>7 DEF PowerFailed, BusyEnds
    <3>2. holder' = holder /\ over' = over
      BY <2>h, <2>g, <3>1
    <3> QED BY <3>1, <3>2
  <2> QED
    BY <1>2, <2>1, <2>2, <2>3, <2>4, <2>5, <2>6, <2>7 DEF Next, Program, Kernel
<1>. QED BY LeaseInductive, <1>1, <1>2, PTL DEF Spec, Lease!Spec

\* Where the lease holds, the adapter is handed back on every way out, the failure of
\* a New that found it busy to the end included.
THEOREM HandedBackWhenPrompt == ASSUME Prompt PROVE Spec => []HandedBack
<1>1. LeaseInv => HandedBack
  BY DEF LeaseInv, HandedBack, Ended, EndPoints
<1>. QED BY LeaseInductive, <1>1, PTL
=============================================================================
