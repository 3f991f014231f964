---------------------------- MODULE AdapterLease ----------------------------
(***************************************************************************)
(* What hohd promises bluetoothd: the adapter is lent at most once, is     *)
(* never left with nobody, and comes back once it is asked for.            *)
(***************************************************************************)

VARIABLES
  holder,    \* who has the adapter: "bluetoothd" or "hohd"
  recalled,  \* the user asked for the loan to end
  over       \* there will be no loan any more

vars == <<holder, recalled, over>>

Init == holder = "bluetoothd" /\ recalled = FALSE /\ over = FALSE

Lend ==
  /\ holder = "bluetoothd" /\ ~over
  /\ holder' = "hohd"
  /\ UNCHANGED <<recalled, over>>

Recall ==
  /\ ~recalled /\ recalled' = TRUE
  /\ UNCHANGED <<holder, over>>

HandBack ==
  /\ holder = "hohd"
  /\ holder' = "bluetoothd" /\ over' = TRUE
  /\ UNCHANGED recalled

\* hohd gives up without ever having had the adapter.
Decline ==
  /\ holder = "bluetoothd" /\ ~over
  /\ over' = TRUE
  /\ UNCHANGED <<holder, recalled>>

Next == Lend \/ Recall \/ HandBack \/ Decline

Spec == Init /\ [][Next]_vars

FairSpec == Spec /\ WF_vars(HandBack /\ recalled)
=============================================================================
