----------------------------- MODULE DecoyRadio -----------------------------
(***************************************************************************)
(* What the decoy loop promises to whoever listens: at most one decoy is   *)
(* on the air at any time, complete, and between two of them the radio is  *)
(* silent, so that no address is ever heard with another decoy's payload   *)
(* and none changes under the listener.                                    *)
(***************************************************************************)
CONSTANTS
  Decoy,   \* the identities: a random address and the payload minted with it
  Silent   \* nothing on the air

VARIABLE onAir

\* A calibration may have left its last decoy on the air.
Init == onAir \in Decoy \cup {Silent}

\* A decoy starts out of silence.
Start(d) == onAir = Silent /\ onAir' = d

\* It is retired, for the next one, a pause, a scan or the end.
Retire == onAir # Silent /\ onAir' = Silent

Next == Retire \/ \E d \in Decoy : Start(d)

Spec == Init /\ [][Next]_onAir
=============================================================================
