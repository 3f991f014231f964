------------------------------- MODULE MCLearn -------------------------------
(* Learn on a small instance: a table with one company twice, a name that just fills *)
(* the payload and one too long for it, and an air with the odd and the malformed.   *)
EXTENDS Learn

SmallTable ==
  <<[id |-> 117, name |-> 11], [id |-> 158, name |-> 26], [id |-> 117, name |-> 0],
    [id |-> 89, name |-> 27], [id |-> 224, name |-> 19]>>

Samsung   == <<3, 9, 110, 110, 4, 255, 117, 0, 7>>
Swift     == <<2, 9, 111, 4, 255, 6, 0, 3>>
AirTag    == <<7, 255, 76, 0, 16, 1, 0, 18>>
TileAd    == <<3, 3, 237, 254>>
PairFrame == <<6, 22, 44, 254, 1, 2, 3>>
Truncated == <<2, 9, 112, 9, 255, 117, 0>>

Air == {Samsung, Swift, AirTag, TileAd, PairFrame, Truncated}

Signals == {-60, -80}
=============================================================================
