----------------------------- MODULE MCCalibrate -----------------------------
(* Calibrate on small instances: the start of tune.AggressiveCandidates, and *)
(* the same intervals out of order, which no caller passes but Recommend     *)
(* allows.                                                                   *)
EXTENDS Calibrate

Aggressive == <<20, 30, 50>>
Unordered  == <<50, 20, 30>>
=============================================================================
