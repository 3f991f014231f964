---------------------------- MODULE EngineProofs ----------------------------
(***************************************************************************)
(* Proofs about Engine, for every set of addresses and mixes, every start  *)
(* configuration and every pattern of controller failures.                 *)
(***************************************************************************)
EXTENDS Engine, TLAPS

\* The points of a cycle after the pause switch was read.
MintPath == {"read_apple", "read_rest", "cycle_off", "cycle_addr", "cycle_data", "cycle_on"}

LearnPath == {"learn_off", "scan_clear", "scan_params", "scan_on", "listen", "scan_off",
              "result", "set_devices", "learn_end"}

\* Once the address is confirmed the controller is silent and holds it; once
\* the payload is confirmed it holds that too.
CycleInv ==
  /\ OnAirCoherent
  /\ pc \in {"cycle_data", "cycle_on"} => ~adv /\ minted \in Addr /\ addr = minted
  /\ pc = "cycle_on" => data = minted

\* One stale mint used up: whatever the loop has read since agrees with the
\* controls, so the cycle under way cannot be stale as well.
StaleInv ==
  /\ staleMints \in {0, 1}
  /\ staleMints = 1 =>
       /\ cancelled => pc \in {"tick", "wait", "top", "defer_off", "done"}
       /\ pc \in MintPath => ~paused
       /\ pc \in MintPath \ {"read_apple"} => opts.apple = apple
       /\ pc \in MintPath \ {"read_apple", "read_rest"} => opts.trackers = trackers

\* The table lags the weights between setResult and setDevices only.
LearnInv ==
  /\ learning <=> pc \in LearnPath
  /\ IF pc = "set_devices" THEN weights = heard ELSE devices = weights

IInv == TypeOK /\ CycleInv /\ StaleInv /\ RateHonest /\ LearnInv

USE DEF ctlVars, controlVars, learnVars, cycleVars, rateVars, histVars, vars
-----------------------------------------------------------------------------

\* A step keeps every variable in its type.
LEMMA TypeStep == IInv /\ [Next]_vars => TypeOK'
<1> SUFFICES ASSUME IInv, [Next]_vars PROVE TypeOK'
  OBVIOUS
<1> USE DEF IInv, TypeOK, AppleKinds, Options
<1>1. CASE SetAdvParams BY <1>1 DEF SetAdvParams
<1>2. CASE Top
  <2>1. learning' \in BOOLEAN /\ requested' \in BOOLEAN BY <1>2 DEF Top
  <2>2. UNCHANGED <<heard, cycleVars, rateVars, histVars>> BY <1>2 DEF Top
  <2>. QED BY <2>1, <2>2, <1>2 DEF Top
<1>3. CASE LearnOff
  <2>1. adv' \in BOOLEAN /\ unserved' \in BOOLEAN BY <1>3 DEF LearnOff, Disable
  <2>2. UNCHANGED <<cycleVars, rateVars, staleMints>> BY <1>3 DEF LearnOff, Disable
  <2>. QED BY <2>1, <2>2, <1>3 DEF LearnOff, Disable
<1>4. CASE ScanClear BY <1>4 DEF ScanClear
<1>5. CASE ScanParams BY <1>5 DEF ScanParams
<1>6. CASE ScanOn BY <1>6 DEF ScanOn
<1>7. CASE Listen BY <1>7 DEF Listen
<1>8. CASE ScanOff BY <1>8 DEF ScanOff
<1>9. CASE LearnResult BY <1>9 DEF LearnResult
<1>10. CASE SetDevices BY <1>10 DEF SetDevices, LearnInv
<1>11. CASE LearnEnd
  <2>1. learning' \in BOOLEAN /\ heard' \in Mix \cup {NoMix, ScanError} BY <1>11 DEF LearnEnd
  <2>2. UNCHANGED <<cycleVars, rateVars, histVars>> BY <1>11 DEF LearnEnd
  <2>. QED BY <2>1, <2>2, <1>11 DEF LearnEnd
<1>12. CASE CheckPause BY <1>12 DEF CheckPause
<1>13. CASE PauseOff BY <1>13 DEF PauseOff, Disable
<1>14. CASE ReadApple BY <1>14 DEF ReadApple
<1>15. CASE ReadRest
  <2>1. opts' \in Options BY <1>15 DEF ReadRest
  <2>2. UNCHANGED <<minted, rateVars, histVars>> BY <1>15 DEF ReadRest
  <2>. QED BY <2>1, <2>2, <1>15 DEF ReadRest
<1>16. CASE CycleOff BY <1>16 DEF CycleOff, Disable
<1>17. CASE CycleAddr BY <1>17 DEF CycleAddr, CycleFails
<1>18. CASE CycleData BY <1>18 DEF CycleData, CycleFails, CycleInv
<1>19. CASE CycleOn BY <1>19 DEF CycleOn, CycleFails
<1>20. CASE Report
  <2>1. ok' \in Nat /\ fail' \in Nat /\ aired' \in Nat BY <1>20 DEF Report, DefaultOptions
  <2>2. opts' \in Options BY <1>20 DEF Report, DefaultOptions
  <2>3. minted' = NoAddr BY <1>20 DEF Report
  <2>4. pc' \in {"top", "wait"} BY <1>20 DEF Report
  <2>5. UNCHANGED <<ctlVars, controlVars, learnVars, histVars>> BY <1>20 DEF Report
  <2>. QED BY <2>1, <2>2, <2>3, <2>4, <2>5
<1>21. CASE WaitCancelled BY <1>21 DEF WaitCancelled
<1>22. CASE WaitElapsed BY <1>22 DEF WaitElapsed
<1>23. CASE DeferredOff BY <1>23 DEF DeferredOff, Disable
<1>24. CASE Cancel BY <1>24 DEF Cancel
<1>25. CASE KeyPause BY <1>25 DEF KeyPause
<1>26. CASE KeyApple BY <1>26 DEF KeyApple, AppleNext
<1>27. CASE KeyTrackers BY <1>27 DEF KeyTrackers
<1>28. CASE KeyLearn BY <1>28 DEF KeyLearn
<1>29. CASE UNCHANGED vars BY <1>29
<1>. QED
  BY <1>1, <1>2, <1>3, <1>4, <1>5, <1>6, <1>7, <1>8, <1>9, <1>10, <1>11, <1>12,
     <1>13, <1>14, <1>15, <1>16, <1>17, <1>18, <1>19, <1>20, <1>21, <1>22, <1>23,
     <1>24, <1>25, <1>26, <1>27, <1>28, <1>29
  DEF Next, Step, Environment

\* A step keeps what a cycle under way knows of the controller.
LEMMA CycleStep == IInv /\ [Next]_vars => CycleInv'
<1> SUFFICES ASSUME IInv, [Next]_vars PROVE CycleInv'
  OBVIOUS
<1> USE DEF IInv, TypeOK, CycleInv, OnAirCoherent
<1>1. CASE SetAdvParams BY <1>1 DEF SetAdvParams
<1>2. CASE Top BY <1>2 DEF Top
<1>3. CASE LearnOff BY <1>3 DEF LearnOff, Disable
<1>4. CASE ScanClear BY <1>4 DEF ScanClear
<1>5. CASE ScanParams BY <1>5 DEF ScanParams
<1>6. CASE ScanOn BY <1>6 DEF ScanOn
<1>7. CASE Listen BY <1>7 DEF Listen
<1>8. CASE ScanOff BY <1>8 DEF ScanOff
<1>9. CASE LearnResult BY <1>9 DEF LearnResult
<1>10. CASE SetDevices BY <1>10 DEF SetDevices
<1>11. CASE LearnEnd BY <1>11 DEF LearnEnd
<1>12. CASE CheckPause BY <1>12 DEF CheckPause
<1>13. CASE PauseOff BY <1>13 DEF PauseOff, Disable
<1>14. CASE ReadApple BY <1>14 DEF ReadApple
<1>15. CASE ReadRest BY <1>15 DEF ReadRest
<1>16. CASE CycleOff BY <1>16 DEF CycleOff, Disable
<1>17. CASE CycleAddr BY <1>17 DEF CycleAddr, CycleFails, Answers
<1>18. CASE CycleData BY <1>18 DEF CycleData, CycleFails, Answers
<1>19. CASE CycleOn BY <1>19 DEF CycleOn, CycleFails, Answers
<1>20. CASE Report BY <1>20 DEF Report, DefaultOptions
<1>21. CASE WaitCancelled BY <1>21 DEF WaitCancelled
<1>22. CASE WaitElapsed BY <1>22 DEF WaitElapsed
<1>23. CASE DeferredOff BY <1>23 DEF DeferredOff, Disable
<1>24. CASE Cancel BY <1>24 DEF Cancel
<1>25. CASE KeyPause BY <1>25 DEF KeyPause
<1>26. CASE KeyApple BY <1>26 DEF KeyApple, AppleNext
<1>27. CASE KeyTrackers BY <1>27 DEF KeyTrackers
<1>28. CASE KeyLearn BY <1>28 DEF KeyLearn
<1>29. CASE UNCHANGED vars BY <1>29
<1>. QED
  BY <1>1, <1>2, <1>3, <1>4, <1>5, <1>6, <1>7, <1>8, <1>9, <1>10, <1>11, <1>12,
     <1>13, <1>14, <1>15, <1>16, <1>17, <1>18, <1>19, <1>20, <1>21, <1>22, <1>23,
     <1>24, <1>25, <1>26, <1>27, <1>28, <1>29
  DEF Next, Step, Environment

\* A step keeps the bound on stale mints.
LEMMA StaleStep == IInv /\ [Next]_vars => StaleInv'
<1> SUFFICES ASSUME IInv, [Next]_vars PROVE StaleInv'
  OBVIOUS
<1> USE DEF IInv, TypeOK, Options, StaleInv, MintPath
<1>1. CASE SetAdvParams BY <1>1 DEF SetAdvParams
<1>2. CASE Top BY <1>2 DEF Top
<1>3. CASE LearnOff BY <1>3 DEF LearnOff, Disable
<1>4. CASE ScanClear BY <1>4 DEF ScanClear
<1>5. CASE ScanParams BY <1>5 DEF ScanParams
<1>6. CASE ScanOn BY <1>6 DEF ScanOn
<1>7. CASE Listen BY <1>7 DEF Listen
<1>8. CASE ScanOff BY <1>8 DEF ScanOff
<1>9. CASE LearnResult BY <1>9 DEF LearnResult
<1>10. CASE SetDevices BY <1>10 DEF SetDevices
<1>11. CASE LearnEnd BY <1>11 DEF LearnEnd
<1>12. CASE CheckPause BY <1>12 DEF CheckPause
<1>13. CASE PauseOff BY <1>13 DEF PauseOff, Disable
<1>14. CASE ReadApple BY <1>14 DEF ReadApple
<1>15. CASE ReadRest BY <1>15 DEF ReadRest
<1>16. CASE CycleOff BY <1>16 DEF CycleOff, Disable
<1>17. CASE CycleAddr BY <1>17 DEF CycleAddr, CycleFails
<1>18. CASE CycleData BY <1>18 DEF CycleData, CycleFails
<1>19. CASE CycleOn BY <1>19 DEF CycleOn, CycleFails, Outdated
<1>20. CASE Report BY <1>20 DEF Report, DefaultOptions
<1>21. CASE WaitCancelled BY <1>21 DEF WaitCancelled
<1>22. CASE WaitElapsed BY <1>22 DEF WaitElapsed
<1>23. CASE DeferredOff BY <1>23 DEF DeferredOff, Disable
<1>24. CASE Cancel BY <1>24 DEF Cancel
<1>25. CASE KeyPause BY <1>25 DEF KeyPause
<1>26. CASE KeyApple BY <1>26 DEF KeyApple, AppleNext
<1>27. CASE KeyTrackers BY <1>27 DEF KeyTrackers
<1>28. CASE KeyLearn BY <1>28 DEF KeyLearn
<1>29. CASE UNCHANGED vars BY <1>29
<1>. QED
  BY <1>1, <1>2, <1>3, <1>4, <1>5, <1>6, <1>7, <1>8, <1>9, <1>10, <1>11, <1>12,
     <1>13, <1>14, <1>15, <1>16, <1>17, <1>18, <1>19, <1>20, <1>21, <1>22, <1>23,
     <1>24, <1>25, <1>26, <1>27, <1>28, <1>29
  DEF Next, Step, Environment

\* A step keeps the rate counters between the identities aired and counted.
LEMMA RateStep == IInv /\ [Next]_vars => RateHonest'
<1> SUFFICES ASSUME IInv, [Next]_vars PROVE RateHonest'
  OBVIOUS
<1> USE DEF IInv, TypeOK, RateHonest
<1>1. CASE SetAdvParams BY <1>1 DEF SetAdvParams
<1>2. CASE Top BY <1>2 DEF Top
<1>3. CASE LearnOff BY <1>3 DEF LearnOff, Disable
<1>4. CASE ScanClear BY <1>4 DEF ScanClear
<1>5. CASE ScanParams BY <1>5 DEF ScanParams
<1>6. CASE ScanOn BY <1>6 DEF ScanOn
<1>7. CASE Listen BY <1>7 DEF Listen
<1>8. CASE ScanOff BY <1>8 DEF ScanOff
<1>9. CASE LearnResult BY <1>9 DEF LearnResult
<1>10. CASE SetDevices BY <1>10 DEF SetDevices
<1>11. CASE LearnEnd BY <1>11 DEF LearnEnd
<1>12. CASE CheckPause BY <1>12 DEF CheckPause
<1>13. CASE PauseOff BY <1>13 DEF PauseOff, Disable
<1>14. CASE ReadApple BY <1>14 DEF ReadApple
<1>15. CASE ReadRest BY <1>15 DEF ReadRest
<1>16. CASE CycleOff BY <1>16 DEF CycleOff, Disable
<1>17. CASE CycleAddr BY <1>17 DEF CycleAddr, CycleFails
<1>18. CASE CycleData BY <1>18 DEF CycleData, CycleFails
<1>19. CASE CycleOn BY <1>19 DEF CycleOn, CycleFails, Answers
<1>20. CASE Report BY <1>20 DEF Report, DefaultOptions
<1>21. CASE WaitCancelled BY <1>21 DEF WaitCancelled
<1>22. CASE WaitElapsed BY <1>22 DEF WaitElapsed
<1>23. CASE DeferredOff BY <1>23 DEF DeferredOff, Disable
<1>24. CASE Cancel BY <1>24 DEF Cancel
<1>25. CASE KeyPause BY <1>25 DEF KeyPause
<1>26. CASE KeyApple BY <1>26 DEF KeyApple, AppleNext
<1>27. CASE KeyTrackers BY <1>27 DEF KeyTrackers
<1>28. CASE KeyLearn BY <1>28 DEF KeyLearn
<1>29. CASE UNCHANGED vars BY <1>29
<1>. QED
  BY <1>1, <1>2, <1>3, <1>4, <1>5, <1>6, <1>7, <1>8, <1>9, <1>10, <1>11, <1>12,
     <1>13, <1>14, <1>15, <1>16, <1>17, <1>18, <1>19, <1>20, <1>21, <1>22, <1>23,
     <1>24, <1>25, <1>26, <1>27, <1>28, <1>29
  DEF Next, Step, Environment

\* A step keeps the learned table and the weights together.
LEMMA LearnStep == IInv /\ [Next]_vars => LearnInv'
<1> SUFFICES ASSUME IInv, [Next]_vars PROVE LearnInv'
  OBVIOUS
<1> USE DEF IInv, TypeOK, LearnInv, LearnPath
<1>1. CASE SetAdvParams BY <1>1 DEF SetAdvParams
<1>2. CASE Top BY <1>2 DEF Top
<1>3. CASE LearnOff BY <1>3 DEF LearnOff, Disable
<1>4. CASE ScanClear BY <1>4 DEF ScanClear
<1>5. CASE ScanParams BY <1>5 DEF ScanParams
<1>6. CASE ScanOn BY <1>6 DEF ScanOn
<1>7. CASE Listen BY <1>7 DEF Listen
<1>8. CASE ScanOff BY <1>8 DEF ScanOff
<1>9. CASE LearnResult BY <1>9 DEF LearnResult
<1>10. CASE SetDevices BY <1>10 DEF SetDevices
<1>11. CASE LearnEnd BY <1>11 DEF LearnEnd
<1>12. CASE CheckPause BY <1>12 DEF CheckPause
<1>13. CASE PauseOff BY <1>13 DEF PauseOff, Disable
<1>14. CASE ReadApple BY <1>14 DEF ReadApple
<1>15. CASE ReadRest BY <1>15 DEF ReadRest
<1>16. CASE CycleOff BY <1>16 DEF CycleOff, Disable
<1>17. CASE CycleAddr BY <1>17 DEF CycleAddr, CycleFails
<1>18. CASE CycleData BY <1>18 DEF CycleData, CycleFails
<1>19. CASE CycleOn BY <1>19 DEF CycleOn, CycleFails
<1>20. CASE Report BY <1>20 DEF Report, DefaultOptions
<1>21. CASE WaitCancelled BY <1>21 DEF WaitCancelled
<1>22. CASE WaitElapsed BY <1>22 DEF WaitElapsed
<1>23. CASE DeferredOff BY <1>23 DEF DeferredOff, Disable
<1>24. CASE Cancel BY <1>24 DEF Cancel
<1>25. CASE KeyPause BY <1>25 DEF KeyPause
<1>26. CASE KeyApple BY <1>26 DEF KeyApple, AppleNext
<1>27. CASE KeyTrackers BY <1>27 DEF KeyTrackers
<1>28. CASE KeyLearn BY <1>28 DEF KeyLearn
<1>29. CASE UNCHANGED vars BY <1>29
<1>. QED
  BY <1>1, <1>2, <1>3, <1>4, <1>5, <1>6, <1>7, <1>8, <1>9, <1>10, <1>11, <1>12,
     <1>13, <1>14, <1>15, <1>16, <1>17, <1>18, <1>19, <1>20, <1>21, <1>22, <1>23,
     <1>24, <1>25, <1>26, <1>27, <1>28, <1>29
  DEF Next, Step, Environment

LEMMA InitInv == Init => IInv
<1> SUFFICES ASSUME Init PROVE IInv
  OBVIOUS
<1> USE DEF Init
<1>1. TypeOK
  BY ConfigAssumption DEF TypeOK, DefaultOptions, Options, AppleKinds
<1>2. CycleInv BY DEF CycleInv, OnAirCoherent
<1>3. StaleInv BY DEF StaleInv, MintPath
<1>4. RateHonest BY DEF RateHonest
<1>5. LearnInv BY DEF LearnInv, LearnPath
<1>. QED BY <1>1, <1>2, <1>3, <1>4, <1>5 DEF IInv

LEMMA Inductive == Spec => []IInv
<1>1. IInv /\ [Next]_vars => IInv'
  BY TypeStep, CycleStep, StaleStep, RateStep, LearnStep DEF IInv
<1>. QED BY InitInv, <1>1, PTL DEF Spec

-----------------------------------------------------------------------------

\* Every variable of the loop, of its controls and of the controller keeps its
\* type, for every set of addresses and mixes (engine.Run).
THEOREM TypeCorrect == Spec => []TypeOK
<1>1. IInv => TypeOK BY DEF IInv
<1>. QED BY Inductive, <1>1, PTL

\* The controller never advertises the address of one decoy with the payload
\* of another, whatever it refuses and whatever confirmation is lost (cycle).
THEOREM Coherent == Spec => []OnAirCoherent
<1>1. IInv => OnAirCoherent BY DEF IInv, CycleInv
<1>. QED BY Inductive, <1>1, PTL

\* What is on the air is replaced, never edited (cycle).
LEMMA NeverEdited == IInv /\ [Next]_vars => (adv /\ adv' => addr' = addr /\ data' = data)
<1> SUFFICES ASSUME IInv, [Next]_vars, adv, adv' PROVE addr' = addr /\ data' = data
  OBVIOUS
<1>1. CASE CycleAddr BY <1>1 DEF CycleAddr, Answers
<1>2. CASE CycleData BY <1>2 DEF CycleData, IInv, CycleInv
<1>3. CASE Step /\ ~CycleAddr /\ ~CycleData
  BY <1>3 DEF Step, SetAdvParams, Top, LearnOff, ScanClear, ScanParams, ScanOn, Listen,
    ScanOff, LearnResult, SetDevices, LearnEnd, CheckPause, PauseOff, ReadApple,
    ReadRest, CycleOff, CycleOn, Report, WaitCancelled, WaitElapsed, DeferredOff, Disable
<1>4. CASE Environment
  BY <1>4 DEF Environment, Cancel, KeyPause, KeyApple, KeyTrackers, KeyLearn
<1>5. CASE UNCHANGED vars BY <1>5
<1>. QED BY <1>1, <1>2, <1>3, <1>4, <1>5 DEF Next

\* The loop implements DecoyRadio: a listener hears whole decoys, one at a time,
\* with silence between two of them, whatever the controller refuses or leaves
\* unconfirmed (engine.Run, cycle).
THEOREM Radiates == Spec => AiredByRadio
<1> DEFINE air == IF ~adv THEN NoAddr ELSE IF data = addr THEN addr ELSE NoData
<1>1. Init => Radio!Init
  BY DEF Init, Radio!Init
<1>2. IInv /\ IInv' /\ [Next]_vars => [Radio!Next]_air
  <2> SUFFICES ASSUME IInv, IInv', [Next]_vars PROVE [Radio!Next]_air
    OBVIOUS
  <2>1. adv => air = addr /\ addr \in Addr /\ addr # NoAddr
    BY DistinctAssumption DEF IInv, CycleInv, OnAirCoherent
  <2>2. adv' => air' = addr' /\ addr' \in Addr /\ addr' # NoAddr
    BY DistinctAssumption DEF IInv, CycleInv, OnAirCoherent
  <2>3. CASE adv /\ adv'
    BY <2>1, <2>2, <2>3, NeverEdited
  <2>4. CASE adv /\ ~adv'
    BY <2>1, <2>4 DEF Radio!Next, Radio!Retire
  <2>5. CASE ~adv /\ adv'
    BY <2>2, <2>5 DEF Radio!Next, Radio!Start
  <2>6. CASE ~adv /\ ~adv'
    BY <2>6
  <2>. QED BY <2>3, <2>4, <2>5, <2>6 DEF IInv, TypeOK
<1>. QED BY Inductive, <1>1, <1>2, PTL DEF Spec, AiredByRadio, Radio!Spec

\* After a control changes or ctx is cancelled, at most one identity that
\* disagrees with the controls still goes on the air (engine.Run, cycle).
THEOREM OneStaleMint == Spec => []AtMostOneStaleMint
<1>1. IInv => AtMostOneStaleMint BY DEF IInv, StaleInv, AtMostOneStaleMint
<1>. QED BY Inductive, <1>1, PTL

\* The figures given to Reporter.Rate never exceed what went on the air, and
\* account for all of it (engine.Run's ok and fail).
THEOREM HonestRate == Spec => []RateHonest
<1>1. IInv => RateHonest BY DEF IInv
<1>. QED BY Inductive, <1>1, PTL

\* Outside a learn scan, weights and learned devices are of the same scan
\* (engine.Run's learn branch, LearnControl).
THEOREM TogetherLearned == Spec => []LearnedTogether
<1>1. IInv => LearnedTogether
  BY DEF IInv, LearnInv, LearnPath, LearnedTogether
<1>. QED BY Inductive, <1>1, PTL
=============================================================================
