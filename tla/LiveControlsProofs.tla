------------------------- MODULE LiveControlsProofs -------------------------
(***************************************************************************)
(* Proofs about LiveControls: for every flag that config.Validate admits,  *)
(* every calibration and any number of keys, identities dwell long enough  *)
(* to be seen, the interval is the one asked for, and the debug log loses  *)
(* nothing and leaves no file open.                                        *)
(***************************************************************************)
EXTENDS LiveControls, TLAPS

USE DEF NoFile

\* The flags keep to Validate's floor, and the controller's interval is what the
\* conversions make of them, if it accepts that.
Configured ==
  /\ advMs \in Nat /\ rotateMs \in Nat /\ advMs >= 20
  /\ \/ interval = <<0, 0>>
     \/ /\ interval = <<AdvIntervalUnits(U16(advMs)), AdvIntervalUnits(U16(advMs + 30))>>
        /\ Accepts(interval[1], interval[2])

\* The rate control keeps to its bounds, and every dwell is one of its values.
Rates ==
  /\ ms \in Nat /\ MinMs <= ms /\ ms <= MaxMs
  /\ dwell \in Nat
  /\ dwell # 0 => MinMs <= dwell /\ dwell <= MaxMs

\* What the key thread knows of the log at each of its points.
LogSteps ==
  /\ kpc \in {"idle", "rate", "path", "mirror"} =>
       open = {file} \ {NoFile} /\ curPath = file
  /\ kpc = "swap" => file # NoFile /\ curPath = file /\ open = {file}
  /\ kpc \in {"close", "store"} => file = NoFile /\ curPath # NoFile /\ open = {curPath}
  /\ kpc = "forget" => file = NoFile /\ open = {}
  /\ kpc = "open" => file = NoFile /\ curPath = NoFile /\ open = {}

\* A line under way has the writer's file, or was overtaken.
Lines == ~lost /\ (target = NoFile \/ overtaken \/ target = file)

Threads ==
  /\ lpc \in {"params", "mint", "line", "dwell", "gone"}
  /\ kpc \in {"idle", "rate", "swap", "close", "forget", "open", "store", "path", "mirror"}
  /\ dpc \in {"on", "path", "set"}
  /\ keys \in Nat

Mirrors ==
  /\ header \in Nat /\ adjusted \in BOOLEAN
  /\ toggled \in BOOLEAN /\ keyPath \in Nat
  /\ seenOn \in BOOLEAN /\ seenPath \in Nat
  /\ shown \in [on : BOOLEAN, path : Nat]

Files ==
  /\ file \in Nat /\ curPath \in Nat /\ opened \in Nat /\ target \in Nat
  /\ open \in SUBSET Nat
  /\ overtaken \in BOOLEAN /\ lost \in BOOLEAN

IInv == Configured /\ Rates /\ Threads /\ Mirrors /\ Files /\ LogSteps /\ Lines

USE DEF cfgVars, loopVars, rateVars, logVars, keyVars, drawVars, vars
-----------------------------------------------------------------------------
(* The arithmetic.                                                         *)

\* NewRateControl's bounds are in order, and at least the advertising interval.
LEMMA BoundsInOrder ==
  ASSUME advMs \in Nat, advMs >= 20
  PROVE  /\ MinMs \in Nat /\ MaxMs \in Nat /\ MinMs <= MaxMs
         /\ MinMs = advMs
         /\ advMs <= 2000 => MaxMs = 2000
BY DEF MinMs, MaxMs, Max

\* Whatever it is asked for, the rate control stores a dwell within its bounds.
LEMMA PacedBounds ==
  ASSUME advMs \in Nat, advMs >= 20, NEW v \in Int
  PROVE  Paced(v) \in Nat /\ MinMs <= Paced(v) /\ Paced(v) <= MaxMs
<1>1. MinMs \in Nat /\ MaxMs \in Nat /\ MinMs <= MaxMs
  BY BoundsInOrder
<1> QED BY <1>1 DEF Paced, Clamp

\* Cutting to 16 bits never makes a number larger, and leaves a short one alone.
LEMMA Cut ==
  ASSUME NEW v \in Nat
  PROVE  U16(v) \in Nat /\ U16(v) <= v /\ (v < 65536 => U16(v) = v)
BY DEF U16

\* The units of an interval never stand for more than it.
LEMMA UnitsBelow ==
  ASSUME NEW v \in Nat
  PROVE  AdvIntervalUnits(v) \in Nat /\ AdvIntervalUnits(v) * 625 <= v * 1000
<1> DEFINE u == (v * 8) \div 5
<1>1. u \in Nat /\ u * 5 <= v * 8 /\ v * 8 < (u + 1) * 5
  OBVIOUS
<1>2. U16(u) \in Nat /\ U16(u) <= u
  BY <1>1, Cut
<1> QED BY <1>1, <1>2 DEF AdvIntervalUnits

\* Below 40960 ms the units are exact to less than one.
LEMMA UnitsExact ==
  ASSUME NEW v \in Nat, v < 40960
  PROVE  /\ AdvIntervalUnits(v) * 625 <= v * 1000
         /\ v * 1000 < (AdvIntervalUnits(v) + 1) * 625
<1> DEFINE u == (v * 8) \div 5
<1>1. u \in Nat /\ u * 5 <= v * 8 /\ v * 8 < (u + 1) * 5
  OBVIOUS
<1>2. u < 65536
  BY <1>1
<1>3. U16(u) = u
  BY <1>1, <1>2, Cut
<1> QED BY <1>1, <1>3 DEF AdvIntervalUnits
-----------------------------------------------------------------------------
(* The inductive invariant.                                                *)

LEMMA Initially == Init => IInv
<1> SUFFICES ASSUME Init PROVE IInv
  OBVIOUS
<1>1. advMs \in Nat /\ advMs >= 20 /\ rotateMs \in Nat
  <2>1. CASE advMs \in AdvMsFlags /\ rotateMs \in RotateMsFlags
    BY <2>1, FlagsAssumption
  <2>2. CASE advMs \in Candidates /\ rotateMs \in {n * advMs : n \in AdvertsPerIDs}
    <3>1. advMs \in Nat /\ advMs >= 20
      BY <2>2, FlagsAssumption
    <3>2. PICK n \in AdvertsPerIDs : rotateMs = n * advMs
      BY <2>2
    <3>3. n \in Nat
      BY FlagsAssumption
    <3> QED BY <3>1, <3>2, <3>3
  <2> QED BY <2>1, <2>2 DEF Init
<1>2. Configured
  BY <1>1 DEF Init, Configured
<1>3. Rates
  BY <1>1, PacedBounds DEF Init, Rates
<1>4. Threads /\ Lines
  BY DEF Init, Threads, Lines
<1>5. Mirrors
  <2>1. file \in Nat /\ curPath \in Nat
    BY DEF Init
  <2>2. shown \in [on : BOOLEAN, path : Nat]
    BY <2>1 DEF Init
  <2> QED BY <1>1, <2>2 DEF Init, Mirrors
<1>6. Files
  <2>1. file \in Nat /\ curPath \in Nat /\ opened \in Nat
    BY DEF Init
  <2>2. open \in SUBSET Nat
    BY <2>1 DEF Init
  <2> QED BY <2>1, <2>2 DEF Init, Files
<1>7. LogSteps
  BY DEF Init, LogSteps
<1> QED BY <1>2, <1>3, <1>4, <1>5, <1>6, <1>7 DEF IInv

\* Flags never change, and the interval is set once.
LEMMA ConfiguredStep == IInv /\ [Next]_vars => Configured'
<1> SUFFICES ASSUME IInv, [Next]_vars PROVE Configured'
  OBVIOUS
<1>1. Configured
  BY DEF IInv
<1>2. CASE SetAdvParams
  <2>1. UNCHANGED <<advMs, rotateMs>>
    BY <1>2 DEF SetAdvParams
  <2>2. \/ UNCHANGED interval
        \/ /\ interval' = <<AdvIntervalUnits(U16(advMs)), AdvIntervalUnits(U16(advMs + 30))>>
           /\ Accepts(AdvIntervalUnits(U16(advMs)), AdvIntervalUnits(U16(advMs + 30)))
    BY <1>2 DEF SetAdvParams
  <2> QED BY <1>1, <2>1, <2>2 DEF Configured
<1>3. CASE UNCHANGED <<advMs, rotateMs, interval>>
  BY <1>1, <1>3 DEF Configured
<1>4. SetAdvParams \/ UNCHANGED <<advMs, rotateMs, interval>>
  BY DEF Next, Loop, KeyStep, Draw, LoadLog, WriteLog, Dwell, KeyRate, KeyDebug, MirrorRate,
         Swap, CloseLog, Forget, OpenLog, OpenFails, Store, ReadPath, MirrorKey, DrawOn,
         DrawPath, DrawSet
<1> QED BY <1>2, <1>3, <1>4

\* Only a rate key changes the dwell to come, and only the loop takes it.
LEMMA RatesStep == IInv /\ [Next]_vars => Rates'
<1> SUFFICES ASSUME IInv, [Next]_vars PROVE Rates'
  OBVIOUS
<1>1. Rates /\ advMs \in Nat /\ advMs >= 20
  BY DEF IInv, Configured
<1>2. advMs' = advMs
  BY DEF Next, Loop, KeyStep, Draw, SetAdvParams, LoadLog, WriteLog, Dwell, KeyRate, KeyDebug,
         MirrorRate, Swap, CloseLog, Forget, OpenLog, OpenFails, Store, ReadPath, MirrorKey,
         DrawOn, DrawPath, DrawSet
<1>3. MinMs' = MinMs /\ MaxMs' = MaxMs
  BY <1>2 DEF MinMs, MaxMs
<1>4. CASE KeyRate
  <2>1. PICK delta \in {-RateStepMs, RateStepMs} : ms' = Paced(ms + delta)
    BY <1>4 DEF KeyRate
  <2>2. ms + delta \in Int
    BY <1>1 DEF Rates, RateStepMs
  <2>3. dwell' = dwell
    BY <1>4 DEF KeyRate
  <2> QED BY <1>1, <1>3, <2>1, <2>2, <2>3, PacedBounds DEF Rates
<1>5. CASE Dwell
  BY <1>1, <1>3, <1>5 DEF Dwell, Rates
<1>6. CASE UNCHANGED <<ms, dwell>>
  BY <1>1, <1>3, <1>6 DEF Rates
<1>7. KeyRate \/ Dwell \/ UNCHANGED <<ms, dwell>>
  BY DEF Next, Loop, KeyStep, Draw, SetAdvParams, LoadLog, WriteLog, KeyDebug, MirrorRate,
         Swap, CloseLog, Forget, OpenLog, OpenFails, Store, ReadPath, MirrorKey, DrawOn,
         DrawPath, DrawSet
<1> QED BY <1>4, <1>5, <1>6, <1>7

\* Each thread goes from point to point.
LEMMA ThreadsStep == IInv /\ [Next]_vars => Threads'
<1> SUFFICES ASSUME IInv, [Next]_vars PROVE Threads'
  OBVIOUS
<1>1. Threads
  BY DEF IInv
<1>2. CASE Loop
  BY <1>1, <1>2 DEF Threads, Loop, SetAdvParams, LoadLog, WriteLog, Dwell
<1>3. CASE KeyRate \/ KeyDebug
  BY <1>1, <1>3 DEF Threads, KeyRate, KeyDebug, Pressed
<1>4. CASE KeyStep
  BY <1>1, <1>4 DEF Threads, KeyStep, MirrorRate, Swap, CloseLog, Forget, OpenLog, OpenFails,
                    Store, ReadPath, MirrorKey
<1>5. CASE Draw
  BY <1>1, <1>5 DEF Threads, Draw, DrawOn, DrawPath, DrawSet
<1>6. CASE UNCHANGED vars
  BY <1>1, <1>6 DEF Threads
<1> QED BY <1>2, <1>3, <1>4, <1>5, <1>6 DEF Next

LEMMA MirrorsStep == IInv /\ [Next]_vars => Mirrors'
<1> SUFFICES ASSUME IInv, [Next]_vars PROVE Mirrors'
  OBVIOUS
<1>1. Mirrors /\ curPath \in Nat /\ ms \in Nat
  BY DEF IInv, Files, Rates
<1>2. CASE Loop
  BY <1>1, <1>2 DEF Mirrors, Loop, SetAdvParams, LoadLog, WriteLog, Dwell
<1>3. CASE KeyRate \/ KeyDebug
  BY <1>1, <1>3 DEF Mirrors, KeyRate, KeyDebug, Pressed
<1>4. CASE MirrorRate \/ Swap \/ CloseLog \/ OpenLog \/ ReadPath
  BY <1>1, <1>4 DEF Mirrors, MirrorRate, Swap, CloseLog, OpenLog, ReadPath
<1>5. CASE Forget \/ OpenFails \/ Store
  BY <1>1, <1>5 DEF Mirrors, Forget, OpenFails, Store
<1>6. CASE MirrorKey
  <2>1. shown' \in [on : BOOLEAN, path : Nat]
    BY <1>1, <1>6 DEF MirrorKey, Mirrors
  <2> QED BY <1>1, <1>6, <2>1 DEF MirrorKey, Mirrors
<1>7. CASE DrawOn \/ DrawPath
  BY <1>1, <1>7 DEF Mirrors, DrawOn, DrawPath
<1>8. CASE DrawSet
  <2>1. shown' \in [on : BOOLEAN, path : Nat]
    BY <1>1, <1>8 DEF DrawSet, Mirrors
  <2> QED BY <1>1, <1>8, <2>1 DEF DrawSet, Mirrors
<1>9. CASE UNCHANGED vars
  BY <1>1, <1>9 DEF Mirrors
<1> QED BY <1>2, <1>3, <1>4, <1>5, <1>6, <1>7, <1>8, <1>9 DEF Next, KeyStep, Draw

LEMMA FilesStep == IInv /\ [Next]_vars => Files'
<1> SUFFICES ASSUME IInv, [Next]_vars PROVE Files'
  OBVIOUS
<1>1. Files
  BY DEF IInv
<1>2. CASE LoadLog
  BY <1>1, <1>2 DEF Files, LoadLog
<1>3. CASE WriteLog
  <2>1. lost' \in BOOLEAN
    BY <1>1, <1>3 DEF Files, WriteLog
  <2> QED BY <1>1, <1>3, <2>1 DEF Files, WriteLog
<1>8. CASE Swap
  BY <1>1, <1>8 DEF Files, Swap
<1>9. CASE Forget
  BY <1>1, <1>9 DEF Files, Forget
<1>10. CASE Store
  BY <1>1, <1>10 DEF Files, Store
<1>4. CASE CloseLog
  BY <1>1, <1>4 DEF Files, CloseLog
<1>5. CASE OpenLog
  <2>1. opened' \in Nat /\ curPath' \in Nat /\ open' \in SUBSET Nat
    BY <1>1, <1>5 DEF Files, OpenLog
  <2>2. UNCHANGED <<file, target, overtaken, lost>>
    BY <1>5 DEF OpenLog
  <2> QED BY <1>1, <2>1, <2>2 DEF Files
<1>6. CASE UNCHANGED <<logVars, target, overtaken, lost>>
  BY <1>1, <1>6 DEF Files
<1>7. \/ LoadLog \/ WriteLog \/ Swap \/ Forget \/ Store \/ CloseLog \/ OpenLog
      \/ UNCHANGED <<logVars, target, overtaken, lost>>
  BY DEF Next, Loop, KeyStep, Draw, SetAdvParams, Dwell, KeyRate, KeyDebug, MirrorRate,
         OpenFails, ReadPath, MirrorKey, DrawOn, DrawPath, DrawSet
<1> QED BY <1>2, <1>3, <1>4, <1>5, <1>6, <1>7, <1>8, <1>9, <1>10

\* Only the key thread opens and closes files, one at a time.
LEMMA LogStepsStep == IInv /\ [Next]_vars => LogSteps'
<1> SUFFICES ASSUME IInv, [Next]_vars PROVE LogSteps'
  OBVIOUS
<1>1. LogSteps /\ Files /\ kpc \in {"idle", "rate", "swap", "close", "forget", "open", "store",
                                    "path", "mirror"}
  BY DEF IInv, Threads
<1>2. CASE KeyRate \/ MirrorRate \/ ReadPath \/ MirrorKey
  <2>1. /\ kpc \in {"idle", "rate", "path", "mirror"}
        /\ kpc' \in {"idle", "rate", "path", "mirror"}
        /\ UNCHANGED logVars
    BY <1>2 DEF KeyRate, Pressed, MirrorRate, ReadPath, MirrorKey
  <2>2. open = {file} \ {NoFile} /\ curPath = file
    BY <1>1, <2>1 DEF LogSteps
  <2> QED BY <2>1, <2>2 DEF LogSteps
<1>3. CASE KeyDebug
  <2>1. kpc = "idle" /\ open = {file} \ {NoFile} /\ curPath = file /\ UNCHANGED logVars
    BY <1>1, <1>3 DEF KeyDebug, Pressed, LogSteps
  <2>2. CASE file # NoFile
    BY <1>3, <2>1, <2>2 DEF KeyDebug, LogSteps
  <2>3. CASE file = NoFile
    BY <1>3, <2>1, <2>3 DEF KeyDebug, LogSteps
  <2> QED BY <2>2, <2>3
<1>4. CASE Swap
  BY <1>1, <1>4 DEF LogSteps, Swap
<1>5. CASE CloseLog
  BY <1>1, <1>5 DEF LogSteps, CloseLog
<1>6. CASE Forget
  BY <1>1, <1>6 DEF LogSteps, Forget
<1>7. CASE OpenLog
  <2>1. /\ kpc = "open" /\ kpc' = "store" /\ file' = file /\ opened' = opened + 1
        /\ curPath' = opened' /\ open' = open \cup {opened'}
    BY <1>7 DEF OpenLog
  <2>2. file = NoFile /\ open = {}
    BY <1>1, <2>1 DEF LogSteps
  <2>3. curPath' # NoFile
    BY <1>1, <2>1 DEF Files
  <2> QED BY <2>1, <2>2, <2>3 DEF LogSteps
<1>8. CASE OpenFails
  BY <1>1, <1>8 DEF LogSteps, OpenFails
<1>9. CASE Store
  BY <1>1, <1>9 DEF LogSteps, Store
<1>10. CASE UNCHANGED <<logVars, kpc>>
  BY <1>1, <1>10 DEF LogSteps
<1>11. \/ KeyRate \/ KeyDebug \/ KeyStep \/ UNCHANGED <<logVars, kpc>>
  BY DEF Next, Loop, Draw, SetAdvParams, LoadLog, WriteLog, Dwell, DrawOn, DrawPath, DrawSet
<1> QED BY <1>2, <1>3, <1>4, <1>5, <1>6, <1>7, <1>8, <1>9, <1>10, <1>11 DEF KeyStep

\* The file of a line under way is closed only after Swap has overtaken it.
LEMMA LinesStep == IInv /\ [Next]_vars => Lines'
<1> SUFFICES ASSUME IInv, [Next]_vars PROVE Lines'
  OBVIOUS
<1>1. Lines /\ LogSteps /\ kpc \in {"idle", "rate", "swap", "close", "forget", "open", "store",
                                    "path", "mirror"}
  BY DEF IInv, Threads
<1>2. CASE LoadLog
  BY <1>1, <1>2 DEF Lines, LoadLog
<1>3. CASE WriteLog
  <2>1. file # NoFile => file \in open
    BY <1>1 DEF LogSteps
  <2> QED BY <1>1, <1>3, <2>1 DEF Lines, WriteLog
<1>4. CASE Swap
  BY <1>1, <1>4 DEF Lines, Swap
<1>5. CASE Store
  BY <1>1, <1>5 DEF Lines, LogSteps, Store
<1>6. CASE UNCHANGED <<file, target, overtaken, lost>>
  BY <1>1, <1>6 DEF Lines
<1>7. \/ LoadLog \/ WriteLog \/ Swap \/ Store \/ UNCHANGED <<file, target, overtaken, lost>>
  BY DEF Next, Loop, KeyStep, Draw, SetAdvParams, Dwell, KeyRate, KeyDebug, MirrorRate,
         CloseLog, Forget, OpenLog, OpenFails, ReadPath, MirrorKey, DrawOn, DrawPath, DrawSet
<1> QED BY <1>2, <1>3, <1>4, <1>5, <1>6, <1>7

LEMMA Invariant == Spec => []IInv
<1>1. IInv /\ [Next]_vars => IInv'
  BY ConfiguredStep, RatesStep, ThreadsStep, MirrorsStep, FilesStep, LogStepsStep, LinesStep
  DEF IInv
<1> QED BY Initially, <1>1, PTL DEF Spec
-----------------------------------------------------------------------------
(* The theorems.                                                           *)

\* Every variable keeps its type.
THEOREM TypeCorrect == Spec => []TypeOK
<1>1. IInv => TypeOK
  <2> SUFFICES ASSUME IInv PROVE TypeOK
    OBVIOUS
  <2>1. interval \in Nat \X Nat
    <3>1. AdvIntervalUnits(U16(advMs)) \in Nat /\ AdvIntervalUnits(U16(advMs + 30)) \in Nat
      BY Cut, UnitsBelow DEF IInv, Configured
    <3> QED BY <3>1 DEF IInv, Configured
  <2> QED BY <2>1 DEF IInv, Configured, Rates, Threads, Mirrors, Files, TypeOK
<1> QED BY Invariant, <1>1, PTL

\* The controller advertises at the interval asked for: engine.Run's and
\* advIntervalUnits' conversions lose less than one unit for every --adv-ms below
\* 40960, whenever the controller accepts it.
THEOREM AdvertisesAsAsked == Spec => []IntervalAsAsked
<1>1. IInv => IntervalAsAsked
  <2> SUFFICES ASSUME IInv, interval # <<0, 0>>, advMs < 40960 PROVE IntervalAsAsked
    BY DEF IntervalAsAsked
  <2> DEFINE least == AdvIntervalUnits(advMs)
             most  == AdvIntervalUnits(advMs + 30)
  <2>1. advMs \in Nat /\ U16(advMs) = advMs /\ U16(advMs + 30) = advMs + 30
    BY Cut DEF IInv, Configured
  <2>2. interval = <<least, most>> /\ Accepts(least, most)
    BY <2>1 DEF IInv, Configured
  <2>3. least \in Nat /\ least * 625 <= advMs * 1000 /\ advMs * 1000 < (least + 1) * 625
    BY <2>1, UnitsExact, UnitsBelow
  <2>4. least <= 16384
    BY <2>1, <2>2, <2>3, UnitsBelow DEF Accepts
  <2>5. advMs + 30 < 40960
    BY <2>1, <2>3, <2>4
  <2>6. most * 625 <= (advMs + 30) * 1000 /\ (advMs + 30) * 1000 < (most + 1) * 625
    BY <2>1, <2>5, UnitsExact
  <2> HIDE DEF least, most
  <2> QED BY <2>2, <2>3, <2>6 DEF IntervalAsAsked
<1> QED BY Invariant, <1>1, PTL

\* Every identity dwells at least one advertising interval, and at most 2 s when
\* the interval allows it: NewRateControl and Adjust clamp what they are given.
THEOREM SeenBeforeRotated == Spec => []DwellVisible
<1>1. IInv => DwellVisible
  <2> SUFFICES ASSUME IInv, dwell # 0 PROVE DwellVisible
    BY DEF DwellVisible
  <2>1. advMs \in Nat /\ dwell \in Nat /\ advMs <= dwell /\ (advMs <= 2000 => dwell <= 2000)
    BY BoundsInOrder DEF IInv, Configured, Rates
  <2>2. interval[1] \in Nat /\ interval[1] * 625 <= advMs * 1000
    <3>1. CASE interval = <<0, 0>>
      BY <2>1, <3>1
    <3>2. CASE interval = <<AdvIntervalUnits(U16(advMs)), AdvIntervalUnits(U16(advMs + 30))>>
      <4>1. U16(advMs) \in Nat /\ U16(advMs) <= advMs
        BY <2>1, Cut
      <4>2. interval[1] \in Nat /\ interval[1] * 625 <= U16(advMs) * 1000
        BY <3>2, <4>1, UnitsBelow
      <4> QED BY <2>1, <4>1, <4>2
    <3> QED BY <3>1, <3>2 DEF IInv, Configured
  <2> QED BY <2>1, <2>2 DEF DwellVisible
<1> QED BY Invariant, <1>1, PTL

\* No log line is lost but one that D overtakes, and no log file is left open:
\* Disable takes the file from the writer before it closes it.
THEOREM LogIsKept == Spec => []LogKept
<1>1. IInv => LogKept
  BY DEF IInv, LogSteps, Lines, LogKept
<1> QED BY Invariant, <1>1, PTL
=============================================================================
