---------------------------- MODULE LiveControls ----------------------------
(***************************************************************************)
(* The rate and debug controls of internal/engine (rate.go, debuglog.go)   *)
(* under the three threads that use them: the key thread adjusts the dwell *)
(* and toggles the debug log, the rotation loop dwells and logs, and the   *)
(* draw thread mirrors the debug log into the dashboard.  Every step is    *)
(* one atomic access, system call or short critical section of the code.   *)
(*                                                                         *)
(* How long an identity dwells is compared with how often the controller   *)
(* was told to advertise it: engine.Run's SetAdvParams and the conversions *)
(* to 16 bits and to units of 0.625 ms of internal/hci are part of it.     *)
(***************************************************************************)
EXTENDS Integers

CONSTANTS
  AdvMsFlags, RotateMsFlags,    \* bound: the values of --adv-ms and --rotate-ms
  Candidates, AdvertsPerIDs,    \* bound: calibrated intervals, values of --adverts-per-id
  MaxKeys                       \* bound: the keys pressed, of "+", "-" and "D"

\* What config.Validate admits.
ASSUME FlagsAssumption ==
  /\ AdvMsFlags \subseteq Nat /\ \A a \in AdvMsFlags : a >= 20
  /\ RotateMsFlags \subseteq Nat
  /\ Candidates \subseteq Nat /\ \A a \in Candidates : a >= 20
  /\ AdvertsPerIDs \subseteq Nat \ {0}
  /\ MaxKeys \in Nat

VARIABLES
  advMs, rotateMs,   \* cfg, from the flags or derived by --dense
  interval,          \* the controller's advertising interval, least and most, in 0.625 ms
  lpc, dwell,        \* the loop, and the dwell it last took
  target,            \* the file loaded for the log line under way
  ms,                \* RateControl.ms
  header,            \* Model.rotateMs
  file, curPath,     \* DebugControl: the writer's file, the path; a file is a number
  open, opened,      \* the log files open, and how many were ever opened
  kpc, toggled, keyPath,      \* the key thread, Toggle's result, Path's result
  dpc, seenOn, seenPath,      \* the draw thread, Enabled's and Path's results
  shown,             \* Model: debugOn and debugPath
  keys, adjusted,    \* history: keys pressed, whether one was a rate key
  overtaken, lost    \* history: the file was taken from the writer since the line
                     \* loaded it; a line was lost that was not overtaken

cfgVars  == <<advMs, rotateMs>>
loopVars == <<interval, lpc, dwell, target>>
rateVars == <<ms, header, adjusted>>
logVars  == <<file, curPath, open, opened>>
keyVars  == <<kpc, toggled, keyPath, keys>>
drawVars == <<dpc, seenOn, seenPath>>
vars == <<cfgVars, loopVars, rateVars, logVars, keyVars, drawVars, shown, overtaken, lost>>

NoFile == 0

Max(a, b) == IF a > b THEN a ELSE b

-----------------------------------------------------------------------------
(* RateControl.                                                            *)

\* clampInt64.
Clamp(v, lo, hi) == IF v < lo THEN lo ELSE IF v > hi THEN hi ELSE v

\* NewRateControl(cfg.RotateMs, cfg.AdvMs, 2000).
MinMs == Max(advMs, 1)
MaxMs == Max(2000, MinMs)

\* Variant of Paced whose bounds are exchanged: never slower than the interval.
PacedBelow(v) == Clamp(v, 1, MinMs)

\* The dwell NewRateControl and Adjust make of v.
Paced(v) == Clamp(v, MinMs, MaxMs)

RateStepMs == 25

-----------------------------------------------------------------------------
(* The conversions of Run and of internal/hci.                             *)

\* uint16(ms).
U16(v) == v % 65536

\* Variant of AdvIntervalUnits that multiplies in 16 bits.
AdvIntervalUnits16(v) == U16(v * 8) \div 5

\* advIntervalUnits: milliseconds to units of 0.625 ms, in 32 bits, cut to 16.
AdvIntervalUnits(v) == U16((v * 8) \div 5)

\* The controller takes intervals from 20 ms to 10.24 s.
Accepts(least, most) == least <= most /\ least >= 32 /\ most <= 16384

-----------------------------------------------------------------------------
\* Flags, or what calibrateDense derived; the header shows cfg.RotateMs as it is.
\* With --debug the log is open from the start, unless opening it failed.
Init ==
  /\ \/ advMs \in AdvMsFlags /\ rotateMs \in RotateMsFlags
     \/ advMs \in Candidates /\ rotateMs \in {n * advMs : n \in AdvertsPerIDs}
  /\ interval = <<0, 0>> /\ lpc = "params" /\ dwell = 0 /\ target = NoFile
  /\ ms = Paced(rotateMs) /\ header = rotateMs /\ adjusted = FALSE
  /\ file \in {NoFile, 1} /\ curPath = file /\ open = {file} \ {NoFile} /\ opened = file
  /\ kpc = "idle" /\ toggled = FALSE /\ keyPath = NoFile /\ keys = 0
  /\ dpc = "on" /\ seenOn = FALSE /\ seenPath = NoFile
  /\ shown = [on |-> file # NoFile, path |-> curPath]
  /\ overtaken = FALSE /\ lost = FALSE

-----------------------------------------------------------------------------
(* The rotation loop.                                                      *)

SetAdvParams ==
  /\ lpc = "params"
  /\ LET least == AdvIntervalUnits(U16(advMs))
         most  == AdvIntervalUnits(U16(advMs + 30)) IN
     IF Accepts(least, most)
       THEN lpc' = "mint" /\ interval' = <<least, most>>
       ELSE lpc' = "gone" /\ UNCHANGED interval
  /\ UNCHANGED <<cfgVars, dwell, target, rateVars, logVars, keyVars, drawVars, shown,
                 overtaken, lost>>

\* A decoy is minted and logged: debugWriter loads its file without a lock.
LoadLog ==
  /\ lpc = "mint"
  /\ lpc' = "line"
  /\ target' = file /\ overtaken' = FALSE
  /\ UNCHANGED <<cfgVars, interval, dwell, rateVars, logVars, keyVars, drawVars, shown, lost>>

\* The write fails on a closed file, and nobody looks at the error.
WriteLog ==
  /\ lpc = "line"
  /\ lpc' = "dwell"
  /\ lost' = (lost \/ (target # NoFile /\ target \notin open /\ ~overtaken))
  /\ target' = NoFile
  /\ UNCHANGED <<cfgVars, interval, dwell, rateVars, logVars, keyVars, drawVars, shown,
                 overtaken>>

Dwell ==
  /\ lpc = "dwell"
  /\ dwell' = ms
  /\ lpc' = "mint"
  /\ UNCHANGED <<cfgVars, interval, target, rateVars, logVars, keyVars, drawVars, shown,
                 overtaken, lost>>

Loop == SetAdvParams \/ LoadLog \/ WriteLog \/ Dwell

-----------------------------------------------------------------------------
(* The key thread.                                                         *)

Pressed ==
  /\ kpc = "idle" /\ keys < MaxKeys
  /\ keys' = keys + 1

\* + is faster.
KeyRate ==
  /\ Pressed
  /\ \E delta \in {-RateStepMs, RateStepMs} : ms' = Paced(ms + delta)
  /\ adjusted' = TRUE
  /\ kpc' = "rate"
  /\ UNCHANGED <<cfgVars, loopVars, header, logVars, toggled, keyPath, drawVars, shown,
                 overtaken, lost>>

\* SetRate with what Adjust returned: nobody else adjusts.
MirrorRate ==
  /\ kpc = "rate"
  /\ header' = ms
  /\ kpc' = "idle"
  /\ UNCHANGED <<cfgVars, loopVars, ms, adjusted, logVars, toggled, keyPath, keys, drawVars,
                 shown, overtaken, lost>>

\* Toggle looks at Enabled before it takes the lock.
KeyDebug ==
  /\ Pressed
  /\ kpc' = IF file # NoFile THEN "swap" ELSE "open"
  /\ UNCHANGED <<cfgVars, loopVars, rateVars, logVars, toggled, keyPath, drawVars, shown,
                 overtaken, lost>>

\* DebugControl.mu, held by Disable or Enable.
Locked == kpc \in {"close", "forget", "store"}

\* Variant of Swap that leaves the writer the file that is closed next.
SwapNothing ==
  /\ kpc = "swap"
  /\ kpc' = "close"
  /\ UNCHANGED <<cfgVars, loopVars, rateVars, logVars, toggled, keyPath, keys, drawVars, shown,
                 overtaken, lost>>

\* Disable: the writer loses the file, then the file is closed, which curPath still
\* names, then its path is gone.
Swap ==
  /\ kpc = "swap"
  /\ file' = NoFile
  /\ overtaken' = TRUE
  /\ kpc' = "close"
  /\ UNCHANGED <<cfgVars, loopVars, rateVars, curPath, open, opened, toggled, keyPath, keys,
                 drawVars, shown, lost>>

CloseLog ==
  /\ kpc = "close"
  /\ open' = open \ {curPath}
  /\ kpc' = "forget"
  /\ UNCHANGED <<cfgVars, loopVars, rateVars, file, curPath, opened, toggled, keyPath, keys,
                 drawVars, shown, overtaken, lost>>

Forget ==
  /\ kpc = "forget"
  /\ curPath' = NoFile /\ toggled' = FALSE
  /\ kpc' = "path"
  /\ UNCHANGED <<cfgVars, loopVars, rateVars, file, open, opened, keyPath, keys, drawVars,
                 shown, overtaken, lost>>

\* Enable: nothing to do when the log is open, otherwise a new file, or an error.
OpenLog ==
  /\ kpc = "open" /\ file = NoFile
  /\ opened' = opened + 1 /\ open' = open \cup {opened'} /\ curPath' = opened'
  /\ kpc' = "store"
  /\ UNCHANGED <<cfgVars, loopVars, rateVars, file, toggled, keyPath, keys, drawVars, shown,
                 overtaken, lost>>

OpenFails ==
  /\ kpc = "open"
  /\ toggled' = (file # NoFile)
  /\ kpc' = "path"
  /\ UNCHANGED <<cfgVars, loopVars, rateVars, logVars, keyPath, keys, drawVars, shown,
                 overtaken, lost>>

Store ==
  /\ kpc = "store"
  /\ file' = curPath /\ toggled' = TRUE
  /\ kpc' = "path"
  /\ UNCHANGED <<cfgVars, loopVars, rateVars, curPath, open, opened, keyPath, keys, drawVars,
                 shown, overtaken, lost>>

ReadPath ==
  /\ kpc = "path"
  /\ keyPath' = curPath
  /\ kpc' = "mirror"
  /\ UNCHANGED <<cfgVars, loopVars, rateVars, logVars, toggled, keys, drawVars, shown,
                 overtaken, lost>>

MirrorKey ==
  /\ kpc = "mirror"
  /\ shown' = [on |-> toggled, path |-> keyPath]
  /\ keyPath' = NoFile /\ toggled' = FALSE
  /\ kpc' = "idle"
  /\ UNCHANGED <<cfgVars, loopVars, rateVars, logVars, keys, drawVars, overtaken, lost>>

KeyStep ==
  \/ MirrorRate \/ Swap \/ CloseLog \/ Forget \/ OpenLog \/ OpenFails \/ Store
  \/ ReadPath \/ MirrorKey

-----------------------------------------------------------------------------
(* The draw thread, four times a second.                                   *)

\* Variant of DrawOn that mirrors the debug log only while it is on.
DrawOnEnabled ==
  /\ dpc = "on"
  /\ seenOn' = (file # NoFile)
  /\ dpc' = IF seenOn' THEN "path" ELSE "on"
  /\ UNCHANGED <<cfgVars, loopVars, rateVars, logVars, keyVars, seenPath, shown, overtaken,
                 lost>>

DrawOn ==
  /\ dpc = "on"
  /\ seenOn' = (file # NoFile)
  /\ dpc' = "path"
  /\ UNCHANGED <<cfgVars, loopVars, rateVars, logVars, keyVars, seenPath, shown, overtaken,
                 lost>>

DrawPath ==
  /\ dpc = "path" /\ ~Locked
  /\ seenPath' = curPath
  /\ dpc' = "set"
  /\ UNCHANGED <<cfgVars, loopVars, rateVars, logVars, keyVars, seenOn, shown, overtaken, lost>>

DrawSet ==
  /\ dpc = "set"
  /\ shown' = [on |-> seenOn, path |-> seenPath]
  /\ seenOn' = FALSE /\ seenPath' = NoFile
  /\ dpc' = "on"
  /\ UNCHANGED <<cfgVars, loopVars, rateVars, logVars, keyVars, overtaken, lost>>

Draw == DrawOn \/ DrawPath \/ DrawSet

Next == Loop \/ KeyRate \/ KeyDebug \/ KeyStep \/ Draw

Spec == Init /\ [][Next]_vars

\* The Go scheduler runs every thread; system calls return.
FairSpec == Spec /\ WF_vars(KeyStep) /\ WF_vars(Draw)

-----------------------------------------------------------------------------
TypeOK ==
  /\ advMs \in Nat /\ rotateMs \in Nat
  /\ interval \in Nat \X Nat
  /\ lpc \in {"params", "mint", "line", "dwell", "gone"} /\ dwell \in Nat
  /\ ms \in Nat /\ header \in Nat /\ adjusted \in BOOLEAN
  /\ file \in Nat /\ curPath \in Nat /\ opened \in Nat /\ target \in Nat
  /\ open \in SUBSET Nat
  /\ kpc \in {"idle", "rate", "swap", "close", "forget", "open", "store", "path", "mirror"}
  /\ toggled \in BOOLEAN /\ keyPath \in Nat /\ keys \in Nat
  /\ dpc \in {"on", "path", "set"} /\ seenOn \in BOOLEAN /\ seenPath \in Nat
  /\ shown \in [on : BOOLEAN, path : Nat]
  /\ overtaken \in BOOLEAN /\ lost \in BOOLEAN

\* The controller advertises at the interval asked for, to less than one of its
\* units, or the loop gives up: no conversion on the way loses a bit, for every
\* --adv-ms that fits the 16 bits in units of 0.625 ms.
IntervalAsAsked ==
  interval # <<0, 0>> /\ advMs < 40960 =>
    /\ interval[1] * 625 <= advMs * 1000 /\ advMs * 1000 < (interval[1] + 1) * 625
    /\ interval[2] * 625 <= (advMs + 30) * 1000 /\ (advMs + 30) * 1000 < (interval[2] + 1) * 625

\* Every identity dwells at least one advertising interval, so that it is seen, and
\* the crowd never freezes for more than 2 s at an interval that allows it, whatever
\* the flags, the calibration and the rate keys say.
DwellVisible ==
  dwell # 0 =>
    /\ dwell * 1000 >= interval[1] * 625
    /\ advMs <= 2000 => dwell <= 2000

\* Debug logging loses no line but the one D overtakes between its load and its
\* write, and leaves no log file open behind it.
LogKept ==
  /\ ~lost
  /\ kpc = "idle" => open = {file} \ {NoFile} /\ curPath = file

\* Once no key is pressed any more, the dashboard shows for good whether, and where
\* to, the debug log is written, even when a frame read both halves apart; and the
\* dwell that the loop takes, if a rate key was pressed.
ShownSettles ==
  <>[](kpc = "idle") =>
    <>[](/\ shown = [on |-> file # NoFile, path |-> curPath]
         /\ adjusted => header = ms)
=============================================================================
