----------------------------- MODULE Calibrate -----------------------------
(***************************************************************************)
(* The calibration of --dense and of the benchmark: engine.Calibrate       *)
(* probes the candidate advertising intervals one after the other, and     *)
(* tune.Recommend chooses one from the probes; calibrateDense and          *)
(* runBenchmark of cmd/hohd differ in what they do with a calibration cut  *)
(* short by a signal.                                                      *)
(***************************************************************************)
EXTENDS Integers, Sequences

CONSTANTS
  Candidates,  \* the advertising intervals to probe, in ms
  Supported,   \* those the controller accepts at all
  Strict,      \* the controller refuses parameters while it advertises
  MayFail,     \* the controller may refuse or not confirm a legal command
  Dense,       \* --dense (calibrateDense) or the benchmark (runBenchmark)
  MaxCycles    \* bound: decoy cycles in one candidate's time

ASSUME CandidatesAssumption == Candidates \in Seq(Nat \ {0}) /\ Candidates # <<>>
ASSUME FlagsAssumption ==
  Strict \in BOOLEAN /\ MayFail \in BOOLEAN /\ Dense \in BOOLEAN
ASSUME MaxCyclesAssumption == MaxCycles \in Nat \ {0}

VARIABLES
  pc,          \* "next", "probe", "off", "check", "clean", "least", "done"
  cancelled,   \* ctx is done
  adv,         \* the controller is advertising
  probes,      \* the probes made so far
  ok, fail,    \* cycles of the candidate under way
  i,           \* Recommend's loop index
  best         \* the index of the recommended probe, 0 for none

ctlVars  == <<cancelled, adv>>
calVars  == <<probes, ok, fail>>
pickVars == <<i, best>>
vars == <<pc, ctlVars, calVars, pickVars>>

Probe == [advMs: Nat, cycles: Nat, fails: Nat]

NoProbe(ms) == [advMs |-> ms, cycles |-> 0, fails |-> 1]

Candidate == Candidates[Len(probes) + 1]

Init ==
  /\ pc = "next" /\ cancelled = FALSE /\ adv = FALSE
  /\ probes = <<>> /\ ok = 0 /\ fail = 0
  /\ i = 1 /\ best = 0

-----------------------------------------------------------------------------
(* engine.Calibrate.                                                       *)

NoMore ==
  /\ pc = "next"
  /\ cancelled \/ Len(probes) = Len(Candidates)
  /\ pc' = "off"
  /\ UNCHANGED <<ctlVars, calVars, pickVars>>

\* SetAdvParams is legal only while advertising is off; a lenient controller,
\* like the one of the engine's tests, does not mind.
ParamsLegal == (Strict => ~adv) /\ Candidate \in Supported

ParamsAccepted ==
  /\ pc = "next" /\ ~cancelled /\ Len(probes) < Len(Candidates)
  /\ ParamsLegal
  /\ pc' = "probe"
  /\ ok' = 0 /\ fail' = 0
  /\ UNCHANGED <<ctlVars, probes, pickVars>>

ParamsRejected ==
  /\ pc = "next" /\ ~cancelled /\ Len(probes) < Len(Candidates)
  /\ MayFail \/ ~ParamsLegal
  /\ probes' = Append(probes, NoProbe(Candidate))
  /\ UNCHANGED <<pc, ctlVars, ok, fail, pickVars>>

\* What one decoy cycle (Engine's CycleOff to CycleOn) may come to: it is
\* confirmed and the controller advertises; or it fails, the controller left
\* advertising (a refused disable, an unconfirmed enable) or silent.
CycleEnds ==
  {e \in [adv: BOOLEAN, ok: BOOLEAN] : (e.ok => e.adv) /\ (~MayFail => e.ok)}

Cycle ==
  /\ pc = "probe" /\ ~cancelled
  /\ ok + fail < MaxCycles
  /\ \E e \in CycleEnds :
       /\ adv' = e.adv
       /\ IF e.ok THEN ok' = ok + 1 /\ UNCHANGED fail ELSE fail' = fail + 1 /\ UNCHANGED ok
  /\ UNCHANGED <<pc, cancelled, probes, pickVars>>

\* The candidate's time is over, after at least one cycle, or ctx is done.
ProbeEnds ==
  /\ pc = "probe"
  /\ cancelled \/ ok + fail > 0
  /\ probes' = Append(probes, [advMs |-> Candidate, cycles |-> ok + fail, fails |-> fail])
  /\ pc' = "next"
  /\ UNCHANGED <<ctlVars, ok, fail, pickVars>>

FinalOff ==
  /\ pc = "off"
  /\ \/ adv' = FALSE
     \/ MayFail /\ UNCHANGED adv
  /\ pc' = "check"
  /\ UNCHANGED <<cancelled, calVars, pickVars>>

-----------------------------------------------------------------------------
(* tune.Recommend.                                                         *)

\* Variant of Check that uses the probes of a calibration cut short.
CheckNothing ==
  /\ pc = "check"
  /\ pc' = IF probes = <<>> THEN "done" ELSE "clean"
  /\ UNCHANGED <<ctlVars, calVars, pickVars>>

\* Only --dense looks at ctx before it uses the probes.
Check ==
  /\ pc = "check"
  /\ pc' = IF (Dense /\ cancelled) \/ probes = <<>> THEN "done" ELSE "clean"
  /\ UNCHANGED <<ctlVars, calVars, pickVars>>

\* First loop: the lowest interval without a failure.
Clean(p) == p.fails = 0

\* Variant of BetterClean: the first clean interval is kept.
FirstClean(p) == Clean(p) /\ best = 0

BetterClean(p) == Clean(p) /\ (best = 0 \/ p.advMs < probes[best].advMs)

PickClean ==
  /\ pc = "clean"
  /\ IF i <= Len(probes)
       THEN /\ best' = IF BetterClean(probes[i]) THEN i ELSE best
            /\ i' = i + 1 /\ UNCHANGED pc
       ELSE IF best # 0 THEN pc' = "done" /\ UNCHANGED pickVars
       ELSE pc' = "least" /\ i' = 1 /\ best' = 1
  /\ UNCHANGED <<ctlVars, calVars>>

\* Probe.FailRate of p against q's, as fractions; no cycle counts as rate 1.
RateBelow(p, q) ==
  LET den(x) == IF x.cycles = 0 THEN 1 ELSE x.cycles
      num(x) == IF x.cycles = 0 THEN 1 ELSE x.fails
  IN  num(p) * den(q) < num(q) * den(p)

\* Variant of BetterRate without the tie-break.
BetterRateOnly(p, q) == RateBelow(p, q)

BetterRate(p, q) ==
  \/ RateBelow(p, q)
  \/ ~RateBelow(q, p) /\ p.advMs < q.advMs

\* Second loop: the lowest failure rate, ties to the lower interval.
PickLeast ==
  /\ pc = "least"
  /\ IF i <= Len(probes)
       THEN /\ best' = IF BetterRate(probes[i], probes[best]) THEN i ELSE best
            /\ i' = i + 1 /\ UNCHANGED pc
       ELSE pc' = "done" /\ UNCHANGED pickVars
  /\ UNCHANGED <<ctlVars, calVars>>

-----------------------------------------------------------------------------
Step ==
  \/ NoMore \/ ParamsAccepted \/ ParamsRejected \/ Cycle \/ ProbeEnds \/ FinalOff
  \/ Check \/ PickClean \/ PickLeast

Cancel ==
  /\ ~cancelled /\ cancelled' = TRUE
  /\ UNCHANGED <<pc, adv, calVars, pickVars>>

Next == Step \/ Cancel

Spec == Init /\ [][Next]_vars

-----------------------------------------------------------------------------
TypeOK ==
  /\ pc \in {"next", "probe", "off", "check", "clean", "least", "done"}
  /\ cancelled \in BOOLEAN /\ adv \in BOOLEAN
  /\ probes \in Seq(Probe) /\ Len(probes) <= Len(Candidates)
  /\ ok \in Nat /\ fail \in Nat
  /\ i \in 1..Len(probes) + 1 /\ best \in 0..Len(probes)

Recommended == pc = "done" /\ best # 0

\* If any interval was probed without a failure, the recommendation is the
\* lowest of those (Recommend's first loop).
LowestClean ==
  Recommended =>
    \A k \in DOMAIN probes :
      Clean(probes[k]) => Clean(probes[best]) /\ probes[best].advMs <= probes[k].advMs

\* If none was, it has the lowest failure rate, and among equal rates the lowest
\* interval (Recommend's second loop).  A candidate without cycles has rate 1.
LowestRate ==
  LET of(p) == IF p.cycles = 0 THEN p.fails ELSE p.cycles IN
  Recommended /\ (\A k \in DOMAIN probes : probes[k].fails > 0) =>
    \A k \in DOMAIN probes :
      LET b == probes[best].fails * of(probes[k])
          p == probes[k].fails * of(probes[best])
      IN  b <= p /\ (b = p => probes[best].advMs <= probes[k].advMs)

\* A recommended interval without a failure has been tried: no recommendation
\* rests on a candidate that a signal cut short before its first cycle.
Sustained ==
  Recommended /\ probes[best].fails = 0 => probes[best].cycles > 0

\* Every candidate that the controller supports is cycled.
EachProbed ==
  pc = "done" /\ ~cancelled =>
    \A k \in DOMAIN Candidates :
      Candidates[k] \in Supported => probes[k].cycles > 0
=============================================================================
