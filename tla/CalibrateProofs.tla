-------------------------- MODULE CalibrateProofs --------------------------
(***************************************************************************)
(* Proofs about Calibrate, for every sequence of candidates, every set of  *)
(* supported intervals and every pattern of controller failures.           *)
(***************************************************************************)
EXTENDS Calibrate, TLAPS

\* Recommend's first loop: best is the lowest clean interval before i.  Its
\* second loop is reached only if there is none at all.
PickInv ==
  /\ pc \in {"next", "probe", "off", "check"} => i = 1 /\ best = 0
  /\ pc = "clean" =>
       /\ Len(probes) > 0
       /\ best # 0 => best \in 1..Len(probes) /\ Clean(probes[best])
       /\ \A k \in 1..Len(probes) : k < i /\ Clean(probes[k]) =>
            best # 0 /\ probes[best].advMs <= probes[k].advMs
  /\ pc = "least" =>
       best \in 1..Len(probes) /\ \A k \in 1..Len(probes) : ~Clean(probes[k])
  /\ LowestClean

\* A candidate is being cycled only while there is one.
CountInv == pc = "probe" => Len(probes) < Len(Candidates)

Uncycled(p) == p.fails = 0 /\ p.cycles = 0

\* A candidate ends without a cycle and without a failure only when ctx is
\* done, and --dense does not go on to Recommend then.
CutInv ==
  /\ pc \in {"next", "probe", "off", "check"} /\ ~cancelled =>
       \A k \in 1..Len(probes) : ~Uncycled(probes[k])
  /\ Dense /\ (pc \in {"clean", "least"} \/ Recommended) =>
       \A k \in 1..Len(probes) : ~Uncycled(probes[k])

\* Among failing probes, the rate of p is not above q's, nor its interval at equal rates.
Denominator(p) == IF p.cycles = 0 THEN p.fails ELSE p.cycles

NotAbove(p, q) ==
  /\ p.fails * Denominator(q) <= q.fails * Denominator(p)
  /\ p.fails * Denominator(q) = q.fails * Denominator(p) => p.advMs <= q.advMs

\* A probe without cycles is one failure, and Recommend's second loop keeps best
\* below what it has passed.
RateInv ==
  /\ \A k \in 1..Len(probes) : probes[k].cycles = 0 => probes[k].fails <= 1
  /\ pc = "least" => \A k \in 1..Len(probes) : k < i => NotAbove(probes[best], probes[k])
  /\ LowestRate

IInv == TypeOK /\ CountInv /\ PickInv /\ CutInv /\ RateInv

USE DEF ctlVars, calVars, pickVars, vars
-----------------------------------------------------------------------------
\* The probes are a sequence of probes.
LEMMA ProbesType ==
  TypeOK => /\ Len(probes) \in Nat /\ DOMAIN probes = 1..Len(probes)
            /\ \A k \in 1..Len(probes) :
                 probes[k].advMs \in Nat /\ probes[k].cycles \in Nat /\ probes[k].fails \in Nat
<1> SUFFICES ASSUME TypeOK
             PROVE  /\ Len(probes) \in Nat /\ DOMAIN probes = 1..Len(probes)
                    /\ \A k \in 1..Len(probes) : /\ probes[k].advMs \in Nat
                                                  /\ probes[k].cycles \in Nat
                                                  /\ probes[k].fails \in Nat
  OBVIOUS
<1>1. probes \in Seq(Probe) BY DEF TypeOK
<1>2. \A k \in 1..Len(probes) : probes[k] \in Probe BY <1>1
<1>. QED BY <1>1, <1>2 DEF Probe

LEMMA InitInv == Init => IInv
<1> SUFFICES ASSUME Init PROVE IInv
  OBVIOUS
<1>1. probes = <<>> /\ Len(probes) = 0 /\ pc = "next" /\ i = 1 /\ best = 0
  BY DEF Init
<1>2. Len(Candidates) \in Nat
  BY CandidatesAssumption
<1>3. TypeOK
  <2>1. probes \in Seq(Probe) /\ Len(probes) <= Len(Candidates) BY <1>1, <1>2
  <2>2. i \in 1..Len(probes) + 1 /\ best \in 0..Len(probes) BY <1>1
  <2>. QED BY <2>1, <2>2 DEF Init, TypeOK
<1>4. CountInv /\ PickInv /\ CutInv
  BY <1>1 DEF CountInv, PickInv, CutInv, LowestClean, Recommended
<1>5. RateInv
  BY <1>1 DEF RateInv, LowestRate, Recommended
<1>. QED BY <1>3, <1>4, <1>5 DEF IInv

\* A step keeps every variable in its type.
LEMMA TypeStep == IInv /\ [Next]_vars => TypeOK'
<1> SUFFICES ASSUME IInv, [Next]_vars PROVE TypeOK'
  OBVIOUS
<1> USE CandidatesAssumption DEF IInv, TypeOK
<1>1. CASE NoMore BY <1>1 DEF NoMore
<1>2. CASE ParamsAccepted BY <1>2 DEF ParamsAccepted
<1>3. CASE ParamsRejected
  <2>1. Candidate \in Nat BY <1>3 DEF ParamsRejected, Candidate
  <2>2. NoProbe(Candidate) \in Probe BY <2>1 DEF NoProbe, Probe
  <2>. QED BY <1>3, <2>2 DEF ParamsRejected
<1>4. CASE Cycle
  <2>1. PICK e \in CycleEnds :
          /\ adv' = e.adv
          /\ IF e.ok THEN ok' = ok + 1 /\ UNCHANGED fail
                     ELSE fail' = fail + 1 /\ UNCHANGED ok
    BY <1>4 DEF Cycle
  <2>2. e.adv \in BOOLEAN BY <2>1 DEF CycleEnds
  <2>3. ok' \in Nat /\ fail' \in Nat BY <2>1
  <2>4. UNCHANGED <<pc, cancelled, probes, pickVars>> BY <1>4 DEF Cycle
  <2>. QED BY <2>1, <2>2, <2>3, <2>4
<1>5. CASE ProbeEnds
  <2>1. Len(probes) < Len(Candidates) BY <1>5 DEF ProbeEnds, CountInv
  <2>2. Candidate \in Nat BY <2>1 DEF Candidate
  <2>3. [advMs |-> Candidate, cycles |-> ok + fail, fails |-> fail] \in Probe
    BY <2>2 DEF Probe
  <2>. QED BY <1>5, <2>1, <2>3 DEF ProbeEnds
<1>6. CASE FinalOff BY <1>6 DEF FinalOff
<1>7. CASE Check BY <1>7 DEF Check
<1>8. CASE PickClean
  <2>1. CASE i <= Len(probes)
    <3>1. i' = i + 1 /\ best' \in {i, best} BY <1>8, <2>1 DEF PickClean
    <3>. QED BY <1>8, <2>1, <3>1 DEF PickClean
  <2>2. CASE i > Len(probes)
    <3>1. Len(probes) > 0 BY <1>8 DEF PickClean, PickInv
    <3>2. i' \in {1, i} /\ best' \in {1, best} BY <1>8, <2>2 DEF PickClean
    <3>. QED BY <1>8, <2>2, <3>1, <3>2 DEF PickClean
  <2>. QED BY <2>1, <2>2
<1>9. CASE PickLeast BY <1>9 DEF PickLeast
<1>10. CASE Cancel BY <1>10 DEF Cancel
<1>11. CASE UNCHANGED vars BY <1>11
<1>. QED
  BY <1>1, <1>2, <1>3, <1>4, <1>5, <1>6, <1>7, <1>8, <1>9, <1>10, <1>11 DEF Next, Step
\* A step keeps the probes in step with the candidates.
LEMMA CountStep == IInv /\ [Next]_vars => CountInv'
<1> SUFFICES ASSUME IInv, [Next]_vars PROVE CountInv'
  OBVIOUS
<1> USE DEF IInv, TypeOK, CountInv
<1>1. CASE NoMore BY <1>1 DEF NoMore
<1>2. CASE ParamsAccepted BY <1>2 DEF ParamsAccepted
<1>3. CASE ParamsRejected BY <1>3 DEF ParamsRejected
<1>4. CASE Cycle BY <1>4 DEF Cycle
<1>5. CASE ProbeEnds BY <1>5 DEF ProbeEnds
<1>6. CASE FinalOff BY <1>6 DEF FinalOff
<1>7. CASE Check BY <1>7 DEF Check
<1>8. CASE PickClean BY <1>8 DEF PickClean
<1>9. CASE PickLeast BY <1>9 DEF PickLeast
<1>10. CASE Cancel BY <1>10 DEF Cancel
<1>11. CASE UNCHANGED vars BY <1>11
<1>. QED
  BY <1>1, <1>2, <1>3, <1>4, <1>5, <1>6, <1>7, <1>8, <1>9, <1>10, <1>11 DEF Next, Step

\* A step keeps what the loops of Recommend have established.
LEMMA PickStep == IInv /\ [Next]_vars => PickInv'
<1> SUFFICES ASSUME IInv, [Next]_vars PROVE PickInv'
  OBVIOUS
<1> USE DEF IInv, TypeOK, PickInv, LowestClean, Recommended
<1>1. CASE NoMore BY <1>1 DEF NoMore
<1>2. CASE ParamsAccepted BY <1>2 DEF ParamsAccepted
<1>3. CASE ParamsRejected BY <1>3 DEF ParamsRejected
<1>4. CASE Cycle BY <1>4 DEF Cycle
<1>5. CASE ProbeEnds BY <1>5 DEF ProbeEnds
<1>6. CASE FinalOff BY <1>6 DEF FinalOff
<1>7. CASE Check BY <1>7 DEF Check
<1>8. CASE PickClean
  <2>1. UNCHANGED probes BY <1>8 DEF PickClean
  <2>2. CASE i <= Len(probes)
    <3>1. /\ i \in 1..Len(probes) /\ pc = "clean" /\ UNCHANGED pc /\ i' = i + 1
          /\ best' = IF BetterClean(probes[i]) THEN i ELSE best
      BY <1>8, <2>2 DEF PickClean
    <3>2. best' # 0 => best' \in 1..Len(probes) /\ Clean(probes[best'])
      BY <3>1 DEF BetterClean
    <3>3. ASSUME NEW k \in 1..Len(probes), k < i', Clean(probes[k])
          PROVE  best' # 0 /\ probes[best'].advMs <= probes[k].advMs
      <4>1. CASE BetterClean(probes[i])
        BY <3>1, <3>3, <4>1, ProbesType DEF BetterClean
      <4>2. CASE ~BetterClean(probes[i])
        BY <3>1, <3>3, <4>2, ProbesType DEF BetterClean
      <4>. QED BY <4>1, <4>2
    <3>. QED BY <2>1, <2>2, <3>1, <3>2, <3>3 DEF Clean
  <2>3. CASE i > Len(probes) BY <1>8, <2>1, <2>3 DEF PickClean
  <2>. QED BY <2>2, <2>3
<1>9. CASE PickLeast
  <2>1. best' \in 1..Len(probes) /\ UNCHANGED probes BY <1>9 DEF PickLeast
  <2>. QED BY <1>9, <2>1 DEF PickLeast
<1>10. CASE Cancel BY <1>10 DEF Cancel
<1>11. CASE UNCHANGED vars BY <1>11
<1>. QED
  BY <1>1, <1>2, <1>3, <1>4, <1>5, <1>6, <1>7, <1>8, <1>9, <1>10, <1>11 DEF Next, Step

\* A step keeps uncycled candidates out of Recommend's hands in --dense.
LEMMA CutStep == IInv /\ [Next]_vars => CutInv'
<1> SUFFICES ASSUME IInv, [Next]_vars PROVE CutInv'
  OBVIOUS
<1> USE FlagsAssumption DEF IInv, TypeOK, CutInv, PickInv, Recommended
<1>1. CASE NoMore BY <1>1 DEF NoMore
<1>2. CASE ParamsAccepted BY <1>2 DEF ParamsAccepted
<1>3. CASE ParamsRejected BY <1>3 DEF ParamsRejected, NoProbe, Uncycled
<1>4. CASE Cycle BY <1>4 DEF Cycle
<1>5. CASE ProbeEnds BY <1>5 DEF ProbeEnds, Uncycled
<1>6. CASE FinalOff BY <1>6 DEF FinalOff
<1>7. CASE Check BY <1>7 DEF Check
<1>8. CASE PickClean BY <1>8 DEF PickClean
<1>9. CASE PickLeast BY <1>9 DEF PickLeast
<1>10. CASE Cancel BY <1>10 DEF Cancel
<1>11. CASE UNCHANGED vars BY <1>11
<1>. QED
  BY <1>1, <1>2, <1>3, <1>4, <1>5, <1>6, <1>7, <1>8, <1>9, <1>10, <1>11 DEF Next, Step

\* Products keep the order of their factors, and a positive factor cancels.
LEMMA Products ==
  ASSUME NEW x \in Nat, NEW y \in Nat, NEW z \in Nat \ {0}
  PROVE  (x <= y <=> x * z <= y * z) /\ (x = y <=> x * z = y * z)
<1>1. ASSUME NEW u \in Nat, NEW v \in Nat, u < v PROVE u * z < v * z
  <2>1. PICK w \in Nat : v = u + 1 + w
    <3>1. v - u - 1 \in Nat /\ v = u + 1 + (v - u - 1)
      BY <1>1
    <3> QED BY <3>1
  <2>2. v * z = u * z + z + w * z
    BY <2>1
  <2>3. w * z \in Nat /\ u * z \in Nat
    OBVIOUS
  <2> QED BY <2>2, <2>3
<1>2. x < y => x * z < y * z
  BY <1>1
<1>3. y < x => y * z < x * z
  BY <1>1
<1>4. x * z \in Nat /\ y * z \in Nat
  OBVIOUS
<1>5. x < y \/ x = y \/ y < x
  OBVIOUS
<1> QED BY <1>2, <1>3, <1>4, <1>5

\* The order of rates by cross-multiplication is transitive, and an equality at its
\* ends is one at both links.
LEMMA RatesTransitive ==
  ASSUME NEW p, NEW q, NEW r,
         p.fails \in Nat, q.fails \in Nat, r.fails \in Nat,
         Denominator(p) \in Nat \ {0}, Denominator(q) \in Nat \ {0}, Denominator(r) \in Nat \ {0},
         p.fails * Denominator(q) <= q.fails * Denominator(p),
         q.fails * Denominator(r) <= r.fails * Denominator(q)
  PROVE  /\ p.fails * Denominator(r) <= r.fails * Denominator(p)
         /\ p.fails * Denominator(r) = r.fails * Denominator(p) =>
              /\ p.fails * Denominator(q) = q.fails * Denominator(p)
              /\ q.fails * Denominator(r) = r.fails * Denominator(q)
<1> DEFINE a == p.fails
           b == q.fails
           c == r.fails
           d == Denominator(p)
           e == Denominator(q)
           f == Denominator(r)
<1>a. /\ a \in Nat /\ b \in Nat /\ c \in Nat
      /\ d \in Nat \ {0} /\ e \in Nat \ {0} /\ f \in Nat \ {0}
      /\ a * e <= b * d /\ b * f <= c * e
  OBVIOUS
<1>b. SUFFICES /\ a * f <= c * d
               /\ a * f = c * d => a * e = b * d /\ b * f = c * e
  OBVIOUS
<1> HIDE DEF a, b, c, d, e, f
<1>1. /\ a * e \in Nat /\ b * d \in Nat /\ b * f \in Nat /\ c * e \in Nat
      /\ a * f \in Nat /\ c * d \in Nat
  BY <1>a
<1>2. /\ (a * e) * f <= (b * d) * f
      /\ (a * e) * f = (b * d) * f => a * e = b * d
  BY <1>a, <1>1, Products
<1>3. /\ (b * f) * d <= (c * e) * d
      /\ (b * f) * d = (c * e) * d => b * f = c * e
  BY <1>a, <1>1, Products
<1>4. /\ (a * e) * f = (a * f) * e
      /\ (b * d) * f = (b * f) * d
      /\ (c * e) * d = (c * d) * e
  BY <1>a
<1>5. (a * f) * e \in Nat /\ (b * f) * d \in Nat /\ (c * d) * e \in Nat
  BY <1>a, <1>1
<1>6. (a * f) * e <= (c * d) * e
  BY <1>2, <1>3, <1>4, <1>5
<1>7. a * f <= c * d
  BY <1>a, <1>1, <1>6, Products
<1>8. ASSUME a * f = c * d PROVE a * e = b * d /\ b * f = c * e
  <2>1. (a * f) * e = (c * d) * e
    BY <1>8
  <2>2. (a * f) * e = (b * f) * d /\ (b * f) * d = (c * d) * e
    BY <1>2, <1>3, <1>4, <1>5, <2>1
  <2> QED BY <1>2, <1>3, <1>4, <2>2
<1> QED BY <1>7, <1>8

\* A step keeps best below what Recommend's second loop has passed.
LEMMA RateStep == IInv /\ [Next]_vars => RateInv'
<1> SUFFICES ASSUME IInv, [Next]_vars PROVE RateInv'
  OBVIOUS
<1> USE DEF IInv, RateInv
<1>l. Len(probes) \in Nat /\ DOMAIN probes = 1..Len(probes)
  BY ProbesType
<1>1. CASE NoMore \/ ParamsAccepted \/ Cycle \/ FinalOff
  <2>1. UNCHANGED probes /\ pc' \notin {"least", "done"}
    BY <1>1 DEF NoMore, ParamsAccepted, Cycle, FinalOff
  <2> QED BY <2>1 DEF LowestRate, Recommended
<1>2. CASE ParamsRejected \/ ProbeEnds
  <2>1. pc' = "next"
    BY <1>2 DEF ParamsRejected, ProbeEnds
  <2>2. PICK p \in Probe : probes' = Append(probes, p) /\ (p.cycles = 0 => p.fails <= 1)
    <3>1. Candidate \in Nat
      BY <1>2, CandidatesAssumption DEF ParamsRejected, ProbeEnds, Candidate, CountInv, TypeOK
    <3>2. CASE ParamsRejected
      <4>1. NoProbe(Candidate) \in Probe /\ NoProbe(Candidate).fails = 1
        BY <3>1 DEF NoProbe, Probe
      <4> QED BY <3>2, <4>1 DEF ParamsRejected
    <3>3. CASE ProbeEnds
      <4> DEFINE p == [advMs |-> Candidate, cycles |-> ok + fail, fails |-> fail]
      <4>1. p \in Probe /\ (p.cycles = 0 => p.fails <= 1)
        BY <3>1 DEF Probe, TypeOK
      <4> QED BY <3>3, <4>1 DEF ProbeEnds
    <3> QED BY <1>2, <3>2, <3>3
  <2>3. /\ Len(probes') = Len(probes) + 1 /\ probes'[Len(probes) + 1] = p
        /\ \A k \in 1..Len(probes) : probes'[k] = probes[k]
    BY <2>2 DEF TypeOK
  <2>4. \A k \in 1..Len(probes') : k \in 1..Len(probes) \/ k = Len(probes) + 1
    BY <1>l, <2>3
  <2>5. \A k \in 1..Len(probes') : probes'[k].cycles = 0 => probes'[k].fails <= 1
    BY <2>2, <2>3, <2>4
  <2> QED BY <2>1, <2>5 DEF LowestRate, Recommended
<1>3. CASE Check
  <2>1. UNCHANGED probes /\ pc' # "least" /\ best' = 0
    BY <1>3 DEF Check, PickInv
  <2> QED BY <2>1 DEF LowestRate, Recommended
<1>4. CASE PickClean
  <2>1. UNCHANGED probes /\ pc = "clean"
    BY <1>4 DEF PickClean
  <2>2. CASE pc' = "clean"
    BY <2>1, <2>2 DEF LowestRate, Recommended
  <2>3. CASE pc' = "least"
    <3>1. i' = 1
      BY <1>4, <2>1, <2>3 DEF PickClean
    <3> QED BY <1>l, <2>1, <2>3, <3>1 DEF LowestRate, Recommended
  <2>4. CASE pc' = "done"
    <3>1. best' = best /\ best # 0
      BY <1>4, <2>1, <2>4 DEF PickClean
    <3>2. best \in DOMAIN probes /\ probes[best].fails = 0
      BY <1>l, <2>1, <3>1 DEF PickInv, Clean
    <3>3. ~(\A k \in DOMAIN probes : probes[k].fails > 0)'
      BY <2>1, <3>2
    <3> QED BY <2>1, <2>4, <3>3 DEF LowestRate
  <2> QED BY <1>4, <2>1, <2>2, <2>3, <2>4 DEF PickClean
<1>5. CASE PickLeast
  <2>1. UNCHANGED probes /\ pc = "least"
    BY <1>5 DEF PickLeast
  <2>2. /\ best \in 1..Len(probes) /\ i \in 1..Len(probes) + 1
        /\ \A k \in 1..Len(probes) : k < i => NotAbove(probes[best], probes[k])
    BY <2>1 DEF PickInv, TypeOK
  <2>3. \A k \in 1..Len(probes) :
          /\ probes[k].fails \in Nat \ {0} /\ probes[k].cycles \in Nat /\ probes[k].advMs \in Nat
          /\ probes[k].cycles = 0 => probes[k].fails = 1
    BY <2>1, ProbesType DEF PickInv, Clean
  <2>4. \A k \in 1..Len(probes) : Denominator(probes[k]) \in Nat \ {0}
    BY <2>3 DEF Denominator
  <2>5. \A k, m \in 1..Len(probes) :
          RateBelow(probes[k], probes[m]) <=>
            probes[k].fails * Denominator(probes[m]) < probes[m].fails * Denominator(probes[k])
    BY <2>3 DEF RateBelow, Denominator
  <2>6. CASE i <= Len(probes)
    <3>1. /\ pc' = "least" /\ i' = i + 1 /\ i \in 1..Len(probes)
          /\ best' = IF BetterRate(probes[i], probes[best]) THEN i ELSE best
      BY <1>5, <2>1, <2>2, <2>6 DEF PickLeast
    <3> DEFINE n(k) == probes[k].fails
               m(k) == Denominator(probes[k])
    <3>2. n(i) \in Nat /\ n(best) \in Nat /\ m(i) \in Nat \ {0} /\ m(best) \in Nat \ {0}
      BY <2>2, <2>3, <2>4, <3>1
    <3>3. n(i) * m(best) \in Nat /\ n(best) * m(i) \in Nat
      BY <3>2
    <3>4. CASE BetterRate(probes[i], probes[best])
      <4>1. /\ n(i) * m(best) <= n(best) * m(i)
            /\ n(i) * m(best) = n(best) * m(i) => probes[i].advMs < probes[best].advMs
        BY <2>2, <2>5, <3>1, <3>3, <3>4 DEF BetterRate
      <4>2. ASSUME NEW k \in 1..Len(probes), k < i PROVE NotAbove(probes[i], probes[k])
        <5>1. n(k) \in Nat /\ m(k) \in Nat \ {0}
          BY <2>3, <2>4
        <5>2. /\ n(best) * m(k) <= n(k) * m(best)
              /\ n(best) * m(k) = n(k) * m(best) => probes[best].advMs <= probes[k].advMs
          BY <2>2, <4>2 DEF NotAbove
        <5>3. /\ n(i) * m(k) <= n(k) * m(i)
              /\ n(i) * m(k) = n(k) * m(i) =>
                   n(i) * m(best) = n(best) * m(i) /\ n(best) * m(k) = n(k) * m(best)
          BY <3>2, <4>1, <5>1, <5>2, RatesTransitive
        <5>4. /\ probes[i].advMs \in Nat /\ probes[best].advMs \in Nat /\ probes[k].advMs \in Nat
          BY <2>2, <2>3, <3>1
        <5> QED BY <4>1, <5>2, <5>3, <5>4 DEF NotAbove
      <4>3. NotAbove(probes[i], probes[i])
        BY <2>3, <2>4, <3>1 DEF NotAbove
      <4>4. \A k \in 1..Len(probes) : k < i' => k < i \/ k = i
        BY <2>2, <3>1
      <4> QED BY <2>1, <3>1, <3>4, <4>2, <4>3, <4>4 DEF LowestRate, Recommended
    <3>5. CASE ~BetterRate(probes[i], probes[best])
      <4>1. /\ ~RateBelow(probes[i], probes[best])
            /\ RateBelow(probes[best], probes[i]) \/ ~(probes[i].advMs < probes[best].advMs)
        BY <3>5 DEF BetterRate
      <4>2. /\ n(best) * m(i) <= n(i) * m(best)
            /\ n(best) * m(i) < n(i) * m(best) \/ ~(probes[i].advMs < probes[best].advMs)
        BY <2>2, <2>5, <3>1, <3>3, <4>1
      <4>3. probes[i].advMs \in Nat /\ probes[best].advMs \in Nat
        BY <2>2, <2>3, <3>1
      <4>4. NotAbove(probes[best], probes[i])
        BY <3>3, <4>2, <4>3 DEF NotAbove
      <4>5. \A k \in 1..Len(probes) : k < i' => k < i \/ k = i
        BY <2>2, <3>1
      <4> QED BY <2>1, <2>2, <3>1, <3>5, <4>4, <4>5 DEF LowestRate, Recommended
    <3> QED BY <3>4, <3>5
  <2>7. CASE i > Len(probes)
    <3>0. ~(i <= Len(probes))
      BY <1>l, <2>2, <2>7
    <3>1. pc' = "done" /\ best' = best
      BY <1>5, <2>1, <3>0 DEF PickLeast
    <3>2. \A k \in 1..Len(probes) : NotAbove(probes[best], probes[k])
      BY <1>l, <2>2, <2>7
    <3>3. LowestRate'
      BY <1>l, <2>1, <3>1, <3>2 DEF LowestRate, NotAbove, Denominator
    <3> QED BY <2>1, <3>1, <3>3
  <2> QED BY <1>l, <2>2, <2>6, <2>7
<1>6. CASE Cancel \/ UNCHANGED vars
  <2>1. UNCHANGED <<pc, probes, pickVars>>
    BY <1>6 DEF Cancel
  <2> QED BY <2>1 DEF LowestRate, Recommended, NotAbove, Denominator
<1> QED BY <1>1, <1>2, <1>3, <1>4, <1>5, <1>6 DEF Next, Step

LEMMA Inductive == Spec => []IInv
<1>1. IInv /\ [Next]_vars => IInv'
  BY TypeStep, CountStep, PickStep, CutStep, RateStep DEF IInv
<1>. QED BY InitInv, <1>1, PTL DEF Spec

-----------------------------------------------------------------------------

\* Every variable of the calibration keeps its type, the loop indexes stay
\* within the probes, and there are never more probes than candidates.
THEOREM TypeCorrect == Spec => []TypeOK
<1>1. IInv => TypeOK BY DEF IInv
<1>. QED BY Inductive, <1>1, PTL

\* Recommend chooses the lowest interval probed without a failure whenever
\* there is one, for probes of any number and in any order.
THEOREM ChoosesLowestClean == Spec => []LowestClean
<1>1. IInv => LowestClean BY DEF IInv, PickInv
<1>. QED BY Inductive, <1>1, PTL

\* If every interval failed, Recommend chooses one of the lowest failure rate, and of
\* those the lowest interval, whatever the counts: the order by cross-multiplication is
\* transitive and its ties are.
THEOREM ChoosesLowestRate == Spec => []LowestRate
<1>1. IInv => LowestRate BY DEF IInv, RateInv
<1>. QED BY Inductive, <1>1, PTL

\* In --dense no recommendation rests on an interval that was never cycled,
\* whenever a signal arrives.
THEOREM DenseSustained == ASSUME Dense PROVE Spec => []Sustained
<1>1. IInv => Sustained
  <2> SUFFICES ASSUME IInv, Recommended, probes[best].fails = 0
               PROVE  probes[best].cycles > 0
    BY DEF Sustained
  <2>1. best \in 1..Len(probes) BY ProbesType DEF IInv, TypeOK, Recommended
  <2>2. ~Uncycled(probes[best]) BY <2>1 DEF IInv, CutInv
  <2>. QED BY <2>1, <2>2, ProbesType DEF IInv, Uncycled
<1>. QED BY Inductive, <1>1, PTL
=============================================================================
