--------------------------- MODULE DashboardProofs ---------------------------
(***************************************************************************)
(* Proofs about Dashboard, for any mirrored controls, any window heights,  *)
(* any number of rows and of keys.                                         *)
(***************************************************************************)
EXTENDS Dashboard, SequenceTheorems, WellFoundedInduction,
        TLAPS

\* The frame being prepared has its history of control values.
Collecting == dpc \in {"read", "write", "bounds", "snapshot"}

Domains ==
  /\ DOMAIN ctl = SwitchSet /\ DOMAIN mirror = SwitchSet /\ DOMAIN held = SwitchSet
  /\ kpc = "mirror" => flipped \in SwitchSet

\* Every offset is one that its table can be scrolled to; while a frame is put
\* together no table gets shorter than when its limit was computed.
Scrolled ==
  /\ \A t \in Tables : offset[t] <= limit[t]
  /\ dpc = "snapshot" =>
       \A t \in Tables : limit[t] = 0 \/ limit[t] <= rows[t] - viewport

\* A value is in the history while it can still be copied into a mirror, and from
\* the copy on.
Mirrored ==
  /\ \A s \in SwitchSet : held[s] \subseteq 0..Values(s) - 1
  /\ Collecting => \A s \in SwitchSet : ctl[s] \in held[s]
  /\ dpc \in {"read", "write"} =>
       /\ next \in 1..Len(Switches)
       /\ \A i \in 1..next - 1 : mirror[Switches[i]] \in held[Switches[i]]
  /\ dpc = "write" => seen \in held[Switches[next]]
  /\ dpc \in {"bounds", "snapshot"} => \A s \in SwitchSet : mirror[s] \in held[s]

Restored ==
  /\ dpc = "gone" => ~raw /\ ~alt
  /\ mpc = "exit" => dpc = "gone"

IInv == TypeOK /\ Domains /\ Scrolled /\ Mirrored /\ Restored
-----------------------------------------------------------------------------
\* Max and Min of FiniteSetsExt do what they say: the limit of a table is its rows
\* beyond the window, never negative, and a smallest number is one of the numbers.
LEMMA MaxOfTwo ==
  ASSUME NEW a \in Int
  PROVE  Max({a, 0}) = IF a > 0 THEN a ELSE 0
<1> DEFINE m == IF a > 0 THEN a ELSE 0
<1>1. m \in {a, 0} /\ \A y \in {a, 0} : m >= y
  OBVIOUS
<1>2. \A x \in {a, 0} : (\A y \in {a, 0} : x >= y) => x = m
  OBVIOUS
<1> QED BY <1>1, <1>2 DEF Max

\* The least of a set of numbers is one of them.
LEMMA MinIsOne ==
  ASSUME NEW S \in SUBSET Nat, S # {}
  PROVE  Min(S) \in S
<1> DEFINE R == OpToRel(<, Nat)
<1>1. IsWellFoundedOn(R, Nat)
  BY NatLessThanWellFounded
<1> HIDE DEF R
<1>2. PICK x \in S : \A y \in S : ~ (<<y, x>> \in R)
  BY <1>1, WFMin
<1>3. \A y \in S : x =< y
  <2> SUFFICES ASSUME NEW y \in S PROVE x =< y
    OBVIOUS
  <2>1. <<y, x>> \notin R /\ x \in Nat /\ y \in Nat
    BY <1>2
  <2>2. ~ (y < x)
    BY <2>1 DEF R, OpToRel
  <2> QED BY <2>1, <2>2
<1> QED BY <1>3 DEF Min

\* What the key thread takes next is part of the bytes it holds.
LEMMA ItemWithin ==
  ASSUME data \in Seq(Bytes), data # <<>>
  PROVE  Item.len \in 0..Len(data)
<1>1. CASE Head(data) = "esc" /\ ~forced
  <2> DEFINE ends == {j \in 3..Len(data) : data[j] \in Finals}
  <2>l. Len(data) \in Nat /\ Len(data) > 0
    BY data # <<>>
  <2>1. CASE Len(data) < 2
    BY <1>1, <2>1, <2>l DEF Item, ParseEsc
  <2>2. CASE Len(data) >= 2 /\ data[2] # "["
    <3>1. ParseEsc(data) = [len |-> 1, op |-> "none"]
      BY <2>2, <2>l DEF ParseEsc
    <3>2. Item.len = 1
      BY <1>1, <3>1 DEF Item
    <3> QED BY ONLY <3>2, <2>l
  <2>3. CASE Len(data) >= 2 /\ data[2] = "[" /\ ends = {}
    BY <1>1, <2>3, <2>l DEF Item, ParseEsc
  <2>4. CASE Len(data) >= 2 /\ data[2] = "[" /\ ends # {}
    <3>s. ends \in SUBSET Nat /\ ends # {}
      BY <2>4, <2>l
    <3>1. Min(ends) \in ends
      BY ONLY <3>s, MinIsOne
    <3>2. ParseEsc(data).len = Min(ends)
      BY <2>4, <2>l DEF ParseEsc
    <3> QED BY <1>1, <3>1, <3>2, <2>l DEF Item
  <2> QED BY <2>1, <2>2, <2>3, <2>4, <2>l
<1>2. CASE ~ (Head(data) = "esc" /\ ~forced)
  <2>1. Len(data) \in Nat /\ Len(data) > 0
    BY data # <<>>
  <2> QED BY <1>2, <2>1 DEF Item
<1> QED BY <1>1, <1>2

\* The rest of a byte sequence, from any place on, is one.
LEMMA RestType ==
  ASSUME NEW s \in Seq(Bytes), NEW m \in Nat, NEW n \in Nat, n <= Len(s)
  PROVE  SubSeq(s, m + 1, n) \in Seq(Bytes)
<1>1. \A i \in m + 1..n : s[i] \in Bytes
  OBVIOUS
<1>2. m + 1 \in Int /\ n \in Int
  OBVIOUS
<1> QED BY ONLY <1>1, <1>2, SubSeqProperties

\* Every byte a key sends is one the terminal can send.
LEMMA KeyBytesType ==
  ASSUME NEW k \in Typed
  PROVE  KeyBytes[k] \in Seq(Bytes)
<1>1. k \in {"up", "pgup", "pgdn", "esc", "a", "s", "space", "d", "j", "home", "end",
             "tab", "help", "q"}
  BY TypedAssumption DEF KeyBytes
<1>2. CASE k \in {"esc", "a", "s", "space", "d", "j"}
  <2>1. \E b \in Bytes : KeyBytes[k] = <<b>>
    BY <1>2 DEF KeyBytes, Bytes
  <2> QED BY <2>1
<1>3. CASE k \in {"home", "end", "tab", "help", "q"}
  <2>1. \E b \in Bytes : KeyBytes[k] = <<b>>
    BY <1>3 DEF KeyBytes, Bytes
  <2> QED BY <2>1
<1>4. CASE k = "up"
  <2>1. KeyBytes[k] = <<"esc", "[", "a">>
    BY <1>4 DEF KeyBytes
  <2> QED BY <2>1 DEF Bytes
<1>5. CASE k = "pgup"
  <2>1. KeyBytes[k] = <<"esc", "[", "5", "~">>
    BY <1>5 DEF KeyBytes
  <2> QED BY <2>1 DEF Bytes
<1>6. CASE k = "pgdn"
  <2>1. KeyBytes[k] = <<"esc", "[", "6", "~">>
    BY <1>6 DEF KeyBytes
  <2> QED BY <2>1 DEF Bytes
<1> QED BY <1>1, <1>2, <1>3, <1>4, <1>5, <1>6

\* An offset within the limits of a table stays a number of rows when it is clamped.
LEMMA ClampRange ==
  ASSUME NEW o \in Int, NEW max \in Nat
  PROVE  Clamp(o, max) \in 0..max
BY DEF Clamp

\* What a key adds to an offset is a number.
LEMMA PageDelta ==
  ASSUME TypeOK, NEW op \in Moves
  PROVE  Delta(op) \in Int
<1>v. viewport \in Viewports \cup {0}
  BY DEF TypeOK
<1>1. viewport \in Nat
  BY <1>v, BoundsAssumption
<1>2. Page \in Int
  BY <1>1 DEF Page
<1> QED BY <1>2 DEF Delta, Moves
-----------------------------------------------------------------------------
(* Types, one lemma for each part of the state.                            *)

InputOK ==
  /\ tty \in Seq(Bytes) /\ data \in Seq(Bytes) /\ carry \in Seq(Bytes)
  /\ kpc \in {"top", "read", "handle", "mirror", "gone"}
  /\ flipped \in SwitchSet \cup {"none"}

FlagsOK == {forced, help, cancelled, raw, alt, wrong, gapped} \subseteq BOOLEAN

ControlsOK ==
  /\ \A s \in SwitchSet : ctl[s] \in 0..Values(s) - 1 /\ mirror[s] \in 0..Values(s) - 1
  /\ next \in 1..Len(Switches) + 1 /\ seen \in 0..2

TablesOK ==
  /\ devices \in 0..MaxRows /\ focus \in Tables
  /\ {offset, limit, rows} \subseteq [Tables -> 0..MaxRows]
  /\ viewport \in Viewports \cup {0}

PhasesOK ==
  /\ dpc \in {"start", "learned", "read", "write", "bounds", "snapshot", "wait", "gone"}
  /\ mpc \in {"run", "join", "exit"} /\ typed \in 0..MaxKeys

\* The five are TypeOK.
LEMMA TypeParts == TypeOK <=> InputOK /\ FlagsOK /\ ControlsOK /\ TablesOK /\ PhasesOK
BY DEF TypeOK, InputOK, FlagsOK, ControlsOK, TablesOK, PhasesOK

\* The steps of the key thread that take bytes leave bytes behind.
LEMMA TakesType ==
  ASSUME InputOK, NEW ops, Takes(ops)
  PROVE  data' \in Seq(Bytes) /\ tty' = tty /\ carry' = carry
<1>1. data \in Seq(Bytes) /\ data # <<>> /\ data' = SubSeq(data, Item.len + 1, Len(data))
  BY DEF InputOK, Takes
<1>2. Item.len \in Nat /\ Len(data) \in Nat
  BY <1>1, ItemWithin
<1>3. data' \in Seq(Bytes)
  BY <1>1, <1>2, RestType
<1> QED BY <1>3 DEF Takes

\* The bytes are bytes.
LEMMA InputStep ==
  ASSUME InputOK, Domains, Next
  PROVE  InputOK'
<1> USE DEF InputOK
<1>1. CASE KeyLoop \/ Handled
  <2>1. /\ tty' = tty /\ flipped' = flipped /\ kpc' \in {"top", "read", "gone"}
        /\ data' \in {data, <<>>} /\ carry' \in {carry, data}
    BY <1>1 DEF KeyLoop, Handled
  <2>2. <<>> \in Seq(Bytes)
    OBVIOUS
  <2> HIDE DEF Bytes
  <2>3. data' \in Seq(Bytes)
    BY <2>1, <2>2
  <2>4. carry' \in Seq(Bytes)
    BY <2>1
  <2> QED BY <2>1, <2>3, <2>4
<1>2. CASE Read
  <2>1. PICK n \in 1..Len(tty) :
          data' = carry \o SubSeq(tty, 1, n) /\ tty' = SubSeq(tty, n + 1, Len(tty))
    BY <1>2 DEF Read
  <2>2. n \in Nat /\ Len(tty) \in Nat /\ n <= Len(tty) /\ 0 \in Nat /\ 0 + 1 = 1
    OBVIOUS
  <2>3. SubSeq(tty, 1, n) \in Seq(Bytes) /\ tty' \in Seq(Bytes)
    BY <2>1, <2>2, RestType
  <2>4. data' \in Seq(Bytes)
    BY <2>1, <2>3
  <2>5. kpc' = "handle" /\ carry' = <<>> /\ UNCHANGED flipped
    BY <1>2 DEF Read
  <2> QED BY <2>3, <2>4, <2>5
<1>3. CASE ReadTimeout
  <2>1. CASE carry = <<>>
    BY <1>3, <2>1 DEF ReadTimeout
  <2>2. CASE carry # <<>>
    <3>1. Tail(carry) \in Seq(Bytes)
      BY <2>2, HeadTailProperties
    <3>2. /\ tty' = tty /\ flipped' = flipped /\ kpc' = "handle"
          /\ data' = Tail(carry) /\ carry' = <<>>
      BY <1>3, <2>2 DEF ReadTimeout
    <3> QED BY <3>1, <3>2
  <2> QED BY <2>1, <2>2
<1>4. ASSUME Ignore \/ Scroll \/ ScrollToEnd \/ CycleFocus \/ ToggleHelp \/ Flip \/ Quit
      PROVE  InputOK'
  <2>1. \E ops : Takes(ops)
    BY <1>4 DEF Ignore, Scroll, ScrollToEnd, CycleFocus, ToggleHelp, Flip, Quit
  <2>2. data' \in Seq(Bytes) /\ tty' = tty /\ carry' = carry
    BY <2>1, TakesType
  <2>3. kpc' \in {kpc, "mirror", "top", "gone"} /\ flipped' \in SwitchSet \cup {"none"}
    BY <1>4 DEF Ignore, Scroll, ScrollToEnd, CycleFocus, ToggleHelp, Flip, Quit
  <2> QED BY <2>2, <2>3
<1>5. CASE MirrorFlip
  BY <1>5 DEF MirrorFlip
<1>6. CASE Start
  BY <1>6 DEF Start
<1>7. ASSUME NEW k \in Typed, Type(k)
      PROVE  InputOK'
  <2>1. tty' = tty \o KeyBytes[k] /\ UNCHANGED <<kpc, data, carry, flipped>>
    BY <1>7 DEF Type
  <2>2. tty' \in Seq(Bytes)
    BY <2>1, KeyBytesType
  <2> QED BY <2>1, <2>2
<1>8. ASSUME \/ MirrorLearned \/ ReadSwitch \/ WriteMirror \/ SetScrollBounds \/ Snapshot
             \/ DrawTick \/ DrawEnds \/ EngineEnds \/ Join \/ NewVendor \/ Learned \/ Signal
      PROVE  InputOK'
  BY <1>8 DEF MirrorLearned, ReadSwitch, WriteMirror, SetScrollBounds, Snapshot, DrawTick,
     DrawEnds, EngineEnds, Join, NewVendor, Learned, Signal, keyVars
<1> QED BY <1>1, <1>2, <1>3, <1>4, <1>5, <1>6, <1>7, <1>8
        DEF Next, KeyThread, KeyThreadRuns, DrawThread, Main, Environment

\* Truth values stay truth values.
LEMMA FlagsStep ==
  ASSUME FlagsOK, Next
  PROVE  FlagsOK'
<1> USE DEF FlagsOK
<1>1. CASE KeyLoop \/ Read \/ Handled \/ Ignore \/ Scroll \/ ScrollToEnd \/ CycleFocus
             \/ Flip \/ MirrorFlip
  BY <1>1 DEF KeyLoop, Read, Handled, Ignore, Scroll, ScrollToEnd, CycleFocus, Flip,
     MirrorFlip, Takes, modelVars, mainVars, histVars
<1>2. CASE ToggleHelp \/ Quit
  BY <1>2 DEF ToggleHelp, Quit, Takes, modelVars, mainVars
<1>3. CASE ReadTimeout
  <2>1. gapped' \in BOOLEAN
    BY <1>3 DEF ReadTimeout
  <2>2. forced' \in BOOLEAN
    BY <1>3 DEF ReadTimeout
  <2>3. UNCHANGED <<help, cancelled, raw, alt, wrong>>
    BY <1>3 DEF ReadTimeout, modelVars, mainVars
  <2> QED BY <2>1, <2>2, <2>3
<1>4. CASE DrawThread
  BY <1>4 DEF DrawThread, Start, MirrorLearned, ReadSwitch, WriteMirror, SetScrollBounds,
     Snapshot, DrawTick, DrawEnds, keyVars, modelVars, mainVars, histVars
<1>5. CASE Main \/ Environment
  BY <1>5 DEF Main, EngineEnds, Join, Environment, NewVendor, Learned, Signal, Type, keyVars,
     modelVars, mainVars, histVars
<1> QED BY <1>1, <1>2, <1>3, <1>4, <1>5 DEF Next, KeyThread, KeyThreadRuns

\* Both threads go from one of their points to another.
LEMMA PhasesStep ==
  ASSUME PhasesOK, Next
  PROVE  PhasesOK'
<1> USE DEF PhasesOK
<1>1. CASE KeyThread
  <2>1. UNCHANGED <<dpc, mpc, typed>>
    BY <1>1 DEF KeyThread, KeyThreadRuns, KeyLoop, Read, Handled, ReadTimeout, Ignore, Scroll,
       ScrollToEnd, CycleFocus, ToggleHelp, Flip, MirrorFlip, Quit, Takes, drawVars, mainVars,
       histVars
  <2> QED BY <2>1
<1>2. CASE DrawThread
  <2>1. UNCHANGED <<mpc, typed>>
    BY <1>2 DEF DrawThread, Start, MirrorLearned, ReadSwitch, WriteMirror, SetScrollBounds,
       Snapshot, DrawTick, DrawEnds, mainVars, histVars
  <2>2. dpc' \in {"learned", "read", "write", "bounds", "snapshot", "wait", "gone"}
    BY <1>2 DEF DrawThread, Start, MirrorLearned, ReadSwitch, WriteMirror, SetScrollBounds,
       Snapshot, DrawTick, DrawEnds
  <2> QED BY <2>1, <2>2
<1>3. CASE Main \/ NewVendor \/ Learned \/ Signal
  BY <1>3 DEF Main, EngineEnds, Join, NewVendor, Learned, Signal, drawVars, mainVars, histVars
<1>4. ASSUME NEW k \in Typed, Type(k)
      PROVE  PhasesOK'
  <2>1. typed < MaxKeys /\ typed' = typed + 1 /\ UNCHANGED <<dpc, mpc>>
    BY <1>4 DEF Type, drawVars, mainVars
  <2> QED BY <2>1, BoundsAssumption
<1> QED BY <1>1, <1>2, <1>3, <1>4 DEF Next, Environment

\* The terminal is given back before the dashboard is gone, and for good.
LEMMA RestoredStep ==
  ASSUME PhasesOK, Restored, Next
  PROVE  Restored'
<1> USE DEF Restored
<1>1. CASE KeyThread
  <2>1. UNCHANGED <<dpc, mpc, raw, alt>>
    BY <1>1 DEF KeyThread, KeyThreadRuns, KeyLoop, Read, Handled, ReadTimeout, Ignore, Scroll,
       ScrollToEnd, CycleFocus, ToggleHelp, Flip, MirrorFlip, Quit, Takes, drawVars, mainVars
  <2> QED BY <2>1
<1>2. CASE DrawThread
  BY <1>2 DEF DrawThread, Start, MirrorLearned, ReadSwitch, WriteMirror, SetScrollBounds,
     Snapshot, DrawTick, DrawEnds, mainVars
<1>3. CASE Main \/ Environment
  BY <1>3 DEF Main, EngineEnds, Join, Environment, NewVendor, Learned, Signal, Type, drawVars,
     mainVars
<1> QED BY <1>1, <1>2, <1>3 DEF Next
-----------------------------------------------------------------------------
(* The mirrored controls.                                                  *)

\* The mirrored controls are those listed, and each has two or three values.
LEMMA SwitchFacts ==
  /\ Len(Switches) \in Nat /\ (Switches = <<>> <=> Len(Switches) = 0)
  /\ \A i \in 1..Len(Switches) : Switches[i] \in SwitchSet
  /\ \A s \in SwitchSet : \E i \in 1..Len(Switches) : s = Switches[i]
  /\ \A s : Values(s) \in {2, 3}
<1>1. Switches \in Seq({"apple", "trackers", "pause", "debug"})
  BY SwitchesAssumption
<1>2. DOMAIN Switches = 1..Len(Switches)
  BY <1>1
<1>3. \A s : Values(s) \in {2, 3}
  BY DEF Values
<1> QED BY <1>1, <1>2, <1>3 DEF SwitchSet, Range

\* The part of the state that FrameFresh is about.
freshVars == <<ctl, mirror, held, next, seen, dpc, flipped>>

Fresh == ControlsOK /\ Domains /\ Mirrored

\* A step that leaves that part alone, and does not come from a flip, keeps it.
LEMMA FreshStutter ==
  ASSUME Fresh, UNCHANGED freshVars, kpc' = "mirror" => kpc = "mirror"
  PROVE  Fresh'
BY DEF Fresh, ControlsOK, Domains, Mirrored, Collecting, freshVars

\* The draw thread's own steps.
LEMMA FreshDraw ==
  ASSUME Fresh, DrawThread
  PROVE  Fresh'
<1> USE SwitchFacts DEF Fresh, ControlsOK, Domains, Mirrored, Collecting
<1>1. CASE Start
  <2>1. UNCHANGED <<ctl, mirror, held, next, seen, flipped>> /\ dpc' = "learned"
        /\ kpc' \in {"top", "gone"}
    BY <1>1 DEF Start, modelVars
  <2> QED BY <2>1
<1>2. CASE MirrorLearned
  <2>1. /\ UNCHANGED <<kpc, ctl, mirror, seen, flipped>>
        /\ held' = [s \in SwitchSet |-> {ctl[s]}] /\ next' = 1
        /\ dpc' = IF Switches = <<>> THEN "bounds" ELSE "read"
    BY <1>2 DEF MirrorLearned, keyVars
  <2>2. ControlsOK' /\ Domains'
    BY <2>1
  <2>3. \A s \in SwitchSet : held'[s] = {ctl[s]} /\ ctl[s] \in 0..Values(s) - 1
    BY <2>1
  <2>4. CASE Switches = <<>>
    <3>1. SwitchSet = {}
      BY <2>4
    <3> QED BY <2>1, <2>2, <2>4, <3>1
  <2>5. CASE Switches # <<>>
    <3>1. next' \in 1..Len(Switches) /\ next' = 1 /\ dpc' = "read"
      BY <2>1, <2>5
    <3>2. \A i \in 1..next' - 1 : mirror'[Switches[i]] \in held'[Switches[i]]
      BY <3>1
    <3>3. \A s \in SwitchSet : held'[s] \subseteq 0..Values(s) - 1 /\ ctl'[s] \in held'[s]
      BY <2>1, <2>3
    <3>4. /\ dpc' # "write" /\ dpc' \notin {"bounds", "snapshot"}
          /\ \A s \in SwitchSet : held'[s] \subseteq 0..Values(s) - 1
          /\ \A s \in SwitchSet : ctl'[s] \in held'[s]
      BY ONLY <3>1, <3>3
    <3>5. Mirrored'
      BY ONLY <3>1, <3>2, <3>4 DEF Mirrored, Collecting
    <3> QED BY <2>2, <3>5
  <2> QED BY <2>4, <2>5
<1>3. CASE ReadSwitch
  <2>1. /\ UNCHANGED <<kpc, ctl, mirror, held, next, flipped>>
        /\ dpc = "read" /\ dpc' = "write" /\ seen' = ctl[Switches[next]]
    BY <1>3 DEF ReadSwitch, keyVars, modelVars
  <2>2. Switches[next] \in SwitchSet /\ next \in 1..Len(Switches)
    BY <2>1
  <2>3. seen' \in held[Switches[next]] /\ seen' \in 0..Values(Switches[next]) - 1
    BY <2>1, <2>2
  <2>4. seen' \in 0..2
    BY <2>3
  <2>5. ControlsOK' /\ Domains'
    BY <2>1, <2>4
  <2>6. Mirrored'
    BY <2>1, <2>2, <2>3
  <2> QED BY <2>5, <2>6
<1>4. CASE WriteMirror
  <2>1. /\ UNCHANGED <<kpc, ctl, held, flipped>>
        /\ dpc = "write" /\ dpc' = IF next = Len(Switches) THEN "bounds" ELSE "read"
        /\ mirror' = [mirror EXCEPT ![Switches[next]] = seen]
        /\ next' = next + 1 /\ seen' = 0
    BY <1>4 DEF WriteMirror, keyVars
  <2>2. Switches[next] \in SwitchSet /\ next \in 1..Len(Switches)
    BY <2>1
  <2>3. seen \in held[Switches[next]] /\ seen \in 0..Values(Switches[next]) - 1
    BY <2>1, <2>2
  <2>4. \A i \in 1..next : mirror'[Switches[i]] \in held[Switches[i]]
    BY <2>1, <2>2, <2>3
  <2>5. ControlsOK' /\ Domains'
    BY <2>1, <2>2, <2>3
  <2>6. CASE next = Len(Switches)
    <3>1. \A s \in SwitchSet : mirror'[s] \in held[s]
      BY <2>4, <2>6
    <3> QED BY <2>1, <2>5, <2>6, <3>1
  <2>7. CASE next # Len(Switches)
    <3>1. next' \in 1..Len(Switches) /\ next' - 1 = next
      BY <2>1, <2>2, <2>7
    <3> QED BY <2>1, <2>4, <2>5, <2>7, <3>1
  <2> QED BY <2>6, <2>7
<1>5. CASE SetScrollBounds
  <2>1. /\ UNCHANGED <<kpc, ctl, mirror, held, next, seen, flipped>>
        /\ dpc = "bounds" /\ dpc' = "snapshot"
    BY <1>5 DEF SetScrollBounds, keyVars
  <2> QED BY <2>1
<1>6. CASE Snapshot
  <2>1. /\ UNCHANGED <<kpc, ctl, mirror, next, seen, flipped>>
        /\ dpc' = "wait" /\ held' = [s \in SwitchSet |-> {}]
    BY <1>6 DEF Snapshot, keyVars, modelVars
  <2> QED BY <2>1
<1>7. CASE DrawTick \/ DrawEnds
  <2>1. UNCHANGED <<kpc, ctl, mirror, held, next, seen, flipped>> /\ dpc' \in {"learned", "gone"}
    BY <1>7 DEF DrawTick, DrawEnds, keyVars, modelVars
  <2> QED BY <2>1
<1> QED BY <1>1, <1>2, <1>3, <1>4, <1>5, <1>6, <1>7 DEF DrawThread

\* The key thread's: the value a flip gives is in the history before it is mirrored.
LEMMA FreshKeys ==
  ASSUME Fresh, InputOK, KeyThread
  PROVE  Fresh'
<1>1. CASE KeyLoop \/ Read \/ Handled \/ ReadTimeout \/ Ignore \/ Scroll \/ ScrollToEnd
             \/ CycleFocus \/ ToggleHelp \/ Quit
  <2>1. UNCHANGED freshVars
    BY <1>1 DEF KeyLoop, Read, Handled, ReadTimeout, Ignore, Scroll, ScrollToEnd, CycleFocus,
       ToggleHelp, Quit, Takes, freshVars, modelVars, drawVars
  <2>2. kpc' = "mirror" => kpc = "mirror"
    BY <1>1 DEF KeyLoop, Read, Handled, ReadTimeout, Ignore, Scroll, ScrollToEnd, CycleFocus,
       ToggleHelp, Quit
  <2> QED BY <2>1, <2>2, FreshStutter
<1>2. CASE Flip /\ Item.op \in SwitchSet
  <2> DEFINE s == Item.op
             v == (ctl[s] + 1) % Values(s)
  <2> HIDE DEF s, v
  <2>1. /\ UNCHANGED <<mirror, next, seen, dpc>> /\ s \in SwitchSet
        /\ ctl' = [ctl EXCEPT ![s] = v]
        /\ held' = IF dpc = "wait" THEN held ELSE [held EXCEPT ![s] = @ \cup {v}]
        /\ flipped' = s
    BY <1>2 DEF Flip, Takes, drawVars, modelVars, s, v
  <2>2. Values(s) \in {2, 3} /\ ctl[s] \in Nat
    BY <2>1, SwitchFacts DEF Fresh, ControlsOK
  <2>3. v \in 0..Values(s) - 1
    BY <2>2 DEF v
  <2>4. Domains' /\ ControlsOK'
    BY <2>1, <2>3 DEF Fresh, Domains, ControlsOK
  <2>5. \A t \in SwitchSet : held[t] \subseteq held'[t] /\ held'[t] \subseteq 0..Values(t) - 1
    BY <2>1, <2>3 DEF Fresh, Domains, Mirrored
  <2>6. Collecting => \A t \in SwitchSet : ctl'[t] \in held'[t]
    BY <2>1 DEF Fresh, Domains, Mirrored, Collecting
  <2>7. Mirrored'
    BY <2>1, <2>5, <2>6, SwitchFacts DEF Fresh, ControlsOK, Mirrored, Collecting
  <2> QED BY <2>4, <2>7 DEF Fresh
<1>3. CASE Flip /\ Item.op \notin SwitchSet
  <2>1. UNCHANGED freshVars /\ UNCHANGED kpc
    BY <1>3 DEF Flip, Takes, freshVars, drawVars, modelVars
  <2> QED BY <2>1, FreshStutter
<1>4. CASE MirrorFlip
  <2>1. /\ UNCHANGED <<ctl, held, next, seen, dpc>> /\ kpc = "mirror" /\ kpc' = "handle"
        /\ mirror' = [mirror EXCEPT ![flipped] = ctl[flipped]]
    BY <1>4 DEF MirrorFlip, drawVars
  <2>2. flipped \in SwitchSet
    BY <2>1 DEF Fresh, Domains
  <2>3. Domains' /\ ControlsOK'
    BY <2>1, <2>2 DEF Fresh, Domains, ControlsOK
  <2>4. Collecting => ctl[flipped] \in held[flipped]
    BY <2>2 DEF Fresh, Mirrored
  <2>5. \A t \in SwitchSet : mirror'[t] = IF t = flipped THEN ctl[flipped] ELSE mirror[t]
    BY <2>1, <2>2 DEF Fresh, Domains
  <2>6. Mirrored'
    BY <2>1, <2>2, <2>4, <2>5, SwitchFacts DEF Fresh, ControlsOK, Mirrored, Collecting
  <2> QED BY <2>3, <2>6 DEF Fresh
<1> QED BY <1>1, <1>2, <1>3, <1>4 DEF KeyThread, KeyThreadRuns

\* Every step keeps the controls, their mirrors and their history.
LEMMA FreshStep ==
  ASSUME Fresh, InputOK, Next
  PROVE  Fresh'
<1>1. CASE Main \/ Environment
  <2>1. UNCHANGED freshVars /\ UNCHANGED kpc
    BY <1>1 DEF Main, EngineEnds, Join, Environment, NewVendor, Learned, Signal, Type,
       freshVars, keyVars, modelVars, drawVars
  <2> QED BY <2>1, FreshStutter
<1> QED BY <1>1, FreshDraw, FreshKeys DEF Next
-----------------------------------------------------------------------------
(* The tables.                                                             *)

\* The part of the state that ScrollMatches is about.
tableVars == <<devices, focus, offset, limit, rows, viewport, dpc>>

\* Steps that leave the tables and the window alone.
LEMMA TablesStutter ==
  ASSUME TablesOK, Scrolled, UNCHANGED tableVars
  PROVE  TablesOK' /\ Scrolled'
BY DEF TablesOK, Scrolled, tableVars

\* The key thread's steps: they move no limit, and no offset beyond its limit.
LEMMA TablesKeys ==
  ASSUME TypeOK, TablesOK, Scrolled, KeyThread
  PROVE  TablesOK' /\ Scrolled'
<1>r. MaxRows \in Nat
  BY BoundsAssumption
<1>1. CASE KeyLoop \/ Read \/ Handled \/ ReadTimeout \/ Ignore \/ ToggleHelp \/ Flip
             \/ MirrorFlip \/ Quit
  <2>1. UNCHANGED tableVars
    BY <1>1 DEF KeyLoop, Read, Handled, ReadTimeout, Ignore, ToggleHelp, Flip, MirrorFlip,
       Quit, Takes, tableVars, modelVars, drawVars
  <2> QED BY <2>1, TablesStutter
<1>2. CASE CycleFocus
  <2>1. UNCHANGED <<devices, offset, limit, rows, viewport, dpc>> /\ focus' \in Tables
    BY <1>2 DEF CycleFocus, Takes, drawVars, Tables
  <2> QED BY <2>1 DEF TablesOK, Scrolled
<1>3. CASE Scroll
  <2>1. /\ UNCHANGED <<devices, focus, limit, rows, viewport, dpc>>
        /\ offset' = Moved(Item.op) /\ Item.op \in Moves
    BY <1>3 DEF Scroll, Takes, drawVars
  <2>2. Delta(Item.op) \in Int
    BY <2>1, PageDelta
  <2>3. \A t \in Tables : offset[t] \in Int /\ limit[t] \in Nat /\ limit[t] <= MaxRows
    BY <1>r DEF TablesOK
  <2>4. \A t \in Tables : offset'[t] \in 0..limit[t]
    <3> SUFFICES ASSUME NEW t \in Tables PROVE offset'[t] \in 0..limit[t]
      OBVIOUS
    <3> DEFINE o == IF t = focus THEN offset[t] + Delta(Item.op) ELSE offset[t]
    <3>1. o \in Int
      BY <2>2, <2>3
    <3>2. offset'[t] = Clamp(o, limit[t])
      BY <2>1 DEF Moved
    <3> HIDE DEF o
    <3> QED BY <2>3, <3>1, <3>2, ClampRange
  <2>5. offset' \in [Tables -> 0..MaxRows]
    <3>1. offset' = [t \in Tables |-> offset'[t]]
      BY <2>1 DEF Moved
    <3>2. \A t \in Tables : offset'[t] \in 0..MaxRows
      BY <2>3, <2>4, <1>r
    <3> QED BY <3>1, <3>2
  <2>6. TablesOK'
    BY <2>1, <2>5 DEF TablesOK
  <2>7. Scrolled'
    BY <2>1, <2>4, <2>3 DEF Scrolled
  <2> QED BY <2>6, <2>7
<1>4. CASE ScrollToEnd
  <2>1. /\ UNCHANGED <<devices, focus, limit, rows, viewport, dpc>>
        /\ offset' = [offset EXCEPT ![focus] = IF Item.op = "top" THEN 0 ELSE limit[focus]]
    BY <1>4 DEF ScrollToEnd, Takes, drawVars
  <2>2. \A t \in Tables : offset'[t] \in {0, limit[t], offset[t]}
    BY <2>1 DEF TablesOK
  <2>3. offset' \in [Tables -> 0..MaxRows]
    BY <2>1, <1>r DEF TablesOK
  <2>4. \A t \in Tables : offset[t] \in Nat /\ limit[t] \in Nat
    BY <1>r DEF TablesOK
  <2>5. TablesOK'
    BY <2>1, <2>3 DEF TablesOK
  <2>6. Scrolled'
    BY <2>1, <2>2, <2>4 DEF Scrolled
  <2> QED BY <2>5, <2>6
<1> QED BY <1>1, <1>2, <1>3, <1>4 DEF KeyThread, KeyThreadRuns

\* The draw thread's: the limits follow the rows and the window, the offsets the limits.
LEMMA TablesDraw ==
  ASSUME TablesOK, Scrolled, DrawThread
  PROVE  TablesOK' /\ Scrolled'
<1>r. MaxRows \in Nat /\ Viewports \subseteq Nat
  BY BoundsAssumption
<1>1. CASE Start \/ ReadSwitch \/ WriteMirror \/ Snapshot \/ DrawTick \/ DrawEnds
  <2>1. /\ UNCHANGED <<devices, focus, offset, limit, rows, viewport>>
        /\ dpc' # "snapshot"
    BY <1>1 DEF Start, ReadSwitch, WriteMirror, Snapshot, DrawTick, DrawEnds, modelVars
  <2> QED BY <2>1 DEF TablesOK, Scrolled
<1>2. CASE MirrorLearned
  <2>1. /\ UNCHANGED <<devices, focus, offset, limit, viewport>> /\ dpc' # "snapshot"
        /\ rows' = [rows EXCEPT !["learned"] = devices]
    BY <1>2 DEF MirrorLearned
  <2>2. rows' \in [Tables -> 0..MaxRows]
    BY <2>1 DEF TablesOK
  <2>3. TablesOK'
    BY <2>1, <2>2 DEF TablesOK
  <2> QED BY <2>1, <2>3 DEF Scrolled
<1>3. CASE SetScrollBounds
  <2>1. /\ UNCHANGED <<devices, focus, rows>> /\ viewport' \in Viewports
        /\ limit' = [t \in Tables |-> Max({rows[t] - viewport', 0})]
        /\ offset' = [t \in Tables |-> Clamp(offset[t], limit'[t])]
    BY <1>3 DEF SetScrollBounds
  <2>2. \A t \in Tables : rows[t] \in 0..MaxRows /\ offset[t] \in Int
    BY <1>r DEF TablesOK
  <2>3. \A t \in Tables : /\ limit'[t] \in 0..MaxRows
                          /\ limit'[t] = 0 \/ limit'[t] <= rows[t] - viewport'
    <3> SUFFICES ASSUME NEW t \in Tables
                 PROVE  /\ limit'[t] \in 0..MaxRows
                        /\ limit'[t] = 0 \/ limit'[t] <= rows[t] - viewport'
      OBVIOUS
    <3> DEFINE a == rows[t] - viewport'
    <3>1. viewport' \in Nat /\ rows[t] \in 0..MaxRows
      BY <2>1, <2>2, <1>r
    <3>2. a \in Int /\ a <= MaxRows
      BY <3>1, <1>r
    <3>3. limit'[t] = Max({a, 0})
      BY <2>1
    <3> HIDE DEF a
    <3>4. limit'[t] = IF a > 0 THEN a ELSE 0
      BY <3>2, <3>3, MaxOfTwo
    <3>5. limit'[t] \in 0..MaxRows /\ (limit'[t] = 0 \/ limit'[t] = a)
      BY <3>2, <3>4, <1>r
    <3>6. limit'[t] = a => limit'[t] <= a
      BY <3>2
    <3> QED BY <3>5, <3>6 DEF a
  <2>4. \A t \in Tables : offset'[t] \in 0..limit'[t]
    <3> SUFFICES ASSUME NEW t \in Tables PROVE offset'[t] \in 0..limit'[t]
      OBVIOUS
    <3>1. limit'[t] \in Nat /\ offset[t] \in Int
      BY <2>2, <2>3, <1>r
    <3>2. offset'[t] = Clamp(offset[t], limit'[t])
      BY <2>1
    <3> QED BY <3>1, <3>2, ClampRange
  <2>5. limit' \in [Tables -> 0..MaxRows]
    <3>1. limit' = [t \in Tables |-> limit'[t]]
      BY <2>1
    <3> QED BY <2>3, <3>1
  <2>6. offset' \in [Tables -> 0..MaxRows]
    <3>1. offset' = [t \in Tables |-> offset'[t]]
      BY <2>1
    <3>2. \A t \in Tables : offset'[t] \in 0..MaxRows
      BY <2>3, <2>4, <1>r
    <3> QED BY <3>1, <3>2
  <2>7. TablesOK'
    BY <2>1, <2>5, <2>6 DEF TablesOK
  <2>8. \A t \in Tables : offset'[t] <= limit'[t]
    BY <2>3, <2>4, <1>r
  <2>9. Scrolled'
    BY <2>1, <2>3, <2>8 DEF Scrolled
  <2> QED BY <2>7, <2>9
<1> QED BY <1>1, <1>2, <1>3 DEF DrawThread

\* Every step keeps the offsets within the limits.
LEMMA TablesStep ==
  ASSUME TypeOK, TablesOK, Scrolled, Next
  PROVE  TablesOK' /\ Scrolled'
<1>r. MaxRows \in Nat /\ viewport \in Nat
  BY BoundsAssumption DEF TablesOK, TypeOK
<1>1. CASE Main \/ Signal
  <2>1. UNCHANGED tableVars
    BY <1>1 DEF Main, EngineEnds, Join, Signal, tableVars, modelVars, drawVars
  <2> QED BY <2>1, TablesStutter
<1>2. ASSUME NEW k \in Typed, Type(k)
      PROVE  TablesOK' /\ Scrolled'
  <2>1. UNCHANGED tableVars
    BY <1>2 DEF Type, tableVars, modelVars, drawVars
  <2> QED BY <2>1, TablesStutter
<1>3. CASE NewVendor
  <2>1. /\ UNCHANGED <<devices, focus, offset, limit, viewport, dpc>>
        /\ rows["crowd"] < MaxRows /\ rows' = [rows EXCEPT !["crowd"] = @ + 1]
    BY <1>3 DEF NewVendor, drawVars
  <2>2. rows' \in [Tables -> 0..MaxRows]
    BY <2>1, <1>r DEF TablesOK, Tables
  <2>3. \A t \in Tables : rows[t] \in Nat /\ rows[t] <= rows'[t] /\ rows'[t] \in Nat
    BY <2>1, <1>r DEF TablesOK, Tables
  <2>4. TablesOK'
    BY <2>1, <2>2 DEF TablesOK
  <2>5. \A t \in Tables : limit[t] \in Nat
    BY <1>r DEF TablesOK
  <2>6. Scrolled'
    BY <2>1, <2>3, <2>5, <1>r DEF Scrolled
  <2> QED BY <2>4, <2>6
<1>4. CASE Learned
  <2>1. /\ UNCHANGED <<focus, offset, limit, rows, viewport, dpc>> /\ devices' \in 0..MaxRows
    BY <1>4 DEF Learned, modelVars, drawVars
  <2> QED BY <2>1 DEF TablesOK, Scrolled
<1> QED BY <1>1, <1>2, <1>3, <1>4, TablesKeys, TablesDraw DEF Next, Environment
-----------------------------------------------------------------------------
\* The invariant holds at the start, and every step keeps it.
LEMMA Initially == Init => IInv
<1> SUFFICES ASSUME Init PROVE IInv
  OBVIOUS
<1>r. /\ MaxRows \in Nat /\ MaxKeys \in Nat /\ 0 \in 0..MaxRows /\ 0 \in 0..MaxKeys
      /\ Len(Switches) \in Nat
  BY BoundsAssumption, SwitchFacts
<1>0. <<>> \in Seq(Bytes)
  OBVIOUS
<1>1. InputOK
  BY <1>0 DEF Init, InputOK
<1>f. FlagsOK
  BY DEF Init, FlagsOK
<1>p. PhasesOK
  BY <1>r DEF Init, PhasesOK
<1>2. ControlsOK
  BY <1>r, SwitchFacts DEF Init, ControlsOK
<1>3. TablesOK /\ Scrolled
  BY <1>r DEF Init, TablesOK, Scrolled, Tables
<1>4. Domains
  BY DEF Init, Domains
<1>5. Mirrored
  BY SwitchFacts DEF Init, Mirrored, Collecting
<1>6. Restored
  BY DEF Init, Restored
<1> QED BY <1>1, <1>f, <1>p, <1>2, <1>3, <1>4, <1>5, <1>6, TypeParts DEF IInv

LEMMA Invariant == Spec => []IInv
<1>1. ASSUME IInv, [Next]_vars
      PROVE  IInv'
  <2> USE <1>1 DEF IInv
  <2>0. InputOK /\ FlagsOK /\ ControlsOK /\ TablesOK /\ PhasesOK
    BY TypeParts
  <2>1. CASE Next
    <3>1. InputOK' /\ FlagsOK' /\ PhasesOK' /\ Restored'
      BY <2>0, <2>1, InputStep, FlagsStep, PhasesStep, RestoredStep
    <3>2. TablesOK' /\ Scrolled'
      BY <2>0, <2>1, TablesStep
    <3>3. Fresh'
      BY <2>0, <2>1, FreshStep DEF Fresh
    <3>4. TypeOK'
      BY <3>1, <3>2, <3>3, TypeParts DEF Fresh, TypeOK, InputOK, FlagsOK, ControlsOK, TablesOK,
         PhasesOK
    <3> QED BY <3>1, <3>2, <3>3, <3>4 DEF Fresh
  <2>2. CASE UNCHANGED vars
    BY <2>2 DEF TypeOK, Domains, Scrolled, Mirrored, Collecting, Restored, vars, keyVars,
       modelVars, drawVars, mainVars, histVars
  <2> QED BY <2>1, <2>2
<1> QED BY Initially, <1>1, PTL DEF Spec

\* The state is always of the declared types; above all the key thread never runs past
\* the bytes it holds (parseEsc and handleInput slice them), and no offset leaves its table.
THEOREM TypeCorrect == Spec => []TypeOK
BY Invariant, PTL DEF IInv

\* A frame shows each table from the offset that the keys move (scrollView against
\* ScrollPage and SetScrollBounds), whatever keys and new rows arrive between the bounds
\* and the snapshot.
THEOREM ScrollsAsDrawn == Spec => []ScrollMatches
<1>1. ASSUME IInv PROVE ScrollMatches
  <2> SUFFICES ASSUME dpc = "snapshot", NEW t \in Tables
               PROVE  DrawnOffset(t) = offset[t]
    BY DEF ScrollMatches
  <2> DEFINE a == rows[t] - viewport
  <2>v. TablesOK
    BY <1>1, TypeParts DEF IInv
  <2>w. viewport \in Nat /\ MaxRows \in Nat
    BY <2>v, BoundsAssumption DEF TablesOK
  <2>1. a \in Int /\ offset[t] \in Nat /\ limit[t] \in Nat
    BY <2>v, <2>w DEF TablesOK
  <2>2. offset[t] <= limit[t] /\ (limit[t] = 0 \/ limit[t] <= a)
    BY <1>1 DEF IInv, Scrolled
  <2>3. DrawnOffset(t) = Clamp(offset[t], Max({a, 0}))
    BY DEF DrawnOffset
  <2> HIDE DEF a
  <2> QED BY <2>1, <2>2, <2>3, MaxOfTwo DEF Clamp
<1> QED BY <1>1, Invariant, PTL

\* A frame shows each control as it was at some moment since draw began, although a key
\* can flip it between draw's read of it and draw's write of its mirror.
THEOREM FramesAreFresh == Spec => []FrameFresh
<1>1. IInv => FrameFresh
  BY DEF IInv, Mirrored, FrameFresh
<1> QED BY <1>1, Invariant, PTL

\* hohd does not exit with the terminal in raw mode or on the alternate screen: runLoop
\* waits for Run, whose deferred calls restore both.
THEOREM TerminalGivenBack == Spec => []TerminalRestored
<1>1. IInv => TerminalRestored
  BY DEF IInv, Restored, TerminalRestored
<1> QED BY <1>1, Invariant, PTL
-----------------------------------------------------------------------------
(* The keys.  The bytes that the key thread holds and those still to be    *)
(* read are whole keys, and the operations owed are theirs: what the reads *)
(* cut apart is never lost and never taken for something else.             *)

Ops == {"apple", "trackers", "pause", "debug", "down", "top", "end", "focus", "help", "quit",
        "up", "pgup", "pgdn"}

KeyLen(k) == Len(KeyBytes[k])

\* Key k is in P behind its first b bytes.
KeyAt(P, b, k) ==
  b + KeyLen(k) <= Len(P) /\ \A j \in 1..KeyLen(k) : P[b + j] = KeyBytes[k][j]

\* Key k calls for the operation behind the first m of ops, n with it, or for none.
Due(ops, m, n, k) ==
  IF OpOfKey(k) = "none" THEN n = m
  ELSE m < Len(ops) /\ ops[m + 1] = OpOfKey(k) /\ n = m + 1

\* at tells of every boundary between the keys of P how many of ops are due before it.
Keyed(P, ops, at) ==
  /\ at \in [DOMAIN at -> 0..Len(ops)] /\ DOMAIN at \subseteq 0..Len(P)
  /\ 0 \in DOMAIN at /\ at[0] = 0
  /\ Len(P) \in DOMAIN at /\ at[Len(P)] = Len(ops)
  /\ \A b, c \in DOMAIN at : b <= c => at[b] <= at[c]
  /\ \A b \in DOMAIN at : b < Len(P) =>
       \E k \in Typed :
         KeyAt(P, b, k) /\ b + KeyLen(k) \in DOMAIN at /\ Due(ops, at[b], at[b + KeyLen(k)], k)

\* P is whole keys, and ops are the operations they call for.
Whole(P, ops) == \E at : Keyed(P, ops, at)

\* The beginnings of a key that is not whole.
Unfinished == {<<"esc">>, <<"esc", "[">>, <<"esc", "[", "5">>, <<"esc", "[", "6">>}

Pending == data \o carry \o tty

KeysInv ==
  /\ owed \in Seq(Ops)
  /\ kpc \in {"handle", "mirror"} => carry = <<>>
  /\ dpc = "start" => kpc = "gone" /\ data = <<>> /\ carry = <<>>
  /\ forced => kpc \in {"handle", "mirror"}
  /\ ~gapped =>
       /\ ~wrong
       /\ kpc \in {"top", "read"} => data = <<>>
       /\ forced => data = <<>>
       /\ carry # <<>> => carry \in Unfinished
       /\ Whole(Pending, owed)

\* Sequences of one to three elements are the tuples of them.
LEMMA Tuples ==
  ASSUME NEW S, NEW s \in Seq(S)
  PROVE  /\ Len(s) = 1 => s = <<s[1]>>
         /\ Len(s) = 2 => s = <<s[1], s[2]>>
         /\ Len(s) = 3 => s = <<s[1], s[2], s[3]>>
<1>1. ASSUME Len(s) = 1
      PROVE  s = <<s[1]>>
  <2>1. s[1] \in S
    BY <1>1
  <2>2. <<s[1]>> \in Seq(S) /\ Len(<<s[1]>>) = 1 /\ <<s[1]>>[1] = s[1]
    BY <2>1
  <2>3. \A i \in 1..Len(s) : s[i] = <<s[1]>>[i]
    BY <1>1, <2>2
  <2> QED BY <1>1, <2>2, <2>3, SeqEqual
<1>2. ASSUME Len(s) = 2
      PROVE  s = <<s[1], s[2]>>
  <2>0. 1 \in 1..Len(s) /\ 2 \in 1..Len(s)
    BY <1>2
  <2>1. s[1] \in S /\ s[2] \in S
    BY <2>0, ElementOfSeq
  <2>2. /\ <<s[1], s[2]>> \in Seq(S) /\ Len(<<s[1], s[2]>>) = 2
        /\ <<s[1], s[2]>>[1] = s[1] /\ <<s[1], s[2]>>[2] = s[2]
    BY <2>1
  <2>3. \A i \in 1..Len(s) : s[i] = <<s[1], s[2]>>[i]
    BY <1>2, <2>2
  <2> QED BY <1>2, <2>2, <2>3, SeqEqual
<1>3. ASSUME Len(s) = 3
      PROVE  s = <<s[1], s[2], s[3]>>
  <2>0. 1 \in 1..Len(s) /\ 2 \in 1..Len(s) /\ 3 \in 1..Len(s)
    BY <1>3
  <2>1. s[1] \in S /\ s[2] \in S /\ s[3] \in S
    BY <2>0, ElementOfSeq
  <2>2. /\ <<s[1], s[2], s[3]>> \in Seq(S) /\ Len(<<s[1], s[2], s[3]>>) = 3
        /\ <<s[1], s[2], s[3]>>[1] = s[1] /\ <<s[1], s[2], s[3]>>[2] = s[2]
        /\ <<s[1], s[2], s[3]>>[3] = s[3]
    BY <2>1
  <2>3. \A i \in 1..Len(s) : s[i] = <<s[1], s[2], s[3]>>[i]
    BY <1>3, <2>2
  <2> QED BY <1>3, <2>2, <2>3, SeqEqual
<1> QED BY <1>1, <1>2, <1>3

\* The body of a sequence of three bytes, and of one of four.
LEMMA Body ==
  ASSUME NEW s \in Seq(Bytes), Len(s) >= 3
  PROVE  /\ SubSeq(s, 3, 3) = <<s[3]>>
         /\ Len(s) >= 4 => SubSeq(s, 3, 4) = <<s[3], s[4]>>
<1>1. ASSUME NEW n \in {3, 4}, n <= Len(s)
      PROVE  LET t == SubSeq(s, 3, n) IN
             /\ t \in Seq(Bytes) /\ Len(t) = n - 2 /\ \A j \in 1..n - 2 : t[j] = s[j + 2]
  <2>1. \A j \in 3..n : s[j] \in Bytes
    BY <1>1
  <2> HIDE DEF Bytes
  <2>2. /\ SubSeq(s, 3, n) \in Seq(Bytes) /\ Len(SubSeq(s, 3, n)) = IF 3 <= n THEN n - 3 + 1 ELSE 0
        /\ \A i \in 1..n - 3 + 1 : SubSeq(s, 3, n)[i] = s[3 + i - 1]
    BY <2>1, SubSeqProperties
  <2> QED BY <2>2
<1>2. SubSeq(s, 3, 3) = <<s[3]>>
  <2> DEFINE t == SubSeq(s, 3, 3)
  <2>1. t \in Seq(Bytes) /\ Len(t) = 1 /\ t[1] = s[3]
    BY <1>1
  <2> HIDE DEF t
  <2>2. t = <<s[3]>>
    BY <2>1, Tuples
  <2> QED BY <2>2 DEF t
<1>3. ASSUME Len(s) >= 4
      PROVE  SubSeq(s, 3, 4) = <<s[3], s[4]>>
  <2> DEFINE t == SubSeq(s, 3, 4)
  <2>1. t \in Seq(Bytes) /\ Len(t) = 2 /\ t[1] = s[3] /\ t[2] = s[4]
    BY <1>1, <1>3
  <2> HIDE DEF t
  <2>2. t = <<s[3], s[4]>>
    BY <2>1, Tuples
  <2> QED BY <2>2 DEF t
<1> QED BY <1>2, <1>3

\* What a key sends, by its kind.
LEMMA KeyTable ==
  ASSUME NEW k \in Typed
  PROVE  \/ k = "esc" /\ KeyBytes[k] = <<"esc">> /\ OpOfKey(k) = "none"
         \/ k = "up" /\ KeyBytes[k] = <<"esc", "[", "a">> /\ OpOfKey(k) = "up"
         \/ k = "pgup" /\ KeyBytes[k] = <<"esc", "[", "5", "~">> /\ OpOfKey(k) = "pgup"
         \/ k = "pgdn" /\ KeyBytes[k] = <<"esc", "[", "6", "~">> /\ OpOfKey(k) = "pgdn"
         \/ \E b \in Bytes \ {"esc", "["} :
              KeyBytes[k] = <<b>> /\ OpOfKey(k) = SingleOp(b)
<1>1. k \in {"up", "pgup", "pgdn", "esc", "a", "s", "space", "d", "j", "home", "end",
             "tab", "help", "q"}
  BY TypedAssumption DEF KeyBytes
<1>2. ASSUME NEW b, KeyBytes[k] = <<b>>
      PROVE  OpOfKey(k) = SingleOp(b)
  <2>1. Len(KeyBytes[k]) = 1 /\ KeyBytes[k][1] = b
    BY <1>2
  <2> QED BY <2>1 DEF OpOfKey
<1>3. CASE k \in {"a", "s", "space", "d", "j"}
  <2>1. \E b \in Bytes \ {"esc", "["} : KeyBytes[k] = <<b>>
    BY <1>3 DEF KeyBytes, Bytes
  <2> QED BY <1>2, <2>1
<1>4. CASE k \in {"home", "end", "tab", "help", "q"}
  <2>1. \E b \in Bytes \ {"esc", "["} : KeyBytes[k] = <<b>>
    BY <1>4 DEF KeyBytes, Bytes
  <2> QED BY <1>2, <2>1
<1>5. CASE k = "esc"
  <2>1. KeyBytes[k] = <<"esc">> /\ SingleOp("esc") = "none"
    BY <1>5 DEF KeyBytes, SingleOp
  <2> QED BY <1>2, <1>5, <2>1
<1>6. CASE k = "up"
  <2>1. KeyBytes[k] = <<"esc", "[", "a">>
    BY <1>6 DEF KeyBytes
  <2>2. OpOfKey(k) = CSIOp(SubSeq(<<"esc", "[", "a">>, 3, 3))
    BY <2>1 DEF OpOfKey
  <2>3. SubSeq(<<"esc", "[", "a">>, 3, 3) = <<"a">>
    <3> DEFINE t == <<"esc", "[", "a">>
    <3>1. t \in Seq(Bytes)
      BY DEF Bytes
    <3>2. Len(t) = 3 /\ t[3] = "a"
      OBVIOUS
    <3> HIDE DEF t
    <3>3. SubSeq(t, 3, 3) = <<"a">>
      BY <3>1, <3>2, Body
    <3> QED BY <3>3 DEF t
  <2>4. CSIOp(<<"a">>) = "up"
    BY DEF CSIOp
  <2> QED BY <1>6, <2>1, <2>2, <2>3, <2>4
<1>7. CASE k = "pgup"
  <2>1. KeyBytes[k] = <<"esc", "[", "5", "~">>
    BY <1>7 DEF KeyBytes
  <2>2. OpOfKey(k) = CSIOp(SubSeq(<<"esc", "[", "5", "~">>, 3, 4))
    BY <2>1 DEF OpOfKey
  <2>3. SubSeq(<<"esc", "[", "5", "~">>, 3, 4) = <<"5", "~">>
    <3> DEFINE t == <<"esc", "[", "5", "~">>
    <3>1. t \in Seq(Bytes)
      BY DEF Bytes
    <3>2. Len(t) = 4 /\ t[3] = "5" /\ t[4] = "~"
      OBVIOUS
    <3> HIDE DEF t
    <3>3. SubSeq(t, 3, 4) = <<"5", "~">>
      BY <3>1, <3>2, Body
    <3> QED BY <3>3 DEF t
  <2>4. CSIOp(<<"5", "~">>) = "pgup"
    BY DEF CSIOp
  <2> QED BY <1>7, <2>1, <2>2, <2>3, <2>4
<1>8. CASE k = "pgdn"
  <2>1. KeyBytes[k] = <<"esc", "[", "6", "~">>
    BY <1>8 DEF KeyBytes
  <2>2. OpOfKey(k) = CSIOp(SubSeq(<<"esc", "[", "6", "~">>, 3, 4))
    BY <2>1 DEF OpOfKey
  <2>3. SubSeq(<<"esc", "[", "6", "~">>, 3, 4) = <<"6", "~">>
    <3> DEFINE t == <<"esc", "[", "6", "~">>
    <3>1. t \in Seq(Bytes)
      BY DEF Bytes
    <3>2. Len(t) = 4 /\ t[3] = "6" /\ t[4] = "~"
      OBVIOUS
    <3> HIDE DEF t
    <3>3. SubSeq(t, 3, 4) = <<"6", "~">>
      BY <3>1, <3>2, Body
    <3> QED BY <3>3 DEF t
  <2>4. CSIOp(<<"6", "~">>) = "pgdn"
    BY DEF CSIOp
  <2> QED BY <1>8, <2>1, <2>2, <2>3, <2>4
<1> QED BY <1>1, <1>3, <1>4, <1>5, <1>6, <1>7, <1>8

\* An operation a key calls for is one of the operations.
LEMMA KeyOps ==
  ASSUME NEW k \in Typed
  PROVE  OpOfKey(k) \in Ops \cup {"none"}
<1>1. \A b \in Bytes : SingleOp(b) \in Ops \cup {"none"}
  BY DEF SingleOp, Ops, Bytes
<1>2. {"up", "pgup", "pgdn"} \subseteq Ops
  BY DEF Ops
<1> QED BY <1>1, <1>2, KeyTable

\* A key sends from one to four bytes.
LEMMA KeySize ==
  ASSUME NEW k \in Typed
  PROVE  KeyBytes[k] \in Seq(Bytes) /\ KeyLen(k) \in 1..4
<1>1. \A b \in Bytes : <<b>> \in Seq(Bytes) /\ Len(<<b>>) = 1
  OBVIOUS
<1>2. /\ <<"esc">> \in Seq(Bytes) /\ <<"esc", "[", "a">> \in Seq(Bytes)
      /\ <<"esc", "[", "5", "~">> \in Seq(Bytes) /\ <<"esc", "[", "6", "~">> \in Seq(Bytes)
  BY DEF Bytes
<1>3. /\ Len(<<"esc">>) = 1 /\ Len(<<"esc", "[", "a">>) = 3
      /\ Len(<<"esc", "[", "5", "~">>) = 4 /\ Len(<<"esc", "[", "6", "~">>) = 4
  OBVIOUS
<1>4. CASE \E b \in Bytes \ {"esc", "["} : KeyBytes[k] = <<b>>
  <2>1. PICK b \in Bytes : KeyBytes[k] = <<b>>
    BY <1>4
  <2>2. KeyLen(k) = 1
    BY <2>1 DEF KeyLen
  <2>3. KeyBytes[k] \in Seq(Bytes)
    BY <1>1, <2>1
  <2> QED BY <2>2, <2>3
<1>5. CASE KeyBytes[k] \in {<<"esc">>, <<"esc", "[", "a">>, <<"esc", "[", "5", "~">>,
                           <<"esc", "[", "6", "~">>}
  <2>1. KeyLen(k) \in {1, 3, 4}
    BY <1>3, <1>5 DEF KeyLen
  <2>2. KeyBytes[k] \in Seq(Bytes)
    BY <1>2, <1>5
  <2> QED BY <2>1, <2>2
<1> QED BY <1>4, <1>5, KeyTable

\* A key typed comes behind the others, and what it calls for is owed last.
LEMMA AppendKey ==
  ASSUME NEW P \in Seq(Bytes), NEW ops \in Seq(Ops), NEW at, Keyed(P, ops, at),
         NEW k \in Typed, NEW more, more = IF OpOfKey(k) = "none" THEN ops
                                           ELSE Append(ops, OpOfKey(k))
  PROVE  Whole(P \o KeyBytes[k], more)
<1> DEFINE Q == P \o KeyBytes[k]
           to == [b \in DOMAIN at \cup {Len(Q)} |-> IF b = Len(Q) THEN Len(more) ELSE at[b]]
<1>1. KeyBytes[k] \in Seq(Bytes) /\ KeyLen(k) \in 1..4
  BY KeySize
<1>2. /\ Q \in Seq(Bytes) /\ Len(Q) = Len(P) + KeyLen(k)
      /\ \A j \in 1..Len(P) : Q[j] = P[j]
      /\ \A j \in 1..KeyLen(k) : Q[Len(P) + j] = KeyBytes[k][j]
  <2>1. /\ Len(Q) = Len(P) + Len(KeyBytes[k])
        /\ \A j \in 1..Len(P) + Len(KeyBytes[k]) :
             Q[j] = IF j <= Len(P) THEN P[j] ELSE KeyBytes[k][j - Len(P)]
    BY <1>1, ConcatProperties
  <2>2. Len(P) \in Nat /\ Len(KeyBytes[k]) \in Nat
    BY <1>1, LenProperties
  <2>3. Q \in Seq(Bytes)
    BY <1>1, ConcatProperties
  <2> HIDE DEF Q
  <2>4. Len(Q) = Len(P) + KeyLen(k) /\ KeyLen(k) \in Nat
    BY <2>1, <2>2 DEF KeyLen
  <2>5. ASSUME NEW j \in 1..Len(P)
        PROVE  Q[j] = P[j]
    <3>1. j \in 1..Len(P) + Len(KeyBytes[k]) /\ j <= Len(P)
      BY <2>2
    <3> QED BY <2>1, <3>1
  <2>6. ASSUME NEW j \in 1..KeyLen(k)
        PROVE  Q[Len(P) + j] = KeyBytes[k][j]
    <3>1. /\ Len(P) + j \in 1..Len(P) + Len(KeyBytes[k]) /\ ~ (Len(P) + j <= Len(P))
          /\ Len(P) + j - Len(P) = j
      BY <2>2 DEF KeyLen
    <3> QED BY <2>1, <3>1
  <2> QED BY <2>3, <2>4, <2>5, <2>6
<1>3. /\ OpOfKey(k) \in Ops \cup {"none"} /\ "none" \notin Ops
  BY KeyOps DEF Ops
<1>4. /\ more \in Seq(Ops) /\ Len(ops) \in Nat
      /\ OpOfKey(k) = "none" => more = ops
      /\ OpOfKey(k) # "none" => Len(more) = Len(ops) + 1 /\ more[Len(ops) + 1] = OpOfKey(k)
      /\ \A i \in 1..Len(ops) : more[i] = ops[i]
  <2>1. CASE OpOfKey(k) = "none"
    BY <2>1
  <2>2. CASE OpOfKey(k) # "none"
    BY <2>2, <1>3, AppendProperties
  <2> QED BY <2>1, <2>2
<1>5. Len(P) \in Nat
  OBVIOUS
<1> HIDE DEF Q
<1>6. /\ at \in [DOMAIN at -> 0..Len(ops)] /\ DOMAIN at \subseteq 0..Len(P)
      /\ 0 \in DOMAIN at /\ at[0] = 0
      /\ Len(P) \in DOMAIN at /\ at[Len(P)] = Len(ops)
      /\ \A b, c \in DOMAIN at : b <= c => at[b] <= at[c]
  BY DEF Keyed
<1>7. Len(more) \in Nat /\ Len(ops) <= Len(more)
  BY <1>3, <1>4
<1>8. /\ DOMAIN to = DOMAIN at \cup {Len(Q)}
      /\ to[Len(Q)] = Len(more)
      /\ \A b \in DOMAIN at : to[b] = at[b] /\ b \in 0..Len(P) /\ b # Len(Q)
  BY <1>1, <1>2, <1>5, <1>6
<1>9. \A b \in DOMAIN to : to[b] \in 0..Len(more)
  BY <1>4, <1>6, <1>7, <1>8
<1>10. to \in [DOMAIN to -> 0..Len(more)]
  BY <1>9
<1>11. \A b, c \in DOMAIN to : b <= c => to[b] <= to[c]
  BY <1>1, <1>2, <1>4, <1>5, <1>6, <1>7, <1>8
<1>12. ASSUME NEW b \in DOMAIN to, b < Len(Q)
       PROVE  \E j \in Typed :
                /\ KeyAt(Q, b, j) /\ b + KeyLen(j) \in DOMAIN to
                /\ Due(more, to[b], to[b + KeyLen(j)], j)
  <2>1. b \in DOMAIN at /\ to[b] = at[b]
    BY <1>8, <1>12, <1>2, <1>1, <1>5
  <2> HIDE DEF to
  <2>2. CASE b < Len(P)
    <3>1. PICK j \in Typed :
            /\ KeyAt(P, b, j) /\ b + KeyLen(j) \in DOMAIN at
            /\ Due(ops, at[b], at[b + KeyLen(j)], j)
      BY <2>1, <2>2 DEF Keyed
    <3>2. KeyLen(j) \in 1..4 /\ b \in Nat
      BY KeySize, <2>1, <1>8
    <3>3. KeyAt(Q, b, j)
      <4>1. b + KeyLen(j) <= Len(P) /\ \A i \in 1..KeyLen(j) : P[b + i] = KeyBytes[j][i]
        BY <3>1 DEF KeyAt
      <4>2. \A i \in 1..KeyLen(j) : b + i \in 1..Len(P)
        BY <4>1, <3>2, <1>5
      <4>3. \A i \in 1..KeyLen(j) : Q[b + i] = KeyBytes[j][i]
        BY <4>1, <4>2, <1>2
      <4>4. b + KeyLen(j) <= Len(Q)
        BY <4>1, <3>2, <1>1, <1>2, <1>5
      <4> QED BY <4>3, <4>4 DEF KeyAt
    <3>4. b + KeyLen(j) \in DOMAIN to /\ to[b + KeyLen(j)] = at[b + KeyLen(j)]
      BY <3>1, <1>8
    <3>5. Due(more, to[b], to[b + KeyLen(j)], j)
      <4>1. at[b] \in 0..Len(ops)
        BY <1>6, <2>1
      <4>2. at[b] < Len(ops) => at[b] + 1 \in 1..Len(ops)
        BY <4>1, <1>4
      <4> QED BY <3>1, <3>4, <2>1, <4>1, <4>2, <1>4, <1>7 DEF Due
    <3> QED BY <3>3, <3>4, <3>5
  <2>3. CASE b = Len(P)
    <3>1. KeyAt(Q, b, k)
      BY <2>3, <1>1, <1>2, <1>5 DEF KeyAt
    <3>2. b + KeyLen(k) = Len(Q) /\ to[b] = Len(ops) /\ to[b + KeyLen(k)] = Len(more)
      BY <2>3, <2>1, <1>2, <1>6, <1>8
    <3>3. Due(more, to[b], to[b + KeyLen(k)], k)
      BY <3>2, <1>4 DEF Due
    <3> QED BY <3>1, <3>2, <3>3, <1>8
  <2> QED BY <2>1, <2>2, <2>3, <1>5, <1>8
<1>13. /\ DOMAIN to \subseteq 0..Len(Q) /\ 0 \in DOMAIN to /\ to[0] = 0
       /\ Len(Q) \in DOMAIN to
  BY <1>1, <1>2, <1>5, <1>6, <1>8
<1> HIDE DEF to
<1>14. Keyed(Q, more, to)
  BY <1>8, <1>10, <1>11, <1>12, <1>13 DEF Keyed
<1> QED BY <1>14 DEF Q, Whole

\* The first key can be taken, and what it calls for is owed first.
LEMMA DropKey ==
  ASSUME NEW P \in Seq(Bytes), NEW ops \in Seq(Ops), NEW at, Keyed(P, ops, at),
         NEW k \in Typed, KeyAt(P, 0, k), KeyLen(k) \in DOMAIN at,
         Due(ops, 0, at[KeyLen(k)], k),
         NEW Q \in Seq(Bytes), Len(P) = Len(Q) + KeyLen(k),
         \A j \in 1..Len(Q) : Q[j] = P[j + KeyLen(k)]
  PROVE  /\ OpOfKey(k) # "none" => ops # <<>> /\ Head(ops) = OpOfKey(k)
         /\ Whole(Q, IF OpOfKey(k) = "none" THEN ops ELSE Tail(ops))
<1> DEFINE L    == KeyLen(k)
           d    == at[L]
           rest == IF OpOfKey(k) = "none" THEN ops ELSE Tail(ops)
           to   == [b \in {c \in 0..Len(Q) : c + L \in DOMAIN at} |-> at[b + L] - d]
<1>1. L \in 1..4 /\ Len(Q) \in Nat /\ Len(P) \in Nat /\ Len(ops) \in Nat
  BY KeySize
<1>2. /\ at \in [DOMAIN at -> 0..Len(ops)] /\ DOMAIN at \subseteq 0..Len(P)
      /\ Len(P) \in DOMAIN at /\ at[Len(P)] = Len(ops)
      /\ \A b, c \in DOMAIN at : b <= c => at[b] <= at[c]
  BY DEF Keyed
<1>3. /\ OpOfKey(k) = "none" => d = 0
      /\ OpOfKey(k) # "none" => 0 < Len(ops) /\ ops[1] = OpOfKey(k) /\ d = 1
  BY DEF Due
<1>4. OpOfKey(k) # "none" => ops # <<>> /\ Head(ops) = OpOfKey(k)
  BY <1>1, <1>3
<1>5. /\ rest \in Seq(Ops) /\ d \in 0..1 /\ Len(ops) = Len(rest) + d
      /\ \A i \in 1..Len(rest) : rest[i] = ops[i + d]
  <2>1. CASE OpOfKey(k) = "none"
    BY <2>1, <1>3, <1>1
  <2>2. CASE OpOfKey(k) # "none"
    <3>1. /\ Tail(ops) \in Seq(Ops) /\ Len(Tail(ops)) = Len(ops) - 1
          /\ \A i \in 1..Len(Tail(ops)) : Tail(ops)[i] = ops[i + 1]
      BY <2>2, <1>4, HeadTailProperties
    <3> QED BY <2>2, <1>3, <1>1, <3>1
  <2> QED BY <2>1, <2>2
<1>6. L \in DOMAIN at
  OBVIOUS
<1>7. Len(P) = Len(Q) + L /\ \A j \in 1..Len(Q) : Q[j] = P[j + L]
  OBVIOUS
<1> HIDE DEF L, d, rest
<1>8. /\ DOMAIN to \subseteq 0..Len(Q)
      /\ \A b \in DOMAIN to : b + L \in DOMAIN at /\ to[b] = at[b + L] - d
  OBVIOUS
<1>9. \A b \in 0..Len(Q) : b + L \in DOMAIN at => b \in DOMAIN to
  OBVIOUS
<1>10. to = [b \in DOMAIN to |-> to[b]]
  OBVIOUS
<1> HIDE DEF to
<1>11. d = at[L] /\ Len(rest) \in Nat
  BY <1>5 DEF d
<1>12. ASSUME NEW b \in DOMAIN to
       PROVE  to[b] \in 0..Len(rest)
  <2>1. b \in Nat /\ b + L \in DOMAIN at /\ L <= b + L
    BY <1>1, <1>8
  <2>2. at[L] <= at[b + L] /\ at[b + L] \in 0..Len(ops)
    BY <2>1, <1>2, <1>6
  <2> QED BY <2>2, <1>1, <1>5, <1>8, <1>11
<1>13. to \in [DOMAIN to -> 0..Len(rest)]
  BY <1>10, <1>12
<1>14. ASSUME NEW b \in DOMAIN to, NEW c \in DOMAIN to, b <= c
       PROVE  to[b] <= to[c]
  <2>1. b + L \in DOMAIN at /\ c + L \in DOMAIN at /\ b \in Nat /\ c \in Nat
    BY <1>8, <1>1
  <2>2. b + L <= c + L
    BY <2>1, <1>1, <1>14
  <2>3. at[b + L] <= at[c + L]
    BY <2>1, <2>2, <1>2
  <2>4. at[b + L] \in 0..Len(ops) /\ at[c + L] \in 0..Len(ops)
    BY <2>1, <1>2
  <2> QED BY <2>3, <2>4, <1>1, <1>5, <1>8
<1>15. /\ 0 \in DOMAIN to /\ to[0] = 0
       /\ Len(Q) \in DOMAIN to /\ to[Len(Q)] = Len(rest)
  <2>1. 0 \in 0..Len(Q) /\ Len(Q) \in 0..Len(Q) /\ 0 + L = L /\ Len(Q) + L = Len(P)
    BY <1>1, <1>7
  <2>2. 0 \in DOMAIN to /\ Len(Q) \in DOMAIN to
    BY <2>1, <1>2, <1>6, <1>9
  <2>3. to[0] = at[L] - d /\ to[Len(Q)] = Len(ops) - d
    BY <2>1, <2>2, <1>2, <1>8
  <2> QED BY <2>2, <2>3, <1>1, <1>5, <1>11
<1>16. ASSUME NEW b \in DOMAIN to, b < Len(Q)
       PROVE  \E j \in Typed :
                /\ KeyAt(Q, b, j) /\ b + KeyLen(j) \in DOMAIN to
                /\ Due(rest, to[b], to[b + KeyLen(j)], j)
  <2>1. b \in Nat /\ b + L \in DOMAIN at /\ b + L < Len(P)
    BY <1>1, <1>7, <1>8, <1>16
  <2>2. PICK j \in Typed :
          /\ KeyAt(P, b + L, j) /\ b + L + KeyLen(j) \in DOMAIN at
          /\ Due(ops, at[b + L], at[b + L + KeyLen(j)], j)
    BY <2>1 DEF Keyed
  <2>3. KeyLen(j) \in 1..4
    BY KeySize
  <2>4. b + L + KeyLen(j) <= Len(P) /\ \A i \in 1..KeyLen(j) : P[b + L + i] = KeyBytes[j][i]
    BY <2>2 DEF KeyAt
  <2>5. b + KeyLen(j) <= Len(Q)
    BY <2>1, <2>3, <2>4, <1>1, <1>7
  <2>6. \A i \in 1..KeyLen(j) : Q[b + i] = KeyBytes[j][i]
    <3> SUFFICES ASSUME NEW i \in 1..KeyLen(j) PROVE Q[b + i] = KeyBytes[j][i]
      OBVIOUS
    <3>1. b + i \in 1..Len(Q) /\ (b + i) + L = b + L + i
      BY <2>1, <2>3, <2>5, <1>1
    <3> QED BY <3>1, <2>4, <1>7
  <2>7. b + KeyLen(j) \in 0..Len(Q) /\ (b + KeyLen(j)) + L = b + L + KeyLen(j)
    BY <2>1, <2>3, <2>5, <1>1
  <2>8. b + KeyLen(j) \in DOMAIN to
    BY <2>7, <2>2, <1>9
  <2>9. /\ to[b] = at[b + L] - d
        /\ to[b + KeyLen(j)] = at[b + L + KeyLen(j)] - d
    BY <2>7, <2>8, <1>8
  <2>10. /\ at[b + L] \in 0..Len(ops) /\ at[b + L + KeyLen(j)] \in 0..Len(ops)
         /\ to[b] \in 0..Len(rest)
    BY <2>1, <2>2, <1>2, <1>12
  <2>11. Due(rest, to[b], to[b + KeyLen(j)], j)
    <3>1. CASE OpOfKey(j) = "none"
      BY <3>1, <2>2, <2>9 DEF Due
    <3>2. CASE OpOfKey(j) # "none"
      <4>1. /\ at[b + L] < Len(ops) /\ ops[at[b + L] + 1] = OpOfKey(j)
            /\ at[b + L + KeyLen(j)] = at[b + L] + 1
        BY <3>2, <2>2 DEF Due
      <4>0. (to[b] + 1) + d = at[b + L] + 1 /\ to[b + KeyLen(j)] = to[b] + 1
        BY <4>1, <2>9, <2>10, <1>1, <1>5
      <4>2. /\ to[b] < Len(rest) /\ to[b] + 1 \in 1..Len(rest)
            /\ (to[b] + 1) + d = at[b + L] + 1 /\ to[b + KeyLen(j)] = to[b] + 1
        BY <4>0, <4>1, <2>10, <1>1, <1>5, <1>11
      <4>3. rest[to[b] + 1] = OpOfKey(j)
        BY <4>1, <4>2, <1>5
      <4> QED BY <3>2, <4>2, <4>3 DEF Due
    <3> QED BY <3>1, <3>2
  <2> QED BY <2>5, <2>6, <2>8, <2>11 DEF KeyAt
<1>17. Keyed(Q, rest, to)
  BY <1>8, <1>13, <1>14, <1>15, <1>16 DEF Keyed
<1> QED BY <1>4, <1>17 DEF rest, Whole

\* What parseEsc makes of a segment, by its first byte that can end a sequence.
LEMMA Parse ==
  ASSUME NEW seg \in Seq(Bytes)
  PROVE  /\ Len(seg) < 2 => ParseEsc(seg).len = 0
         /\ Len(seg) >= 2 /\ seg[2] # "[" => ParseEsc(seg) = [len |-> 1, op |-> "none"]
         /\ Len(seg) >= 2 /\ seg[2] = "[" /\ (\A j \in 3..Len(seg) : seg[j] \notin Finals) =>
              ParseEsc(seg).len = 0
         /\ \A n \in 3..Len(seg) :
              /\ seg[2] = "[" /\ seg[n] \in Finals
              /\ \A j \in 3..n - 1 : seg[j] \notin Finals
              => ParseEsc(seg) = [len |-> n, op |-> CSIOp(SubSeq(seg, 3, n))]
<1> DEFINE ends == {j \in 3..Len(seg) : seg[j] \in Finals}
<1>1. ParseEsc(seg) =
        CASE Len(seg) < 2 -> [len |-> 0, op |-> "none"]
          [] Len(seg) >= 2 /\ seg[2] # "[" -> [len |-> 1, op |-> "none"]
          [] Len(seg) >= 2 /\ seg[2] = "[" /\ ends = {} -> [len |-> 0, op |-> "none"]
          [] OTHER -> [len |-> Min(ends), op |-> CSIOp(SubSeq(seg, 3, Min(ends)))]
  BY DEF ParseEsc
<1>2. Len(seg) \in Nat
  OBVIOUS
<1>3. (\A j \in 3..Len(seg) : seg[j] \notin Finals) => ends = {}
  OBVIOUS
<1>4. ASSUME NEW n \in 3..Len(seg), seg[n] \in Finals,
             \A j \in 3..n - 1 : seg[j] \notin Finals
      PROVE  n \in ends /\ Min(ends) = n
  <2>1. n \in ends /\ ends \subseteq Nat
    BY <1>2, <1>4
  <2>2. \A j \in ends : n <= j
    BY <1>2, <1>4
  <2> HIDE DEF ends
  <2>3. \A x \in ends : (\A y \in ends : x <= y) => x = n
    BY <2>1, <2>2
  <2> QED BY <2>1, <2>2, <2>3 DEF Min
<1> HIDE DEF ends
<1>5. Len(seg) < 2 => ParseEsc(seg).len = 0
  BY <1>1, <1>2
<1>6. Len(seg) >= 2 /\ seg[2] # "[" => ParseEsc(seg) = [len |-> 1, op |-> "none"]
  BY <1>1, <1>2
<1>7. Len(seg) >= 2 /\ seg[2] = "[" /\ ends = {} => ParseEsc(seg).len = 0
  BY <1>1, <1>2
<1>8. Len(seg) >= 2 /\ seg[2] = "[" /\ ends # {} =>
        ParseEsc(seg) = [len |-> Min(ends), op |-> CSIOp(SubSeq(seg, 3, Min(ends)))]
  BY <1>1, <1>2
<1>9. ASSUME NEW n \in 3..Len(seg), seg[2] = "[", seg[n] \in Finals,
             \A j \in 3..n - 1 : seg[j] \notin Finals
      PROVE  ParseEsc(seg) = [len |-> n, op |-> CSIOp(SubSeq(seg, 3, n))]
  <2>1. n \in ends /\ Min(ends) = n /\ Len(seg) >= 2
    BY <1>2, <1>4, <1>9
  <2> QED BY <2>1, <1>8, <1>9
<1> QED BY <1>3, <1>5, <1>6, <1>7, <1>9

\* The key thread takes whole keys: as long as the bytes it has not read yet go on
\* where its data stops, the next item of the data is the first key, or the data is the
\* beginning of a key.
LEMMA ItemIsKey ==
  ASSUME NEW P \in Seq(Bytes), NEW ops, NEW at, Keyed(P, ops, at),
         data \in Seq(Bytes), data # <<>>, ~forced,
         Len(data) <= Len(P), \A j \in 1..Len(data) : data[j] = P[j],
         NEW k \in Typed, KeyAt(P, 0, k), KeyLen(k) \in DOMAIN at
  PROVE  /\ Item.len > 0 => Item.len = KeyLen(k) /\ Item.op = OpOfKey(k)
         /\ Item.len = 0 => data \in Unfinished
<1>1. Len(data) \in Nat \ {0} /\ Len(P) \in Nat /\ Head(data) = data[1]
  BY EmptySeq
<1>0. /\ Len(data) = 1 \/ Len(data) >= 2
      /\ Len(data) = 1 \/ Len(data) = 2 \/ Len(data) >= 3
      /\ Len(data) = 1 \/ Len(data) = 2 \/ Len(data) = 3 \/ Len(data) >= 4
  <2> DEFINE n == Len(data)
  <2>1. n \in Nat /\ n # 0
    BY <1>1
  <2> HIDE DEF n
  <2>2. /\ n = 1 \/ n >= 2
        /\ n = 1 \/ n = 2 \/ n >= 3
        /\ n = 1 \/ n = 2 \/ n = 3 \/ n >= 4
    BY ONLY <2>1
  <2> QED BY <2>2 DEF n
<1>2. \A j \in 1..KeyLen(k) : P[j] = KeyBytes[k][j]
  BY KeySize DEF KeyAt
<1>3. KeyLen(k) <= Len(P) /\ KeyLen(k) \in 1..4
  BY KeySize DEF KeyAt
<1>4. \A j \in 1..Len(data) : j <= KeyLen(k) => data[j] = KeyBytes[k][j]
  BY <1>1, <1>2, <1>3
<1>5. 1 \in 1..Len(data) /\ data[1] = KeyBytes[k][1]
  BY <1>1, <1>3, <1>4
<1>6. /\ Len(data) = 1 => data = <<data[1]>>
      /\ Len(data) = 2 => data = <<data[1], data[2]>>
      /\ Len(data) = 3 => data = <<data[1], data[2], data[3]>>
  BY Tuples
<1>7. ASSUME NEW b \in Bytes \ {"esc", "["}, KeyBytes[k] = <<b>>, OpOfKey(k) = SingleOp(b)
      PROVE  Item.len = KeyLen(k) /\ Item.op = OpOfKey(k)
  <2>1. Head(data) = b /\ KeyLen(k) = 1
    BY <1>1, <1>5, <1>7 DEF KeyLen
  <2>2. Item = [len |-> 1, op |-> SingleOp(b)]
    BY <2>1 DEF Item
  <2> QED BY <2>1, <2>2, <1>7
<1>8. CASE \E b \in Bytes \ {"esc", "["} :
             KeyBytes[k] = <<b>> /\ OpOfKey(k) = SingleOp(b)
  BY <1>7, <1>8, <1>3
<1>9. ASSUME KeyBytes[k][1] = "esc"
      PROVE  Item = ParseEsc(data) /\ (Len(data) = 1 => Item.len = 0 /\ data \in Unfinished)
  <2>1. Item = ParseEsc(data)
    BY <1>1, <1>5, <1>9 DEF Item
  <2>2. Len(data) = 1 => data = <<"esc">>
    BY <1>5, <1>6, <1>9
  <2>3. Len(data) = 1 => ParseEsc(data).len = 0
    BY Parse, <1>1
  <2> QED BY <2>1, <2>2, <2>3 DEF Unfinished
<1>10. CASE k = "esc" /\ KeyBytes[k] = <<"esc">> /\ OpOfKey(k) = "none"
  <2>1. KeyLen(k) = 1 /\ KeyBytes[k][1] = "esc"
    BY <1>10 DEF KeyLen
  <2>2. CASE Len(data) = 1
    BY <2>1, <2>2, <1>9
  <2>3. CASE Len(data) >= 2
    <3>1. 1 \in DOMAIN at /\ 1 < Len(P) /\ data[2] = P[2]
      BY <2>1, <2>3, <1>1
    <3>2. PICK c \in Typed : KeyAt(P, 1, c)
      BY <3>1 DEF Keyed
    <3>3. P[2] = KeyBytes[c][1]
      BY <3>2, KeySize DEF KeyAt
    <3>4. KeyBytes[c][1] # "["
      BY KeyTable
    <3>5. ParseEsc(data) = [len |-> 1, op |-> "none"]
      BY <2>3, <3>1, <3>3, <3>4, Parse
    <3> QED BY <3>5, <2>1, <1>9, <1>10
  <2> QED BY <2>2, <2>3, <1>0
<1>11. CASE k = "up" /\ KeyBytes[k] = <<"esc", "[", "a">> /\ OpOfKey(k) = "up"
  <2>1. /\ KeyLen(k) = 3 /\ KeyBytes[k][1] = "esc" /\ KeyBytes[k][2] = "["
        /\ KeyBytes[k][3] = "a"
    BY <1>11 DEF KeyLen
  <2>2. CASE Len(data) = 1
    BY <2>1, <2>2, <1>9
  <2>3. CASE Len(data) = 2
    <3>1. data[1] = "esc" /\ data[2] = "["
      BY <2>1, <2>3, <1>4
    <3>2. data \in Unfinished
      BY <2>3, <3>1, <1>6 DEF Unfinished
    <3>3. ParseEsc(data).len = 0
      BY <2>3, <3>1, Parse
    <3> QED BY <3>2, <3>3, <2>1, <1>9
  <2>4. CASE Len(data) >= 3
    <3>1. 3 \in 3..Len(data) /\ data[2] = "[" /\ data[3] = "a"
      BY <2>1, <2>4, <1>1, <1>4
    <3>2. "a" \in Finals /\ 3..3 - 1 = {}
      BY DEF Finals
    <3>3. ParseEsc(data) = [len |-> 3, op |-> CSIOp(SubSeq(data, 3, 3))]
      BY <3>1, <3>2, Parse
    <3>4. CSIOp(SubSeq(data, 3, 3)) = "up"
      BY <2>4, <3>1, Body DEF CSIOp
    <3> QED BY <3>3, <3>4, <2>1, <1>9, <1>11
  <2> QED BY <2>2, <2>3, <2>4, <1>0
<1>12. ASSUME NEW b \in {"5", "6"}, KeyBytes[k] = <<"esc", "[", b, "~">>,
              OpOfKey(k) = CSIOp(<<b, "~">>)
       PROVE  /\ Item.len > 0 => Item.len = KeyLen(k) /\ Item.op = OpOfKey(k)
              /\ Item.len = 0 => data \in Unfinished
  <2>1. /\ KeyLen(k) = 4 /\ KeyBytes[k][1] = "esc" /\ KeyBytes[k][2] = "["
        /\ KeyBytes[k][3] = b /\ KeyBytes[k][4] = "~"
    BY <1>12 DEF KeyLen
  <2>2. CASE Len(data) = 1
    BY <2>1, <2>2, <1>9
  <2>3. CASE Len(data) = 2
    <3>1. data[1] = "esc" /\ data[2] = "["
      BY <2>1, <2>3, <1>4
    <3>2. data \in Unfinished
      BY <2>3, <3>1, <1>6 DEF Unfinished
    <3>3. ParseEsc(data).len = 0
      BY <2>3, <3>1, Parse
    <3> QED BY <3>2, <3>3, <2>1, <1>9
  <2>4. CASE Len(data) = 3
    <3>1. data[1] = "esc" /\ data[2] = "[" /\ data[3] = b
      BY <2>1, <2>4, <1>4
    <3>2. data \in Unfinished
      BY <2>4, <3>1, <1>6 DEF Unfinished
    <3>3. b \notin Finals
      BY DEF Finals
    <3>4. \A j \in 3..Len(data) : data[j] \notin Finals
      BY <2>4, <3>1, <3>3
    <3>5. Len(data) >= 2
      BY <2>4
    <3>6. ParseEsc(data).len = 0
      BY ONLY <3>1, <3>4, <3>5, Parse, data \in Seq(Bytes)
    <3> QED BY <3>2, <3>6, <2>1, <1>9
  <2>5. CASE Len(data) >= 4
    <3>1. 4 \in 3..Len(data) /\ data[2] = "[" /\ data[3] = b /\ data[4] = "~"
      BY <2>1, <2>5, <1>1, <1>4
    <3>2. b \notin Finals /\ "~" \in Finals /\ 3..4 - 1 = {3}
      BY DEF Finals
    <3>3. ParseEsc(data) = [len |-> 4, op |-> CSIOp(SubSeq(data, 3, 4))]
      BY <3>1, <3>2, Parse
    <3>4. SubSeq(data, 3, 4) = <<b, "~">>
      BY <2>5, <3>1, Body
    <3>5. Item = [len |-> 4, op |-> CSIOp(<<b, "~">>)]
      BY <3>3, <3>4, <2>1, <1>9
    <3>6. Item.len = 4 /\ Item.op = OpOfKey(k)
      BY <3>5, <1>12
    <3> QED BY <3>6, <2>1
  <2> QED BY <2>2, <2>3, <2>4, <2>5, <1>0
<1>13. CASE k = "pgup" /\ KeyBytes[k] = <<"esc", "[", "5", "~">> /\ OpOfKey(k) = "pgup"
  <2>1. CSIOp(<<"5", "~">>) = "pgup"
    BY DEF CSIOp
  <2> QED BY <2>1, <1>12, <1>13
<1>14. CASE k = "pgdn" /\ KeyBytes[k] = <<"esc", "[", "6", "~">> /\ OpOfKey(k) = "pgdn"
  <2>1. CSIOp(<<"6", "~">>) = "pgdn"
    BY DEF CSIOp
  <2> QED BY <2>1, <1>12, <1>14
<1> QED BY <1>8, <1>10, <1>11, <1>13, <1>14, KeyTable

\* An unfinished key with nothing behind it was the escape key, which calls for nothing.
LEMMA NoRest ==
  ASSUME NEW P \in Unfinished, NEW ops \in Seq(Ops), NEW at, Keyed(P, ops, at)
  PROVE  Len(P) = 1 /\ ops = <<>>
<1>1. /\ Len(<<"esc">>) = 1 /\ Len(<<"esc", "[">>) = 2 /\ Len(<<"esc", "[", "5">>) = 3
      /\ Len(<<"esc", "[", "6">>) = 3
  OBVIOUS
<1>2. /\ Len(P) \in 1..3 /\ P[1] = "esc" /\ (Len(P) >= 2 => P[2] = "[")
      /\ (Len(P) = 3 => P[3] \in {"5", "6"})
  BY <1>1 DEF Unfinished
<1>3. /\ 0 \in DOMAIN at /\ at[0] = 0 /\ 0 < Len(P)
      /\ at[Len(P)] = Len(ops)
  BY <1>2 DEF Keyed
<1>4. PICK k \in Typed : KeyAt(P, 0, k) /\ KeyLen(k) \in DOMAIN at /\ Due(ops, 0, at[KeyLen(k)], k)
  BY <1>3, KeySize DEF Keyed
<1>5. /\ KeyLen(k) \in 1..4 /\ KeyLen(k) <= Len(P)
      /\ \A j \in 1..KeyLen(k) : P[j] = KeyBytes[k][j]
  BY <1>4, KeySize DEF KeyAt
<1>6. CASE k = "esc" /\ KeyBytes[k] = <<"esc">> /\ OpOfKey(k) = "none"
  <2>1. KeyLen(k) = 1
    BY <1>6 DEF KeyLen
  <2>2. CASE Len(P) = 1
    <3>1. at[1] = 0
      BY <1>4, <1>6, <2>1 DEF Due
    <3> QED BY <3>1, <2>2, <1>3, EmptySeq
  <2>3. CASE Len(P) >= 2
    <3>1. PICK c \in Typed : KeyAt(P, 1, c)
      BY <1>4, <2>1, <2>3, <1>2 DEF Keyed
    <3>2. P[2] = KeyBytes[c][1]
      BY <3>1, KeySize DEF KeyAt
    <3>3. KeyBytes[c][1] # "["
      BY KeyTable
    <3> QED BY <3>2, <3>3, <2>3, <1>2
  <2>4. Len(P) = 1 \/ Len(P) >= 2
    BY <1>2
  <2> QED BY <2>2, <2>3, <2>4
<1>7. CASE k = "up" /\ KeyBytes[k] = <<"esc", "[", "a">>
  <2>1. KeyLen(k) = 3 /\ KeyBytes[k][3] = "a"
    BY <1>7 DEF KeyLen
  <2> QED BY <2>1, <1>2, <1>5
<1>8. CASE KeyBytes[k] \in {<<"esc", "[", "5", "~">>, <<"esc", "[", "6", "~">>}
  <2>1. KeyLen(k) = 4
    BY <1>8 DEF KeyLen
  <2> QED BY <2>1, <1>2, <1>5
<1>9. CASE \E b \in Bytes \ {"esc", "["} : KeyBytes[k] = <<b>>
  <2>1. KeyBytes[k][1] # "esc"
    BY <1>9
  <2> QED BY <2>1, <1>2, <1>5
<1> QED BY <1>6, <1>7, <1>8, <1>9, KeyTable

\* Nothing is lost or moved when the key thread reads or carries bytes over, and what it
\* takes off its data is at the head of what is pending.
LEMMA PendingFacts ==
  ASSUME InputOK
  PROVE  /\ Pending \in Seq(Bytes)
         /\ data = <<>> => Pending = carry \o tty
         /\ carry = <<>> => Pending = data \o tty
<1>1. /\ data \in Seq(Bytes) /\ carry \in Seq(Bytes) /\ tty \in Seq(Bytes)
      /\ <<>> \in Seq(Bytes)
  BY DEF InputOK
<1> HIDE DEF Bytes
<1>2. data \o carry \in Seq(Bytes)
  BY <1>1, ConcatProperties
<1>3. Pending \in Seq(Bytes)
  BY <1>1, <1>2, ConcatProperties DEF Pending
<1>4. <<>> \o carry = carry /\ data \o <<>> = data
  BY <1>1, ConcatEmptySeq
<1> QED BY <1>3, <1>4 DEF Pending

\* A read puts the bytes carried over before those that have arrived.
LEMMA ReadKeeps ==
  ASSUME InputOK, data = <<>>, Read
  PROVE  Pending' = Pending
<1>1. PICK n \in 1..Len(tty) :
        data' = carry \o SubSeq(tty, 1, n) /\ tty' = SubSeq(tty, n + 1, Len(tty))
  BY DEF Read
<1>2. carry \in Seq(Bytes) /\ tty \in Seq(Bytes) /\ carry' = <<>>
  BY DEF InputOK, Read
<1> HIDE DEF Bytes
<1>3. n \in Nat /\ Len(tty) \in Nat /\ n <= Len(tty) /\ 0 \in Nat /\ 0 + 1 = 1
  BY <1>2
<1>4. SubSeq(tty, 1, n) \in Seq(Bytes) /\ SubSeq(tty, n + 1, Len(tty)) \in Seq(Bytes)
  BY <1>2, <1>3, RestType
<1>5. carry \o SubSeq(tty, 1, n) \in Seq(Bytes)
  BY <1>2, <1>4, ConcatProperties
<1>6. Pending' = (carry \o SubSeq(tty, 1, n)) \o SubSeq(tty, n + 1, Len(tty))
  <2>1. data' \o <<>> = data'
    BY <1>1, <1>5, ConcatEmptySeq
  <2>2. Pending' = (data' \o <<>>) \o tty'
    BY <1>2 DEF Pending
  <2>3. Pending' = data' \o tty'
    BY <2>1, <2>2
  <2> QED BY <2>3, <1>1
<1>7. @ = carry \o (SubSeq(tty, 1, n) \o SubSeq(tty, n + 1, Len(tty)))
  <2> DEFINE a == SubSeq(tty, 1, n)
             b == SubSeq(tty, n + 1, Len(tty))
  <2>1. carry \in Seq(Bytes) /\ a \in Seq(Bytes) /\ b \in Seq(Bytes)
    BY <1>2, <1>4
  <2> HIDE DEF a, b
  <2>2. (carry \o a) \o b = carry \o (a \o b)
    BY ONLY <2>1, ConcatAssociative
  <2> QED BY <2>2 DEF a, b
<1>8. SubSeq(tty, 1, n) \o SubSeq(tty, n + 1, Len(tty)) = SubSeq(tty, 1, Len(tty))
  <2>1. 1 \in 1..Len(tty) + 1 /\ n \in 1 - 1..Len(tty) /\ Len(tty) \in n..Len(tty)
    BY <1>3
  <2> QED BY <1>2, <2>1, ConcatAdjacentSubSeq
<1>9. @ = tty
  BY <1>2, SubSeqFull
<1> QED BY <1>6, <1>7, <1>8, <1>9, PendingFacts

\* A step that takes an item takes the first key, and does what it calls for.
LEMMA TakesKey ==
  ASSUME InputOK, FlagsOK, KeysInv, NEW S, Takes(S)
  PROVE  /\ owed' \in Seq(Ops) /\ carry' = <<>> /\ kpc = "handle"
         /\ ~gapped => ~forced /\ ~wrong' /\ Whole(Pending', owed')
<1>1. /\ kpc = "handle" /\ data # <<>> /\ Item.len > 0
      /\ data' = SubSeq(data, Item.len + 1, Len(data))
      /\ Item.op = "none" => owed' = owed /\ wrong' = wrong
      /\ Item.op # "none" /\ owed # <<>> /\ Head(owed) = Item.op =>
           owed' = Tail(owed) /\ wrong' = wrong
      /\ owed' = owed \/ (owed # <<>> /\ owed' = Tail(owed))
      /\ tty' = tty /\ carry' = carry
  <2>1. /\ kpc = "handle" /\ data # <<>> /\ Item.len > 0
        /\ data' = SubSeq(data, Item.len + 1, Len(data)) /\ tty' = tty /\ carry' = carry
    BY DEF Takes
  <2>2. Item.op = "none" => owed' = owed /\ wrong' = wrong
    BY DEF Takes
  <2>3. Item.op # "none" /\ owed # <<>> /\ Head(owed) = Item.op =>
          owed' = Tail(owed) /\ wrong' = wrong
    BY DEF Takes
  <2>4. owed' = owed \/ (owed # <<>> /\ owed' = Tail(owed))
    BY DEF Takes
  <2> QED BY <2>1, <2>2, <2>3, <2>4
<1>2. owed \in Seq(Ops) /\ carry = <<>>
  BY <1>1 DEF KeysInv
<1>3. owed' \in Seq(Ops)
  BY <1>1, <1>2, HeadTailProperties
<1>4. ASSUME ~gapped
      PROVE  ~forced /\ ~wrong' /\ Whole(Pending', owed')
  <2>1. ~forced /\ ~wrong /\ Whole(Pending, owed)
    BY <1>1, <1>4 DEF KeysInv
  <2>2. PICK at : Keyed(Pending, owed, at)
    BY <2>1 DEF Whole
  <2>3. /\ Pending \in Seq(Bytes) /\ Pending = data \o tty
        /\ data \in Seq(Bytes) /\ tty \in Seq(Bytes)
    BY <1>2, PendingFacts DEF InputOK
  <2>4. /\ Len(data) \in Nat \ {0} /\ Len(tty) \in Nat
        /\ Len(Pending) = Len(data) + Len(tty)
        /\ \A i \in 1..Len(data) + Len(tty) :
             Pending[i] = IF i <= Len(data) THEN data[i] ELSE tty[i - Len(data)]
    BY <2>3, <1>1, EmptySeq, LenProperties, ConcatProperties
  <2>5. Len(data) <= Len(Pending) /\ \A i \in 1..Len(data) : data[i] = Pending[i]
    BY <2>4
  <2>6. 0 \in DOMAIN at /\ at[0] = 0 /\ 0 < Len(Pending)
    BY <2>2, <2>4 DEF Keyed
  <2>7. PICK k \in Typed : /\ KeyAt(Pending, 0, k) /\ KeyLen(k) \in DOMAIN at
                           /\ Due(owed, 0, at[KeyLen(k)], k)
    BY <2>2, <2>6, KeySize DEF Keyed
  <2>8. Item.len = KeyLen(k) /\ Item.op = OpOfKey(k)
    BY <1>1, <2>1, <2>2, <2>3, <2>5, <2>7, ItemIsKey
  <2>9. Item.len \in 1..Len(data)
    BY <1>1, <2>3, ItemWithin
  <2> DEFINE L == KeyLen(k)
  <2>10. L \in 1..Len(data) /\ data' = SubSeq(data, L + 1, Len(data))
    BY <1>1, <2>8, <2>9
  <2> HIDE DEF L, Bytes
  <2>11. /\ data' \in Seq(Bytes) /\ Len(data') = Len(data) - L
         /\ \A i \in 1..Len(data) - L : data'[i] = data[i + L]
    <3>1. L + 1 \in Int /\ Len(data) \in Int
      BY <2>4, <2>10
    <3>2. \A i \in L + 1..Len(data) : data[i] \in Bytes
      BY <2>3, <2>10, ElementOfSeq
    <3>3. /\ data' \in Seq(Bytes)
          /\ Len(data') = IF L + 1 <= Len(data) THEN Len(data) - (L + 1) + 1 ELSE 0
          /\ \A i \in 1..Len(data) - (L + 1) + 1 : data'[i] = data[L + 1 + i - 1]
      BY <2>10, <3>1, <3>2, SubSeqProperties
    <3>4. Len(data') = Len(data) - L /\ Len(data) - (L + 1) + 1 = Len(data) - L
      BY <3>3, <2>4, <2>10
    <3>5. \A i \in 1..Len(data) - L : L + 1 + i - 1 = i + L
      BY <2>4, <2>10
    <3> QED BY <3>3, <3>4, <3>5
  <2>12. Pending' = data' \o tty
    BY <2>11, <1>1, <1>2, ConcatEmptySeq DEF Pending
  <2>13. /\ Pending' \in Seq(Bytes) /\ Len(Pending') = Len(data') + Len(tty)
         /\ \A i \in 1..Len(data') + Len(tty) :
              Pending'[i] = IF i <= Len(data') THEN data'[i] ELSE tty[i - Len(data')]
    BY <2>3, <2>11, <2>12, ConcatProperties
  <2>14. Len(Pending) = Len(Pending') + L
    BY <2>4, <2>10, <2>11, <2>13
  <2>15. ASSUME NEW i \in 1..Len(Pending')
         PROVE  Pending'[i] = Pending[i + L]
    <3>0. i \in Nat /\ i + L \in 1..Len(data) + Len(tty) /\ i \in 1..Len(data') + Len(tty)
      BY <2>4, <2>10, <2>11, <2>13, <2>14
    <3>4. /\ L \in Nat /\ Len(data') \in Nat /\ Len(data) = Len(data') + L
          /\ i <= Len(data) - L \/ i > Len(data) - L
      <4> DEFINE d == Len(data)
                 e == Len(data')
      <4>1. i \in Nat /\ d \in Nat
        BY <3>0, <2>4
      <4>2. L \in 1..d
        BY <2>10
      <4>3. e = d - L
        BY <2>11
      <4> HIDE DEF d, e
      <4>4. /\ L \in Nat /\ e \in Nat /\ d = e + L
            /\ i <= d - L \/ i > d - L
        BY ONLY <4>1, <4>2, <4>3
      <4> QED BY <4>4 DEF d, e
    <3>1. CASE i <= Len(data) - L
      <4>1. i + L <= Len(data) /\ i <= Len(data') /\ i \in 1..Len(data) - L
        BY <3>0, <3>1, <2>4, <2>10, <2>11
      <4> QED BY <4>1, <3>0, <2>4, <2>11, <2>13
    <3>2. CASE i > Len(data) - L
      <4>1. ~ (i + L <= Len(data)) /\ ~ (i <= Len(data')) /\ i - Len(data') = (i + L) - Len(data)
        <5> DEFINE d == Len(data)
                   e == Len(data')
        <5>1. i \in Nat /\ L \in Nat /\ e \in Nat /\ d = e + L /\ i > d - L
          BY <3>0, <3>2, <3>4
        <5> HIDE DEF d, e
        <5>2. ~ (i + L <= d) /\ ~ (i <= e) /\ i - e = (i + L) - d
          BY ONLY <5>1
        <5> QED BY <5>2 DEF d, e
      <4> QED BY <4>1, <3>0, <2>4, <2>13
    <3> QED BY <3>1, <3>2, <3>4
  <2>16. /\ OpOfKey(k) # "none" => owed # <<>> /\ Head(owed) = OpOfKey(k)
         /\ Whole(Pending', IF OpOfKey(k) = "none" THEN owed ELSE Tail(owed))
    <3> DEFINE Q == Pending'
    <3>1. /\ Q \in Seq(Bytes) /\ Len(Pending) = Len(Q) + KeyLen(k)
          /\ \A j \in 1..Len(Q) : Q[j] = Pending[j + KeyLen(k)]
      BY <2>13, <2>14, <2>15 DEF L
    <3>2. owed \in Seq(Ops) /\ Pending \in Seq(Bytes)
      BY <1>2, <2>3
    <3> HIDE DEF Q
    <3>3. /\ OpOfKey(k) # "none" => owed # <<>> /\ Head(owed) = OpOfKey(k)
          /\ Whole(Q, IF OpOfKey(k) = "none" THEN owed ELSE Tail(owed))
      BY ONLY <3>1, <3>2, <2>2, <2>7, DropKey, k \in Typed
    <3> QED BY <3>3 DEF Q
  <2>17. owed' = (IF OpOfKey(k) = "none" THEN owed ELSE Tail(owed)) /\ wrong' = wrong
    BY <1>1, <2>8, <2>16
  <2> QED BY <2>1, <2>16, <2>17
<1> QED BY <1>1, <1>2, <1>3, <1>4

\* Nothing pending, nothing owed.
LEMMA NoKeys == Whole(<<>>, <<>>)
<1> DEFINE at == [b \in {0} |-> 0]
<1>1. Len(<<>>) = 0
  OBVIOUS
<1>2. DOMAIN at = {0} /\ at[0] = 0 /\ at \in [{0} -> 0..0] /\ {0} \subseteq 0..0
  OBVIOUS
<1>3. \A b \in {0} : ~ (b < 0)
  OBVIOUS
<1> HIDE DEF at
<1>4. Keyed(<<>>, <<>>, at)
  BY <1>1, <1>2, <1>3 DEF Keyed
<1> QED BY <1>4 DEF Whole

\* Steps that leave the bytes and what they call for alone.
LEMMA KeysStutter ==
  ASSUME KeysInv, UNCHANGED <<tty, data, carry, forced, owed, wrong, gapped>>,
         \/ kpc' = kpc /\ (dpc' = "start" => dpc = "start")
         \/ kpc = "top" /\ kpc' \in {"gone", "read"} /\ dpc' = dpc
         \/ kpc = "mirror" /\ kpc' = "handle" /\ dpc' = dpc
         \/ dpc = "start" /\ dpc' # "start" /\ kpc' \in {"top", "gone"}
  PROVE  KeysInv'
<1>1. Pending' = Pending
  BY DEF Pending
<1>2. Whole(Pending, owed)' <=> Whole(Pending, owed)
  BY <1>1 DEF Whole
<1> QED BY <1>2 DEF KeysInv

\* The key thread's steps on its input.
LEMMA KeysThread ==
  ASSUME InputOK, FlagsOK, KeysInv, KeyThread
  PROVE  KeysInv'
<1>1. CASE KeyLoop
  <2>1. /\ UNCHANGED <<tty, data, carry, forced, owed, wrong, gapped, dpc>>
        /\ kpc = "top" /\ kpc' \in {"gone", "read"}
    BY <1>1 DEF KeyLoop, drawVars, histVars
  <2> QED BY <2>1, KeysStutter
<1>2. CASE MirrorFlip
  <2>1. /\ UNCHANGED <<tty, data, carry, forced, owed, wrong, gapped, dpc>>
        /\ kpc = "mirror" /\ kpc' = "handle"
    BY <1>2 DEF MirrorFlip, drawVars, histVars
  <2> QED BY <2>1, KeysStutter
<1>3. CASE Read
  <2>1. /\ UNCHANGED <<forced, owed, wrong, gapped, dpc>>
        /\ kpc = "read" /\ kpc' = "handle" /\ carry' = <<>>
    BY <1>3 DEF Read, drawVars, histVars
  <2>2. dpc # "start" /\ ~forced
    BY <2>1 DEF KeysInv
  <2>3. ASSUME ~gapped
        PROVE  ~wrong /\ Whole(Pending', owed')
    <3>1. data = <<>> /\ ~wrong /\ Whole(Pending, owed)
      BY <2>1, <2>3 DEF KeysInv
    <3>2. Pending' = Pending
      BY <3>1, <1>3, ReadKeeps
    <3> QED BY <3>1, <3>2, <2>1
  <2> QED BY <2>1, <2>2, <2>3 DEF KeysInv
<1>4. CASE Handled
  <2>1. /\ UNCHANGED <<tty, owed, wrong, gapped, dpc>>
        /\ kpc = "handle" /\ kpc' = "top" /\ carry' = data /\ data' = <<>> /\ forced' = FALSE
        /\ data # <<>> => Item.len = 0
    BY <1>4 DEF Handled, drawVars, histVars
  <2>2. dpc # "start" /\ carry = <<>>
    BY <2>1 DEF KeysInv
  <2>3. Pending' = Pending
    <3>1. data \in Seq(Bytes)
      BY DEF InputOK
    <3>2. Pending' = (<<>> \o data) \o tty
      BY <2>1 DEF Pending
    <3>3. <<>> \o data = data
      BY <3>1, ConcatEmptySeq
    <3>4. Pending = data \o tty
      BY <2>2, PendingFacts
    <3> QED BY <3>2, <3>3, <3>4
  <2>4. ASSUME ~gapped
        PROVE  ~wrong /\ Whole(Pending', owed') /\ (carry' # <<>> => carry' \in Unfinished)
    <3>1. ~wrong /\ Whole(Pending, owed) /\ (forced => data = <<>>)
      BY <2>4 DEF KeysInv
    <3>2. ASSUME data # <<>>
          PROVE  data \in Unfinished
      <4>1. PICK at : Keyed(Pending, owed, at)
        BY <3>1 DEF Whole
      <4>2. /\ Pending \in Seq(Bytes) /\ Pending = data \o tty
            /\ data \in Seq(Bytes) /\ tty \in Seq(Bytes)
        BY <2>2, PendingFacts DEF InputOK
      <4>3. /\ Len(data) \in Nat \ {0} /\ Len(tty) \in Nat
            /\ Len(Pending) = Len(data) + Len(tty)
            /\ \A i \in 1..Len(data) + Len(tty) :
                 Pending[i] = IF i <= Len(data) THEN data[i] ELSE tty[i - Len(data)]
        BY <3>2, <4>2, EmptySeq, LenProperties, ConcatProperties
      <4>4. Len(data) <= Len(Pending) /\ \A i \in 1..Len(data) : data[i] = Pending[i]
        BY <4>3
      <4>5. 0 \in DOMAIN at /\ 0 < Len(Pending)
        BY <4>1, <4>3 DEF Keyed
      <4>6. PICK k \in Typed : KeyAt(Pending, 0, k) /\ KeyLen(k) \in DOMAIN at
        BY <4>1, <4>5, KeySize DEF Keyed
      <4>7. Item.len = 0
        BY <2>1, <3>2
      <4> QED BY <3>1, <3>2, <4>1, <4>2, <4>4, <4>6, <4>7, ItemIsKey
    <3> QED BY <3>1, <3>2, <2>1, <2>3
  <2> QED BY <2>1, <2>2, <2>4 DEF KeysInv
<1>5. CASE ReadTimeout
  <2>1. /\ UNCHANGED <<tty, owed, wrong, dpc>> /\ kpc = "read"
        /\ gapped' = (gapped \/ (carry # <<>> /\ tty # <<>>))
    BY <1>5 DEF ReadTimeout, drawVars
  <2>2. dpc # "start" /\ ~forced
    BY <2>1 DEF KeysInv
  <2>3. CASE carry = <<>>
    <3>1. UNCHANGED <<data, carry, forced>> /\ kpc' = "top"
      BY <1>5, <2>3 DEF ReadTimeout
    <3>2. Pending' = Pending
      BY <2>1, <3>1 DEF Pending
    <3> QED BY <2>1, <2>2, <2>3, <3>1, <3>2 DEF KeysInv
  <2>4. CASE carry # <<>>
    <3>1. kpc' = "handle" /\ data' = Tail(carry) /\ carry' = <<>>
      BY <1>5, <2>4 DEF ReadTimeout
    <3>2. ASSUME ~gapped'
          PROVE  ~wrong' /\ data' = <<>> /\ Whole(Pending', owed')
      <4>1. ~gapped /\ tty = <<>>
        BY <2>1, <2>4, <3>2
      <4>2. /\ ~wrong /\ data = <<>> /\ carry \in Unfinished /\ owed \in Seq(Ops)
            /\ Whole(Pending, owed)
        BY <2>1, <2>4, <4>1 DEF KeysInv
      <4>3. Pending = carry
        <5>1. carry \in Seq(Bytes)
          BY DEF InputOK
        <5> HIDE DEF Bytes
        <5>2. carry \o <<>> = carry
          BY <5>1, ConcatEmptySeq
        <5> QED BY <4>1, <4>2, <5>2, PendingFacts
      <4>4. Len(carry) = 1 /\ owed = <<>>
        BY <4>2, <4>3, NoRest DEF Whole
      <4>5. data' = <<>>
        <5>1. carry \in Seq(Bytes)
          BY DEF InputOK
        <5>2. Tail(carry) \in Seq(Bytes) /\ Len(Tail(carry)) = 0
          BY <5>1, <4>4, <2>4, HeadTailProperties
        <5> QED BY <5>2, <3>1, EmptySeq
      <4>6. Pending' = <<>>
        <5>1. Pending' = (<<>> \o <<>>) \o <<>>
          BY <2>1, <3>1, <4>1, <4>5 DEF Pending
        <5>2. <<>> \in Seq(Bytes)
          OBVIOUS
        <5>3. <<>> \o <<>> = <<>>
          BY ONLY <5>2, ConcatEmptySeq
        <5> QED BY <5>1, <5>3
      <4> QED BY <4>2, <4>4, <4>5, <4>6, <2>1, NoKeys
    <3>3. owed' \in Seq(Ops)
      BY <2>1 DEF KeysInv
    <3> QED BY <2>1, <2>2, <3>1, <3>2, <3>3 DEF KeysInv
  <2> QED BY <2>3, <2>4
<1>6. ASSUME Ignore \/ Scroll \/ ScrollToEnd \/ CycleFocus \/ ToggleHelp \/ Flip \/ Quit
      PROVE  KeysInv'
  <2>1. PICK S : Takes(S)
    BY <1>6 DEF Ignore, Scroll, ScrollToEnd, CycleFocus, ToggleHelp, Flip, Quit
  <2>2. /\ owed' \in Seq(Ops) /\ carry' = <<>> /\ kpc = "handle"
        /\ ~gapped => ~forced /\ ~wrong' /\ Whole(Pending', owed')
    BY <2>1, TakesKey
  <2>3. dpc' = dpc /\ gapped' = gapped
    BY <2>1 DEF Takes, drawVars
  <2>4. dpc # "start"
    BY <2>2 DEF KeysInv
  <2>5. \/ kpc' \in {"handle", "mirror"} /\ forced' = forced
        \/ kpc' = "top" /\ forced /\ forced' = FALSE
        \/ kpc' = "gone" /\ forced' = FALSE
    <3>1. CASE Ignore \/ Scroll \/ ScrollToEnd \/ CycleFocus \/ ToggleHelp
      BY <2>2, <3>1 DEF Ignore, Scroll, ScrollToEnd, CycleFocus, ToggleHelp
    <3>2. CASE Flip
      BY <2>2, <3>2 DEF Flip
    <3>3. CASE Quit
      BY <3>3 DEF Quit
    <3> QED BY <1>6, <3>1, <3>2, <3>3
  <2> QED BY <2>2, <2>3, <2>4, <2>5 DEF KeysInv
<1> QED BY <1>1, <1>2, <1>3, <1>4, <1>5, <1>6 DEF KeyThread, KeyThreadRuns

\* Every step keeps the keys whole.
LEMMA KeysStep ==
  ASSUME InputOK, FlagsOK, KeysInv, Next
  PROVE  KeysInv'
<1>1. CASE Start
  <2>1. /\ UNCHANGED <<tty, data, carry, forced, owed, wrong, gapped>>
        /\ dpc = "start" /\ dpc' # "start" /\ kpc' \in {"top", "gone"}
    BY <1>1 DEF Start, histVars
  <2> QED BY <2>1, KeysStutter
<1>2. CASE \/ MirrorLearned \/ ReadSwitch \/ WriteMirror \/ SetScrollBounds \/ Snapshot
           \/ DrawTick \/ DrawEnds
  <2>1. /\ UNCHANGED <<tty, data, carry, forced, owed, wrong, gapped, kpc>>
        /\ dpc' # "start"
    BY <1>2 DEF MirrorLearned, ReadSwitch, WriteMirror, SetScrollBounds, Snapshot, DrawTick,
       DrawEnds, keyVars, histVars
  <2> QED BY <2>1, KeysStutter
<1>3. CASE Main \/ NewVendor \/ Learned \/ Signal
  <2>1. UNCHANGED <<tty, data, carry, forced, owed, wrong, gapped, kpc, dpc>>
    BY <1>3 DEF Main, EngineEnds, Join, NewVendor, Learned, Signal, keyVars, histVars, drawVars
  <2> QED BY <2>1, KeysStutter
<1>4. ASSUME NEW k \in Typed, Type(k)
      PROVE  KeysInv'
  <2>1. /\ UNCHANGED <<kpc, data, carry, forced, wrong, gapped, dpc>>
        /\ tty' = tty \o KeyBytes[k]
        /\ owed' = IF OpOfKey(k) = "none" THEN owed ELSE Append(owed, OpOfKey(k))
    BY <1>4 DEF Type, drawVars
  <2>2. owed' \in Seq(Ops)
    <3>1. owed \in Seq(Ops) /\ OpOfKey(k) \in Ops \cup {"none"}
      BY KeyOps DEF KeysInv
    <3>2. OpOfKey(k) # "none" => Append(owed, OpOfKey(k)) \in Seq(Ops)
      BY <3>1, AppendProperties
    <3> QED BY <2>1, <3>1, <3>2
  <2>3. ASSUME ~gapped
        PROVE  Whole(Pending', owed')
    <3>1. Whole(Pending, owed) /\ owed \in Seq(Ops)
      BY <2>3 DEF KeysInv
    <3>2. PICK at : Keyed(Pending, owed, at)
      BY <3>1 DEF Whole
    <3>3. Pending \in Seq(Bytes)
      BY PendingFacts
    <3>4. Whole(Pending \o KeyBytes[k], owed')
      BY <2>1, <3>1, <3>2, <3>3, AppendKey
    <3>5. Pending' = Pending \o KeyBytes[k]
      <4> DEFINE a == data \o carry
                 b == tty
                 c == KeyBytes[k]
      <4>1. a \in Seq(Bytes) /\ b \in Seq(Bytes) /\ c \in Seq(Bytes)
        BY KeySize, ConcatProperties DEF InputOK
      <4>2. Pending' = a \o (b \o c) /\ Pending = a \o b
        BY <2>1 DEF Pending
      <4> HIDE DEF a, b, c
      <4>3. (a \o b) \o c = a \o (b \o c)
        BY ONLY <4>1, ConcatAssociative
      <4>4. Pending' = Pending \o c
        BY ONLY <4>2, <4>3
      <4> QED BY <4>4 DEF c
    <3> QED BY <3>4, <3>5
  <2> QED BY <2>1, <2>2, <2>3 DEF KeysInv
<1> QED BY <1>1, <1>2, <1>3, <1>4, KeysThread DEF Next, DrawThread, Environment

\* The keys are whole at the start, and stay so.
LEMMA KeysInvariant == Spec => []KeysInv
<1>1. Init => KeysInv
  <2> SUFFICES ASSUME Init PROVE KeysInv
    OBVIOUS
  <2>1. /\ tty = <<>> /\ data = <<>> /\ carry = <<>> /\ owed = <<>>
        /\ kpc = "gone" /\ ~forced /\ ~wrong
    BY DEF Init
  <2>2. Pending = <<>>
    <3>1. <<>> \in Seq(Bytes)
      OBVIOUS
    <3>2. <<>> \o <<>> = <<>>
      BY ONLY <3>1, ConcatEmptySeq
    <3> QED BY <2>1, <3>2 DEF Pending
  <2>3. owed \in Seq(Ops)
    BY <2>1
  <2> QED BY <2>1, <2>2, <2>3, NoKeys DEF KeysInv
<1>2. ASSUME TypeOK, KeysInv, [Next]_vars
      PROVE  KeysInv'
  <2>1. InputOK /\ FlagsOK
    BY <1>2, TypeParts
  <2>2. CASE Next
    BY <1>2, <2>1, <2>2, KeysStep
  <2>3. CASE UNCHANGED vars
    <3>1. UNCHANGED <<tty, data, carry, forced, owed, wrong, gapped, kpc, dpc>>
      BY <2>3 DEF vars, keyVars, histVars, drawVars
    <3> QED BY <1>2, <3>1, KeysStutter
  <2> QED BY <1>2, <2>2, <2>3
<1> QED BY <1>1, <1>2, TypeCorrect, PTL DEF Spec

\* The keys typed do what they are bound to (handleInput, parseEsc, applyCSI), each once
\* and in order, however the terminal splits their bytes over reads and whatever readKeys
\* carries over or flushes; unless a key's own bytes came more than the deadline apart.
THEOREM KeysAreUnderstood == Spec => []KeysUnderstood
<1>1. ASSUME TypeOK, KeysInv
      PROVE  KeysUnderstood
  BY <1>1 DEF KeysInv, KeysUnderstood
<1> QED BY <1>1, TypeCorrect, KeysInvariant, PTL
=============================================================================
