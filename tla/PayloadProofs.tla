---------------------------- MODULE PayloadProofs ----------------------------
(***************************************************************************)
(* Proofs about Payload: what hoh-verify's parser reads in what hohd's     *)
(* builders wrote, for every random byte and every vendor.                 *)
(***************************************************************************)
EXTENDS Payload, SequenceTheorems, WellFoundedInduction, TLAPS

\* Induction over the numbers, for a set of them.
LEMMA SetInduction ==
  ASSUME NEW S, 0 \in S, \A n \in Nat : n \in S => n + 1 \in S
  PROVE  \A n \in Nat : n \in S
<1> DEFINE R == OpToRel(<, Nat)
           Out == Nat \ S
<1>1. IsWellFoundedOn(R, Nat)
  BY NatLessThanWellFounded
<1> HIDE DEF R
<1>2. SUFFICES ASSUME Out # {} PROVE FALSE
  OBVIOUS
<1>3. PICK x \in Out : \A y \in Out : ~ (<<y, x>> \in R)
  BY <1>1, <1>2, WFMin
<1>4. x \in Nat /\ x # 0 /\ x - 1 \in Nat
  BY <1>3
<1>5. x - 1 \in S => x \in S
  BY <1>4
<1>6. x - 1 \in Out /\ x - 1 < x
  BY <1>3, <1>4, <1>5
<1>7. <<x - 1, x>> \in R
  BY <1>4, <1>6 DEF R, OpToRel
<1> QED BY <1>3, <1>6, <1>7
-----------------------------------------------------------------------------
(* The parser's loops, unrolled.                                           *)

\* What the loop of ParseAdvData finds at byte i, given what it finds further on.
From(data, g, i) ==
  IF i > Len(data) THEN <<>>
  ELSE IF data[i] = 0 \/ i + data[i] > Len(data) THEN <<>>
  ELSE <<[typ |-> data[i + 1], body |-> SubSeq(data, i + 2, i + data[i])]>>
         \o g[i + 1 + data[i]]

\* The loop only goes forward, so it can be computed from the end.
LEMMA StructuresUnrolled ==
  ASSUME NEW data \in Seq(Nat)
  PROVE  \E g : /\ Structures(data) = g[1]
                /\ \A i \in 1..Len(data) + 1 : g[i] = From(data, g, i)
<1> DEFINE N       == Len(data) + 1
           Tells(g, k) == \A i \in 1..N : i > N - k => g[i] = From(data, g, i)
           Parts   == {k \in Nat : k <= N => \E g : Tells(g, k)}
<1>1. N \in Nat \ {0} /\ \A i \in 1..Len(data) : data[i] \in Nat
  OBVIOUS
<1>2. ASSUME NEW g, NEW h, NEW i \in 1..N, \A j \in 1..N : j > i => g[j] = h[j]
      PROVE  From(data, g, i) = From(data, h, i)
  <2>1. CASE i > Len(data) \/ data[i] = 0 \/ i + data[i] > Len(data)
    BY <2>1 DEF From
  <2>2. CASE ~ (i > Len(data) \/ data[i] = 0 \/ i + data[i] > Len(data))
    <3>1. i \in 1..Len(data) /\ data[i] \in Nat /\ data[i] # 0 /\ i + data[i] <= Len(data)
      BY <2>2, <1>1
    <3>2. i + 1 + data[i] \in 1..N /\ i + 1 + data[i] > i
      BY <3>1, <1>1
    <3>3. g[i + 1 + data[i]] = h[i + 1 + data[i]]
      BY <3>2, <1>2
    <3> QED BY <2>2, <3>3 DEF From
  <2> QED BY <2>1, <2>2
<1> HIDE DEF N
<1>3. 0 \in Parts
  <2>1. \A i \in 1..N : ~ (i > N - 0)
    BY <1>1
  <2>2. Tells(<<>>, 0)
    BY <2>1
  <2> QED BY <2>2
<1>4. ASSUME NEW k \in Nat, k \in Parts
      PROVE  k + 1 \in Parts
  <2>1. SUFFICES ASSUME k + 1 <= N PROVE \E g : Tells(g, k + 1)
    OBVIOUS
  <2>2. PICK g : Tells(g, k)
    BY <1>1, <1>4, <2>1
  <2> DEFINE h == [i \in 1..N |-> IF i = N - k THEN From(data, g, i) ELSE g[i]]
  <2>3. \A i \in 1..N : i > N - k => h[i] = g[i]
    BY <1>1
  <2>4. N - k \in 1..N /\ h[N - k] = From(data, g, N - k)
    BY <1>1, <2>1
  <2> HIDE DEF h
  <2>5. ASSUME NEW i \in 1..N, i > N - (k + 1)
        PROVE  h[i] = From(data, h, i)
    <3>1. \A j \in 1..N : j > i => g[j] = h[j]
      BY <1>1, <2>3, <2>5
    <3>2. From(data, g, i) = From(data, h, i)
      BY <3>1, <1>2
    <3>3. CASE i = N - k
      BY <3>2, <3>3, <2>4
    <3>4. CASE i > N - k
      BY <3>2, <3>4, <2>2, <2>3
    <3> QED BY <3>3, <3>4, <2>5, <1>1
  <2> QED BY <2>5
<1>5. N \in Parts
  <2> HIDE DEF Parts
  <2> QED BY <1>1, <1>3, <1>4, SetInduction
<1>6. PICK g : Tells(g, N)
  BY <1>1, <1>5
<1> DEFINE f == [i \in 1..N |-> g[i]]
<1>7. ASSUME NEW i \in 1..N
      PROVE  f[i] = From(data, f, i)
  <2>1. i > N - N
    BY <1>1
  <2>2. From(data, g, i) = From(data, f, i)
    BY <1>2
  <2> QED BY <2>1, <2>2, <1>6
<1> DEFINE Solves(h) == h = [i \in 1..N |-> From(data, h, i)]
<1>8. Solves(f)
  <2>1. f = [i \in 1..N |-> f[i]]
    OBVIOUS
  <2> HIDE DEF f
  <2> QED BY <2>1, <1>7
<1> DEFINE s == CHOOSE h : Solves(h)
<1>9. Solves(s)
  <2> HIDE DEF Solves, f
  <2> QED BY <1>8, Zenon
<1>10. Structures(data) = s[1]
  BY DEF Structures, From, N
<1> HIDE DEF s
<1>11. \A i \in 1..N : s[i] = From(data, s, i)
  BY <1>9
<1> QED BY <1>10, <1>11 DEF N

\* What the loop of hasAppleMsgType answers at byte i.
MsgAt(payload, typ, g, i) ==
  \/ payload[i] = typ
  \/ /\ i + 1 <= Len(payload) /\ i + 2 + payload[i + 1] <= Len(payload)
     /\ g[i + 2 + payload[i + 1]]

\* This loop, too, only goes forward.
LEMMA MsgTypeUnrolled ==
  ASSUME NEW payload \in Seq(Nat), payload # <<>>, NEW typ
  PROVE  \E g : /\ HasAppleMsgType(payload, typ) <=> g[1]
                /\ \A i \in 1..Len(payload) : g[i] = MsgAt(payload, typ, g, i)
<1> DEFINE N       == Len(payload)
           Tells(g, k) == \A i \in 1..N : i > N - k => g[i] = MsgAt(payload, typ, g, i)
           Parts   == {k \in Nat : k <= N => \E g : Tells(g, k)}
<1>1. N \in Nat \ {0} /\ \A i \in 1..Len(payload) : payload[i] \in Nat
  BY EmptySeq
<1>2. ASSUME NEW g, NEW h, NEW i \in 1..N, \A j \in 1..N : j > i => g[j] = h[j]
      PROVE  MsgAt(payload, typ, g, i) = MsgAt(payload, typ, h, i)
  <2>1. CASE ~ (i + 1 <= Len(payload) /\ i + 2 + payload[i + 1] <= Len(payload))
    BY <2>1 DEF MsgAt
  <2>2. CASE i + 1 <= Len(payload) /\ i + 2 + payload[i + 1] <= Len(payload)
    <3>1. i + 1 \in 1..Len(payload) /\ payload[i + 1] \in Nat
      BY <2>2, <1>1
    <3>2. i + 2 + payload[i + 1] \in 1..N /\ i + 2 + payload[i + 1] > i
      BY <2>2, <3>1, <1>1
    <3>3. g[i + 2 + payload[i + 1]] = h[i + 2 + payload[i + 1]]
      BY <3>2, <1>2
    <3> QED BY <3>3 DEF MsgAt
  <2> QED BY <2>1, <2>2
<1> HIDE DEF N
<1>3. 0 \in Parts
  <2>1. \A i \in 1..N : ~ (i > N - 0)
    BY <1>1
  <2>2. Tells(<<>>, 0)
    BY <2>1
  <2> QED BY <2>2
<1>4. ASSUME NEW k \in Nat, k \in Parts
      PROVE  k + 1 \in Parts
  <2>1. SUFFICES ASSUME k + 1 <= N PROVE \E g : Tells(g, k + 1)
    OBVIOUS
  <2>2. PICK g : Tells(g, k)
    BY <1>1, <1>4, <2>1
  <2> DEFINE h == [i \in 1..N |-> IF i = N - k THEN MsgAt(payload, typ, g, i) ELSE g[i]]
  <2>3. \A i \in 1..N : i > N - k => h[i] = g[i]
    BY <1>1
  <2>4. N - k \in 1..N /\ h[N - k] = MsgAt(payload, typ, g, N - k)
    BY <1>1, <2>1
  <2> HIDE DEF h
  <2>5. ASSUME NEW i \in 1..N, i > N - (k + 1)
        PROVE  h[i] = MsgAt(payload, typ, h, i)
    <3>1. \A j \in 1..N : j > i => g[j] = h[j]
      BY <1>1, <2>3, <2>5
    <3>2. MsgAt(payload, typ, g, i) = MsgAt(payload, typ, h, i)
      BY <3>1, <1>2
    <3>3. CASE i = N - k
      BY <3>2, <3>3, <2>4
    <3>4. CASE i > N - k
      BY <3>2, <3>4, <2>2, <2>3
    <3> QED BY <3>3, <3>4, <2>5, <1>1
  <2> QED BY <2>5
<1>5. N \in Parts
  <2> HIDE DEF Parts
  <2> QED BY <1>1, <1>3, <1>4, SetInduction
<1>6. PICK g : Tells(g, N)
  BY <1>1, <1>5
<1> DEFINE f == [i \in 1..N |-> g[i]]
<1>7. ASSUME NEW i \in 1..N
      PROVE  f[i] = MsgAt(payload, typ, f, i)
  <2>1. i > N - N
    BY <1>1
  <2>2. MsgAt(payload, typ, g, i) = MsgAt(payload, typ, f, i)
    BY <1>2
  <2> QED BY <2>1, <2>2, <1>6
<1> DEFINE Solves(h) == h = [i \in 1..N |-> MsgAt(payload, typ, h, i)]
<1>8. Solves(f)
  <2>1. f = [i \in 1..N |-> f[i]]
    OBVIOUS
  <2> HIDE DEF f
  <2> QED BY <2>1, <1>7
<1> DEFINE s == CHOOSE h : Solves(h)
<1>9. Solves(s)
  <2> HIDE DEF Solves, f
  <2> QED BY <1>8, Zenon
<1>10. HasAppleMsgType(payload, typ) <=> s[1]
  BY DEF HasAppleMsgType, MsgAt, N
<1> HIDE DEF s
<1>11. \A i \in 1..N : s[i] = MsgAt(payload, typ, s, i)
  BY <1>9
<1> QED BY <1>10, <1>11 DEF N
-----------------------------------------------------------------------------
(* What the parser reads, structure by structure.                          *)

\* The bytes of a structure.
LEMMA ADFacts ==
  ASSUME NEW t \in Nat, NEW b \in Seq(Nat)
  PROVE  /\ AD(t, b) \in Seq(Nat) /\ Len(AD(t, b)) = Len(b) + 2
         /\ AD(t, b)[1] = 1 + Len(b) /\ AD(t, b)[2] = t
         /\ \A j \in 1..Len(b) : AD(t, b)[2 + j] = b[j]
<1> DEFINE head == <<1 + Len(b), t>>
<1>1. Len(b) \in Nat
  OBVIOUS
<1>2. head \in Seq(Nat) /\ Len(head) = 2 /\ head[1] = 1 + Len(b) /\ head[2] = t
  BY <1>1
<1> HIDE DEF head
<1>3. AD(t, b) = head \o b
  BY DEF AD, head
<1>4. /\ head \o b \in Seq(Nat) /\ Len(head \o b) = Len(head) + Len(b)
      /\ \A j \in 1..Len(head) + Len(b) :
           (head \o b)[j] = IF j <= Len(head) THEN head[j] ELSE b[j - Len(head)]
  BY ONLY <1>2, b \in Seq(Nat), ConcatProperties
<1>5. \A j \in 1..Len(b) : 2 + j \in 1..2 + Len(b) /\ ~ (2 + j <= 2) /\ (2 + j) - 2 = j
  BY <1>1
<1> QED BY ONLY <1>1, <1>2, <1>3, <1>4, <1>5, SMTT(30)

\* A structure in front of others is read, and then the others.
LEMMA ReadsFirst ==
  ASSUME NEW t \in Nat, NEW b \in Seq(Nat), NEW rest \in Seq(Nat)
  PROVE  Structures(AD(t, b) \o rest) = <<[typ |-> t, body |-> b]>> \o Structures(rest)
<1> DEFINE k    == Len(b) + 2
           n    == Len(rest)
           data == AD(t, b) \o rest
<1>1. /\ Len(b) \in Nat /\ n \in Nat
      /\ \A j \in 1..n : rest[j] \in Nat
      /\ \A j \in 1..Len(b) : b[j] \in Nat
  OBVIOUS
<1>3. /\ AD(t, b) \in Seq(Nat) /\ Len(AD(t, b)) = k
      /\ AD(t, b)[1] = 1 + Len(b) /\ AD(t, b)[2] = t
      /\ \A j \in 1..Len(b) : AD(t, b)[2 + j] = b[j]
  BY ADFacts
<1>4. /\ data \in Seq(Nat) /\ Len(data) = k + n
      /\ \A j \in 1..k : data[j] = AD(t, b)[j]
      /\ \A j \in 1..n : data[k + j] = rest[j]
  <2> DEFINE a == AD(t, b)
  <2> HIDE DEF a
  <2>1. a \in Seq(Nat) /\ Len(a) = k
    BY <1>3 DEF a
  <2>2. /\ a \o rest \in Seq(Nat) /\ Len(a \o rest) = Len(a) + Len(rest)
        /\ \A j \in 1..Len(a) + Len(rest) :
             (a \o rest)[j] = IF j <= Len(a) THEN a[j] ELSE rest[j - Len(a)]
    BY ONLY <2>1, rest \in Seq(Nat), ConcatProperties
  <2>3. \A j \in 1..n : k + j \in 1..k + n /\ ~ (k + j <= k) /\ (k + j) - k = j
    BY <1>1
  <2>4. k \in Nat
    BY <1>1
  <2> QED BY ONLY <1>1, <2>1, <2>2, <2>3, <2>4 DEF a
<1> HIDE DEF data
<1>5. PICK g : /\ Structures(data) = g[1]
               /\ \A i \in 1..Len(data) + 1 : g[i] = From(data, g, i)
  BY <1>4, StructuresUnrolled
<1>6. PICK h : /\ Structures(rest) = h[1]
               /\ \A i \in 1..Len(rest) + 1 : h[i] = From(rest, h, i)
  BY StructuresUnrolled
<1>7. ASSUME NEW i \in 1..n + 1, \A j \in 1..n + 1 : j > i => g[k + j] = h[j]
      PROVE  g[k + i] = h[i]
  <2>1. /\ g[k + i] = From(data, g, k + i) /\ h[i] = From(rest, h, i)
    BY <1>1, <1>4, <1>5, <1>6
  <2>2. CASE i > n
    <3>1. k + i > Len(data)
      BY <1>1, <1>4, <2>2
    <3> QED BY <2>1, <2>2, <3>1 DEF From
  <2>3. CASE i <= n
    <3>1. /\ i \in 1..n /\ rest[i] \in Nat /\ data[k + i] = rest[i]
          /\ ~ (i > Len(rest)) /\ ~ (k + i > Len(data))
      <4> HIDE DEF k
      <4>1. k \in Nat
        BY <1>1 DEF k
      <4>2. i \in 1..n
        BY <1>1, <2>3
      <4>3. rest[i] \in Nat /\ data[k + i] = rest[i]
        BY <4>2, <1>1, <1>4
      <4>4. ~ (i > Len(rest)) /\ ~ (k + i > Len(data))
        BY <1>1, <1>4, <2>3, <4>1, SMTT(30)
      <4> QED BY <4>2, <4>3, <4>4
    <3> DEFINE d == rest[i]
    <3>2. CASE d = 0 \/ i + d > n
      <4>1. data[k + i] = 0 \/ (k + i) + data[k + i] > Len(data)
        BY <1>1, <1>4, <3>1, <3>2, SMTT(30)
      <4>2. From(data, g, k + i) = <<>>
        BY <4>1 DEF From
      <4>3. rest[i] = 0 \/ i + rest[i] > Len(rest)
        BY <3>2
      <4>4. From(rest, h, i) = <<>>
        BY <4>3 DEF From
      <4> QED BY <2>1, <4>2, <4>4
    <3>3. CASE ~ (d = 0 \/ i + d > n)
      <4> HIDE DEF d, k, n
      <4>0. k \in Nat /\ n \in Nat /\ d \in Nat /\ i \in Nat
        BY <1>1, <3>1 DEF d, k, n
      <4>1. ~ (data[k + i] = 0 \/ (k + i) + data[k + i] > Len(data))
        <5>1. data[k + i] = d /\ Len(data) = k + n
          BY <1>4, <3>1 DEF d, k, n
        <5> QED BY ONLY <4>0, <5>1, <3>3
      <4>2. From(data, g, k + i) =
              <<[typ |-> data[(k + i) + 1], body |-> SubSeq(data, (k + i) + 2, (k + i) + d)]>>
              \o g[(k + i) + 1 + d]
        BY <3>1, <4>1 DEF From, d
      <4>3. From(rest, h, i) =
              <<[typ |-> rest[i + 1], body |-> SubSeq(rest, i + 2, i + d)]>> \o h[i + 1 + d]
        BY <3>1, <3>3 DEF From, d, n
      <4>4. i + 1 \in 1..n /\ (k + i) + 1 = k + (i + 1)
        BY <4>0, <3>3
      <4>5. data[(k + i) + 1] = rest[i + 1]
        BY <4>4, <1>4
      <4>6. i + 1 + d \in 1..n + 1 /\ i + 1 + d > i /\ (k + i) + 1 + d = k + (i + 1 + d)
        BY <4>0, <3>3
      <4>7. g[(k + i) + 1 + d] = h[i + 1 + d]
        BY <4>6, <1>7
      <4>8. SubSeq(data, (k + i) + 2, (k + i) + d) = SubSeq(rest, i + 2, i + d)
        <5> DEFINE x == SubSeq(data, (k + i) + 2, (k + i) + d)
                   y == SubSeq(rest, i + 2, i + d)
        <5>1. \A j \in (k + i) + 2..(k + i) + d : data[j] \in Nat
          <6>1. \A j \in (k + i) + 2..(k + i) + d : j \in 1..Len(data)
            BY <4>0, <1>4, <3>3
          <6> QED BY <6>1, <1>4, ElementOfSeq
        <5>2. \A j \in i + 2..i + d : rest[j] \in Nat
          <6>1. \A j \in i + 2..i + d : j \in 1..n
            BY <4>0, <3>3
          <6> QED BY <6>1, <1>1
        <5>3. (k + i) + 2 \in Int /\ (k + i) + d \in Int /\ i + 2 \in Int /\ i + d \in Int
          BY <4>0
        <5>4. /\ x \in Seq(Nat)
              /\ Len(x) = IF (k + i) + 2 <= (k + i) + d
                            THEN ((k + i) + d) - ((k + i) + 2) + 1 ELSE 0
              /\ \A j \in 1..((k + i) + d) - ((k + i) + 2) + 1 :
                    x[j] = data[(k + i) + 2 + j - 1]
          BY ONLY <5>1, <5>3, SubSeqProperties, SMTT(30)
        <5>5. /\ y \in Seq(Nat)
              /\ Len(y) = IF i + 2 <= i + d THEN (i + d) - (i + 2) + 1 ELSE 0
              /\ \A j \in 1..(i + d) - (i + 2) + 1 : y[j] = rest[i + 2 + j - 1]
          BY ONLY <5>2, <5>3, SubSeqProperties, SMTT(30)
        <5> HIDE DEF x, y
        <5>6. Len(x) = Len(y) /\ Len(x) = d - 1
          BY ONLY <4>0, <3>3, <5>4, <5>5
        <5>7. ASSUME NEW j \in 1..Len(x)
              PROVE  x[j] = y[j]
          <6>1. /\ j \in 1..((k + i) + d) - ((k + i) + 2) + 1
                /\ j \in 1..(i + d) - (i + 2) + 1
                /\ i + 2 + j - 1 \in 1..n
                /\ (k + i) + 2 + j - 1 = k + (i + 2 + j - 1)
            BY ONLY <4>0, <3>3, <5>6, <5>7
          <6>2. data[k + (i + 2 + j - 1)] = rest[i + 2 + j - 1]
            BY <6>1, <1>4
          <6>3. x[j] = data[(k + i) + 2 + j - 1]
            BY ONLY <5>4, <6>1
          <6>4. y[j] = rest[i + 2 + j - 1]
            BY ONLY <5>5, <6>1
          <6>5. data[(k + i) + 2 + j - 1] = data[k + (i + 2 + j - 1)]
            BY ONLY <6>1
          <6> QED BY ONLY <6>2, <6>3, <6>4, <6>5
        <5>8. x = y
          BY ONLY <5>4, <5>5, <5>6, <5>7, SeqEqual
        <5> QED BY <5>8 DEF x, y
      <4> QED BY ONLY <2>1, <4>2, <4>3, <4>5, <4>7, <4>8
    <3> QED BY <3>2, <3>3
  <2> QED BY <1>1, <2>2, <2>3
<1>8. g[k + 1] = h[1]
  <2> DEFINE S == {m \in Nat : \A i \in 1..n + 1 : i > n + 1 - m => g[k + i] = h[i]}
  <2>1. 0 \in S
    BY <1>1
  <2>2. ASSUME NEW m \in Nat, m \in S
        PROVE  m + 1 \in S
    <3>1. ASSUME NEW i \in 1..n + 1, i > n + 1 - (m + 1)
          PROVE  g[k + i] = h[i]
      <4>1. \A j \in 1..n + 1 : j > i => j > n + 1 - m
        BY <1>1, <3>1
      <4>2. \A j \in 1..n + 1 : j > i => g[k + j] = h[j]
        BY <4>1, <2>2
      <4> QED BY <4>2, <1>7
    <3> QED BY <3>1
  <2>3. n + 1 \in S
    <3> HIDE DEF S, n
    <3> QED BY <1>1, <2>1, <2>2, SetInduction
  <2>4. 1 \in 1..n + 1 /\ 1 > n + 1 - (n + 1)
    BY <1>1
  <2> QED BY <2>3, <2>4
<1>9. g[1] = <<[typ |-> t, body |-> b]>> \o g[k + 1]
  <2>1. /\ g[1] = From(data, g, 1) /\ ~ (1 > Len(data))
        /\ data[1] = 1 + Len(b) /\ data[1 + 1] = t
        /\ ~ (data[1] = 0 \/ 1 + data[1] > Len(data))
        /\ 1 + 1 + data[1] = k + 1 /\ 1 + data[1] = k
    <3>1. 1 \in 1..k /\ 2 \in 1..k /\ 1 \in 1..Len(data) + 1
      BY <1>1, <1>4
    <3>2. data[1] = 1 + Len(b) /\ data[2] = t
      BY <3>1, <1>3, <1>4
    <3>3. g[1] = From(data, g, 1)
      BY <3>1, <1>5
    <3>4. /\ ~ (1 > Len(data)) /\ 1 + 1 = 2
          /\ ~ (data[1] = 0 \/ 1 + data[1] > Len(data))
          /\ 1 + 1 + data[1] = k + 1 /\ 1 + data[1] = k
      BY ONLY <3>2, <1>1, <1>4
    <3> QED BY <3>2, <3>3, <3>4
  <2>2. From(data, g, 1) = <<[typ |-> data[1 + 1], body |-> SubSeq(data, 1 + 2, 1 + data[1])]>>
                           \o g[1 + 1 + data[1]]
    BY <2>1 DEF From
  <2> DEFINE x == SubSeq(data, 3, k)
  <2>3. x = b
    <3>1. \A j \in 3..k : data[j] \in Nat
      <4>1. \A j \in 3..k : j \in 1..Len(data)
        BY <1>1, <1>4
      <4> QED BY <4>1, <1>4, ElementOfSeq
    <3>2. k \in Int /\ 3 \in Int
      BY <1>1
    <3>3. /\ x \in Seq(Nat) /\ Len(x) = IF 3 <= k THEN k - 3 + 1 ELSE 0
          /\ \A j \in 1..k - 3 + 1 : x[j] = data[3 + j - 1]
      BY ONLY <3>1, <3>2, SubSeqProperties
    <3> HIDE DEF x
    <3>4. Len(x) = Len(b)
      BY ONLY <1>1, <3>3
    <3>5. ASSUME NEW j \in 1..Len(b)
          PROVE  x[j] = b[j]
      <4>1. /\ j \in 1..k - 3 + 1 /\ 2 + j \in 1..k /\ 3 + j - 1 = 2 + j
        BY ONLY <1>1, <3>5
      <4>2. data[2 + j] = b[j]
        BY <4>1, <1>3, <1>4
      <4> QED BY ONLY <3>3, <4>1, <4>2
    <3> QED BY ONLY <3>3, <3>4, <3>5, b \in Seq(Nat), SeqEqual
  <2>4. SubSeq(data, 1 + 2, 1 + data[1]) = b
    BY <2>1, <2>3
  <2> QED BY ONLY <2>1, <2>2, <2>4
<1>10. Structures(data) = <<[typ |-> t, body |-> b]>> \o Structures(rest)
  BY ONLY <1>5, <1>6, <1>8, <1>9
<1> QED BY <1>10 DEF data

\* Nothing is read in nothing.
LEMMA ReadsNothing == Structures(<<>>) = <<>>
<1>1. PICK g : /\ Structures(<<>>) = g[1]
               /\ \A i \in 1..Len(<<>>) + 1 : g[i] = From(<<>>, g, i)
  <2>1. <<>> \in Seq(Nat)
    OBVIOUS
  <2> QED BY <2>1, StructuresUnrolled
<1>2. Len(<<>>) = 0
  OBVIOUS
<1>3. g[1] = From(<<>>, g, 1)
  BY <1>1, <1>2
<1>4. From(<<>>, g, 1) = <<>>
  <2>1. 1 > Len(<<>>)
    BY <1>2
  <2> QED BY <2>1 DEF From
<1> QED BY <1>1, <1>3, <1>4

\* Concatenation of bytes and of short tuples.
Cat(a, b) == a \o b

LEMMA CatFacts ==
  ASSUME NEW a \in Seq(Nat), NEW b \in Seq(Nat)
  PROVE  Cat(a, b) \in Seq(Nat) /\ Len(Cat(a, b)) = Len(a) + Len(b)
BY ConcatProperties DEF Cat

LEMMA CatAssociates ==
  ASSUME NEW a \in Seq(Nat), NEW b \in Seq(Nat), NEW c \in Seq(Nat)
  PROVE  Cat(Cat(a, b), c) = Cat(a, Cat(b, c))
BY ConcatAssociative DEF Cat

LEMMA Pair ==
  ASSUME NEW x, NEW y
  PROVE  <<x>> \o <<y>> = <<x, y>>
<1> DEFINE S == {x, y}
           q == <<x>>
           s == <<y>>
           w == <<x, y>>
<1>1. /\ q \in Seq(S) /\ Len(q) = 1 /\ q[1] = x
      /\ s \in Seq(S) /\ Len(s) = 1 /\ s[1] = y
      /\ w \in Seq(S) /\ Len(w) = 2 /\ w[1] = x /\ w[2] = y
  OBVIOUS
<1> HIDE DEF S, q, s, w
<1>2. /\ q \o s \in Seq(S) /\ Len(q \o s) = Len(q) + Len(s)
      /\ \A j \in 1..Len(q) + Len(s) :
            (q \o s)[j] = IF j <= Len(q) THEN q[j] ELSE s[j - Len(q)]
  BY ONLY <1>1, ConcatProperties
<1> DEFINE p == q \o s
<1>3. p \in Seq(S) /\ Len(p) = 2 /\ p[1] = w[1] /\ p[2] = w[2]
  BY ONLY <1>1, <1>2
<1> HIDE DEF p
<1>4. \A j \in 1..Len(p) : p[j] = w[j]
  BY ONLY <1>3
<1>5. p = w
  BY ONLY <1>1, <1>3, <1>4, SeqEqual
<1> QED BY <1>5 DEF p, q, s, w

LEMMA Triple ==
  ASSUME NEW x, NEW y, NEW z
  PROVE  <<x>> \o <<y, z>> = <<x, y, z>>
<1> DEFINE S == {x, y, z}
           q == <<x>>
           s == <<y, z>>
           w == <<x, y, z>>
<1>1. /\ q \in Seq(S) /\ Len(q) = 1 /\ q[1] = x
      /\ s \in Seq(S) /\ Len(s) = 2 /\ s[1] = y /\ s[2] = z
      /\ w \in Seq(S) /\ Len(w) = 3 /\ w[1] = x /\ w[2] = y /\ w[3] = z
  OBVIOUS
<1> HIDE DEF S, q, s, w
<1>2. /\ q \o s \in Seq(S) /\ Len(q \o s) = Len(q) + Len(s)
      /\ \A j \in 1..Len(q) + Len(s) :
            (q \o s)[j] = IF j <= Len(q) THEN q[j] ELSE s[j - Len(q)]
  BY ONLY <1>1, ConcatProperties
<1> DEFINE p == q \o s
<1>3. p \in Seq(S) /\ Len(p) = 3 /\ p[1] = w[1] /\ p[2] = w[2] /\ p[3] = w[3]
  BY ONLY <1>1, <1>2
<1> HIDE DEF p
<1>4. \A j \in 1..Len(p) : p[j] = w[j]
  BY ONLY <1>3
<1>5. p = w
  BY ONLY <1>1, <1>3, <1>4, SeqEqual
<1> QED BY <1>5 DEF p, q, s, w

LEMMA Quadruple ==
  ASSUME NEW x, NEW y, NEW z, NEW u
  PROVE  <<x>> \o <<y, z, u>> = <<x, y, z, u>>
<1> DEFINE S == {x, y, z, u}
           q == <<x>>
           s == <<y, z, u>>
           w == <<x, y, z, u>>
<1>1. /\ q \in Seq(S) /\ Len(q) = 1 /\ q[1] = x
      /\ s \in Seq(S) /\ Len(s) = 3 /\ s[1] = y /\ s[2] = z /\ s[3] = u
      /\ w \in Seq(S) /\ Len(w) = 4 /\ w[1] = x /\ w[2] = y /\ w[3] = z /\ w[4] = u
  OBVIOUS
<1> HIDE DEF S, q, s, w
<1>2. /\ q \o s \in Seq(S) /\ Len(q \o s) = Len(q) + Len(s)
      /\ \A j \in 1..Len(q) + Len(s) :
            (q \o s)[j] = IF j <= Len(q) THEN q[j] ELSE s[j - Len(q)]
  BY ONLY <1>1, ConcatProperties
<1> DEFINE p == q \o s
<1>3. p \in Seq(S) /\ Len(p) = 4
      /\ p[1] = w[1] /\ p[2] = w[2] /\ p[3] = w[3] /\ p[4] = w[4]
  BY ONLY <1>1, <1>2
<1> HIDE DEF p
<1>4. \A j \in 1..Len(p) : p[j] = w[j]
  BY ONLY <1>3
<1>5. p = w
  BY ONLY <1>1, <1>3, <1>4, SeqEqual
<1> QED BY <1>5 DEF p, q, s, w

\* A structure as the parser gives it, and on the air.
Ads == [typ : Nat, body : Seq(Nat)]

Bytes(x) == AD(x.typ, x.body)

LEMMA BytesFacts ==
  ASSUME NEW x \in Ads
  PROVE  Bytes(x) \in Seq(Nat) /\ Len(Bytes(x)) = Len(x.body) + 2
BY ADFacts DEF Ads, Bytes

\* One to four structures are read as they were written.
LEMMA ReadsOn ==
  ASSUME NEW x \in Ads, NEW rest \in Seq(Nat)
  PROVE  Structures(Cat(Bytes(x), rest)) = <<x>> \o Structures(rest)
<1>1. x.typ \in Nat /\ x.body \in Seq(Nat) /\ x = [typ |-> x.typ, body |-> x.body]
  BY DEF Ads
<1>2. Structures(Bytes(x) \o rest) =
        <<[typ |-> x.typ, body |-> x.body]>> \o Structures(rest)
  BY <1>1, ReadsFirst DEF Bytes
<1> QED BY ONLY <1>1, <1>2 DEF Cat

LEMMA ReadsOne ==
  ASSUME NEW x \in Ads
  PROVE  Structures(Bytes(x)) = <<x>>
<1>1. Bytes(x) \in Seq(Nat) /\ <<>> \in Seq(Nat)
  BY BytesFacts
<1>2. Cat(Bytes(x), <<>>) = Bytes(x)
  BY ONLY <1>1, ConcatEmptySeq DEF Cat
<1>3. Structures(Cat(Bytes(x), <<>>)) = <<x>> \o Structures(<<>>)
  BY <1>1, ReadsOn
<1>4. <<x>> \o <<>> = <<x>>
  OBVIOUS
<1> QED BY ONLY <1>2, <1>3, <1>4, ReadsNothing

LEMMA ReadsTwo ==
  ASSUME NEW x \in Ads, NEW y \in Ads
  PROVE  Structures(Cat(Bytes(x), Bytes(y))) = <<x, y>>
<1>1. Bytes(y) \in Seq(Nat)
  BY BytesFacts
<1>2. Structures(Cat(Bytes(x), Bytes(y))) = <<x>> \o <<y>>
  BY <1>1, ReadsOn, ReadsOne
<1> QED BY <1>2, Pair

LEMMA ReadsThree ==
  ASSUME NEW x \in Ads, NEW y \in Ads, NEW z \in Ads
  PROVE  Structures(Cat(Cat(Bytes(x), Bytes(y)), Bytes(z))) = <<x, y, z>>
<1> DEFINE rest == Cat(Bytes(y), Bytes(z))
<1>1. Bytes(x) \in Seq(Nat) /\ Bytes(y) \in Seq(Nat) /\ Bytes(z) \in Seq(Nat)
  BY BytesFacts
<1>2. Cat(Cat(Bytes(x), Bytes(y)), Bytes(z)) = Cat(Bytes(x), rest)
  BY ONLY <1>1, CatAssociates
<1>3. rest \in Seq(Nat)
  BY ONLY <1>1, CatFacts
<1>4. Structures(rest) = <<y, z>>
  BY ReadsTwo
<1> HIDE DEF rest
<1>5. Structures(Cat(Bytes(x), rest)) = <<x>> \o Structures(rest)
  BY <1>3, ReadsOn
<1> QED BY ONLY <1>2, <1>4, <1>5, Triple

LEMMA ReadsFour ==
  ASSUME NEW x \in Ads, NEW y \in Ads, NEW z \in Ads, NEW u \in Ads
  PROVE  Structures(Cat(Cat(Cat(Bytes(x), Bytes(y)), Bytes(z)), Bytes(u))) = <<x, y, z, u>>
<1> DEFINE next == Cat(Bytes(y), Bytes(z))
           rest == Cat(next, Bytes(u))
<1>1. /\ Bytes(x) \in Seq(Nat) /\ Bytes(y) \in Seq(Nat) /\ Bytes(z) \in Seq(Nat)
      /\ Bytes(u) \in Seq(Nat)
  BY BytesFacts
<1>2. next \in Seq(Nat)
  BY ONLY <1>1, CatFacts
<1>3. rest \in Seq(Nat)
  BY ONLY <1>1, <1>2, CatFacts
<1>4. Cat(Cat(Cat(Bytes(x), Bytes(y)), Bytes(z)), Bytes(u)) = Cat(Bytes(x), rest)
  <2>1. Cat(Cat(Bytes(x), Bytes(y)), Bytes(z)) = Cat(Bytes(x), next)
    BY ONLY <1>1, CatAssociates
  <2>2. Cat(Cat(Bytes(x), next), Bytes(u)) = Cat(Bytes(x), rest)
    <3> HIDE DEF next
    <3> QED BY ONLY <1>1, <1>2, CatAssociates
  <2> QED BY ONLY <2>1, <2>2
<1>5. Structures(rest) = <<y, z, u>>
  BY ReadsThree
<1> HIDE DEF rest
<1>6. Structures(Cat(Bytes(x), rest)) = <<x>> \o Structures(rest)
  BY <1>3, ReadsOn
<1> QED BY ONLY <1>4, <1>5, <1>6, Quadruple
-----------------------------------------------------------------------------
(* What the parser makes of the structures.                                *)

Names(all) == Of(all, {ShortName, Name}, 0)
Mfg(all) == Of(all, {MfgData}, 2)
Services(all) == Of(all, {ServiceData16}, 2)
ServiceLists(all) == Of(all, {ServiceUUID16}, 2)

LEMMA MaxOfOne ==
  ASSUME NEW k \in Nat
  PROVE  Max({k}) = k
BY DEF Max

\* The name is that of the last name structure, if there is one.
LEMMA NameRead ==
  ASSUME NEW data
  PROVE  /\ Names(Structures(data)) = {} => ParseAdvData(data).name = <<>>
         /\ \A k \in Nat : Names(Structures(data)) = {k} =>
              ParseAdvData(data).name = Structures(data)[k].body
<1> DEFINE all == Structures(data)
<1>1. ParseAdvData(data).name = IF Names(all) = {} THEN <<>> ELSE all[Max(Names(all))].body
  BY DEF ParseAdvData, Names
<1> HIDE DEF all
<1>2. \A k \in Nat : Names(all) = {k} => ParseAdvData(data).name = all[k].body
  BY <1>1, MaxOfOne
<1> QED BY <1>1, <1>2 DEF all

\* Without manufacturer data, no company is read and nothing of Apple's.
LEMMA NoMfgRead ==
  ASSUME NEW data, Mfg(Structures(data)) = {}
  PROVE  ParseAdvData(data).hasMfg = FALSE /\ ParseAdvData(data).findMy = FALSE
BY DEF ParseAdvData, Mfg

\* With one such structure, its first two bytes are the company.
LEMMA MfgRead ==
  ASSUME NEW data, NEW k \in Nat, Mfg(Structures(data)) = {k}
  PROVE  LET body == Structures(data)[k].body IN
         /\ ParseAdvData(data).hasMfg = TRUE /\ ParseAdvData(data).company = UUID(body)
         /\ ParseAdvData(data).findMy <=>
              /\ UUID(body) = Apple
              /\ HasAppleMsgType(SubSeq(body, 3, Len(body)), FindMy)
<1> DEFINE all == Structures(data)
<1>1. ParseAdvData(data).hasMfg = (Mfg(all) # {})
  BY DEF ParseAdvData, Mfg
<1>2. ParseAdvData(data).company = IF Mfg(all) = {} THEN 0 ELSE UUID(all[Max(Mfg(all))].body)
  BY DEF ParseAdvData, Mfg
<1>3. ParseAdvData(data).findMy = \E j \in Mfg(all) :
        /\ UUID(all[j].body) = Apple
        /\ HasAppleMsgType(SubSeq(all[j].body, 3, Len(all[j].body)), FindMy)
  BY DEF ParseAdvData, Mfg
<1> HIDE DEF all
<1>4. Mfg(all) = {k}
  BY DEF all
<1>5. ParseAdvData(data).hasMfg = TRUE
  BY <1>1, <1>4
<1>6. ParseAdvData(data).company = UUID(all[k].body)
  BY <1>2, <1>4, MaxOfOne
<1>7. ParseAdvData(data).findMy <=>
        /\ UUID(all[k].body) = Apple
        /\ HasAppleMsgType(SubSeq(all[k].body, 3, Len(all[k].body)), FindMy)
  BY <1>3, <1>4
<1> QED BY <1>5, <1>6, <1>7 DEF all

\* Without services, no tracker is read.
LEMMA NoServicesRead ==
  ASSUME NEW data, Services(Structures(data)) = {}, ServiceLists(Structures(data)) = {}
  PROVE  /\ ParseAdvData(data).tile = FALSE /\ ParseAdvData(data).fastPair = FALSE
         /\ ParseAdvData(data).discoverable = FALSE
<1>1. ParseAdvData(data).tile = FALSE
  BY DEF ParseAdvData, Services, ServiceLists
<1>2. ParseAdvData(data).fastPair = FALSE
  BY DEF ParseAdvData, Services, ServiceLists
<1>3. ParseAdvData(data).discoverable = FALSE
  BY DEF ParseAdvData, Services, ServiceLists
<1> QED BY <1>1, <1>2, <1>3

\* With one service's data, the service's identifier says which tracker it is.
LEMMA ServiceRead ==
  ASSUME NEW data, NEW k \in Nat, Services(Structures(data)) = {k}
  PROVE  LET body == Structures(data)[k].body IN
         /\ UUID(body) = Tile => ParseAdvData(data).tile = TRUE
         /\ UUID(body) # Tile /\ ServiceLists(Structures(data)) = {}
              => ParseAdvData(data).tile = FALSE
         /\ ParseAdvData(data).fastPair = (UUID(body) = FastPair)
         /\ ParseAdvData(data).discoverable = (UUID(body) = FastPair /\ Len(body) = 5)
<1> DEFINE all == Structures(data)
<1>1. ParseAdvData(data).tile =
        \/ \E j \in ServiceLists(all) : Lists(all[j].body, Tile)
        \/ \E j \in Services(all) : UUID(all[j].body) = Tile
  BY DEF ParseAdvData, Services, ServiceLists
<1>2. ParseAdvData(data).fastPair = \E j \in Services(all) : UUID(all[j].body) = FastPair
  BY DEF ParseAdvData, Services
<1>3. ParseAdvData(data).discoverable =
        \E j \in Services(all) : UUID(all[j].body) = FastPair /\ Len(all[j].body) = 5
  BY DEF ParseAdvData, Services
<1> HIDE DEF all
<1>4. Services(all) = {k}
  BY DEF all
<1>5. UUID(all[k].body) = Tile => ParseAdvData(data).tile = TRUE
  BY <1>1, <1>4
<1>6. UUID(all[k].body) # Tile /\ ServiceLists(all) = {} => ParseAdvData(data).tile = FALSE
  BY <1>1, <1>4
<1>7. ParseAdvData(data).fastPair = (UUID(all[k].body) = FastPair)
  BY <1>2, <1>4
<1>8. ParseAdvData(data).discoverable = (UUID(all[k].body) = FastPair /\ Len(all[k].body) = 5)
  BY <1>3, <1>4
<1> QED BY <1>5, <1>6, <1>7, <1>8 DEF all

\* Two bytes in front of others: what is read behind them.
LEMMA BehindTwo ==
  ASSUME NEW lo \in Nat, NEW hi \in Nat, NEW body \in Seq(Nat)
  PROVE  LET d == <<lo, hi>> \o body IN
         /\ d \in Seq(Nat) /\ Len(d) = 2 + Len(body) /\ d[1] = lo /\ d[2] = hi
         /\ SubSeq(d, 3, 2 + Len(body)) = body
<1> DEFINE a == <<lo, hi>>
           d == a \o body
           x == SubSeq(d, 3, 2 + Len(body))
           n == Len(body)
<1>1. n \in Nat
  OBVIOUS
<1>2. a \in Seq(Nat) /\ Len(a) = 2 /\ a[1] = lo /\ a[2] = hi
  OBVIOUS
<1> HIDE DEF a
<1>3. /\ d \in Seq(Nat) /\ Len(d) = 2 + n
      /\ \A j \in 1..2 + n : d[j] = IF j <= 2 THEN a[j] ELSE body[j - 2]
  <2>1. /\ d \in Seq(Nat) /\ Len(d) = Len(a) + Len(body)
        /\ \A j \in 1..Len(a) + Len(body) :
             d[j] = IF j <= Len(a) THEN a[j] ELSE body[j - Len(a)]
    BY ONLY <1>2, body \in Seq(Nat), ConcatProperties
  <2> HIDE DEF d
  <2> QED BY ONLY <1>2, <2>1
<1> HIDE DEF d
<1>4. d[1] = lo /\ d[2] = hi
  <2> HIDE DEF n
  <2> QED BY ONLY <1>1, <1>2, <1>3
<1>5. x = body
  <2>1. \A j \in 3..2 + n : d[j] \in Nat
    <3> HIDE DEF n
    <3>1. \A j \in 3..2 + n : j \in 1..Len(d)
      BY ONLY <1>1, <1>3
    <3> QED BY ONLY <1>3, <3>1, ElementOfSeq
  <2>2. 3 \in Int /\ 2 + n \in Int
    BY <1>1
  <2>3. /\ x \in Seq(Nat)
        /\ Len(x) = IF 3 <= 2 + n THEN (2 + n) - 3 + 1 ELSE 0
        /\ \A j \in 1..(2 + n) - 3 + 1 : x[j] = d[3 + j - 1]
    <3> HIDE DEF n
    <3> QED BY ONLY <2>1, <2>2, SubSeqProperties DEF n
  <2> HIDE DEF x
  <2>4. Len(x) = n
    <3> HIDE DEF n
    <3> QED BY ONLY <1>1, <2>3
  <2>5. ASSUME NEW j \in 1..n
        PROVE  x[j] = body[j]
    <3> HIDE DEF n
    <3>1. /\ j \in 1..(2 + n) - 3 + 1 /\ 3 + j - 1 \in 1..2 + n
          /\ ~ (3 + j - 1 <= 2) /\ (3 + j - 1) - 2 = j
      BY ONLY <1>1, <2>5
    <3>2. d[3 + j - 1] = body[(3 + j - 1) - 2]
      BY ONLY <1>3, <3>1
    <3>3. x[j] = d[3 + j - 1]
      BY ONLY <2>3, <3>1
    <3> QED BY ONLY <3>1, <3>2, <3>3
  <2> QED BY ONLY <2>3, <2>4, <2>5, body \in Seq(Nat), SeqEqual
<1> QED BY <1>3, <1>4, <1>5 DEF a, d, x

\* A 16-bit number survives the air.
LEMMA OnTheAir ==
  ASSUME NEW u \in Nat, NEW body \in Seq(Nat)
  PROVE  /\ LE(u) \o body \in Seq(Nat) /\ Len(LE(u) \o body) = 2 + Len(body)
         /\ UUID(LE(u) \o body) = u
         /\ SubSeq(LE(u) \o body, 3, 2 + Len(body)) = body
<1> DEFINE lo == u % 256
           hi == u \div 256
           d  == <<lo, hi>> \o body
<1>1. lo \in Nat /\ hi \in Nat /\ lo + 256 * hi = u
  OBVIOUS
<1> HIDE DEF lo, hi
<1>2. /\ d \in Seq(Nat) /\ Len(d) = 2 + Len(body) /\ d[1] = lo /\ d[2] = hi
      /\ SubSeq(d, 3, 2 + Len(body)) = body
  BY <1>1, BehindTwo
<1>3. LE(u) \o body = d
  BY DEF LE, lo, hi
<1> HIDE DEF d
<1>4. UUID(d) = u
  BY <1>1, <1>2 DEF UUID
<1> QED BY ONLY <1>2, <1>3, <1>4
-----------------------------------------------------------------------------
(* What the builders write.                                                *)

FlagsAd == [typ |-> Flags, body |-> <<6>>]
NameAd(n) == [typ |-> Name, body |-> Letters(n)]
MfgAd(u, body) == [typ |-> MfgData, body |-> LE(u) \o body]
ServiceAd(u, body) == [typ |-> ServiceData16, body |-> LE(u) \o body]
ListAd(u) == [typ |-> ServiceUUID16, body |-> LE(u)]

LEMMA FlagsFacts == FlagsAd \in Ads /\ Start = Bytes(FlagsAd) /\ Len(Start) = 3
<1>1. FlagsAd \in Ads
  BY DEF FlagsAd, Ads, Flags
<1>2. Start = Bytes(FlagsAd)
  BY DEF Start, Bytes, FlagsAd
<1>3. Len(Bytes(FlagsAd)) = Len(FlagsAd.body) + 2
  BY <1>1, BytesFacts
<1>4. Len(FlagsAd.body) = 1
  BY DEF FlagsAd
<1> QED BY <1>1, <1>2, <1>3, <1>4

LEMMA NameFacts ==
  ASSUME NEW n \in Nat
  PROVE  NameAd(n) \in Ads /\ Len(Letters(n)) = n
<1>1. Letters(n) \in Seq(Nat) /\ Len(Letters(n)) = n
  BY DEF Letters
<1> QED BY <1>1 DEF NameAd, Ads, Name

LEMMA DataFacts ==
  ASSUME NEW u \in Nat, NEW body \in Seq(Nat)
  PROVE  MfgAd(u, body) \in Ads /\ ServiceAd(u, body) \in Ads
BY OnTheAir DEF MfgAd, ServiceAd, Ads, MfgData, ServiceData16

LEMMA ListFacts ==
  ASSUME NEW u \in Nat
  PROVE  ListAd(u) \in Ads /\ Len(LE(u)) = 2
<1>1. u % 256 \in Nat /\ u \div 256 \in Nat
  OBVIOUS
<1>2. LE(u) \in Seq(Nat) /\ Len(LE(u)) = 2
  BY <1>1 DEF LE
<1> QED BY <1>2 DEF ListAd, Ads, ServiceUUID16

\* Random bytes are bytes.
LEMMA RandomFacts ==
  ASSUME NEW n \in Nat, NEW body \in Random(n)
  PROVE  body \in Seq(Nat) /\ Len(body) = n
<1>1. Noise \subseteq Nat
  BY NoiseAssumption
<1>2. body \in [1..n -> Nat]
  BY <1>1 DEF Random
<1> QED BY <1>2

\* A structure is appended when it fits, and then it fits.
LEMMA AppendFacts ==
  ASSUME NEW buf \in Seq(Nat), NEW x \in Ads
  PROVE  LET ad == AppendIfFits(buf, x.typ, x.body) IN
         \/ ad = buf
         \/ /\ ad = Cat(buf, Bytes(x)) /\ ad \in Seq(Nat)
            /\ Len(ad) = Len(buf) + Len(x.body) + 2 /\ Len(ad) <= AdvMaxLen
<1> DEFINE ad == AppendIfFits(buf, x.typ, x.body)
<1>1. Len(buf) \in Nat /\ Len(x.body) \in Nat
  BY DEF Ads
<1>2. CASE ~ Fits(buf, x.body)
  BY <1>2 DEF AppendIfFits
<1>3. CASE Fits(buf, x.body)
  <2>1. ad = Cat(buf, Bytes(x))
    BY <1>3 DEF AppendIfFits, Cat, Bytes
  <2>2. Bytes(x) \in Seq(Nat) /\ Len(Bytes(x)) = Len(x.body) + 2
    BY BytesFacts
  <2>3. Cat(buf, Bytes(x)) \in Seq(Nat) /\ Len(Cat(buf, Bytes(x))) = Len(buf) + Len(Bytes(x))
    BY <2>2, CatFacts
  <2>4. Len(buf) + 2 + Len(x.body) <= AdvMaxLen
    BY <1>3 DEF Fits
  <2> HIDE DEF ad
  <2>5. Len(ad) = Len(buf) + Len(x.body) + 2 /\ Len(ad) <= AdvMaxLen
    <3> DEFINE k == Len(buf)
               m == Len(x.body)
    <3>1. k \in Nat /\ m \in Nat
      BY <1>1
    <3>2. k + 2 + m <= 31
      BY <2>4 DEF AdvMaxLen
    <3>3. Len(ad) = k + (m + 2)
      BY ONLY <2>1, <2>2, <2>3
    <3> HIDE DEF k, m
    <3>4. Len(ad) = k + m + 2 /\ Len(ad) <= 31
      BY ONLY <3>1, <3>2, <3>3
    <3> QED BY <3>4 DEF k, m, AdvMaxLen
  <2> QED BY <2>1, <2>3, <2>5 DEF ad
<1> QED BY <1>2, <1>3

\* What AiredParses and AiredHarmless ask of a decoy.
ParsesAsClaimed(d) ==
  LET info == ParseAdvData(d.ad) IN
  /\ Len(d.ad) <= AdvMaxLen
  /\ Len(info.name) = d.name
  /\ info.hasMfg => info.company = d.id
  /\ info.tile = (d.id = Tile) /\ info.fastPair = (d.id = FastPair)

Harmless(d) == ~ Flagged(ParseAdvData(d.ad))

\* Payloads of flags, perhaps a name, and perhaps manufacturer data.
LEMMA BareRead ==
  LET all == Structures(Start) IN
  Names(all) = {} /\ Mfg(all) = {} /\ Services(all) = {} /\ ServiceLists(all) = {}
<1>1. Structures(Start) = <<FlagsAd>>
  BY FlagsFacts, ReadsOne
<1>2. FlagsAd.typ = 1 /\ DOMAIN <<FlagsAd>> = {1}
  BY DEF FlagsAd, Flags
<1> QED BY <1>1, <1>2 DEF Names, Mfg, Services, ServiceLists, Of, ShortName, Name, MfgData,
                          ServiceData16, ServiceUUID16

LEMMA NamedRead ==
  ASSUME NEW n \in Nat
  PROVE  LET all == Structures(Cat(Start, Bytes(NameAd(n)))) IN
         /\ all = <<FlagsAd, NameAd(n)>>
         /\ Names(all) = {2} /\ Mfg(all) = {} /\ Services(all) = {} /\ ServiceLists(all) = {}
<1> DEFINE all == Structures(Cat(Start, Bytes(NameAd(n))))
<1>1. all = <<FlagsAd, NameAd(n)>>
  BY FlagsFacts, NameFacts, ReadsTwo
<1> HIDE DEF all
<1>2. /\ DOMAIN all = {1, 2} /\ all[1].typ = 1 /\ all[2].typ = 9 /\ Len(all[2].body) = n
  BY <1>1, NameFacts DEF FlagsAd, NameAd, Flags, Name
<1>3. Names(all) = {2}
  BY <1>2 DEF Names, Of, ShortName, Name
<1>4. Mfg(all) = {} /\ Services(all) = {} /\ ServiceLists(all) = {}
  BY <1>2 DEF Mfg, Services, ServiceLists, Of, MfgData, ServiceData16, ServiceUUID16
<1> QED BY <1>1, <1>3, <1>4 DEF all

LEMMA MfgOnlyRead ==
  ASSUME NEW u \in Nat, NEW body \in Seq(Nat)
  PROVE  LET all == Structures(Cat(Start, Bytes(MfgAd(u, body)))) IN
         /\ all = <<FlagsAd, MfgAd(u, body)>>
         /\ Names(all) = {} /\ Mfg(all) = {2} /\ Services(all) = {} /\ ServiceLists(all) = {}
<1> DEFINE x   == MfgAd(u, body)
           all == Structures(Cat(Start, Bytes(x)))
<1>1. all = <<FlagsAd, x>>
  BY FlagsFacts, DataFacts, ReadsTwo
<1>2. x.typ = 255 /\ Len(x.body) >= 2
  <2>1. x.body = LE(u) \o body
    BY DEF MfgAd
  <2>2. Len(body) \in Nat
    OBVIOUS
  <2>4. Len(LE(u) \o body) = 2 + Len(body)
    BY OnTheAir
  <2>3. x.typ = 255
    BY DEF MfgAd, MfgData
  <2> HIDE DEF x
  <2> QED BY ONLY <2>1, <2>2, <2>3, <2>4
<1> HIDE DEF all, x
<1>3. /\ DOMAIN all = {1, 2} /\ all[1].typ = 1 /\ all[2].typ = 255 /\ Len(all[2].body) >= 2
  BY <1>1, <1>2 DEF FlagsAd, Flags
<1>4. Mfg(all) = {2}
  BY <1>3 DEF Mfg, Of, MfgData
<1>5. Names(all) = {} /\ Services(all) = {} /\ ServiceLists(all) = {}
  BY <1>3 DEF Names, Services, ServiceLists, Of, ShortName, Name, ServiceData16, ServiceUUID16
<1> QED BY <1>1, <1>4, <1>5 DEF all, x

LEMMA NamedMfgRead ==
  ASSUME NEW n \in Nat, NEW u \in Nat, NEW body \in Seq(Nat)
  PROVE  LET all == Structures(Cat(Cat(Start, Bytes(NameAd(n))), Bytes(MfgAd(u, body)))) IN
         /\ all = <<FlagsAd, NameAd(n), MfgAd(u, body)>>
         /\ Names(all) = {2} /\ Mfg(all) = {3} /\ Services(all) = {} /\ ServiceLists(all) = {}
<1> DEFINE x   == MfgAd(u, body)
           all == Structures(Cat(Cat(Start, Bytes(NameAd(n))), Bytes(x)))
<1>1. all = <<FlagsAd, NameAd(n), x>>
  BY FlagsFacts, NameFacts, DataFacts, ReadsThree
<1>2. x.typ = 255 /\ Len(x.body) >= 2
  <2>1. x.body = LE(u) \o body
    BY DEF MfgAd
  <2>2. Len(body) \in Nat
    OBVIOUS
  <2>4. Len(LE(u) \o body) = 2 + Len(body)
    BY OnTheAir
  <2>3. x.typ = 255
    BY DEF MfgAd, MfgData
  <2> HIDE DEF x
  <2> QED BY ONLY <2>1, <2>2, <2>3, <2>4
<1> HIDE DEF all, x
<1>3. /\ DOMAIN all = {1, 2, 3} /\ all[1].typ = 1 /\ all[2].typ = 9 /\ all[3].typ = 255
      /\ Len(all[3].body) >= 2 /\ Len(all[2].body) = n
  BY <1>1, <1>2, NameFacts DEF FlagsAd, Flags, NameAd, Name
<1>4. Names(all) = {2}
  BY <1>3 DEF Names, Of, ShortName, Name
<1>5. Mfg(all) = {3}
  BY <1>3 DEF Mfg, Of, MfgData
<1>6. Services(all) = {} /\ ServiceLists(all) = {}
  BY <1>3 DEF Services, ServiceLists, Of, ServiceData16, ServiceUUID16
<1> QED BY <1>1, <1>4, <1>5, <1>6 DEF all, x

\* The shape of buildFor's decoys: flags, perhaps the vendor's name, and perhaps the
\* vendor's manufacturer data, within the budget.
LEMMA BuildForShape ==
  ASSUME NEW vendor, vendor.id \in Nat, vendor.name \in Nat, NEW d \in BuildFor(vendor)
  PROVE  \E buf \in Seq(Nat) :
           /\ d.id = vendor.id
           /\ \/ buf = Start /\ d.name = 0
              \/ /\ buf = Cat(Start, Bytes(NameAd(vendor.name))) /\ Len(buf) <= AdvMaxLen
                 /\ d.name = vendor.name
           /\ \/ d.ad = buf
              \/ \E body \in Seq(Nat) :
                   /\ d.ad = Cat(buf, Bytes(MfgAd(vendor.id, body)))
                   /\ Len(d.ad) <= AdvMaxLen
<1> DEFINE Named(withName) ==
             IF withName /\ vendor.name > 0
               THEN AppendIfFits(Start, Name, Letters(vendor.name)) ELSE Start
           Decoy(buf, ad) ==
             [ad |-> ad, id |-> vendor.id, name |-> IF buf = Start THEN 0 ELSE vendor.name]
           Lengths(buf) == IF buf = Start THEN 3..7 ELSE {3}
           Bodies(buf) == UNION {Random(n) : n \in Lengths(buf)}
<1>1. PICK withName \in BOOLEAN :
        LET buf == Named(withName) IN
        \/ d = Decoy(buf, buf)
        \/ \E body \in Bodies(buf) :
             d = Decoy(buf, AppendIfFits(buf, MfgData, LE(vendor.id) \o body))
  BY DEF BuildFor
<1> DEFINE buf == Named(withName)
           name == NameAd(vendor.name)
<1>2. vendor.id \in Nat /\ vendor.name \in Nat
  OBVIOUS
<1>3. Start \in Seq(Nat) /\ Len(Start) = 3 /\ name \in Ads
  BY <1>2, FlagsFacts, BytesFacts, NameFacts
<1>4. \/ buf = Start
      \/ /\ buf # Start /\ buf = Cat(Start, Bytes(name)) /\ Len(buf) <= AdvMaxLen
         /\ buf \in Seq(Nat)
  <2>1. name.typ = Name /\ name.body = Letters(vendor.name)
    BY DEF NameAd
  <2>2. buf = Start \/ buf = AppendIfFits(Start, name.typ, name.body)
    BY <2>1
  <2> DEFINE ad == AppendIfFits(Start, name.typ, name.body)
  <2> HIDE DEF buf, name
  <2>3. \/ ad = Start
        \/ /\ ad = Cat(Start, Bytes(name)) /\ ad \in Seq(Nat)
           /\ Len(ad) = Len(Start) + Len(name.body) + 2 /\ Len(ad) <= AdvMaxLen
    BY <1>3, AppendFacts
  <2>4. Len(name.body) \in Nat
    BY <1>3 DEF Ads
  <2> HIDE DEF ad
  <2>5. ad = Start \/ ad # Start
    OBVIOUS
  <2> QED BY <2>2, <2>3, <2>4, <2>5, <1>3 DEF ad
<1>5. buf \in Seq(Nat)
  BY <1>3, <1>4
<1>6. ASSUME NEW body \in Bodies(buf)
      PROVE  body \in Seq(Nat)
  BY RandomFacts
<1>7. ASSUME NEW body \in Bodies(buf)
      PROVE  LET ad == AppendIfFits(buf, MfgData, LE(vendor.id) \o body) IN
             \/ ad = buf
             \/ ad = Cat(buf, Bytes(MfgAd(vendor.id, body))) /\ Len(ad) <= AdvMaxLen
  <2> DEFINE x == MfgAd(vendor.id, body)
  <2>1. x \in Ads
    BY <1>2, <1>6, <1>7, DataFacts
  <2>2. x.typ = MfgData /\ x.body = LE(vendor.id) \o body
    BY DEF MfgAd
  <2> HIDE DEF x, buf
  <2>3. LET ad == AppendIfFits(buf, x.typ, x.body) IN
        ad = buf \/ (ad = Cat(buf, Bytes(x)) /\ Len(ad) <= AdvMaxLen)
    BY <1>5, <2>1, AppendFacts
  <2> QED BY <2>2, <2>3 DEF x
<1>8. \/ d = Decoy(buf, buf)
      \/ \E body \in Seq(Nat) :
           /\ d = Decoy(buf, Cat(buf, Bytes(MfgAd(vendor.id, body))))
           /\ Len(Cat(buf, Bytes(MfgAd(vendor.id, body)))) <= AdvMaxLen
  <2>1. CASE d = Decoy(buf, buf)
    BY <2>1
  <2>2. CASE \E body \in Bodies(buf) :
               d = Decoy(buf, AppendIfFits(buf, MfgData, LE(vendor.id) \o body))
    <3>1. PICK body \in Bodies(buf) :
            d = Decoy(buf, AppendIfFits(buf, MfgData, LE(vendor.id) \o body))
      BY <2>2
    <3>2. body \in Seq(Nat)
      BY <1>6
    <3> DEFINE ad == AppendIfFits(buf, MfgData, LE(vendor.id) \o body)
    <3>3. ad = buf \/ (ad = Cat(buf, Bytes(MfgAd(vendor.id, body))) /\ Len(ad) <= AdvMaxLen)
      BY <1>7
    <3> HIDE DEF ad, buf
    <3> QED BY <3>1, <3>2, <3>3 DEF ad
  <2> QED BY <1>1, <2>1, <2>2
<1> HIDE DEF buf
<1>9. /\ d.id = vendor.id /\ d.name = IF buf = Start THEN 0 ELSE vendor.name
      /\ \/ d.ad = buf
         \/ \E body \in Seq(Nat) : /\ d.ad = Cat(buf, Bytes(MfgAd(vendor.id, body)))
                                    /\ Len(d.ad) <= AdvMaxLen
  BY <1>8
<1> QED BY <1>4, <1>5, <1>9

\* What is read in manufacturer data, at the place of the only such structure.
LEMMA CompanyRead ==
  ASSUME NEW data, NEW k \in Nat, NEW u \in Nat, NEW body \in Seq(Nat),
         Mfg(Structures(data)) = {k}, Structures(data)[k] = MfgAd(u, body)
  PROVE  /\ ParseAdvData(data).hasMfg = TRUE /\ ParseAdvData(data).company = u
         /\ ParseAdvData(data).findMy <=> u = Apple /\ HasAppleMsgType(body, FindMy)
<1> DEFINE b == LE(u) \o body
<1>1. /\ Len(b) = 2 + Len(body) /\ UUID(b) = u /\ SubSeq(b, 3, 2 + Len(body)) = body
  BY OnTheAir
<1>2. Structures(data)[k].body = b
  BY DEF MfgAd
<1> HIDE DEF b
<1>3. /\ ParseAdvData(data).hasMfg = TRUE /\ ParseAdvData(data).company = UUID(b)
      /\ ParseAdvData(data).findMy <=>
           UUID(b) = Apple /\ HasAppleMsgType(SubSeq(b, 3, Len(b)), FindMy)
  BY <1>2, MfgRead
<1> QED BY <1>1, <1>3

\* A vendor's decoy reads as that vendor's, and is harmless.
LEMMA VendorDecoy ==
  ASSUME NEW vendor, vendor.id \in Nat, vendor.name \in Nat,
         vendor.id \notin {Apple, Microsoft, Tile, FastPair}, NEW d \in BuildFor(vendor)
  PROVE  d.id = vendor.id /\ ParsesAsClaimed(d) /\ Harmless(d)
<1> DEFINE info == ParseAdvData(d.ad)
           all  == Structures(d.ad)
           u    == vendor.id
           n    == vendor.name
<1>1. SUFFICES
        /\ d.id = u /\ Len(d.ad) <= AdvMaxLen /\ Len(info.name) = d.name
        /\ Services(all) = {} /\ ServiceLists(all) = {}
        /\ \/ Mfg(all) = {}
           \/ info.hasMfg = TRUE /\ info.company = u /\ info.findMy = FALSE
  <2>1. info.tile = FALSE /\ info.fastPair = FALSE /\ info.discoverable = FALSE
    BY <1>1, NoServicesRead
  <2>2. \/ info.hasMfg = FALSE /\ info.findMy = FALSE
        \/ info.hasMfg = TRUE /\ info.company = u /\ info.findMy = FALSE
    BY <1>1, NoMfgRead
  <2> HIDE DEF info, all
  <2>3. u # Tile /\ u # FastPair /\ u # Microsoft
    OBVIOUS
  <2> HIDE DEF u
  <2>4. ParsesAsClaimed(d)
    BY <1>1, <2>1, <2>2, <2>3 DEF ParsesAsClaimed, info
  <2>5. Harmless(d)
    BY <2>1, <2>2, <2>3 DEF Harmless, Flagged, info
  <2> QED BY <1>1, <2>4, <2>5 DEF u
<1>2. PICK buf \in Seq(Nat) :
        /\ d.id = u
        /\ \/ buf = Start /\ d.name = 0
           \/ /\ buf = Cat(Start, Bytes(NameAd(n))) /\ Len(buf) <= AdvMaxLen
              /\ d.name = n
        /\ \/ d.ad = buf
           \/ \E body \in Seq(Nat) : /\ d.ad = Cat(buf, Bytes(MfgAd(u, body)))
                                      /\ Len(d.ad) <= AdvMaxLen
  BY BuildForShape
<1>3. /\ \A k \in Nat : Names(all) = {k} => info.name = all[k].body
      /\ Names(all) = {} => info.name = <<>>
  BY NameRead
<1>4. NameAd(n).body = Letters(n) /\ Len(Letters(n)) = n /\ Len(<<>>) = 0
  BY NameFacts DEF NameAd
<1>5. u # Apple
  OBVIOUS
<1>6. CASE buf = Start /\ d.name = 0 /\ d.ad = buf
  <2>1. Names(all) = {} /\ Mfg(all) = {} /\ Services(all) = {} /\ ServiceLists(all) = {}
    BY <1>6, BareRead
  <2>2. Len(d.ad) <= AdvMaxLen
    BY <1>6, FlagsFacts DEF AdvMaxLen
  <2> HIDE DEF info, all
  <2> QED BY <1>2, <1>3, <1>4, <1>6, <2>1, <2>2
<1>7. CASE /\ buf = Cat(Start, Bytes(NameAd(n))) /\ Len(buf) <= AdvMaxLen /\ d.name = n
           /\ d.ad = buf
  <2>1. /\ all = <<FlagsAd, NameAd(n)>>
        /\ Names(all) = {2} /\ Mfg(all) = {} /\ Services(all) = {} /\ ServiceLists(all) = {}
    BY <1>7, NamedRead
  <2> HIDE DEF info, all
  <2>2. info.name = Letters(n)
    BY <1>3, <1>4, <2>1
  <2> QED BY <1>2, <1>4, <1>7, <2>1, <2>2
<1>8. ASSUME buf = Start, d.name = 0, NEW body \in Seq(Nat),
             d.ad = Cat(buf, Bytes(MfgAd(u, body))), Len(d.ad) <= AdvMaxLen
      PROVE  /\ Len(info.name) = d.name
             /\ Services(all) = {} /\ ServiceLists(all) = {}
             /\ info.hasMfg = TRUE /\ info.company = u /\ info.findMy = FALSE
  <2>1. /\ all = <<FlagsAd, MfgAd(u, body)>>
        /\ Names(all) = {} /\ Mfg(all) = {2} /\ Services(all) = {} /\ ServiceLists(all) = {}
    BY <1>8, MfgOnlyRead
  <2>2. all[2] = MfgAd(u, body)
    BY <2>1
  <2>3. info.hasMfg = TRUE /\ info.company = u
        /\ (info.findMy <=> u = Apple /\ HasAppleMsgType(body, FindMy))
    BY <2>1, <2>2, CompanyRead
  <2>4. info.findMy \in BOOLEAN
    BY DEF ParseAdvData
  <2> HIDE DEF info, all
  <2>5. info.findMy = FALSE
    BY <1>5, <2>3, <2>4
  <2> QED BY <1>3, <1>4, <1>8, <2>1, <2>3, <2>5
<1>9. ASSUME buf = Cat(Start, Bytes(NameAd(n))), d.name = n, NEW body \in Seq(Nat),
             d.ad = Cat(buf, Bytes(MfgAd(u, body))), Len(d.ad) <= AdvMaxLen
      PROVE  /\ Len(info.name) = d.name
             /\ Services(all) = {} /\ ServiceLists(all) = {}
             /\ info.hasMfg = TRUE /\ info.company = u /\ info.findMy = FALSE
  <2>1. /\ all = <<FlagsAd, NameAd(n), MfgAd(u, body)>>
        /\ Names(all) = {2} /\ Mfg(all) = {3} /\ Services(all) = {} /\ ServiceLists(all) = {}
    BY <1>9, NamedMfgRead
  <2>2. all[3] = MfgAd(u, body) /\ all[2] = NameAd(n)
    BY <2>1
  <2>3. info.hasMfg = TRUE /\ info.company = u
        /\ (info.findMy <=> u = Apple /\ HasAppleMsgType(body, FindMy))
    <3>1. Mfg(all) = {3} /\ all[3] = MfgAd(u, body) /\ u \in Nat /\ 3 \in Nat
      BY <2>1, <2>2
    <3> QED BY ONLY <3>1, body \in Seq(Nat), CompanyRead
  <2>4. info.findMy \in BOOLEAN
    BY DEF ParseAdvData
  <2> HIDE DEF info, all
  <2>5. info.findMy = FALSE
    BY <1>5, <2>3, <2>4
  <2>6. info.name = Letters(n)
    BY <1>3, <1>4, <2>1, <2>2
  <2> QED BY <1>4, <1>9, <2>1, <2>3, <2>5, <2>6
<1> HIDE DEF info, all, u, n
<1>10. CASE d.ad = buf
  BY <1>2, <1>6, <1>7, <1>10
<1>11. CASE \E body \in Seq(Nat) : /\ d.ad = Cat(buf, Bytes(MfgAd(u, body)))
                                   /\ Len(d.ad) <= AdvMaxLen
  <2>1. PICK body \in Seq(Nat) : /\ d.ad = Cat(buf, Bytes(MfgAd(u, body)))
                                  /\ Len(d.ad) <= AdvMaxLen
    BY <1>11
  <2> QED BY <1>2, <1>8, <1>9, <2>1
<1> QED BY <1>2, <1>10, <1>11

\* A message of the Nearby Info type that ends where the body does holds no other.
LEMMA OneMessage ==
  ASSUME NEW b, NEW n \in Nat, NEW body \in Seq(Nat), Len(body) = 2 + n,
         body[1] = NearbyInfo, body[2] = n
  PROVE  ~ HasAppleMsgType(body, FindMy)
<1>1. body # <<>>
  <2>1. Len(body) # 0
    OBVIOUS
  <2> QED BY <2>1, EmptySeq
<1>2. PICK g : /\ HasAppleMsgType(body, FindMy) <=> g[1]
               /\ \A i \in 1..Len(body) : g[i] = MsgAt(body, FindMy, g, i)
  BY <1>1, MsgTypeUnrolled
<1>3. g[1] = MsgAt(body, FindMy, g, 1)
  <2>1. 1 \in 1..Len(body)
    OBVIOUS
  <2> QED BY <1>2, <2>1
<1>4. ~ (1 + 2 + body[1 + 1] <= Len(body)) /\ body[1] # FindMy
  BY DEF NearbyInfo, FindMy
<1>5. ~ MsgAt(body, FindMy, g, 1)
  BY <1>4 DEF MsgAt
<1> QED BY <1>2, <1>3, <1>5

\* The bodies of Apple's decoys: a message, and random bytes up to the end of it.
LEMMA NaiveBody ==
  ASSUME NEW n \in Nat, NEW r \in Random(n)
  PROVE  LET body == <<NearbyInfo, n>> \o r IN
         body \in Seq(Nat) /\ Len(body) = 2 + n /\ body[1] = NearbyInfo /\ body[2] = n
<1>1. r \in Seq(Nat) /\ Len(r) = n
  BY RandomFacts
<1>2. NearbyInfo \in Nat
  BY DEF NearbyInfo
<1> QED BY <1>1, <1>2, BehindTwo

LEMMA NearbyBody ==
  ASSUME NEW c \in Nat, NEW r \in Random(4)
  PROVE  LET body == <<NearbyInfo, 5, c>> \o r IN
         body \in Seq(Nat) /\ Len(body) = 2 + 5 /\ body[1] = NearbyInfo /\ body[2] = 5
<1> DEFINE a == <<NearbyInfo, 5, c>>
           body == a \o r
<1>1. r \in Seq(Nat) /\ Len(r) = 4
  <2>1. 4 \in Nat
    OBVIOUS
  <2> QED BY ONLY <2>1, r \in Random(4), RandomFacts
<1>2. a \in Seq(Nat) /\ Len(a) = 3 /\ a[1] = NearbyInfo /\ a[2] = 5
  BY DEF NearbyInfo
<1> HIDE DEF a
<1>3. /\ body \in Seq(Nat) /\ Len(body) = Len(a) + Len(r)
      /\ \A j \in 1..Len(a) + Len(r) : body[j] = IF j <= Len(a) THEN a[j] ELSE r[j - Len(a)]
  BY ONLY <1>1, <1>2, ConcatProperties
<1> HIDE DEF body
<1>4. 1 \in 1..3 + 4 /\ 2 \in 1..3 + 4 /\ 1 <= 3 /\ 2 <= 3
  OBVIOUS
<1>5. Len(body) = 2 + 5 /\ body[1] = NearbyInfo /\ body[2] = 5
  BY ONLY <1>1, <1>2, <1>3, <1>4
<1> QED BY <1>3, <1>5 DEF a, body

LEMMA AppleShape ==
  ASSUME NEW d \in BuildApple
  PROVE  \E n \in 1..5, body \in Seq(Nat) :
           /\ Len(body) = 2 + n /\ body[1] = NearbyInfo /\ body[2] = n
           /\ d.ad = Cat(Start, Bytes(MfgAd(Apple, body))) /\ d.id = Apple /\ d.name = 0
<1> DEFINE Built(body) ==
             [ad |-> Start \o AD(MfgData, LE(Apple) \o body), id |-> Apple, name |-> 0]
<1>1. ASSUME NEW body, d = Built(body)
      PROVE  d.ad = Cat(Start, Bytes(MfgAd(Apple, body))) /\ d.id = Apple /\ d.name = 0
  BY <1>1 DEF Cat, Bytes, MfgAd
<1>2. \/ \E n \in 1..4 : \E r \in Random(n) : d = Built(<<NearbyInfo, n>> \o r)
      \/ \E b \in Noise, r \in Random(4) : d = Built(<<NearbyInfo, 5, b % 32>> \o r)
  <2>1. PICK body \in AppleNaiveBody \cup AppleNearbyInfo : d = Built(body)
    BY DEF BuildApple
  <2>2. \A x \in AppleNaiveBody :
          \E n \in 1..4 : \E r \in Random(n) : x = <<NearbyInfo, n>> \o r
    BY DEF AppleNaiveBody
  <2>3. \A x \in AppleNearbyInfo : \E b \in Noise, r \in Random(4) :
          x = <<NearbyInfo, 5, b % 32>> \o r
    BY DEF AppleNearbyInfo
  <2> HIDE DEF Built
  <2>4. CASE body \in AppleNaiveBody
    BY <2>1, <2>2, <2>4
  <2>5. CASE body \in AppleNearbyInfo
    BY <2>1, <2>3, <2>5
  <2> QED BY <2>4, <2>5
<1> HIDE DEF Built
<1>3. CASE \E n \in 1..4 : \E r \in Random(n) : d = Built(<<NearbyInfo, n>> \o r)
  <2>1. PICK n \in 1..4 : \E r \in Random(n) : d = Built(<<NearbyInfo, n>> \o r)
    BY <1>3
  <2>2. PICK r \in Random(n) : d = Built(<<NearbyInfo, n>> \o r)
    BY <2>1
  <2> DEFINE body == <<NearbyInfo, n>> \o r
  <2>3. n \in Nat /\ n \in 1..5
    OBVIOUS
  <2>4. body \in Seq(Nat) /\ Len(body) = 2 + n /\ body[1] = NearbyInfo /\ body[2] = n
    BY <2>3, NaiveBody
  <2>5. d = Built(body)
    BY <2>2
  <2> HIDE DEF body
  <2> QED BY <1>1, <2>3, <2>4, <2>5
<1>4. CASE \E b \in Noise, r \in Random(4) : d = Built(<<NearbyInfo, 5, b % 32>> \o r)
  <2>1. PICK b \in Noise, r \in Random(4) : d = Built(<<NearbyInfo, 5, b % 32>> \o r)
    BY <1>4
  <2> DEFINE c == b % 32
             body == <<NearbyInfo, 5, c>> \o r
  <2>2. c \in Nat
    BY NoiseAssumption
  <2>3. d = Built(body)
    BY <2>1
  <2> HIDE DEF c
  <2>4. body \in Seq(Nat) /\ Len(body) = 2 + 5 /\ body[1] = NearbyInfo /\ body[2] = 5
    BY <2>2, NearbyBody
  <2>5. 5 \in 1..5
    OBVIOUS
  <2> HIDE DEF body
  <2> QED BY <1>1, <2>3, <2>4, <2>5
<1> QED BY <1>2, <1>3, <1>4

\* The length of flags and one more structure.
LEMMA TwoLong ==
  ASSUME NEW x \in Ads
  PROVE  Len(Cat(Start, Bytes(x))) = 5 + Len(x.body)
<1>1. Start \in Seq(Nat) /\ Len(Start) = 3
  BY FlagsFacts, BytesFacts
<1>2. Bytes(x) \in Seq(Nat) /\ Len(Bytes(x)) = Len(x.body) + 2
  BY BytesFacts
<1>3. Len(Cat(Start, Bytes(x))) = Len(Start) + Len(Bytes(x))
  BY ONLY <1>1, <1>2, CatFacts
<1>4. Len(x.body) \in Nat
  BY DEF Ads
<1> QED BY ONLY <1>1, <1>2, <1>3, <1>4

\* An Apple decoy reads as Apple's, and has no Find My message.
LEMMA AppleDecoy ==
  ASSUME NEW d \in BuildApple
  PROVE  d.id = Apple /\ ParsesAsClaimed(d) /\ Harmless(d)
<1>1. PICK n \in 1..5, body \in Seq(Nat) :
        /\ Len(body) = 2 + n /\ body[1] = NearbyInfo /\ body[2] = n
        /\ d.ad = Cat(Start, Bytes(MfgAd(Apple, body))) /\ d.id = Apple /\ d.name = 0
  BY AppleShape
<1> DEFINE info == ParseAdvData(d.ad)
           all  == Structures(d.ad)
<1>2. Apple \in Nat /\ Apple # Microsoft /\ Apple # Tile /\ Apple # FastPair
  BY DEF Apple, Microsoft, Tile, FastPair
<1>3. /\ all = <<FlagsAd, MfgAd(Apple, body)>>
      /\ Names(all) = {} /\ Mfg(all) = {2} /\ Services(all) = {} /\ ServiceLists(all) = {}
  BY <1>1, <1>2, MfgOnlyRead
<1>4. all[2] = MfgAd(Apple, body)
  BY <1>3
<1>5. info.hasMfg = TRUE /\ info.company = Apple
      /\ (info.findMy <=> Apple = Apple /\ HasAppleMsgType(body, FindMy))
  BY <1>2, <1>3, <1>4, CompanyRead
<1>6. ~ HasAppleMsgType(body, FindMy)
  BY <1>1, OneMessage
<1>7. info.tile = FALSE /\ info.fastPair = FALSE /\ info.discoverable = FALSE
  BY <1>3, NoServicesRead
<1>8. info.name = <<>>
  BY <1>3, NameRead
<1>9. Len(d.ad) <= AdvMaxLen
  <2>1. MfgAd(Apple, body) \in Ads /\ MfgAd(Apple, body).body = LE(Apple) \o body
    BY <1>2, DataFacts DEF MfgAd
  <2>2. Len(LE(Apple) \o body) = 2 + Len(body)
    BY <1>2, OnTheAir
  <2>3. Len(d.ad) = 5 + (2 + (2 + n))
    BY <1>1, <2>1, <2>2, TwoLong
  <2> QED BY <2>3 DEF AdvMaxLen
<1> HIDE DEF info, all
<1>10. ParsesAsClaimed(d)
  BY <1>1, <1>2, <1>5, <1>7, <1>8, <1>9 DEF ParsesAsClaimed, info
<1>11. Harmless(d)
  BY <1>2, <1>5, <1>6, <1>7 DEF Harmless, Flagged, info
<1> QED BY <1>1, <1>10, <1>11

\* The shape of Fast Pair decoys: flags and service data of 6 to 9 bytes.
LEMMA FastPairShape ==
  ASSUME NEW d \in BuildFastPair
  PROVE  \E n \in 6..9, body \in Seq(Nat) :
           /\ Len(body) = n
           /\ d.ad = Cat(Start, Bytes(ServiceAd(FastPair, body)))
           /\ d.id = FastPair /\ d.name = 0
<1> DEFINE Lead(filter) == <<0, ((16 * Len(filter)) % 256) + 2>>
<1>1. PICK filter \in UNION {Random(n) : n \in 4..7} :
        d = [ad |-> Start \o AD(ServiceData16, LE(FastPair) \o Lead(filter) \o filter),
             id |-> FastPair, name |-> 0]
  BY DEF BuildFastPair
<1>2. PICK n \in 4..7 : filter \in Random(n)
  BY <1>1
<1>3. n \in Nat
  BY <1>2
<1>4. filter \in Seq(Nat) /\ Len(filter) = n
  BY <1>2, <1>3, RandomFacts
<1> DEFINE hi == ((16 * Len(filter)) % 256) + 2
           body == <<0, hi>> \o filter
           s == LE(FastPair)
<1>5. hi \in Nat /\ 0 \in Nat
  BY <1>3, <1>4
<1>6. Lead(filter) = <<0, hi>>
  OBVIOUS
<1> HIDE DEF hi, Lead
<1>7. body \in Seq(Nat) /\ Len(body) = 2 + n
  BY <1>4, <1>5, BehindTwo
<1>8. s \in Seq(Nat)
  BY ListFacts DEF ListAd, Ads, FastPair
<1>9. s \o Lead(filter) \o filter = s \o body
  <2> DEFINE t == <<0, hi>>
  <2>1. t \in Seq(Nat)
    BY <1>5
  <2> HIDE DEF s, t
  <2>2. Cat(Cat(s, t), filter) = Cat(s, Cat(t, filter))
    BY <1>4, <1>8, <2>1, CatAssociates
  <2>3. Cat(Cat(s, Lead(filter)), filter) = Cat(s, body)
    BY ONLY <1>6, <2>2 DEF t, Cat
  <2> QED BY ONLY <2>3 DEF Cat
<1> HIDE DEF body
<1>10. d.ad = Cat(Start, Bytes(ServiceAd(FastPair, body))) /\ d.id = FastPair /\ d.name = 0
  BY <1>1, <1>9 DEF Cat, Bytes, ServiceAd
<1>11. 2 + n \in 6..9
  BY <1>2
<1> QED BY <1>7, <1>10, <1>11

\* A Fast Pair decoy reads as a device with an account key, never as one to pair with.
LEMMA FastPairDecoy ==
  ASSUME NEW d \in BuildFastPair
  PROVE  d.id = FastPair /\ ParsesAsClaimed(d) /\ Harmless(d)
<1>1. PICK n \in 6..9, body \in Seq(Nat) :
        /\ Len(body) = n /\ d.ad = Cat(Start, Bytes(ServiceAd(FastPair, body)))
        /\ d.id = FastPair /\ d.name = 0
  BY FastPairShape
<1> DEFINE x    == ServiceAd(FastPair, body)
           info == ParseAdvData(d.ad)
           all  == Structures(d.ad)
<1>2. FastPair \in Nat /\ FastPair # Tile
  BY DEF FastPair, Tile
<1>3. x \in Ads /\ x.typ = 22 /\ Len(x.body) = 2 + n /\ UUID(x.body) = FastPair
  <2>1. Len(LE(FastPair) \o body) = 2 + Len(body) /\ UUID(LE(FastPair) \o body) = FastPair
    BY <1>2, OnTheAir
  <2>2. x.body = LE(FastPair) \o body /\ x.typ = 22
    BY DEF ServiceAd, ServiceData16
  <2>3. x \in Ads
    BY <1>2, DataFacts
  <2> HIDE DEF x
  <2> QED BY ONLY <1>1, <2>1, <2>2, <2>3
<1> HIDE DEF x
<1>4. all = <<FlagsAd, x>>
  BY <1>1, <1>3, FlagsFacts, ReadsTwo DEF x
<1>5. Len(d.ad) <= AdvMaxLen
  <2>1. Len(d.ad) = 5 + (2 + n)
    BY <1>1, <1>3, TwoLong DEF x
  <2> QED BY <2>1 DEF AdvMaxLen
<1> HIDE DEF all, info
<1>6. DOMAIN all = {1, 2} /\ all[1].typ = 1 /\ all[2] = x
  BY <1>4 DEF FlagsAd, Flags
<1>7. Len(x.body) >= 2
  BY <1>3
<1>8. Services(all) = {2}
  BY <1>3, <1>6, <1>7 DEF Services, Of, ServiceData16
<1>9. Names(all) = {} /\ Mfg(all) = {} /\ ServiceLists(all) = {}
  BY <1>3, <1>6 DEF Names, Mfg, ServiceLists, Of, MfgData, ServiceUUID16, ShortName, Name
<1>10. info.tile = FALSE /\ info.fastPair = TRUE /\ info.discoverable = FALSE
  <2>1. /\ UUID(all[2].body) # Tile /\ ServiceLists(all) = {} => info.tile = FALSE
        /\ info.fastPair = (UUID(all[2].body) = FastPair)
        /\ info.discoverable = (UUID(all[2].body) = FastPair /\ Len(all[2].body) = 5)
    BY <1>8, ServiceRead DEF all, info
  <2>2. Len(x.body) # 5
    BY <1>3
  <2> QED BY ONLY <1>2, <1>3, <1>6, <1>9, <2>1, <2>2
<1>11. info.hasMfg = FALSE /\ info.findMy = FALSE /\ info.name = <<>>
  BY <1>9, NoMfgRead, NameRead DEF all, info
<1>12. ParsesAsClaimed(d)
  BY <1>1, <1>2, <1>5, <1>10, <1>11 DEF ParsesAsClaimed, info
<1>13. Harmless(d)
  BY <1>10, <1>11 DEF Harmless, Flagged, info
<1> QED BY <1>1, <1>12, <1>13

\* The shape of Tile decoys: flags, a service list, 8 bytes of service data, a name.
LEMMA TileShape ==
  ASSUME NEW d \in BuildTile
  PROVE  \E body \in Seq(Nat) :
           /\ Len(body) = 8
           /\ d.ad = Cat(Cat(Cat(Start, Bytes(ListAd(Tile))), Bytes(ServiceAd(Tile, body))),
                         Bytes(NameAd(4)))
           /\ Len(d.ad) <= AdvMaxLen
           /\ d.id = Tile /\ d.name = 4
<1>1. PICK body \in Random(8) :
        d = [ad |-> AppendIfFits(Start \o AD(ServiceUUID16, LE(Tile))
                                   \o AD(ServiceData16, LE(Tile) \o body), Name, Letters(4)),
             id |-> Tile, name |-> 4]
  BY DEF BuildTile
<1>2. body \in Seq(Nat) /\ Len(body) = 8
  <2>1. 8 \in Nat
    OBVIOUS
  <2> QED BY ONLY <2>1, body \in Random(8), RandomFacts
<1> DEFINE l == ListAd(Tile)
           x == ServiceAd(Tile, body)
           n == NameAd(4)
           front == Cat(Cat(Start, Bytes(l)), Bytes(x))
           ad == AppendIfFits(front, n.typ, n.body)
<1>3. Tile \in Nat /\ 4 \in Nat
  BY DEF Tile
<1>4. l \in Ads /\ Len(l.body) = 2
  BY <1>3, ListFacts DEF ListAd
<1>5. x \in Ads /\ Len(x.body) = 10
  <2>1. x \in Ads
    BY <1>2, <1>3, DataFacts
  <2>2. x.body = LE(Tile) \o body
    BY DEF ServiceAd
  <2>3. Len(LE(Tile) \o body) = 2 + Len(body)
    BY <1>2, <1>3, OnTheAir
  <2> HIDE DEF x
  <2> QED BY ONLY <1>2, <2>1, <2>2, <2>3
<1>6. n \in Ads /\ Len(n.body) = 4
  BY <1>3, NameFacts DEF NameAd
<1>7. d.ad = ad /\ d.id = Tile /\ d.name = 4
  BY <1>1 DEF Cat, Bytes, ListAd, ServiceAd, NameAd
<1> HIDE DEF l, x, n
<1>8. front \in Seq(Nat) /\ Len(front) = 19
  <2>1. Start \in Seq(Nat) /\ Len(Start) = 3
    BY FlagsFacts, BytesFacts
  <2>2. /\ Bytes(l) \in Seq(Nat) /\ Len(Bytes(l)) = 2 + 2
        /\ Bytes(x) \in Seq(Nat) /\ Len(Bytes(x)) = 10 + 2
    BY <1>4, <1>5, BytesFacts
  <2>3. /\ Cat(Start, Bytes(l)) \in Seq(Nat)
        /\ Len(Cat(Start, Bytes(l))) = Len(Start) + Len(Bytes(l))
    BY ONLY <2>1, <2>2, CatFacts
  <2>4. /\ front \in Seq(Nat)
        /\ Len(front) = Len(Cat(Start, Bytes(l))) + Len(Bytes(x))
    BY ONLY <2>2, <2>3, CatFacts
  <2> HIDE DEF front
  <2> QED BY ONLY <2>1, <2>2, <2>3, <2>4
<1> HIDE DEF front
<1>9. /\ \/ ad = front
         \/ ad = Cat(front, Bytes(n)) /\ Len(ad) <= AdvMaxLen
      /\ Fits(front, n.body) => ad = Cat(front, Bytes(n))
  <2>1. LET a == AppendIfFits(front, n.typ, n.body) IN
        \/ a = front
        \/ /\ a = Cat(front, Bytes(n)) /\ a \in Seq(Nat)
           /\ Len(a) = Len(front) + Len(n.body) + 2 /\ Len(a) <= AdvMaxLen
    BY <1>6, <1>8, AppendFacts
  <2>2. Fits(front, n.body) => ad = Cat(front, Bytes(n))
    BY DEF AppendIfFits, Cat, Bytes
  <2> QED BY <2>1, <2>2
<1>10. Fits(front, n.body)
  BY <1>6, <1>8 DEF Fits, AdvMaxLen
<1>11. Len(Cat(front, Bytes(n))) <= AdvMaxLen
  <2>1. Bytes(n) \in Seq(Nat) /\ Len(Bytes(n)) = 4 + 2
    BY <1>6, BytesFacts
  <2>2. Len(Cat(front, Bytes(n))) = Len(front) + Len(Bytes(n))
    BY <1>8, <2>1, CatFacts
  <2> QED BY <1>8, <2>1, <2>2 DEF AdvMaxLen
<1>12. d.ad = Cat(front, Bytes(n)) /\ Len(d.ad) <= AdvMaxLen
  BY ONLY <1>7, <1>9, <1>10, <1>11
<1> QED BY <1>2, <1>7, <1>12 DEF front, l, x, n

\* A Tile decoy reads as a Tile by name and service.
LEMMA TileDecoy ==
  ASSUME NEW d \in BuildTile
  PROVE  d.id = Tile /\ ParsesAsClaimed(d) /\ Harmless(d)
<1>1. PICK body \in Seq(Nat) :
        /\ Len(body) = 8
        /\ d.ad = Cat(Cat(Cat(Start, Bytes(ListAd(Tile))), Bytes(ServiceAd(Tile, body))),
                      Bytes(NameAd(4)))
        /\ Len(d.ad) <= AdvMaxLen
        /\ d.id = Tile /\ d.name = 4
  BY TileShape
<1> DEFINE l == ListAd(Tile)
           x == ServiceAd(Tile, body)
           n == NameAd(4)
           info == ParseAdvData(d.ad)
           all  == Structures(d.ad)
<1>2. Tile \in Nat /\ 4 \in Nat /\ FastPair # Tile
  BY DEF FastPair, Tile
<1>3. l \in Ads /\ l.typ = 3 /\ Len(l.body) = 2
  BY <1>2, ListFacts DEF ListAd, ServiceUUID16
<1>4. x \in Ads /\ x.typ = 22 /\ Len(x.body) = 10 /\ UUID(x.body) = Tile
  <2>1. Len(LE(Tile) \o body) = 2 + Len(body) /\ UUID(LE(Tile) \o body) = Tile
    BY <1>2, OnTheAir
  <2>2. x.body = LE(Tile) \o body /\ x.typ = 22
    BY DEF ServiceAd, ServiceData16
  <2>3. x \in Ads
    BY <1>2, DataFacts
  <2> HIDE DEF x
  <2> QED BY ONLY <1>1, <2>1, <2>2, <2>3
<1>5. n \in Ads /\ n.typ = 9 /\ n.body = Letters(4) /\ Len(n.body) = 4
  BY <1>2, NameFacts DEF NameAd, Name
<1> HIDE DEF l, x, n
<1>6. all = <<FlagsAd, l, x, n>>
  <2>1. d.ad = Cat(Cat(Cat(Bytes(FlagsAd), Bytes(l)), Bytes(x)), Bytes(n))
    BY <1>1, FlagsFacts DEF l, x, n
  <2>2. Structures(Cat(Cat(Cat(Bytes(FlagsAd), Bytes(l)), Bytes(x)), Bytes(n))) =
          <<FlagsAd, l, x, n>>
    BY <1>3, <1>4, <1>5, FlagsFacts, ReadsFour
  <2> QED BY ONLY <2>1, <2>2
<1> HIDE DEF all, info
<1>7. /\ DOMAIN all = {1, 2, 3, 4} /\ all[1].typ = 1 /\ all[2] = l /\ all[3] = x /\ all[4] = n
  BY <1>6 DEF FlagsAd, Flags
<1> DEFINE Typ(j) == all[j].typ
<1>8. Services(all) = {3}
  <2>1. \A j \in {1, 2, 3, 4} : Typ(j) = 22 <=> j = 3
    <3>1. Typ(1) = 1 /\ Typ(2) = 3 /\ Typ(3) = 22 /\ Typ(4) = 9
      BY <1>3, <1>4, <1>5, <1>7
    <3> HIDE DEF Typ
    <3> QED BY <3>1
  <2>2. Len(all[3].body) >= 2
    <3>1. all[3] = x
      BY <1>7
    <3>2. Len(x.body) >= 2
      BY <1>4
    <3> QED BY ONLY <3>1, <3>2
  <2>3. Services(all) = {j \in {1, 2, 3, 4} : Typ(j) = 22 /\ Len(all[j].body) >= 2}
    BY <1>7 DEF Services, Of, ServiceData16
  <2> HIDE DEF Typ
  <2> QED BY <2>1, <2>2, <2>3
<1>9. Names(all) = {4}
  BY <1>3, <1>4, <1>5, <1>7 DEF Names, Of, ShortName, Name
<1>10. Mfg(all) = {}
  BY <1>3, <1>4, <1>5, <1>7 DEF Mfg, Of, MfgData
<1>11. info.tile = TRUE /\ info.fastPair = FALSE /\ info.discoverable = FALSE
  <2>1. /\ UUID(all[3].body) = Tile => info.tile = TRUE
        /\ info.fastPair = (UUID(all[3].body) = FastPair)
        /\ info.discoverable = (UUID(all[3].body) = FastPair /\ Len(all[3].body) = 5)
    BY <1>8, ServiceRead DEF all, info
  <2> QED BY ONLY <1>2, <1>4, <1>7, <2>1
<1>12. info.hasMfg = FALSE /\ info.findMy = FALSE
  BY <1>10, NoMfgRead DEF all, info
<1>13. Len(info.name) = 4
  <2>1. info.name = all[4].body
    BY <1>9, NameRead DEF all, info
  <2> QED BY ONLY <2>1, <1>5, <1>7
<1>14. ParsesAsClaimed(d)
  BY <1>1, <1>2, <1>11, <1>12, <1>13 DEF ParsesAsClaimed, info
<1>15. Harmless(d)
  BY <1>11, <1>12 DEF Harmless, Flagged, info
<1> QED BY <1>1, <1>14, <1>15
-----------------------------------------------------------------------------
(* What the parser makes of any bytes.                                     *)

\* Some numbers up to n have a largest.
LEMMA MaxIn ==
  ASSUME NEW n \in Nat, NEW S \in SUBSET (1..n), S # {}
  PROVE  Max(S) \in S
<1> DEFINE R == OpToRel(<, Nat)
           D == {n - x : x \in S}
<1>1. D # {} /\ D \in SUBSET Nat
  <2>1. \A x \in S : n - x \in D /\ n - x \in Nat
    OBVIOUS
  <2>2. PICK x \in S : TRUE
    OBVIOUS
  <2> QED BY <2>1, <2>2
<1>2. IsWellFoundedOn(R, Nat)
  BY NatLessThanWellFounded
<1>3. PICK d \in D : \A e \in D : ~ (<<e, d>> \in R)
  <2> HIDE DEF R, D
  <2> QED BY <1>1, <1>2, WFMin
<1>4. PICK x \in S : d = n - x
  BY <1>3
<1>5. \A y \in S : x >= y
  <2> SUFFICES ASSUME NEW y \in S PROVE x >= y
    OBVIOUS
  <2>1. n - y \in D /\ n - y \in Nat /\ d \in Nat
    BY <1>1, <1>3
  <2>2. ~ (<<n - y, d>> \in R)
    BY <1>3, <2>1
  <2>3. ~ (n - y < d)
    BY <2>1, <2>2 DEF R, OpToRel
  <2> QED BY <1>4, <2>1, <2>3
<1> QED BY <1>5 DEF Max

\* The parser's structures are made of the bytes of the payload.
LEMMA StructuresTyped ==
  ASSUME NEW B \in SUBSET Nat, NEW data \in Seq(B)
  PROVE  Structures(data) \in Seq([typ : B, body : Seq(B)])
<1> DEFINE R == [typ : B, body : Seq(B)]
           N == Len(data) + 1
<1>1. data \in Seq(Nat)
  BY SeqMonotonic
<1>2. N \in Nat \ {0} /\ \A i \in 1..Len(data) : data[i] \in B /\ data[i] \in Nat
  BY <1>1
<1>3. PICK g : /\ Structures(data) = g[1]
               /\ \A i \in 1..N : g[i] = From(data, g, i)
  BY <1>1, StructuresUnrolled
<1> DEFINE S == {k \in Nat : \A i \in 1..N : i > N - k => g[i] \in Seq(R)}
<1>4. 0 \in S
  BY <1>2
<1>5. ASSUME NEW k \in Nat, k \in S
      PROVE  k + 1 \in S
  <2> HIDE DEF R, N
  <2> SUFFICES ASSUME NEW i \in 1..N, i > N - (k + 1)
               PROVE  g[i] \in Seq(R)
    OBVIOUS
  <2> USE DEF N
  <2>1. CASE i > Len(data) \/ data[i] = 0 \/ i + data[i] > Len(data)
    <3>1. g[i] = <<>>
      BY <1>3, <2>1 DEF From
    <3> HIDE DEF R
    <3> QED BY <3>1
  <2>2. CASE ~ (i > Len(data) \/ data[i] = 0 \/ i + data[i] > Len(data))
    <3> DEFINE d == data[i]
               head == [typ |-> data[i + 1], body |-> SubSeq(data, i + 2, i + d)]
               rest == g[i + 1 + d]
    <3>1. i \in 1..Len(data) /\ d \in Nat /\ d # 0 /\ i + d <= Len(data)
      BY <1>2, <2>2
    <3>2. g[i] = <<head>> \o rest
      BY <1>3, <2>2 DEF From
    <3>3. i + 1 + d \in 1..N /\ i + 1 + d > N - k
      BY <1>2, <3>1
    <3>4. rest \in Seq(R)
      BY <1>5, <3>3
    <3>5. data[i + 1] \in B
      BY <1>2, <3>1
    <3>6. SubSeq(data, i + 2, i + d) \in Seq(B)
      <4>1. \A j \in i + 2..i + d : j \in 1..Len(data)
        BY <1>2, <3>1
      <4> QED BY <1>2, <3>1, <4>1
    <3>7. head \in R
      BY <3>5, <3>6 DEF R
    <3> HIDE DEF head, rest, R
    <3>8. <<head>> \in Seq(R)
      BY <3>7
    <3> QED BY ONLY <3>2, <3>4, <3>8, ConcatProperties
  <2> QED BY <2>1, <2>2
<1>6. N \in S
  <2> HIDE DEF S, N
  <2> QED BY <1>2, <1>4, <1>5, SetInduction
<1>7. 1 \in 1..N /\ 1 > N - N
  BY <1>2
<1> QED BY <1>3, <1>6, <1>7

\* A company is given by two bytes.
LEMMA CompanyTyped ==
  ASSUME NEW B \in SUBSET Nat, \A x \in B : x <= 255, NEW data \in Seq(B)
  PROVE  ParseAdvData(data).company \in Nat /\ ParseAdvData(data).company <= 65535
<1> DEFINE R   == [typ : B, body : Seq(B)]
           all == Structures(data)
           mfg == Of(all, {MfgData}, 2)
           m   == Max(mfg)
           b   == all[m].body
<1>1. ParseAdvData(data).company = IF mfg = {} THEN 0 ELSE UUID(b)
  BY DEF ParseAdvData
<1>2. all \in Seq(R)
  BY StructuresTyped
<1> HIDE DEF all, R
<1>3. CASE mfg = {}
  BY <1>1, <1>3
<1>4. CASE mfg # {}
  <2>1. DOMAIN all = 1..Len(all) /\ Len(all) \in Nat
    BY ONLY <1>2, LenProperties
  <2>2. mfg \in SUBSET (1..Len(all))
    BY <2>1 DEF Of
  <2>3. \A j \in mfg : Len(all[j].body) >= 2
    BY DEF Of
  <2> HIDE DEF mfg
  <2>4. m \in mfg
    BY ONLY <1>4, <2>1, <2>2, MaxIn
  <2>5. m \in 1..Len(all) /\ Len(b) >= 2
    BY <2>2, <2>3, <2>4
  <2> HIDE DEF m
  <2>6. all[m] \in R
    BY ONLY <1>2, <2>5, ElementOfSeq
  <2>7. b \in Seq(B)
    BY <2>6 DEF R
  <2> HIDE DEF b
  <2>8. Len(b) \in Nat /\ 1 \in 1..Len(b) /\ 2 \in 1..Len(b)
    <3>1. Len(b) \in Nat
      BY ONLY <2>7, LenProperties
    <3> QED BY ONLY <2>5, <3>1
  <2>9. b[1] \in B /\ b[2] \in B
    BY ONLY <2>7, <2>8, ElementOfSeq
  <2>10. b[1] \in Nat /\ b[1] <= 255 /\ b[2] \in Nat /\ b[2] <= 255
    BY <2>9
  <2>11. UUID(b) \in Nat /\ UUID(b) <= 65535
    BY ONLY <2>10 DEF UUID
  <2> QED BY <1>1, <1>4, <2>11
<1> HIDE DEF mfg
<1> QED BY ONLY <1>3, <1>4
=============================================================================
