----------------------------- MODULE LearnProofs -----------------------------
(***************************************************************************)
(* Proofs about Learn, for any vendor table, any adverts and any scan.     *)
(***************************************************************************)
EXTENDS Learn, PayloadProofs, FiniteSetTheorems

\* What report j of rs says.
Says(rs, j) == ParseAdvData(rs[j].data)

\* The reports of rs from device m before the k-th.
Before(rs, m, k) == {j \in 1..k - 1 : rs[j].mac = m}

\* The row of device m sums up the reports before the k-th: the strongest signal,
\* one of the names and of the companies given, and every service.
Strongest(rs, row, m, k) ==
  /\ \E j \in Before(rs, m, k) : row.rssi = rs[j].rssi
  /\ \A j \in Before(rs, m, k) : rs[j].rssi <= row.rssi

HeardName(rs, row, m, k) ==
  \/ row.name = <<>> /\ \A j \in Before(rs, m, k) : Says(rs, j).name = <<>>
  \/ \E j \in Before(rs, m, k) :
       Says(rs, j).name # <<>> /\ row.name = Says(rs, j).name

HeardCompany(rs, row, m, k) ==
  \/ row.hasMfg = FALSE /\ \A j \in Before(rs, m, k) : Says(rs, j).hasMfg = FALSE
  \/ /\ row.hasMfg = TRUE
     /\ \E j \in Before(rs, m, k) :
          Says(rs, j).hasMfg = TRUE /\ row.company = Says(rs, j).company

EveryService(rs, row, m, k) ==
  /\ row.tile = \E j \in Before(rs, m, k) : Says(rs, j).tile
  /\ row.fastPair = \E j \in Before(rs, m, k) : Says(rs, j).fastPair

SumsUp(rs, row, m, k) ==
  /\ row.mac = m
  /\ Strongest(rs, row, m, k) /\ HeardName(rs, row, m, k) /\ HeardCompany(rs, row, m, k)
  /\ EveryService(rs, row, m, k)

\* What the table says of a device after the whole scan rs: its strongest signal, a
\* name and a company it gave, if it gave any, and every service.
SightingsIn(rs, m) == {j \in DOMAIN rs : rs[j].mac = m}

Loudest(rs, row) == row.rssi = Max({rs[j].rssi : j \in SightingsIn(rs, row.mac)})

Remembered(rs, row) ==
  LET named == {j \in SightingsIn(rs, row.mac) : Says(rs, j).name # <<>>}
      known == {j \in SightingsIn(rs, row.mac) : Says(rs, j).hasMfg}
  IN  /\ IF named = {} THEN row.name = <<>> ELSE \E j \in named : row.name = Says(rs, j).name
      /\ row.hasMfg = (known # {})
      /\ known # {} => \E j \in known : row.company = Says(rs, j).company
      /\ row.tile = \E j \in SightingsIn(rs, row.mac) : Says(rs, j).tile
      /\ row.fastPair = \E j \in SightingsIn(rs, row.mac) : Says(rs, j).fastPair

ClosestOf(rs, ds) ==
  /\ Len(ds) = Cardinality({rs[j].mac : j \in DOMAIN rs})
  /\ \A k \in DOMAIN ds : Loudest(rs, ds[k])
  /\ \A k \in 1..Len(ds) - 1 : ds[k].rssi >= ds[k + 1].rssi

AllRemembered(rs, ds) == \A row \in Range(ds) : Remembered(rs, row)

\* What was heard is reports.
ReportsOK == reports \in Seq(Report)

\* The table, while it is built, sums up the reports gone through.
Rows == \A m \in DOMAIN byMAC : SumsUp(reports, byMAC[m], m, i)

Table ==
  /\ i \in Nat \ {0}
  /\ pc \in {"hear", "weigh"} => byMAC = Empty
  /\ pc = "build" =>
       /\ i \in 1..Len(reports) + 1
       /\ IsFiniteSet(DOMAIN byMAC)
       /\ DOMAIN byMAC = {reports[j].mac : j \in 1..i - 1}
       /\ Rows

\* The adverts counted are numbers; the weights and the summary come from one count.
Weights ==
  /\ \A c \in DOMAIN obs : obs[c] \in Nat \ {0}
  /\ trackersN.tile \in Nat /\ trackersN.fastPair \in Nat
  /\ trackersN = [tile |-> trackersN.tile, fastPair |-> trackersN.fastPair]

-----------------------------------------------------------------------------
(* The operators.                                                          *)

\* What a payload tells of its sender is told or not.
LEMMA ParsedFlags ==
  ASSUME NEW d
  PROVE  /\ ParseAdvData(d).hasMfg \in BOOLEAN
         /\ ParseAdvData(d).tile \in BOOLEAN
         /\ ParseAdvData(d).fastPair \in BOOLEAN
BY DEF ParseAdvData

\* A map keeps its other entries.
LEMMA PutFacts ==
  ASSUME NEW f, NEW x, NEW v
  PROVE  /\ DOMAIN Put(f, x, v) = {x} \cup DOMAIN f
         /\ \A y \in {x} \cup DOMAIN f : Put(f, x, v)[y] = IF y = x THEN v ELSE f[y]
BY DEF Put

\* The largest of some numbers is the one that none exceeds.
LEMMA MaxIs ==
  ASSUME NEW S \in SUBSET Int, NEW m \in S, \A y \in S : y <= m
  PROVE  Max(S) = m
<1>1. \A y \in S : m >= y
  OBVIOUS
<1>2. \A x \in S : (\A y \in S : x >= y) => x = m
  OBVIOUS
<1> QED BY <1>1, <1>2 DEF Max

\* A boost is a number, and there is one exactly for what was seen.
LEMMA BoostFacts ==
  ASSUME NEW n \in Int
  PROVE  Boost(n) \in 0..MaxBoost /\ (Boost(n) > 0 <=> n > 0)
<1> DEFINE S == {b \in 1..MaxBoost : 16 * n < (2 * b + 1) * (2 * b + 1)} \cup {MaxBoost}
           R == OpToRel(<, Nat)
<1>1. IsWellFoundedOn(R, Nat)
  BY NatLessThanWellFounded
<1>2. S \subseteq 1..MaxBoost /\ MaxBoost \in S
  BY DEF MaxBoost
<1>3. S \in SUBSET Nat /\ S # {}
  BY <1>2 DEF MaxBoost
<1> HIDE DEF R, S
<1>4. PICK x \in S : \A y \in S : ~ (<<y, x>> \in R)
  BY <1>1, <1>3, WFMin
<1>5. \A y \in S : x =< y
  <2> SUFFICES ASSUME NEW y \in S PROVE x =< y
    OBVIOUS
  <2>1. <<y, x>> \notin R /\ x \in Nat /\ y \in Nat
    BY <1>3, <1>4
  <2>2. ~ (y < x)
    BY <2>1 DEF R, OpToRel
  <2> QED BY <2>1, <2>2
<1>6. Min(S) \in S
  BY <1>5 DEF Min
<1>7. Min(S) \in 1..MaxBoost
  BY <1>2, <1>6
<1>8. Boost(n) = IF n <= 0 THEN 0 ELSE Min(S)
  BY DEF Boost, S
<1> QED BY <1>7, <1>8 DEF MaxBoost
\* A report has a strength and a count, both numbers.
LEMMA ReportFacts ==
  ASSUME ReportsOK
  PROVE  /\ Len(reports) \in Nat
         /\ \A j \in 1..Len(reports) :
              reports[j].rssi \in Int /\ reports[j].count \in Nat \ {0}
<1>1. \A r \in Report : r.rssi \in RSSIs /\ r.count \in Counts
  BY DEF Report
<1>2. RSSIs \subseteq Int /\ Counts \subseteq Nat \ {0}
  BY BoundsAssumption
<1>3. Len(reports) \in Nat /\ \A j \in 1..Len(reports) : reports[j] \in Report
  BY DEF ReportsOK
<1> HIDE DEF Report
<1> QED BY <1>1, <1>2, <1>3
-----------------------------------------------------------------------------
(* The merge.                                                              *)

\* The reports before the next: those before, and the one in hand if it is the device's.
LEMMA BeforeNext ==
  ASSUME NEW m, NEW k \in Nat \ {0}
  PROVE  Before(reports, m, k + 1) = IF reports[k].mac = m THEN Before(reports, m, k) \cup {k}
                                     ELSE Before(reports, m, k)
<1>1. 1..(k + 1) - 1 = (1..k - 1) \cup {k}
  OBVIOUS
<1> QED BY <1>1 DEF Before

\* A row still sums up its device after the report of another.
LEMMA OthersKeep ==
  ASSUME NEW row, NEW m, NEW k \in Nat \ {0}, reports[k].mac # m, SumsUp(reports, row, m, k)
  PROVE  SumsUp(reports, row, m, k + 1)
<1>1. Before(reports, m, k + 1) = Before(reports, m, k)
  BY BeforeNext
<1> QED BY <1>1 DEF SumsUp, Strongest, HeardName, HeardCompany, EveryService

\* The row of a device's first report sums it up.
LEMMA FirstReport ==
  ASSUME ReportsOK, NEW k \in 1..Len(reports), Before(reports, reports[k].mac, k) = {}
  PROVE  SumsUp(reports, Row(reports[k]), reports[k].mac, k + 1)
<1> DEFINE m == reports[k].mac
           row == Row(reports[k])
<1>0. k \in Nat \ {0}
  BY ReportFacts
<1>1. Before(reports, m, k + 1) = {k}
  BY <1>0, BeforeNext
<1>2. /\ row.mac = m /\ row.rssi = reports[k].rssi /\ row.name = Says(reports, k).name
      /\ row.company = Says(reports, k).company /\ row.hasMfg = Says(reports, k).hasMfg
      /\ row.tile = Says(reports, k).tile /\ row.fastPair = Says(reports, k).fastPair
  BY DEF Row, Says
<1>3. /\ Says(reports, k).hasMfg \in BOOLEAN /\ Says(reports, k).tile \in BOOLEAN
      /\ Says(reports, k).fastPair \in BOOLEAN
  BY ParsedFlags DEF Says
<1>4. reports[k].rssi \in Int
  BY ReportFacts
<1> HIDE DEF m, row
<1>5. Strongest(reports, row, m, k + 1)
  BY <1>1, <1>2, <1>4 DEF Strongest
<1>6. HeardName(reports, row, m, k + 1)
  BY <1>1, <1>2 DEF HeardName
<1>7. HeardCompany(reports, row, m, k + 1)
  BY <1>1, <1>2, <1>3 DEF HeardCompany
<1>8. EveryService(reports, row, m, k + 1)
  BY <1>1, <1>2, <1>3 DEF EveryService
<1> QED BY <1>2, <1>5, <1>6, <1>7, <1>8 DEF SumsUp, m, row

\* A row merged with a further report of its device sums up that one too.
LEMMA FurtherReport ==
  ASSUME ReportsOK, NEW k \in 1..Len(reports), NEW prev,
         SumsUp(reports, prev, reports[k].mac, k)
  PROVE  SumsUp(reports, Merged(prev, Row(reports[k])), reports[k].mac, k + 1)
<1> DEFINE m == reports[k].mac
           row == Merged(prev, Row(reports[k]))
<1>1. /\ Before(reports, m, k + 1) = Before(reports, m, k) \cup {k}
      /\ Before(reports, m, k) \subseteq 1..k - 1
  BY BeforeNext DEF Before
<1>2. /\ row.mac = m
      /\ row.rssi = IF prev.rssi > reports[k].rssi THEN prev.rssi ELSE reports[k].rssi
      /\ row.name = IF Says(reports, k).name = <<>> THEN prev.name ELSE Says(reports, k).name
      /\ row.company = IF ~Says(reports, k).hasMfg /\ prev.hasMfg THEN prev.company
                                                         ELSE Says(reports, k).company
      /\ row.hasMfg = (Says(reports, k).hasMfg \/ prev.hasMfg)
      /\ row.tile = (Says(reports, k).tile \/ prev.tile)
      /\ row.fastPair = (Says(reports, k).fastPair \/ prev.fastPair)
  BY DEF Merged, Row, Says
<1>3. /\ Says(reports, k).hasMfg \in BOOLEAN /\ Says(reports, k).tile \in BOOLEAN
      /\ Says(reports, k).fastPair \in BOOLEAN
  BY ParsedFlags DEF Says
<1>4. \A j \in 1..Len(reports) : reports[j].rssi \in Int
  BY ReportFacts
<1>5. SumsUp(reports, prev, m, k)
  OBVIOUS
<1>b. k \in Nat /\ Len(reports) \in Nat /\ k <= Len(reports)
  BY DEF ReportsOK
<1> HIDE DEF m, row
<1>6. Strongest(reports, row, m, k + 1)
  <2>1. PICK j \in Before(reports, m, k) : prev.rssi = reports[j].rssi
    BY <1>5 DEF SumsUp, Strongest
  <2>2. prev.rssi \in Int /\ reports[k].rssi \in Int
    BY <1>1, <1>4, <1>b, <2>1
  <2>3. \A l \in Before(reports, m, k) :
          reports[l].rssi <= prev.rssi /\ reports[l].rssi \in Int
    BY <1>1, <1>4, <1>5, <1>b DEF SumsUp, Strongest
  <2>4. row.rssi = IF prev.rssi > reports[k].rssi THEN prev.rssi ELSE reports[k].rssi
    BY <1>2
  <2>5. CASE prev.rssi > reports[k].rssi
    BY <1>1, <2>1, <2>2, <2>3, <2>4, <2>5 DEF Strongest
  <2>6. CASE ~ (prev.rssi > reports[k].rssi)
    BY <1>1, <2>2, <2>3, <2>4, <2>6 DEF Strongest
  <2> QED BY <2>5, <2>6
<1>7. HeardName(reports, row, m, k + 1)
  <2>1. CASE Says(reports, k).name = <<>>
    BY <1>1, <1>2, <1>5, <2>1 DEF SumsUp, HeardName
  <2>2. CASE Says(reports, k).name # <<>>
    BY <1>1, <1>2, <1>b, <2>2 DEF HeardName
  <2> QED BY <2>1, <2>2
<1>8. HeardCompany(reports, row, m, k + 1)
  <2>1. HeardCompany(reports, prev, m, k)
    BY <1>5 DEF SumsUp
  <2>2. CASE Says(reports, k).hasMfg = TRUE
    <3>1. row.hasMfg = TRUE /\ row.company = Says(reports, k).company
      BY <1>2, <2>2
    <3> QED BY <1>1, <1>b, <2>2, <3>1 DEF HeardCompany
  <2>3. CASE Says(reports, k).hasMfg = FALSE /\ prev.hasMfg = FALSE
    <3>1. row.hasMfg = FALSE
      BY <1>2, <2>3
    <3>2. \A j \in Before(reports, m, k) : Says(reports, j).hasMfg = FALSE
      BY <2>1, <2>3 DEF HeardCompany
    <3> QED BY <1>1, <2>3, <3>1, <3>2 DEF HeardCompany
  <2>4. CASE Says(reports, k).hasMfg = FALSE /\ prev.hasMfg = TRUE
    <3>1. row.hasMfg = TRUE /\ row.company = prev.company
      BY <1>2, <2>4
    <3>2. PICK j \in Before(reports, m, k) :
            Says(reports, j).hasMfg = TRUE /\ prev.company = Says(reports, j).company
      BY <2>1, <2>4 DEF HeardCompany
    <3> QED BY <1>1, <2>4, <3>1, <3>2 DEF HeardCompany
  <2>5. prev.hasMfg = TRUE \/ prev.hasMfg = FALSE
    BY <2>1 DEF HeardCompany
  <2> QED BY <1>3, <2>2, <2>3, <2>4, <2>5
<1>9. EveryService(reports, row, m, k + 1)
  BY <1>1, <1>2, <1>3, <1>5 DEF SumsUp, EveryService
<1> QED BY <1>2, <1>6, <1>7, <1>8, <1>9 DEF SumsUp, m, row
-----------------------------------------------------------------------------
(* The steps.                                                              *)

\* Every report goes into the row of its device.
LEMMA BuildStep ==
  ASSUME ReportsOK, Table, Build
  PROVE  Table'
<1> DEFINE r == reports[i]
           m == r.mac
           row == IF m \in DOMAIN byMAC THEN Merged(byMAC[m], Row(r)) ELSE Row(r)
<1>1. /\ pc = "build" /\ pc' = "build" /\ i <= Len(reports) /\ i' = i + 1
      /\ UNCHANGED reports /\ byMAC' = Put(byMAC, m, row)
  <2>1. Row(r).mac = m
    BY DEF Row
  <2> QED BY <2>1 DEF Build
<1>2. /\ i \in 1..Len(reports) + 1 /\ IsFiniteSet(DOMAIN byMAC)
      /\ DOMAIN byMAC = {reports[j].mac : j \in 1..i - 1}
      /\ \A x \in DOMAIN byMAC : SumsUp(reports, byMAC[x], x, i)
  BY <1>1 DEF Table, Rows
<1>3. i \in 1..Len(reports) /\ Len(reports) \in Nat /\ i \in Nat \ {0}
  BY <1>1, <1>2, ReportFacts
<1> HIDE DEF row
<1>4. /\ DOMAIN byMAC' = {m} \cup DOMAIN byMAC
      /\ \A x \in {m} \cup DOMAIN byMAC : byMAC'[x] = IF x = m THEN row ELSE byMAC[x]
  BY <1>1 DEF Put
<1>5. SumsUp(reports, row, m, i + 1)
  <2>1. CASE m \in DOMAIN byMAC
    <3>1. SumsUp(reports, byMAC[m], m, i)
      BY <1>2, <2>1
    <3> QED BY <1>3, <2>1, <3>1, FurtherReport DEF row
  <2>2. CASE m \notin DOMAIN byMAC
    <3>1. Before(reports, m, i) = {}
      BY <1>2, <2>2 DEF Before
    <3> QED BY <1>3, <2>2, <3>1, FirstReport DEF row
  <2> QED BY <2>1, <2>2
<1>6. \A x \in DOMAIN byMAC' : SumsUp(reports, byMAC'[x], x, i')
  <2> SUFFICES ASSUME NEW x \in DOMAIN byMAC' PROVE SumsUp(reports, byMAC'[x], x, i')
    OBVIOUS
  <2>1. CASE x = m
    BY <1>1, <1>4, <1>5, <2>1
  <2>2. CASE x # m
    <3>1. SumsUp(reports, byMAC[x], x, i) /\ byMAC'[x] = byMAC[x]
      BY <1>2, <1>4, <2>2
    <3>2. reports[i].mac # x
      BY <2>2
    <3> QED BY <1>1, <1>3, <3>1, <3>2, OthersKeep
  <2> QED BY <2>1, <2>2
<1>7. DOMAIN byMAC' = {reports[j].mac : j \in 1..(i + 1) - 1}
  <2>1. 1..(i + 1) - 1 = (1..i - 1) \cup {i}
    BY <1>3
  <2> QED BY <1>2, <1>4, <2>1
<1>8. IsFiniteSet(DOMAIN byMAC')
  BY <1>2, <1>4, FS_AddElement
<1>9. i' \in 1..Len(reports') + 1 /\ i' \in Nat \ {0}
  BY <1>1, <1>3
<1>u. reports' = reports
  BY <1>1
<1>10. Rows'
  BY ONLY <1>u, <1>6 DEF Rows
<1> QED BY <1>1, <1>7, <1>8, <1>9, <1>10 DEF Table

\* What the whole scan has of a device is what came before its end.
LEMMA AllSightings ==
  ASSUME ReportsOK, NEW m
  PROVE  /\ SightingsIn(reports, m) = Before(reports, m, Len(reports) + 1)
         /\ SightingsIn(reports, m) \subseteq 1..Len(reports)
<1>1. DOMAIN reports = 1..Len(reports) /\ Len(reports) \in Nat
  BY DEF ReportsOK
<1>2. 1..(Len(reports) + 1) - 1 = 1..Len(reports)
  BY <1>1
<1> QED BY <1>1, <1>2 DEF SightingsIn, Before

\* A row that sums up the whole scan holds the strongest signal of its device, a
\* name and a company of those given, and every service.
LEMMA WholeScan ==
  ASSUME ReportsOK, NEW row, NEW m, SumsUp(reports, row, m, Len(reports) + 1)
  PROVE  Loudest(reports, row) /\ Remembered(reports, row)
<1> DEFINE named == {j \in SightingsIn(reports, m) : Says(reports, j).name # <<>>}
           known == {j \in SightingsIn(reports, m) : Says(reports, j).hasMfg}
           signals == {reports[j].rssi : j \in SightingsIn(reports, m)}
<1>1. /\ SightingsIn(reports, m) = Before(reports, m, Len(reports) + 1)
      /\ SightingsIn(reports, m) \subseteq 1..Len(reports)
  BY AllSightings
<1>2. Len(reports) \in Nat /\ \A j \in 1..Len(reports) : reports[j].rssi \in Int
  BY ReportFacts
<1>3. \A j : Says(reports, j).hasMfg \in BOOLEAN
  BY ParsedFlags DEF Says
<1>4. row.rssi = Max(signals)
  <2>1. row.rssi \in signals /\ \A y \in signals : y <= row.rssi
    BY <1>1 DEF SumsUp, Strongest
  <2>2. signals \in SUBSET Int
    BY <1>1, <1>2
  <2> QED BY <2>1, <2>2, MaxIs
<1>5. IF named = {} THEN row.name = <<>> ELSE \E j \in named : row.name = Says(reports, j).name
  <2>1. HeardName(reports, row, m, Len(reports) + 1)
    BY DEF SumsUp
  <2> QED BY <1>1, <2>1 DEF HeardName
<1>6. /\ row.hasMfg = (known # {})
      /\ known # {} => \E j \in known : row.company = Says(reports, j).company
  <2>1. HeardCompany(reports, row, m, Len(reports) + 1)
    BY DEF SumsUp
  <2>2. CASE row.hasMfg = FALSE
    BY <1>1, <1>3, <2>1, <2>2 DEF HeardCompany
  <2>3. CASE row.hasMfg = TRUE
    <3>1. PICK j \in SightingsIn(reports, m) :
            Says(reports, j).hasMfg = TRUE /\ row.company = Says(reports, j).company
      BY <1>1, <2>1, <2>3 DEF HeardCompany
    <3>2. j \in known
      BY <3>1
    <3> QED BY <2>3, <3>1, <3>2
  <2> QED BY <2>1, <2>2, <2>3 DEF HeardCompany
<1>7. /\ row.tile = \E j \in SightingsIn(reports, m) : Says(reports, j).tile
      /\ row.fastPair = \E j \in SightingsIn(reports, m) : Says(reports, j).fastPair
  BY <1>1 DEF SumsUp, EveryService
<1>8. row.mac = m
  BY DEF SumsUp
<1> QED BY <1>4, <1>5, <1>6, <1>7, <1>8 DEF Loudest, Remembered

\* The table is sorted, and each of its rows sums up the whole scan.
LEMMA BuiltStep ==
  ASSUME ReportsOK, Table, Built
  PROVE  ClosestOf(reports, devices') /\ AllRemembered(reports, devices')
<1> DEFINE D == DOMAIN byMAC
           n == Cardinality(D)
<1>1. PICK order \in SetToSeqs(D) :
        /\ \A j \in 1..Len(order) - 1 : byMAC[order[j]].rssi >= byMAC[order[j + 1]].rssi
        /\ devices' = [j \in DOMAIN order |-> byMAC[order[j]]]
  BY DEF Built
<1>2. order \in [1..n -> D]
  BY <1>1 DEF SetToSeqs
<1>3. /\ i \in 1..Len(reports) + 1 /\ i > Len(reports)
      /\ IsFiniteSet(D) /\ D = {reports[j].mac : j \in 1..i - 1}
      /\ \A x \in D : SumsUp(reports, byMAC[x], x, i)
  BY DEF Built, Table, Rows
<1>4. Len(reports) \in Nat /\ DOMAIN reports = 1..Len(reports)
  BY ReportFacts DEF ReportsOK
<1>5. i = Len(reports) + 1 /\ 1..i - 1 = DOMAIN reports
  BY <1>3, <1>4
<1>6. n \in Nat
  BY <1>3, FS_CardinalityType
<1>7. D = {reports[j].mac : j \in DOMAIN reports}
  BY <1>3, <1>5
<1> HIDE DEF D, n
<1>8. Len(order) = n /\ DOMAIN order = 1..n
  BY <1>2, <1>6
<1>9. Len(devices') = n /\ DOMAIN devices' = 1..n
  BY <1>1, <1>6, <1>8
<1>10. \A k \in 1..n : order[k] \in D /\ devices'[k] = byMAC[order[k]]
  BY <1>1, <1>2, <1>8
<1>11. \A x \in D : Loudest(reports, byMAC[x]) /\ Remembered(reports, byMAC[x])
  BY <1>3, <1>5, WholeScan
<1>12. \A k \in 1..n - 1 : k \in 1..n /\ k + 1 \in 1..n
  BY <1>6
<1>13. \A k \in 1..n - 1 : devices'[k].rssi >= devices'[k + 1].rssi
  BY <1>1, <1>8, <1>10, <1>12
<1>14. ClosestOf(reports, devices')
  BY <1>7, <1>9, <1>10, <1>11, <1>13 DEF ClosestOf, n
<1>15. AllRemembered(reports, devices')
  BY <1>9, <1>10, <1>11 DEF AllRemembered, Range
<1> QED BY <1>14, <1>15

\* The counts of adverts stay numbers.
LEMMA WeighStep ==
  ASSUME ReportsOK, Weights, Weigh, i \in Nat \ {0}
  PROVE  Weights'
<1> DEFINE info == ParseAdvData(reports[i].data)
           c    == info.company
           n    == reports[i].count
<1>1. i \in 1..Len(reports) /\ n \in Nat \ {0}
  BY ReportFacts DEF Weigh
<1>2. obs' = IF info.hasMfg THEN Put(obs, c, Count(obs, c) + n) ELSE obs
  BY DEF Weigh
<1>3. trackersN' = [tile     |-> trackersN.tile + IF info.tile THEN n ELSE 0,
                    fastPair |-> trackersN.fastPair + IF info.fastPair THEN n ELSE 0]
  BY DEF Weigh
<1> HIDE DEF info, c, n
<1>4. Count(obs, c) \in Nat
  BY DEF Weights, Count
<1>5. \A x \in DOMAIN obs' : obs'[x] \in Nat \ {0}
  <2>1. CASE ~info.hasMfg
    BY <1>2, <2>1 DEF Weights
  <2>2. CASE info.hasMfg
    <3>1. obs' = Put(obs, c, Count(obs, c) + n) /\ Count(obs, c) + n \in Nat \ {0}
      BY <1>1, <1>2, <1>4, <2>2
    <3> QED BY <3>1 DEF Weights, Put
  <2> QED BY <2>1, <2>2
<1>6. trackersN'.tile \in Nat /\ trackersN'.fastPair \in Nat
  BY <1>1, <1>3 DEF Weights
<1>7. trackersN' = [tile |-> trackersN'.tile, fastPair |-> trackersN'.fastPair]
  BY <1>3
<1> QED BY <1>5, <1>6, <1>7 DEF Weights

\* What decides on the summary decides on the weights: something to impersonate was seen.
LEMMA WeighedStep ==
  ASSUME Weights, Weighed
  PROVE  SummaryHonest'
<1> DEFINE seen == \/ \E c \in Companies : Count(obs, c) > 0
                   \/ trackersN.tile > 0 \/ trackersN.fastPair > 0
<1>1. /\ weights' = [j \in DOMAIN Vendors |-> BaseWeight + Boost(Count(obs, Vendors[j].id))]
      /\ trackerWeights' = <<BaseWeight + Boost(trackersN.tile),
                             BaseWeight + Boost(trackersN.fastPair)>>
      /\ summary' = Summary
  BY DEF Weighed
<1>2. \A c : Count(obs, c) \in Nat
  BY DEF Weights, Count
<1>3. trackersN.tile \in Nat /\ trackersN.fastPair \in Nat
  BY DEF Weights
<1>4. (summary' = "mix") <=> seen
  <2>1. CASE seen
    BY <1>1, <2>1 DEF Summary
  <2>2. CASE ~seen
    <3>1. Summary \in {"none impersonable", "none seen"}
      BY <2>2 DEF Summary
    <3> QED BY <1>1, <2>2, <3>1
  <2> QED BY <2>1, <2>2
<1>5. \A n \in Nat : BaseWeight + Boost(n) > BaseWeight <=> n > 0
  <2> SUFFICES ASSUME NEW n \in Nat
               PROVE  BaseWeight + Boost(n) > BaseWeight <=> n > 0
    OBVIOUS
  <2>1. Boost(n) \in Nat /\ (Boost(n) > 0 <=> n > 0)
    BY BoostFacts DEF MaxBoost
  <2> QED BY <2>1 DEF BaseWeight
<1>6. (\E w \in Range(weights') : w > BaseWeight) <=> \E c \in Companies : Count(obs, c) > 0
  <2>1. Range(weights') = {BaseWeight + Boost(Count(obs, c)) : c \in Companies}
    <3>1. Companies = {Vendors[j].id : j \in DOMAIN Vendors}
      BY DEF Companies, Range
    <3> QED BY <1>1, <3>1 DEF Range
  <2> QED BY <1>2, <1>5, <2>1
<1>7. (\E w \in Range(trackerWeights') : w > BaseWeight)
        <=> trackersN.tile > 0 \/ trackersN.fastPair > 0
  <2>1. Range(trackerWeights')
          = {BaseWeight + Boost(trackersN.tile), BaseWeight + Boost(trackersN.fastPair)}
    BY <1>1 DEF Range
  <2> QED BY <1>3, <1>5, <2>1
<1>8. (\E w \in Range(weights') \cup Range(trackerWeights') : w > BaseWeight) <=> seen
  BY <1>6, <1>7
<1> HIDE DEF seen
<1> QED BY <1>4, <1>8 DEF SummaryHonest
-----------------------------------------------------------------------------
\* The two properties of the table, in terms of the reports and the table alone.
LEMMA TableProperties ==
  /\ ClosestFirst <=> (pc = "mint" => ClosestOf(reports, devices))
  /\ NothingForgotten <=> (pc = "mint" => AllRemembered(reports, devices))
BY DEF ClosestFirst, NothingForgotten, ClosestOf, AllRemembered, Loudest, Remembered,
   SightingsIn, Sightings, Says
-----------------------------------------------------------------------------
(* The weights, and the decoys minted with them.                           *)

\* The running sums of some weights.
LEMMA TotalsUnrolled ==
  ASSUME NEW w \in Seq(Nat)
  PROVE  /\ \A j \in 0..Len(w) : Totals(w)[j] \in Nat
         /\ Totals(w)[0] = 0
         /\ \A j \in 1..Len(w) : Totals(w)[j] = Totals(w)[j - 1] + w[j]
<1> DEFINE n == Len(w)
           Sum(g, j) == IF j = 0 THEN 0 ELSE g[j - 1] + w[j]
           Tells(g, k) == \A j \in 0..n : j <= k => g[j] = Sum(g, j) /\ g[j] \in Nat
           Parts == {k \in Nat : k <= n => \E g : Tells(g, k)}
<1>1. n \in Nat /\ \A j \in 1..n : w[j] \in Nat
  OBVIOUS
<1> HIDE DEF n
<1>2. 0 \in Parts
  <2> DEFINE g == [j \in 0..n |-> 0]
  <2>1. Tells(g, 0)
    BY <1>1
  <2> QED BY <2>1
<1>3. ASSUME NEW k \in Nat, k \in Parts
      PROVE  k + 1 \in Parts
  <2>1. SUFFICES ASSUME k + 1 <= n PROVE \E g : Tells(g, k + 1)
    OBVIOUS
  <2>2. PICK g : Tells(g, k)
    BY <1>1, <1>3, <2>1
  <2> DEFINE h == [j \in 0..n |-> IF j = k + 1 THEN g[k] + w[j] ELSE g[j]]
  <2>3. \A j \in 0..n : j <= k => h[j] = g[j]
    BY <1>1
  <2>4. k + 1 \in 1..n /\ k \in 0..n /\ h[k + 1] = g[k] + w[k + 1]
    BY <1>1, <2>1
  <2> HIDE DEF h
  <2>5. ASSUME NEW j \in 0..n, j <= k + 1
        PROVE  h[j] = Sum(h, j) /\ h[j] \in Nat
    <3>1. CASE j = k + 1
      <4>1. h[k] = g[k] /\ g[k] \in Nat
        BY <2>2, <2>3, <2>4
      <4> QED BY <1>1, <2>4, <3>1, <4>1
    <3>2. CASE j <= k
      <4>1. h[j] = g[j] /\ g[j] = Sum(g, j) /\ g[j] \in Nat
        BY <2>2, <2>3, <3>2
      <4>2. j # 0 => j - 1 \in 0..n /\ j - 1 <= k
        BY <1>1, <3>2
      <4>3. j # 0 => h[j - 1] = g[j - 1]
        BY <2>3, <4>2
      <4> QED BY <4>1, <4>3
    <3> QED BY <1>1, <2>5, <3>1, <3>2
  <2> QED BY <2>5
<1>4. n \in Parts
  <2> HIDE DEF Parts
  <2> QED BY <1>1, <1>2, <1>3, SetInduction
<1>5. PICK g : Tells(g, n)
  BY <1>1, <1>4
<1> DEFINE f == [j \in 0..n |-> g[j]]
           Solves(h) == h = [j \in 0..n |-> Sum(h, j)]
<1>6. ASSUME NEW j \in 0..n
      PROVE  f[j] = Sum(f, j)
  <2>1. g[j] = Sum(g, j)
    BY <1>1, <1>5
  <2>2. j # 0 => j - 1 \in 0..n
    BY <1>1
  <2> QED BY <2>1, <2>2
<1>7. Solves(f)
  <2>1. f = [j \in 0..n |-> f[j]]
    OBVIOUS
  <2> HIDE DEF f
  <2> QED BY <2>1, <1>6
<1> DEFINE s == CHOOSE h : Solves(h)
<1>8. Solves(s)
  <2> HIDE DEF Solves, f
  <2> QED BY <1>7, Zenon
<1>9. Totals(w) = s
  BY DEF Totals, n
<1> HIDE DEF s
<1>10. s[0] = 0 /\ \A j \in 1..n : s[j] = s[j - 1] + w[j]
  <2>1. \A j \in 0..n : s[j] = Sum(s, j)
    BY <1>8
  <2>2. 0 \in 0..n /\ \A j \in 1..n : j \in 0..n /\ j # 0
    BY <1>1
  <2> HIDE DEF Solves
  <2> QED BY <2>1, <2>2
<1>11. \A j \in 0..n : s[j] \in Nat
  <2> DEFINE S == {j \in Nat : j <= n => s[j] \in Nat}
  <2>1. 0 \in S
    BY <1>10
  <2>2. ASSUME NEW j \in Nat, j \in S
        PROVE  j + 1 \in S
    <3>1. SUFFICES ASSUME j + 1 <= n PROVE s[j + 1] \in Nat
      OBVIOUS
    <3>2. j + 1 \in 1..n /\ (j + 1) - 1 = j /\ s[j] \in Nat
      BY <1>1, <2>2, <3>1
    <3> HIDE DEF S
    <3> QED BY <1>1, <1>10, <3>2
  <2>3. \A j \in Nat : j \in S
    <3> HIDE DEF S
    <3> QED BY <2>1, <2>2, SetInduction
  <2> QED BY <1>1, <2>3
<1> QED BY <1>9, <1>10, <1>11 DEF n

\* A draw is of one of the weights: the first whose running sum is above the number drawn.
LEMMA PickFacts ==
  ASSUME NEW w \in Seq(Nat), w # <<>>, NEW r \in 0..SumOf(w) - 1
  PROVE  /\ Pick(w, r) \in DOMAIN w /\ r < Totals(w)[Pick(w, r)]
         /\ \A j \in DOMAIN w : r < Totals(w)[j] => Pick(w, r) <= j
<1> DEFINE n == Len(w)
           S == {j \in DOMAIN w : r < Totals(w)[j]}
<1>1. n \in Nat \ {0} /\ DOMAIN w = 1..n
  BY EmptySeq
<1>2. Totals(w)[n] \in Nat /\ SumOf(w) = Totals(w)[n]
  BY <1>1, TotalsUnrolled DEF SumOf
<1>3. n \in S /\ S \in SUBSET Nat
  BY <1>1, <1>2
<1>4. PICK x \in S : \A y \in S : x <= y
  <2> DEFINE R == OpToRel(<, Nat)
  <2>1. IsWellFoundedOn(R, Nat)
    BY NatLessThanWellFounded
  <2> HIDE DEF R, S
  <2>2. PICK x \in S : \A y \in S : ~ (<<y, x>> \in R)
    BY <1>3, <2>1, WFMin
  <2>3. ASSUME NEW y \in S
        PROVE  x <= y
    <3>1. ~ (<<y, x>> \in R) /\ x \in Nat /\ y \in Nat
      BY <1>3, <2>2
    <3> QED BY <3>1 DEF R, OpToRel
  <2> QED BY <2>3
<1>5. Pick(w, r) = Min(S)
  BY DEF Pick
<1> HIDE DEF S
<1>6. Min(S) \in S /\ \A y \in S : Min(S) <= y
  BY <1>4 DEF Min
<1> QED BY <1>5, <1>6 DEF S

\* The vendors are known by numbers, and none is a tracker, Apple or Microsoft.
LEMMA VendorFacts ==
  /\ Len(Vendors) \in Nat \ {0} /\ DOMAIN Vendors = 1..Len(Vendors)
  /\ \A j \in DOMAIN Vendors :
       /\ Vendors[j].id \in Nat \ {0} /\ Vendors[j].name \in Nat
       /\ Vendors[j].id \notin {Apple, Microsoft, Tile, FastPair}
<1> DEFINE R == [id : Nat \ {0}, name : Nat]
<1>1. Vendors \in Seq(R) /\ Vendors # <<>>
  BY VendorsAssumption
<1>2. \A v \in R : v.id \in Nat \ {0} /\ v.name \in Nat
  OBVIOUS
<1> HIDE DEF R
<1>3. \A j \in DOMAIN Vendors : Vendors[j].id \notin {Apple, Microsoft, Tile, FastPair}
  <2> SUFFICES ASSUME NEW j \in DOMAIN Vendors
               PROVE  Vendors[j].id \notin {Apple, Microsoft, Tile, FastPair}
    OBVIOUS
  <2>1. Vendors[j] \in Range(Vendors)
    BY DEF Range
  <2> QED BY <2>1, VendorsAssumption
<1>4. Len(Vendors) \in Nat \ {0} /\ DOMAIN Vendors = 1..Len(Vendors)
  BY ONLY <1>1, EmptySeq, LenProperties
<1>5. \A j \in DOMAIN Vendors : Vendors[j] \in R
  BY ONLY <1>1, <1>4, ElementOfSeq
<1> QED BY <1>2, <1>3, <1>4, <1>5

\* The last decoy minted, if any, reads as it claims to be, and is harmless.
AiredOK == aired.id = 0 \/ (ParsesAsClaimed(aired) /\ Harmless(aired))

\* The weights are those of the vendors' adverts counted, one for each vendor.
WeightsOK ==
  Learned => weights = [j \in DOMAIN Vendors |-> BaseWeight + Boost(Count(obs, Vendors[j].id))]

\* The weights are numbers, at least the floor, one for each vendor.
LEMMA WeightFacts ==
  ASSUME Learned, WeightsOK, Weights
  PROVE  /\ weights \in Seq(BaseWeight..BaseWeight + MaxBoost)
         /\ weights \in Seq(Nat) /\ Len(weights) = Len(Vendors) /\ weights # <<>>
         /\ DOMAIN weights = DOMAIN Vendors
         /\ \A j \in DOMAIN Vendors :
              weights[j] = BaseWeight + Boost(Count(obs, Vendors[j].id))
<1> DEFINE n == Len(Vendors)
           e(j) == BaseWeight + Boost(Count(obs, Vendors[j].id))
<1>1. n \in Nat \ {0} /\ DOMAIN Vendors = 1..n
  BY VendorFacts
<1>2. \A j \in 1..n : e(j) \in BaseWeight..BaseWeight + MaxBoost
  <2> SUFFICES ASSUME NEW j \in 1..n
               PROVE  e(j) \in BaseWeight..BaseWeight + MaxBoost
    OBVIOUS
  <2> DEFINE c == Count(obs, Vendors[j].id)
  <2>1. c \in Int
    BY DEF Weights, Count
  <2> HIDE DEF c
  <2>2. Boost(c) \in 0..MaxBoost
    BY <2>1, BoostFacts
  <2>3. BaseWeight + Boost(c) \in BaseWeight..BaseWeight + MaxBoost
    BY <2>2 DEF BaseWeight, MaxBoost
  <2> QED BY <2>3 DEF c
<1>3. weights = [j \in 1..n |-> e(j)]
  BY <1>1 DEF WeightsOK
<1> HIDE DEF n, e
<1>4. /\ weights \in Seq(BaseWeight..BaseWeight + MaxBoost) /\ Len(weights) = n
      /\ DOMAIN weights = 1..n /\ \A j \in 1..n : weights[j] = e(j)
  BY <1>1, <1>2, <1>3
<1>5. weights \in Seq(Nat)
  <2>1. BaseWeight..BaseWeight + MaxBoost \subseteq Nat
    BY DEF BaseWeight, MaxBoost
  <2> QED BY ONLY <1>4, <2>1, SeqMonotonic
<1>6. weights # <<>>
  BY <1>1, <1>4
<1> QED BY <1>1, <1>4, <1>5, <1>6 DEF e, n

\* A decoy minted reads as what it claims to be, and is harmless.
LEMMA MintStep ==
  ASSUME WeightsOK, Weights, Mint
  PROVE  AiredOK'
<1>1. /\ pc = "mint"
      /\ aired' \in BuildApple
           \cup (UNION {BuildFor(Vendors[j]) : j \in Drawn(weights)})
           \cup (UNION {IF j = 1 THEN BuildTile ELSE BuildFastPair :
                          j \in Drawn(trackerWeights)})
  BY DEF Mint
<1>2. CASE aired' \in BuildApple
  BY <1>2, AppleDecoy DEF AiredOK, ParsesAsClaimed, Harmless
<1>3. CASE aired' \in UNION {BuildFor(Vendors[j]) : j \in Drawn(weights)}
  <2>1. PICK j \in Drawn(weights) : aired' \in BuildFor(Vendors[j])
    BY <1>3
  <2>2. PICK r \in 0..SumOf(weights) - 1 : j = Pick(weights, r)
    BY <2>1 DEF Drawn
  <2>3. weights \in Seq(Nat) /\ weights # <<>> /\ DOMAIN weights = DOMAIN Vendors
    BY <1>1, WeightFacts DEF Learned
  <2>4. j \in DOMAIN Vendors
    BY <2>2, <2>3, PickFacts
  <2>5. /\ Vendors[j].id \in Nat /\ Vendors[j].name \in Nat
        /\ Vendors[j].id \notin {Apple, Microsoft, Tile, FastPair}
    BY <2>4, VendorFacts
  <2> QED BY <2>1, <2>5, VendorDecoy DEF AiredOK, ParsesAsClaimed, Harmless
<1>4. CASE aired' \in
             UNION {IF j = 1 THEN BuildTile ELSE BuildFastPair : j \in Drawn(trackerWeights)}
  <2>1. aired' \in BuildTile \/ aired' \in BuildFastPair
    BY <1>4
  <2> QED BY <2>1, TileDecoy, FastPairDecoy DEF AiredOK, ParsesAsClaimed, Harmless
<1> QED BY <1>1, <1>2, <1>3, <1>4
-----------------------------------------------------------------------------
(* Who is drawn, and how often.                                            *)

\* The running sums only grow.
LEMMA TotalsGrow ==
  ASSUME NEW w \in Seq(Nat)
  PROVE  \A j, k \in 0..Len(w) : j <= k => Totals(w)[j] <= Totals(w)[k]
<1> DEFINE n == Len(w)
           T == Totals(w)
           S == {k \in Nat : k <= n => \A j \in 0..k : T[j] <= T[k]}
<1>1. /\ n \in Nat /\ \A j \in 1..n : w[j] \in Nat
      /\ \A j \in 0..n : T[j] \in Nat
      /\ \A j \in 1..n : T[j] = T[j - 1] + w[j]
  BY TotalsUnrolled
<1> HIDE DEF n, T
<1>2. 0 \in S
  BY <1>1
<1>3. ASSUME NEW k \in Nat, k \in S
      PROVE  k + 1 \in S
  <2> SUFFICES ASSUME k + 1 <= n, NEW j \in 0..k + 1
               PROVE  T[j] <= T[k + 1]
    OBVIOUS
  <2>1. k \in 0..n /\ k + 1 \in 1..n /\ k + 1 \in 0..n /\ (k + 1) - 1 = k
    BY <1>1
  <2>2. T[k] \in Nat /\ w[k + 1] \in Nat /\ T[k + 1] = T[k] + w[k + 1]
    BY <1>1, <2>1
  <2>3. CASE j = k + 1
    BY <2>2, <2>3
  <2>4. CASE j \in 0..k
    <3>1. T[j] <= T[k] /\ T[j] \in Nat
      BY <1>1, <1>3, <2>1, <2>4
    <3> QED BY <2>2, <3>1
  <2> QED BY <2>3, <2>4
<1>4. \A k \in Nat : k \in S
  <2> HIDE DEF S
  <2> QED BY <1>2, <1>3, SetInduction
<1> QED BY <1>1, <1>4 DEF n, T

\* An index is drawn by the numbers between two running sums.
LEMMA Slices ==
  ASSUME NEW w \in Seq(Nat), w # <<>>, NEW r \in 0..SumOf(w) - 1, NEW j \in 1..Len(w)
  PROVE  Pick(w, r) = j <=> Totals(w)[j - 1] <= r /\ r < Totals(w)[j]
<1> DEFINE n == Len(w)
           T == Totals(w)
           p == Pick(w, r)
<1>1. n \in Nat \ {0} /\ DOMAIN w = 1..n
  BY EmptySeq
<1>2. /\ \A k \in 0..n : T[k] \in Nat
      /\ T[0] = 0 /\ SumOf(w) = T[n]
  BY TotalsUnrolled DEF SumOf
<1>3. \A l, k \in 0..n : l <= k => T[l] <= T[k]
  BY TotalsGrow
<1>4. p \in 1..n /\ r < T[p] /\ \A k \in 1..n : r < T[k] => p <= k
  BY <1>1, PickFacts
<1> HIDE DEF n, T, p
<1>5. r \in Nat
  BY <1>1, <1>2
<1>6. j \in 1..n /\ j \in 0..n /\ j - 1 \in 0..n /\ p \in 0..n
  BY <1>1, <1>4 DEF n
<1>7. T[j] \in Nat /\ T[j - 1] \in Nat /\ T[p] \in Nat
  BY <1>2, <1>6
<1>8. ASSUME p = j
      PROVE  T[j - 1] <= r /\ r < T[j]
  <2>1. r < T[j]
    BY <1>4, <1>8
  <2>2. ASSUME r < T[j - 1] PROVE FALSE
    <3>1. j - 1 # 0
      BY <1>2, <1>5, <2>2
    <3>2. j - 1 \in 1..n
      BY <1>1, <1>6, <3>1
    <3>3. p <= j - 1
      BY <1>4, <2>2, <3>2
    <3> QED BY <1>6, <1>8, <3>3
  <2> QED BY <1>5, <1>7, <2>1, <2>2
<1>9. ASSUME T[j - 1] <= r, r < T[j]
      PROVE  p = j
  <2>1. p <= j
    BY <1>4, <1>6, <1>9
  <2>2. ASSUME p <= j - 1 PROVE FALSE
    <3>1. T[p] <= T[j - 1]
      BY <1>3, <1>6, <2>2
    <3> QED BY <1>4, <1>5, <1>7, <1>9, <3>1
  <2> QED BY <1>4, <1>6, <2>1, <2>2
<1> QED BY <1>8, <1>9 DEF p, T

\* The numbers that draw one of the indices V.
Draws(w, V) == {r \in 0..SumOf(w) - 1 : Pick(w, r) \in V}

\* What draws one of two sets of indices draws one of the first or of the second.
LEMMA DrawsApart ==
  ASSUME NEW w, NEW A, NEW B
  PROVE  /\ Draws(w, A \cup B) = Draws(w, A) \cup Draws(w, B)
         /\ A \cap B = {} => Draws(w, A) \cap Draws(w, B) = {}
<1> DEFINE N    == 0..SumOf(w) - 1
           p(r) == Pick(w, r)
<1>1. \A V : Draws(w, V) = {r \in N : p(r) \in V}
  BY DEF Draws
<1> HIDE DEF N, p
<1> QED BY <1>1

\* An index is drawn by as many numbers as it has weight.
LEMMA DrawsOfOne ==
  ASSUME NEW w \in Seq(Nat), w # <<>>, NEW j \in 1..Len(w)
  PROVE  /\ Draws(w, {j}) = Totals(w)[j - 1]..Totals(w)[j] - 1
         /\ IsFiniteSet(Draws(w, {j})) /\ Cardinality(Draws(w, {j})) = w[j]
<1> DEFINE n == Len(w)
           T == Totals(w)
           a == T[j - 1]
           b == T[j] - 1
<1>1. n \in Nat /\ j \in 0..n /\ j - 1 \in 0..n /\ n \in 0..n /\ j <= n /\ w[j] \in Nat
  OBVIOUS
<1>2. /\ T[j - 1] \in Nat /\ T[j] \in Nat /\ T[n] \in Nat
      /\ T[j] = T[j - 1] + w[j] /\ SumOf(w) = T[n]
  BY <1>1, TotalsUnrolled DEF SumOf
<1>3. T[j] <= T[n]
  BY <1>1, TotalsGrow
<1>4. \A r \in 0..SumOf(w) - 1 : Pick(w, r) = j <=> T[j - 1] <= r /\ r < T[j]
  BY Slices
<1> HIDE DEF T, n
<1>5. \A r : r \in Draws(w, {j}) <=> r \in a..b
  <2> SUFFICES ASSUME NEW r PROVE r \in Draws(w, {j}) <=> r \in a..b
    OBVIOUS
  <2>1. ASSUME r \in Draws(w, {j}) PROVE r \in a..b
    <3>1. r \in 0..SumOf(w) - 1 /\ Pick(w, r) = j
      BY <2>1 DEF Draws
    <3>2. r \in Int /\ T[j - 1] <= r /\ r < T[j]
      BY <1>2, <1>4, <3>1
    <3> QED BY <1>2, <3>2
  <2>2. ASSUME r \in a..b PROVE r \in Draws(w, {j})
    <3>1. r \in 0..SumOf(w) - 1 /\ T[j - 1] <= r /\ r < T[j]
      BY <1>2, <1>3, <2>2, SMTT(30)
    <3>2. Pick(w, r) = j
      BY <1>4, <3>1
    <3> QED BY <3>1, <3>2 DEF Draws
  <2> QED BY <2>1, <2>2
<1>6. Draws(w, {j}) = a..b
  BY <1>5
<1>7. a \in Int /\ b \in Int /\ b - a + 1 = w[j] /\ (a > b => w[j] = 0)
  BY <1>1, <1>2
<1> HIDE DEF a, b
<1>8. IsFiniteSet(a..b) /\ Cardinality(a..b) = w[j]
  BY ONLY <1>7, FS_Interval
<1> QED BY <1>6, <1>8 DEF a, b, T

\* Indices of one weight, all others weighing 2 or more: how many numbers draw one of
\* them, and how many numbers there are.
LEMMA DrawsOfMany ==
  ASSUME NEW w \in Seq(Nat), w # <<>>, NEW V \in SUBSET (1..Len(w)), NEW a \in Nat,
         \A j \in 1..Len(w) : w[j] >= 2, \A j \in V : w[j] = a
  PROVE  /\ IsFiniteSet(V) /\ Cardinality(V) \in 0..Len(w)
         /\ Cardinality(Draws(w, V)) = a * Cardinality(V)
         /\ SumOf(w) >= a * Cardinality(V) + 2 * (Len(w) - Cardinality(V))
<1> DEFINE n == Len(w)
           T == Totals(w)
           In(m) == V \cap 1..m
           D(m) == Draws(w, In(m))
           c(m) == Cardinality(In(m))
           S == {m \in Nat : m <= n => /\ IsFiniteSet(In(m)) /\ c(m) \in 0..m
                                       /\ IsFiniteSet(D(m)) /\ Cardinality(D(m)) = a * c(m)
                                       /\ T[m] >= a * c(m) + 2 * (m - c(m))}
<1>1. /\ n \in Nat /\ \A j \in 1..n : w[j] \in Nat
      /\ \A j \in 0..n : T[j] \in Nat
      /\ T[0] = 0 /\ \A j \in 1..n : T[j] = T[j - 1] + w[j]
  BY TotalsUnrolled
<1> HIDE DEF T
<1>2. 0 \in S
  <2>1. In(0) = {} /\ D(0) = {}
    BY DEF Draws
  <2>2. IsFiniteSet({}) /\ Cardinality({}) = 0
    BY FS_EmptySet
  <2>3. IsFiniteSet(In(0)) /\ c(0) = 0 /\ IsFiniteSet(D(0)) /\ Cardinality(D(0)) = 0
    BY <2>1, <2>2
  <2> HIDE DEF In, c, D
  <2>4. a * c(0) = 0 /\ T[0] = 0 /\ c(0) \in 0..0 /\ a * c(0) + 2 * (0 - c(0)) = 0
    BY <1>1, <2>3
  <2> QED BY <2>3, <2>4
<1>3. ASSUME NEW m \in Nat, m \in S
      PROVE  m + 1 \in S
  <2>1. SUFFICES ASSUME m + 1 <= n
                 PROVE  /\ IsFiniteSet(In(m + 1)) /\ c(m + 1) \in 0..m + 1
                        /\ IsFiniteSet(D(m + 1)) /\ Cardinality(D(m + 1)) = a * c(m + 1)
                        /\ T[m + 1] >= a * c(m + 1) + 2 * (m + 1 - c(m + 1))
    OBVIOUS
  <2> DEFINE q == m + 1
             E == Draws(w, {q})
  <2>2. /\ IsFiniteSet(In(m)) /\ c(m) \in 0..m
        /\ IsFiniteSet(D(m)) /\ Cardinality(D(m)) = a * c(m)
        /\ T[m] >= a * c(m) + 2 * (m - c(m))
    BY <1>1, <1>3, <2>1
  <2>3. /\ q \in 1..n /\ q - 1 = m /\ T[m] \in Nat /\ T[q] \in Nat
        /\ w[q] \in Nat /\ w[q] >= 2 /\ T[q] = T[m] + w[q] /\ q \notin In(m)
    BY <1>1, <2>1
  <2>4. IsFiniteSet(E) /\ Cardinality(E) = w[q]
    BY <2>3, DrawsOfOne
  <2>5. CASE q \in V
    <3>1. In(q) = In(m) \cup {q} /\ D(q) = D(m) \cup E /\ D(m) \cap E = {}
      <4>1. In(q) = In(m) \cup {q} /\ In(m) \cap {q} = {}
        BY <2>3, <2>5
      <4> DEFINE P == In(m)
      <4> HIDE DEF P
      <4>2. /\ Draws(w, P \cup {q}) = Draws(w, P) \cup Draws(w, {q})
            /\ P \cap {q} = {} => Draws(w, P) \cap Draws(w, {q}) = {}
        BY ONLY DrawsApart, Zenon
      <4> HIDE DEF In
      <4> QED BY <4>1, <4>2 DEF P
    <3>2. w[q] = a
      BY <2>5
    <3> HIDE DEF In, D, E, q
    <3>3. IsFiniteSet(In(q)) /\ c(q) = c(m) + 1
      <4> DEFINE P == In(m)
      <4>1. IsFiniteSet(P) /\ q \notin P
        BY <2>2, <2>3
      <4> HIDE DEF P
      <4>2. IsFiniteSet(P \cup {q}) /\ Cardinality(P \cup {q}) = Cardinality(P) + 1
        BY ONLY <4>1, FS_AddElement
      <4> QED BY <3>1, <4>2 DEF P
    <3>4. IsFiniteSet({}) /\ Cardinality({}) = 0
      BY FS_EmptySet
    <3>5. IsFiniteSet(D(q)) /\ Cardinality(D(q)) = a * c(m) + a - 0
      <4> DEFINE P == D(m)
      <4>1. IsFiniteSet(P) /\ IsFiniteSet(E)
        BY <2>2, <2>4
      <4> HIDE DEF P
      <4>2. /\ IsFiniteSet(P \cup E)
            /\ Cardinality(P \cup E) = Cardinality(P) + Cardinality(E) - Cardinality(P \cap E)
        BY ONLY <4>1, FS_Union
      <4>3. Cardinality(P) = a * c(m) /\ Cardinality(E) = a /\ Cardinality(P \cap E) = 0
        BY <2>2, <2>4, <3>1, <3>2, <3>4 DEF P
      <4> QED BY <3>1, <4>2, <4>3 DEF P
    <3> DEFINE x == c(m)
    <3>6. /\ x \in 0..m /\ T[m] \in Nat /\ T[m] >= a * x + 2 * (m - x)
          /\ c(q) = x + 1 /\ T[q] = T[m] + a /\ Cardinality(D(q)) = a * x + a - 0
      BY <2>2, <2>3, <3>2, <3>3, <3>5
    <3> HIDE DEF x, c
    <3>7. a * (x + 1) = a * x + a /\ a * x \in Nat
      BY ONLY <3>6, a \in Nat, m \in Nat
    <3>8. /\ c(q) \in 0..m + 1 /\ Cardinality(D(q)) = a * c(q)
          /\ T[q] >= a * c(q) + 2 * (m + 1 - c(q))
      BY ONLY <3>6, <3>7, a \in Nat, m \in Nat
    <3> QED BY <3>3, <3>5, <3>8 DEF q
  <2>6. CASE q \notin V
    <3>1. In(q) = In(m)
      BY <2>3, <2>6
    <3> DEFINE x == c(m)
    <3>2. /\ x \in 0..m /\ T[m] \in Nat /\ T[m] >= a * x + 2 * (m - x)
          /\ T[q] = T[m] + w[q] /\ w[q] \in Nat /\ w[q] >= 2
      BY <2>2, <2>3
    <3>3. a * x \in Nat
      BY <3>2
    <3> HIDE DEF x
    <3>4. x \in 0..m + 1 /\ T[q] >= a * x + 2 * (m + 1 - x)
      BY ONLY <3>2, <3>3, m \in Nat
    <3> QED BY <2>2, <3>1, <3>4 DEF x
  <2> QED BY <2>5, <2>6
<1>4. \A m \in Nat : m \in S
  <2> HIDE DEF S
  <2> QED BY <1>2, <1>3, SetInduction
<1>5. /\ IsFiniteSet(In(n)) /\ c(n) \in 0..n /\ Cardinality(D(n)) = a * c(n)
      /\ T[n] >= a * c(n) + 2 * (n - c(n))
  BY <1>1, <1>4
<1>6. In(n) = V
  OBVIOUS
<1> QED BY <1>5, <1>6 DEF SumOf, T

\* The bound on a company's share: k entries of n, of weight a, in T numbers.
LEMMA Share ==
  ASSUME NEW n \in Nat, NEW k \in 0..n, NEW a \in 2..10, NEW T \in Nat,
         T >= a * k + 2 * (n - k)
  PROVE  (a * k) * (2 * n + 8 * k) <= 10 * k * T
<1> DEFINE d == n - k
           x == a * k
           y == a * d
<1>1. d \in Nat /\ n = d + k /\ k \in Nat /\ a \in Nat /\ a <= 10
  OBVIOUS
<1>2. x \in Nat /\ y \in Nat /\ y <= 10 * d
  BY ONLY <1>1
<1>3. a * (2 * n + 8 * k) = 2 * y + 10 * x
  BY ONLY <1>1
<1>4. T >= x + 2 * d
  BY DEF d, x
<1> HIDE DEF d, x, y
<1>5. 2 * y + 10 * x <= 10 * T
  BY ONLY <1>1, <1>2, <1>4, T \in Nat
<1> DEFINE X == 2 * y + 10 * x
           Y == 10 * T
<1>6. X \in Nat /\ Y \in Nat /\ X <= Y
  BY <1>2, <1>5
<1>7. (a * k) * (2 * n + 8 * k) = k * (a * (2 * n + 8 * k))
  BY ONLY <1>1
<1>8. 10 * k * T = k * Y
  BY ONLY <1>1, T \in Nat
<1> HIDE DEF X, Y
<1>9. k * X <= k * Y
  BY ONLY <1>1, <1>6
<1> QED BY <1>3, <1>7, <1>8, <1>9 DEF X

\* The learned weights leave every vendor its floor and cap every company's share.
LEMMA WeightsDiverse ==
  ASSUME Learned, WeightsOK, Weights
  PROVE  CrowdDiverse
<1> DEFINE n == Len(Vendors)
           w == weights
           T == SumOf(w)
<1>1. n \in Nat \ {0} /\ DOMAIN Vendors = 1..n
  BY VendorFacts
<1>2. /\ w \in Seq(Nat) /\ Len(w) = n /\ w # <<>>
      /\ \A j \in 1..n : w[j] = BaseWeight + Boost(Count(obs, Vendors[j].id))
  BY <1>1, WeightFacts
<1>3. \A j \in 1..n : w[j] \in 2..10
  <2>1. w \in Seq(BaseWeight..BaseWeight + MaxBoost) /\ Len(w) = n
    BY WeightFacts
  <2>2. w \in Seq(2..10)
    BY <2>1 DEF BaseWeight, MaxBoost
  <2> HIDE DEF w, n
  <2> QED BY ONLY <1>1, <2>1, <2>2, ElementOfSeq
<1> HIDE DEF n, w
<1>4. T \in Nat /\ IsFiniteSet(0..T - 1) /\ Cardinality(0..T - 1) = T
  <2>1. n \in 0..n /\ SumOf(w) = Totals(w)[n]
    BY <1>1, <1>2 DEF SumOf
  <2>2. T \in Nat
    BY <1>2, <2>1, TotalsUnrolled
  <2> HIDE DEF T
  <2>3. 0 \in Int /\ T - 1 \in Int /\ (0 > T - 1 => T = 0) /\ (T - 1) - 0 + 1 = T
    BY ONLY <2>2
  <2>4. /\ IsFiniteSet(0..T - 1)
        /\ Cardinality(0..T - 1) = IF 0 > T - 1 THEN 0 ELSE (T - 1) - 0 + 1
    BY ONLY <2>3, FS_Interval
  <2> QED BY <2>2, <2>3, <2>4
<1>5. ASSUME NEW j \in DOMAIN Vendors
      PROVE  Cardinality(Draws(w, {j})) >= BaseWeight
  <2>1. j \in 1..Len(w) /\ w[j] >= 2
    BY <1>1, <1>2, <1>3
  <2> QED BY <1>2, <2>1, DrawsOfOne DEF BaseWeight
<1>6. ASSUME NEW c \in Companies
      PROVE  LET mine == {j \in DOMAIN Vendors : Vendors[j].id = c}
                 k    == Cardinality(mine)
             IN  Cardinality(Draws(w, mine)) * (2 * n + 8 * k) <= 10 * k * T
  <2> DEFINE mine == {j \in DOMAIN Vendors : Vendors[j].id = c}
             k    == Cardinality(mine)
             a    == BaseWeight + Boost(Count(obs, c))
  <2>1. PICK l \in DOMAIN Vendors : Vendors[l].id = c
    BY DEF Companies, Range
  <2>2. \A j \in mine : w[j] = a
    BY <1>1, <1>2
  <2>3. mine \in SUBSET (1..n) /\ a = w[l]
    BY <1>1, <1>2, <2>1
  <2> HIDE DEF mine, a
  <2>4. a \in 2..10 /\ \A j \in 1..n : w[j] >= 2
    BY <1>1, <1>3, <2>1, <2>3
  <2>5. a \in Nat
    BY <2>4
  <2>6. /\ k \in 0..n /\ Cardinality(Draws(w, mine)) = a * k
        /\ T >= a * k + 2 * (n - k)
    BY ONLY <1>2, <2>2, <2>3, <2>4, <2>5, DrawsOfMany
  <2> HIDE DEF k, T
  <2>7. (a * k) * (2 * n + 8 * k) <= 10 * k * T
    BY ONLY <1>1, <1>4, <2>4, <2>6, Share
  <2> QED BY <2>6, <2>7 DEF mine, k
<1>7. ASSUME NEW c \in Companies
      PROVE  LET mine == {j \in DOMAIN Vendors : Vendors[j].id = c}
                 k    == Cardinality(mine)
             IN  Cardinality(Draws(w, mine)) * (BaseWeight * n + MaxBoost * k)
                 <= (BaseWeight + MaxBoost) * k * Cardinality(0..T - 1)
  <2>1. BaseWeight = 2 /\ MaxBoost = 8 /\ BaseWeight + MaxBoost = 10
    BY DEF BaseWeight, MaxBoost
  <2> HIDE DEF T
  <2> QED BY <1>4, <1>6, <2>1
<1> QED BY <1>5, <1>7 DEF CrowdDiverse, Draws, n, w
-----------------------------------------------------------------------------
(* The theorems.                                                           *)

Sums == pc = "mint" => ClosestOf(reports, devices) /\ AllRemembered(reports, devices)

IInv == ReportsOK /\ Table /\ Weights /\ WeightsOK /\ Sums /\ SummaryHonest /\ AiredOK

\* The invariant holds at the start, and every step keeps it.
LEMMA Invariant == Spec => []IInv
<1>1. Init => IInv
  <2> SUFFICES ASSUME Init PROVE IInv
    OBVIOUS
  <2>0. reports = <<>> /\ pc = "hear" /\ i = 1 /\ byMAC = Empty
    BY DEF Init
  <2>1. ReportsOK /\ Table
    BY <2>0 DEF ReportsOK, Table
  <2>2. Weights
    BY DEF Init, Weights, Empty
  <2>3. Sums /\ SummaryHonest /\ WeightsOK
    BY DEF Init, Sums, SummaryHonest, WeightsOK, Learned
  <2>4. AiredOK
    BY DEF Init, AiredOK
  <2> QED BY <2>1, <2>2, <2>3, <2>4 DEF IInv
<1>2. ASSUME IInv, [Next]_vars
      PROVE  IInv'
  <2> USE <1>2 DEF IInv
  <2>1. CASE Hear
    <3>1. /\ pc = "hear" /\ \E r \in Report : reports' = Append(reports, r)
          /\ UNCHANGED <<pc, i, obs, trackersN, byMAC, aired>>
      BY <2>1 DEF Hear
    <3>2. reports' \in Seq(Report)
      BY <3>1 DEF ReportsOK
    <3> QED BY <3>1, <3>2
             DEF ReportsOK, Table, Weights, WeightsOK, Sums, SummaryHonest, Learned, AiredOK
  <2>2. CASE Heard
    <3>1. /\ pc = "hear" /\ pc' = "weigh" /\ i' = 1
          /\ UNCHANGED <<reports, obs, trackersN, byMAC, aired>>
      BY <2>2 DEF Heard
    <3> QED BY <3>1
             DEF ReportsOK, Table, Weights, WeightsOK, Sums, SummaryHonest, Learned, AiredOK
  <2>3. CASE Weigh
    <3>1. /\ pc = "weigh" /\ pc' = pc /\ i' = i + 1 /\ i' \in Nat \ {0}
          /\ UNCHANGED <<reports, byMAC, aired>>
      BY <2>3 DEF Weigh, Table
    <3>2. Weights'
      BY <2>3, WeighStep DEF Table
    <3> QED BY <3>1, <3>2
             DEF ReportsOK, Table, WeightsOK, Sums, SummaryHonest, Learned, AiredOK
  <2>4. CASE Weighed
    <3>1. /\ pc = "weigh" /\ pc' = "build" /\ i' = 1
          /\ UNCHANGED <<reports, obs, trackersN, byMAC, aired>>
          /\ weights' = [j \in DOMAIN Vendors |->
                            BaseWeight + Boost(Count(obs, Vendors[j].id))]
      BY <2>4 DEF Weighed
    <3>2. SummaryHonest'
      BY <2>4, WeighedStep
    <3>3. DOMAIN byMAC' = {} /\ 1..i' - 1 = {}
      BY <3>1 DEF Table, Empty
    <3>4. IsFiniteSet(DOMAIN byMAC') /\ i' \in 1..Len(reports') + 1
      BY <3>1, <3>3, FS_EmptySet, ReportFacts
    <3>5. DOMAIN byMAC' = {reports'[j].mac : j \in 1..i' - 1}
      BY <3>3
    <3>6. Table'
      BY <3>1, <3>3, <3>4, <3>5 DEF Table, Rows
    <3>7. WeightsOK'
      BY <3>1 DEF WeightsOK
    <3> QED BY <3>1, <3>2, <3>6, <3>7 DEF ReportsOK, Weights, Sums, AiredOK
  <2>5. CASE Build
    <3>1. /\ pc = "build" /\ pc' = pc
          /\ UNCHANGED <<reports, obs, trackersN, weights, trackerWeights, summary, aired>>
      BY <2>5 DEF Build
    <3>2. Table'
      BY <2>5, BuildStep
    <3> QED BY <3>1, <3>2
             DEF ReportsOK, Weights, WeightsOK, Sums, SummaryHonest, Learned, AiredOK
  <2>6. CASE Built
    <3>1. /\ pc = "build" /\ pc' = "mint" /\ UNCHANGED i
          /\ UNCHANGED <<reports, obs, trackersN, weights, trackerWeights, summary, aired>>
      BY <2>6 DEF Built
    <3>2. ClosestOf(reports, devices') /\ AllRemembered(reports, devices')
      BY <2>6, BuiltStep
    <3> QED BY <3>1, <3>2
             DEF ReportsOK, Table, Weights, WeightsOK, Sums, SummaryHonest, Learned, AiredOK
  <2>7. CASE Mint \/ UNCHANGED vars
    <3>1. UNCHANGED <<pc, i, reports, obs, trackersN, weights, trackerWeights, summary, byMAC,
                      devices>>
      BY <2>7 DEF Mint, vars
    <3>2. AiredOK'
      BY <2>7, MintStep DEF AiredOK, vars
    <3> QED BY <3>1, <3>2
             DEF ReportsOK, Table, Rows, Weights, WeightsOK, Sums, SummaryHonest, Learned
  <2> QED BY <2>1, <2>2, <2>3, <2>4, <2>5, <2>6, <2>7 DEF Next
<1> QED BY <1>1, <1>2, PTL DEF Spec

\* The cases of the summary, and the weights of the trackers.
Summaries == {"", "mix", "none impersonable", "none seen"}

OfTrackers(n) == <<BaseWeight + Boost(n.tile), BaseWeight + Boost(n.fastPair)>>

\* The weights are made when the scan is weighed.
Weighted ==
  IF Learned THEN trackerWeights = OfTrackers(trackersN)
             ELSE weights = <<>> /\ trackerWeights = <<>>

\* What of the types does not follow from the rest of the invariant.
Typed ==
  /\ pc \in {"hear", "weigh", "build", "mint"}
  /\ Len(reports) <= MaxReports /\ i <= MaxReports + 1
  /\ DOMAIN obs \subseteq CompanyID
  /\ Weighted
  /\ summary \in Summaries
  /\ DOMAIN byMAC \subseteq MACs

\* A report counted is of a company of two bytes.
LEMMA WeighTyped ==
  ASSUME ReportsOK, Typed, Weigh, i \in Nat \ {0}
  PROVE  DOMAIN obs' \subseteq CompanyID
<1> DEFINE B    == 0..255
           data == reports[i].data
           c    == ParseAdvData(data).company
           n    == reports[i].count
<1>1. i \in 1..Len(reports)
  BY ReportFacts DEF Weigh
<1>2. data \in Seq(B)
  <2>1. reports[i] \in Report
    BY ONLY ReportsOK, <1>1, ElementOfSeq DEF ReportsOK
  <2>2. data \in Ambient
    BY <2>1 DEF Report
  <2> QED BY <2>2, BoundsAssumption
<1>3. B \in SUBSET Nat /\ \A x \in B : x <= 255
  OBVIOUS
<1>4. \/ obs' = obs
      \/ obs' = Put(obs, c, Count(obs, c) + n)
  BY Zenon DEF Weigh
<1> HIDE DEF B, data
<1>5. c \in CompanyID
  <2>1. c \in Nat /\ c <= 65535
    BY ONLY <1>2, <1>3, CompanyTyped DEF c
  <2> HIDE DEF c
  <2> QED BY ONLY <2>1 DEF CompanyID
<1> DEFINE v == Count(obs, c) + n
<1> HIDE DEF c, n, v
<1>6. DOMAIN obs' \subseteq {c} \cup DOMAIN obs
  <2>1. DOMAIN Put(obs, c, v) = {c} \cup DOMAIN obs
    BY PutFacts
  <2>2. obs' = obs \/ obs' = Put(obs, c, v)
    BY <1>4, Zenon DEF v
  <2> QED BY <2>1, <2>2
<1> QED BY <1>5, <1>6 DEF Typed

\* Every step keeps the types.
LEMMA TypedStep ==
  ASSUME IInv, Typed, [Next]_vars
  PROVE  Typed'
<1>0. ReportsOK /\ i \in Nat \ {0}
  BY DEF IInv, Table
<1>1. /\ MaxReports \in Nat /\ Len(reports) \in Nat /\ i \in Nat \ {0}
      /\ reports \in Seq(Report)
  BY <1>0, BoundsAssumption, ReportFacts DEF ReportsOK
<1>2. CASE Hear
  <2>1. /\ pc = "hear" /\ Len(reports) < MaxReports
        /\ \E r \in Report : reports' = Append(reports, r)
        /\ UNCHANGED <<pc, i, obs, trackersN, weights, trackerWeights, summary, byMAC>>
    BY <1>2 DEF Hear
  <2>2. Len(reports') = Len(reports) + 1
    BY ONLY <1>1, <2>1, AppendProperties
  <2>3. Weighted'
    BY <2>1 DEF Typed, Weighted, Learned
  <2> QED BY <1>1, <2>1, <2>2, <2>3 DEF Typed
<1>3. CASE Heard
  <2>1. /\ pc = "hear" /\ pc' = "weigh" /\ i' = 1
        /\ UNCHANGED <<reports, obs, trackersN, weights, trackerWeights, summary, byMAC>>
    BY <1>3 DEF Heard
  <2>2. Weighted'
    BY <2>1 DEF Typed, Weighted, Learned
  <2> QED BY <1>1, <2>1, <2>2 DEF Typed
<1>4. CASE Weigh
  <2>1. /\ pc = "weigh" /\ pc' = pc /\ i <= Len(reports) /\ i' = i + 1
        /\ UNCHANGED <<reports, weights, trackerWeights, summary, byMAC>>
    BY <1>4 DEF Weigh
  <2>2. DOMAIN obs' \subseteq CompanyID
    BY <1>0, <1>4, WeighTyped
  <2>3. i' <= MaxReports + 1
    BY <1>1, <2>1 DEF Typed
  <2>4. Weighted'
    BY <2>1 DEF Typed, Weighted, Learned
  <2> QED BY <2>1, <2>2, <2>3, <2>4 DEF Typed
<1>5. CASE Weighed
  <2>1. /\ pc' = "build" /\ i' = 1 /\ summary' = Summary
        /\ trackerWeights' = OfTrackers(trackersN)
        /\ UNCHANGED <<reports, obs, trackersN, byMAC>>
    BY <1>5 DEF Weighed, OfTrackers
  <2>2. Summary \in Summaries
    BY Zenon DEF Summary, Summaries
  <2>3. Weighted'
    BY <2>1 DEF Weighted, Learned
  <2> QED BY <1>1, <2>1, <2>2, <2>3 DEF Typed
<1>6. CASE Build
  <2> DEFINE r == reports[i]
             m == r.mac
             row == IF m \in DOMAIN byMAC THEN Merged(byMAC[m], Row(r)) ELSE Row(r)
  <2>1. /\ pc = "build" /\ pc' = pc /\ i <= Len(reports) /\ i' = i + 1
        /\ DOMAIN byMAC' = {m} \cup DOMAIN byMAC
        /\ UNCHANGED <<reports, obs, trackersN, weights, trackerWeights, summary>>
    <3>1. Row(r).mac = m
      BY DEF Row
    <3>2. byMAC' = Put(byMAC, m, row)
      BY <1>6, <3>1 DEF Build
    <3> HIDE DEF row, m
    <3> QED BY <1>6, <3>2, PutFacts DEF Build
  <2>2. m \in MACs
    <3>1. i \in 1..Len(reports)
      BY <1>1, <2>1
    <3>2. reports[i] \in Report
      BY ONLY <1>1, <3>1, ElementOfSeq
    <3> QED BY <3>2 DEF Report
  <2>3. i' <= MaxReports + 1
    BY <1>1, <2>1 DEF Typed
  <2>4. Weighted'
    BY <2>1 DEF Typed, Weighted, Learned
  <2> QED BY <2>1, <2>2, <2>3, <2>4 DEF Typed
<1>7. CASE Built
  <2>1. /\ pc = "build" /\ pc' = "mint" /\ UNCHANGED <<i, byMAC>>
        /\ UNCHANGED <<reports, obs, trackersN, weights, trackerWeights, summary>>
    BY <1>7 DEF Built
  <2>2. Weighted'
    BY <2>1 DEF Typed, Weighted, Learned
  <2> QED BY <2>1, <2>2 DEF Typed
<1>8. CASE Mint \/ UNCHANGED vars
  <2>1. UNCHANGED <<pc, i, reports, obs, trackersN, weights, trackerWeights, summary, byMAC>>
    BY <1>8 DEF Mint, vars
  <2>2. Weighted'
    BY <2>1 DEF Typed, Weighted, Learned
  <2> QED BY <2>1, <2>2 DEF Typed
<1> QED BY <1>2, <1>3, <1>4, <1>5, <1>6, <1>7, <1>8 DEF Next

\* The variables have their types, for any air: a company is a 16-bit number because the
\* parser takes it from two bytes, and every weight is between its floor and its cap.
THEOREM TypeCorrect == Spec => []TypeOK
<1>1. Init => Typed
  <2> SUFFICES ASSUME Init PROVE Typed
    OBVIOUS
  <2>1. /\ pc = "hear" /\ reports = <<>> /\ i = 1 /\ weights = <<>> /\ trackerWeights = <<>>
        /\ obs = Empty /\ byMAC = Empty /\ summary = ""
    BY Zenon DEF Init
  <2>2. summary \in Summaries
    BY <2>1, Zenon DEF Summaries
  <2>3. pc = "hear" /\ Weighted
    BY ONLY <2>1, Zenon DEF Weighted, Learned
  <2>4. /\ reports = <<>> /\ i = 1 /\ obs = Empty /\ byMAC = Empty
    BY <2>1, Zenon
  <2>5. Len(reports) = 0 /\ DOMAIN obs = {} /\ DOMAIN byMAC = {}
    BY ONLY <2>4 DEF Empty
  <2> QED BY <2>2, <2>3, <2>4, <2>5, BoundsAssumption DEF Typed
<1>2. IInv /\ Typed /\ [Next]_vars => Typed'
  BY TypedStep
<1>3. IInv /\ Typed => TypeOK
  <2> SUFFICES ASSUME IInv, Typed PROVE TypeOK
    OBVIOUS
  <2> DEFINE W == BaseWeight..BaseWeight + MaxBoost
  <2>1. reports \in Seq(Report) /\ i \in 1..MaxReports + 1
    BY BoundsAssumption DEF IInv, ReportsOK, Table, Typed
  <2>2. DOMAIN obs \subseteq CompanyID /\ \A c \in DOMAIN obs : obs[c] \in Nat \ {0}
    BY DEF Typed, IInv, Weights
  <2>3. trackersN \in [tile : Nat, fastPair : Nat]
    BY DEF IInv, Weights
  <2>4. weights \in Seq(W) /\ (Learned => Len(weights) = Len(Vendors))
    <3>1. CASE Learned
      BY <3>1, WeightFacts DEF IInv
    <3>2. CASE ~Learned
      BY <3>2 DEF Typed, Weighted
    <3> QED BY <3>1, <3>2
  <2>5. trackerWeights \in Seq(W) /\ (Learned => Len(trackerWeights) = 2)
    <3>1. CASE Learned
      <4>1. Boost(trackersN.tile) \in 0..MaxBoost /\ Boost(trackersN.fastPair) \in 0..MaxBoost
        BY BoostFacts DEF IInv, Weights
      <4> DEFINE a == BaseWeight + Boost(trackersN.tile)
                 b == BaseWeight + Boost(trackersN.fastPair)
      <4>2. a \in W /\ b \in W
        BY <4>1 DEF BaseWeight, MaxBoost
      <4> HIDE DEF a, b, W
      <4>3. <<a, b>> \in Seq(W) /\ Len(<<a, b>>) = 2
        BY <4>2
      <4> QED BY <3>1, <4>3 DEF Typed, Weighted, OfTrackers, a, b
    <3>2. CASE ~Learned
      BY <3>2 DEF Typed, Weighted
    <3> QED BY <3>1, <3>2
  <2> HIDE DEF W
  <2>6. pc \in {"hear", "weigh", "build", "mint"} /\ DOMAIN byMAC \subseteq MACs
    BY DEF Typed
  <2>7. summary \in {"", "mix", "none impersonable", "none seen"}
    BY Zenon DEF Typed, Summaries
  <2> QED BY <2>1, <2>2, <2>3, <2>4, <2>5, <2>6, <2>7, Zenon DEF TypeOK, W
<1> QED BY <1>1, <1>2, <1>3, Invariant, PTL DEF Spec

\* The learned table (buildLearnedDevices) has each device heard once, with the strongest
\* of its signals, closest first, whatever the adverts and their order.
THEOREM TableIsClosestFirst == Spec => []ClosestFirst
<1>1. IInv => ClosestFirst
  BY TableProperties DEF IInv, Sums
<1> QED BY <1>1, Invariant, PTL

\* A row has a name and a company of its device if any report gave one, and Tile and Fast
\* Pair if any showed them, although each report of the device replaces the row.
THEOREM TableForgetsNothing == Spec => []NothingForgotten
<1>1. IInv => NothingForgotten
  BY TableProperties DEF IInv, Sums
<1> QED BY <1>1, Invariant, PTL

\* learnWeights says that a mix was learned exactly when its weights favour something.
THEOREM SummaryIsHonest == Spec => []SummaryHonest
<1>1. IInv => SummaryHonest
  BY DEF IInv
<1> QED BY <1>1, Invariant, PTL

\* Every decoy minted (BuildWithOpts) fits its 31 bytes and reads, to ParseAdvData, as the
\* name, company and tracker it claims to be, for any vendor table and any random bytes.
THEOREM DecoysParseAsClaimed == Spec => []AiredParses
<1>1. IInv => AiredParses
  BY DEF IInv, AiredOK, AiredParses, ParsesAsClaimed
<1> QED BY <1>1, Invariant, PTL

\* No decoy minted is one that hoh-verify fails: Swift Pair, Find My, or a discoverable
\* Fast Pair, for any vendor table and any random bytes.
THEOREM DecoysAreHarmless == Spec => []AiredHarmless
<1>1. IInv => AiredHarmless
  BY DEF IInv, AiredOK, AiredHarmless, Harmless
<1> QED BY <1>1, Invariant, PTL

\* CrowdDiverse (pickVendor on the weights of learnWeights): for any vendor table and any
\* scan, every vendor keeps its floor and no company is given more than its cap.
THEOREM CrowdStaysDiverse == Spec => []CrowdDiverse
<1>1. IInv => CrowdDiverse
  BY WeightsDiverse DEF IInv, CrowdDiverse
<1> QED BY <1>1, Invariant, PTL
=============================================================================
