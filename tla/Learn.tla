-------------------------------- MODULE Learn --------------------------------
(***************************************************************************)
(* A learn scan and what hohd makes of it (internal/engine/learn.go): the  *)
(* reports heard, the weights of the next decoys (learnWeights), the table *)
(* of devices (buildLearnedDevices), and the decoys minted with them       *)
(* (BuildWithOpts of internal/decoy).  The two loops over the reports are  *)
(* one report a step.                                                      *)
(***************************************************************************)
EXTENDS Payload

CONSTANTS
  Vendors,    \* the vendor table: a sequence of [id, name], name the name's length
  Ambient,    \* bound: the payloads in the air around
  MACs,       \* bound: who sends them
  RSSIs,      \* bound: how strong
  Counts,     \* bound: how often in a row
  MaxReports  \* bound: reports (with their count) in a scan

ASSUME VendorsAssumption ==
  /\ Vendors \in Seq([id : Nat \ {0}, name : Nat]) /\ Vendors # <<>>
  /\ \A v \in Range(Vendors) :
       v.id < 65536 /\ v.id \notin {Apple, Microsoft, Tile, FastPair}
ASSUME BoundsAssumption ==
  /\ Ambient \subseteq Seq(0..255) /\ RSSIs \subseteq -127..127
  /\ Counts \subseteq Nat \ {0} /\ MaxReports \in Nat

VARIABLES
  pc, reports, i,      \* Scan's result and the loop's position in it
  obs, trackersN,      \* learnWeights: adverts per company and per tracker
  weights, trackerWeights, summary,  \* LearnControl
  byMAC, devices,      \* buildLearnedDevices and LearnControl.devices
  aired                \* the last decoy minted

vars == <<pc, reports, i, obs, trackersN, weights, trackerWeights, summary, byMAC,
          devices, aired>>

Report == [mac : MACs, rssi : RSSIs, data : Ambient, count : Counts]

\* A company is given by 16 bits.
CompanyID == {n \in Nat : n < 65536}

Companies == {v.id : v \in Range(Vendors)}

Empty == [x \in {} |-> 0]

Count(f, x) == IF x \in DOMAIN f THEN f[x] ELSE 0

\* A map with the entry for x set to v.
Put(f, x, v) == [y \in {x} \cup DOMAIN f |-> IF y = x THEN v ELSE f[y]]

Init ==
  /\ pc = "hear" /\ reports = <<>> /\ i = 1
  /\ obs = Empty /\ trackersN = [tile |-> 0, fastPair |-> 0]
  /\ weights = <<>> /\ trackerWeights = <<>> /\ summary = ""
  /\ byMAC = Empty /\ devices = <<>>
  /\ aired = [ad |-> <<>>, id |-> 0, name |-> 0]
-----------------------------------------------------------------------------
Hear ==
  /\ pc = "hear" /\ Len(reports) < MaxReports
  /\ \E r \in Report : reports' = Append(reports, r)
  /\ UNCHANGED <<pc, i, obs, trackersN, weights, trackerWeights, summary, byMAC, devices,
                 aired>>

\* The window is over.
Heard ==
  /\ pc = "hear"
  /\ pc' = "weigh" /\ i' = 1
  /\ UNCHANGED <<reports, obs, trackersN, weights, trackerWeights, summary, byMAC, devices,
                 aired>>

\* learnWeights' loop, for reports[i].
Weigh ==
  /\ pc = "weigh" /\ i <= Len(reports)
  /\ LET info == ParseAdvData(reports[i].data)
         n    == reports[i].count
     IN  /\ obs' = IF info.hasMfg
                     THEN Put(obs, info.company, Count(obs, info.company) + n)
                     ELSE obs
         /\ trackersN' = [tile     |-> trackersN.tile + IF info.tile THEN n ELSE 0,
                          fastPair |-> trackersN.fastPair + IF info.fastPair THEN n ELSE 0]
  /\ i' = i + 1
  /\ UNCHANGED <<pc, reports, weights, trackerWeights, summary, byMAC, devices, aired>>

BaseWeight == 2
MaxBoost == 8

\* Variant of Boost without the cap.
BoostUncapped(n) ==
  IF n <= 0 THEN 0 ELSE Min({b \in 1..2 * n : 16 * n < (2 * b + 1) * (2 * b + 1)})

\* learnBoost: 2 * sqrt(n) rounded, at most MaxBoost.
Boost(n) ==
  IF n <= 0 THEN 0
  ELSE Min({b \in 1..MaxBoost : 16 * n < (2 * b + 1) * (2 * b + 1)} \cup {MaxBoost})

\* Variant of Summary in which trackers alone leave the summary empty.
SummaryOfVendors ==
  IF \E c \in Companies : Count(obs, c) > 0 THEN "mix"
  ELSE IF DOMAIN obs # {} THEN "none impersonable"
  ELSE "none seen"

\* The summary's cases: adverts that can be impersonated, others, none.
Summary ==
  IF (\E c \in Companies : Count(obs, c) > 0) \/ trackersN.tile > 0 \/ trackersN.fastPair > 0
    THEN "mix"
  ELSE IF DOMAIN obs # {} THEN "none impersonable"
  ELSE "none seen"

Weighed ==
  /\ pc = "weigh" /\ i > Len(reports)
  /\ weights' = [j \in DOMAIN Vendors |-> BaseWeight + Boost(Count(obs, Vendors[j].id))]
  /\ trackerWeights' = <<BaseWeight + Boost(trackersN.tile),
                         BaseWeight + Boost(trackersN.fastPair)>>
  /\ summary' = Summary
  /\ pc' = "build" /\ i' = 1
  /\ UNCHANGED <<reports, obs, trackersN, byMAC, devices, aired>>

Row(r) ==
  LET info == ParseAdvData(r.data) IN
  [mac |-> r.mac, rssi |-> r.rssi, name |-> info.name, company |-> info.company,
   hasMfg |-> info.hasMfg, tile |-> info.tile, fastPair |-> info.fastPair,
   findMy |-> info.findMy, discoverable |-> info.discoverable]

\* Variant of Merged that keeps the later signal strength.
MergedLatest(prev, o) ==
  [o EXCEPT !.name = IF @ = <<>> THEN prev.name ELSE @,
            !.company = IF ~o.hasMfg /\ prev.hasMfg THEN prev.company ELSE @,
            !.hasMfg = @ \/ prev.hasMfg,
            !.tile = @ \/ prev.tile,
            !.fastPair = @ \/ prev.fastPair]

\* Variant of Merged that lets a later sighting erase the name.
MergedForgetful(prev, o) ==
  [o EXCEPT !.tile = @ \/ prev.tile, !.fastPair = @ \/ prev.fastPair,
            !.rssi = IF prev.rssi > @ THEN prev.rssi ELSE @]

\* A later sighting of a MAC, filled in from the earlier ones.
Merged(prev, o) ==
  [o EXCEPT !.name = IF @ = <<>> THEN prev.name ELSE @,
            !.company = IF ~o.hasMfg /\ prev.hasMfg THEN prev.company ELSE @,
            !.hasMfg = @ \/ prev.hasMfg,
            !.tile = @ \/ prev.tile,
            !.fastPair = @ \/ prev.fastPair,
            !.rssi = IF prev.rssi > @ THEN prev.rssi ELSE @]

\* buildLearnedDevices' loop, for reports[i].
Build ==
  /\ pc = "build" /\ i <= Len(reports)
  /\ LET o == Row(reports[i]) IN
     byMAC' = Put(byMAC, o.mac,
                  IF o.mac \in DOMAIN byMAC THEN Merged(byMAC[o.mac], o) ELSE o)
  /\ i' = i + 1
  /\ UNCHANGED <<pc, reports, obs, trackersN, weights, trackerWeights, summary, devices,
                 aired>>

\* The rows in descending signal strength, in any order between equals.
Built ==
  /\ pc = "build" /\ i > Len(reports)
  /\ \E order \in SetToSeqs(DOMAIN byMAC) :
       /\ \A j \in 1..Len(order) - 1 : byMAC[order[j]].rssi >= byMAC[order[j + 1]].rssi
       /\ devices' = [j \in DOMAIN order |-> byMAC[order[j]]]
  /\ pc' = "mint"
  /\ UNCHANGED <<reports, i, obs, trackersN, weights, trackerWeights, summary, byMAC, aired>>

\* The sums of the first weights.
Totals(w) ==
  LET sum[j \in 0..Len(w)] == IF j = 0 THEN 0 ELSE sum[j - 1] + w[j]
  IN  sum

SumOf(w) == Totals(w)[Len(w)]

\* The loop of pickVendor and pickTracker for the random number r: the first index
\* whose weight is more than r less the weights before it.
Pick(w, r) == Min({j \in DOMAIN w : r < Totals(w)[j]})

Drawn(w) == {Pick(w, r) : r \in 0..SumOf(w) - 1}

\* BuildWithOpts, with Apple decoys and trackers switched on.  A decoy does not
\* depend on the one before: one is enough.
Mint ==
  /\ pc = "mint" /\ aired.id = 0
  /\ aired' \in BuildApple
       \cup (UNION {BuildFor(Vendors[j]) : j \in Drawn(weights)})
       \cup (UNION {IF j = 1 THEN BuildTile ELSE BuildFastPair : j \in Drawn(trackerWeights)})
  /\ UNCHANGED <<pc, reports, i, obs, trackersN, weights, trackerWeights, summary, byMAC,
                 devices>>

Next == Hear \/ Heard \/ Weigh \/ Weighed \/ Build \/ Built \/ Mint

Spec == Init /\ [][Next]_vars
-----------------------------------------------------------------------------
Learned == pc \in {"build", "mint"}

Sightings(mac) == {j \in DOMAIN reports : reports[j].mac = mac}

TypeOK ==
  /\ pc \in {"hear", "weigh", "build", "mint"}
  /\ reports \in Seq(Report) /\ i \in 1..MaxReports + 1
  /\ DOMAIN obs \subseteq CompanyID /\ \A c \in DOMAIN obs : obs[c] \in Nat \ {0}
  /\ trackersN \in [tile : Nat, fastPair : Nat]
  /\ weights \in Seq(BaseWeight..BaseWeight + MaxBoost)
  /\ trackerWeights \in Seq(BaseWeight..BaseWeight + MaxBoost)
  /\ Learned => Len(weights) = Len(Vendors) /\ Len(trackerWeights) = 2
  /\ summary \in {"", "mix", "none impersonable", "none seen"}
  /\ DOMAIN byMAC \subseteq MACs

\* The learned table has each device heard once, with the strongest of its signals,
\* closest first, whatever the order and number of its adverts.
ClosestFirst ==
  pc = "mint" =>
    /\ Len(devices) = Cardinality({reports[j].mac : j \in DOMAIN reports})
    /\ \A k \in DOMAIN devices :
         devices[k].rssi = Max({reports[j].rssi : j \in Sightings(devices[k].mac)})
    /\ \A k \in 1..Len(devices) - 1 : devices[k].rssi >= devices[k + 1].rssi

\* The merge of buildLearnedDevices loses and invents nothing, whatever the order of a
\* device's adverts: if any gave a name, or a company, its row has one that was given,
\* and a Tile or Fast Pair heard once stays in it.
NothingForgotten ==
  pc = "mint" =>
    \A row \in Range(devices) :
      LET Parsed(j) == ParseAdvData(reports[j].data)
          named == {j \in Sightings(row.mac) : Parsed(j).name # <<>>}
          known == {j \in Sightings(row.mac) : Parsed(j).hasMfg}
      IN  /\ IF named = {} THEN row.name = <<>> ELSE \E j \in named : row.name = Parsed(j).name
          /\ row.hasMfg = (known # {})
          /\ known # {} => \E j \in known : row.company = Parsed(j).company
          /\ row.tile = \E j \in Sightings(row.mac) : Parsed(j).tile
          /\ row.fastPair = \E j \in Sightings(row.mac) : Parsed(j).fastPair

\* The summary says nothing was learned exactly when nothing was: a mix is shown iff
\* some decoy is now favoured over another or over its own share before.
SummaryHonest ==
  Learned =>
    (summary = "mix") = (\E w \in Range(weights) \cup Range(trackerWeights) : w > BaseWeight)

\* The crowd stays diverse, counted in the random numbers that draw a vendor: learning
\* leaves every vendor its floor, and a company with k of the n entries is never given
\* more than 10 k of 2 n + 8 k decoys, however often and however exclusively it is heard.
CrowdDiverse ==
  Learned =>
    LET draws      == 0..SumOf(weights) - 1
        DrawsOf(V) == Cardinality({r \in draws : Pick(weights, r) \in V})
    IN  /\ \A j \in DOMAIN Vendors : DrawsOf({j}) >= BaseWeight
        /\ \A c \in Companies :
             LET mine == {j \in DOMAIN Vendors : Vendors[j].id = c}
                 k    == Cardinality(mine)
             IN  DrawsOf(mine) * (BaseWeight * Len(Vendors) + MaxBoost * k)
                 <= (BaseWeight + MaxBoost) * k * Cardinality(draws)

\* Every decoy fits its budget and reads, to a scanner, as the device it claims to be:
\* the name, the company if it gives any, and the tracker.
AiredParses ==
  aired.id # 0 =>
    LET info == ParseAdvData(aired.ad) IN
    /\ Len(aired.ad) <= AdvMaxLen
    /\ Len(info.name) = aired.name
    /\ info.hasMfg => info.company = aired.id
    /\ info.tile = (aired.id = Tile) /\ info.fastPair = (aired.id = FastPair)

\* No decoy, whatever its random bytes and whatever was learned, is one that
\* hoh-verify would fail: no Swift Pair, no Find My message, no discoverable Fast Pair.
AiredHarmless == aired.id # 0 => ~Flagged(ParseAdvData(aired.ad))
=============================================================================
