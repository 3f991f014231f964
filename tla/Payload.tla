------------------------------- MODULE Payload -------------------------------
(***************************************************************************)
(* The advertising payloads of hohd: what internal/decoy can build for each*)
(* kind of decoy, and what internal/verify's ParseAdvData reads in a       *)
(* payload.  Operators only.  Payloads are sequences of bytes; a name is as*)
(* many letters as it has, and a random byte any member of Noise.          *)
(***************************************************************************)
EXTENDS Integers, Sequences, SequencesExt, FiniteSetsExt

CONSTANT Noise  \* bound: the values of random bytes

ASSUME NoiseAssumption == Noise \subseteq 0..255

AdvMaxLen == 31

\* AD types, company identifiers and service UUIDs.
Flags == 1
ServiceUUID16 == 3
ShortName == 8
Name == 9
ServiceData16 == 22
MfgData == 255
Apple == 76
Microsoft == 6
FastPair == 65068
Tile == 65261
NearbyInfo == 16
FindMy == 18

\* A 16-bit number as two bytes on the air, and back.
LE(u) == <<u % 256, u \div 256>>
UUID(bytes) == bytes[1] + 256 * bytes[2]

Letters(n) == [i \in 1..n |-> 110]

Random(n) == [1..n -> Noise]
-----------------------------------------------------------------------------
(* The builders.  Each gives the set of decoys that the random choices allow.*)

AD(typ, body) == <<1 + Len(body), typ>> \o body

Fits(buf, body) == Len(buf) + 2 + Len(body) <= AdvMaxLen

\* Variant of AppendIfFits that forgets the two bytes in front of the body.
AppendIfBodyFits(buf, typ, body) ==
  IF Len(buf) + Len(body) <= AdvMaxLen THEN buf \o AD(typ, body) ELSE buf

AppendIfFits(buf, typ, body) == IF Fits(buf, body) THEN buf \o AD(typ, body) ELSE buf

Start == AD(Flags, <<6>>)

\* buildFor, with or without the vendor's name and its manufacturer data.
BuildFor(vendor) ==
  LET Named(withName) ==
        IF withName /\ vendor.name > 0
          THEN AppendIfFits(Start, Name, Letters(vendor.name))
          ELSE Start
      Decoy(buf, ad) ==
        [ad |-> ad, id |-> vendor.id, name |-> IF buf = Start THEN 0 ELSE vendor.name]
      Lengths(buf) == IF buf = Start THEN 3..7 ELSE {3}
      Bodies(buf) == UNION {Random(n) : n \in Lengths(buf)}
      Bufs == {Named(withName) : withName \in BOOLEAN}
  IN  UNION {{Decoy(buf, buf)}
               \cup {Decoy(buf, AppendIfFits(buf, MfgData, LE(vendor.id) \o body)) :
                       body \in Bodies(buf)} : buf \in Bufs}

\* Variant of BuildApple with nothing but random bytes behind the company.
BuildAppleRaw ==
  {[ad |-> Start \o AD(MfgData, LE(Apple) \o body), id |-> Apple, name |-> 0] :
     body \in UNION {Random(2 + n) : n \in 1..4}}

\* A message of 1 to 4 bytes, and one of 5.
AppleNaiveBody == UNION {{<<NearbyInfo, n>> \o body : body \in Random(n)} : n \in 1..4}

AppleNearbyInfo ==
  UNION {{<<NearbyInfo, 5, b % 32>> \o body : body \in Random(4)} : b \in Noise}

BuildApple ==
  {[ad |-> Start \o AD(MfgData, LE(Apple) \o body), id |-> Apple, name |-> 0] :
     body \in AppleNaiveBody \cup AppleNearbyInfo}

BuildTile ==
  {[ad |-> AppendIfFits(Start \o AD(ServiceUUID16, LE(Tile))
                          \o AD(ServiceData16, LE(Tile) \o body), Name, Letters(4)),
    id |-> Tile, name |-> 4] : body \in Random(8)}

\* The header of the account-key filter is its length in the high nibble, cut to a
\* byte, and the type that hides the prompt.
BuildFastPair ==
  {[ad |-> Start \o AD(ServiceData16,
             LE(FastPair) \o <<0, ((16 * Len(filter)) % 256) + 2>> \o filter),
    id |-> FastPair, name |-> 0] : filter \in UNION {Random(n) : n \in 4..7}}
-----------------------------------------------------------------------------
(* The parser.                                                             *)

\* The AD structures of a payload, up to one that is empty or runs past the end.
Structures(data) ==
  LET from[i \in 1..Len(data) + 1] ==
        IF i > Len(data) THEN <<>>
        ELSE IF data[i] = 0 \/ i + data[i] > Len(data) THEN <<>>
        ELSE <<[typ |-> data[i + 1], body |-> SubSeq(data, i + 2, i + data[i])]>>
               \o from[i + 1 + data[i]]
  IN  from[1]

\* hasAppleMsgType: a message of the type at one of the message boundaries.
HasAppleMsgType(payload, typ) ==
  LET at[i \in 1..Len(payload)] ==
        \/ payload[i] = typ
        \/ /\ i + 1 <= Len(payload) /\ i + 2 + payload[i + 1] <= Len(payload)
           /\ at[i + 2 + payload[i + 1]]
  IN  payload # <<>> /\ at[1]

\* Where structures of some types, with at least so many bytes, are among all.
Of(all, types, minLen) ==
  {j \in DOMAIN all : all[j].typ \in types /\ Len(all[j].body) >= minLen}

\* A list of 16-bit service identifiers.
Lists(body, uuid) ==
  \E j \in 1..Len(body) - 1 : j % 2 = 1 /\ UUID(SubSeq(body, j, j + 1)) = uuid

\* ParseAdvData.  A later name or manufacturer structure replaces an earlier one.
ParseAdvData(data) ==
  LET all      == Structures(data)
      Body(j)  == all[j].body
      names    == Of(all, {ShortName, Name}, 0)
      mfg      == Of(all, {MfgData}, 2)
      services == Of(all, {ServiceData16}, 2)
  IN  [name        |-> IF names = {} THEN <<>> ELSE Body(Max(names)),
       company     |-> IF mfg = {} THEN 0 ELSE UUID(Body(Max(mfg))),
       hasMfg      |-> mfg # {},
       findMy      |-> \E j \in mfg :
                         /\ UUID(Body(j)) = Apple
                         /\ HasAppleMsgType(SubSeq(Body(j), 3, Len(Body(j))), FindMy),
       tile        |-> \/ \E j \in Of(all, {ServiceUUID16}, 2) : Lists(Body(j), Tile)
                       \/ \E j \in services : UUID(Body(j)) = Tile,
       fastPair    |-> \E j \in services : UUID(Body(j)) = FastPair,
       discoverable |-> \E j \in services : UUID(Body(j)) = FastPair /\ Len(Body(j)) = 5]

\* What Analyze counts against an advertisement that is not connectable.
Flagged(info) ==
  (info.hasMfg /\ info.company = Microsoft) \/ info.findMy \/ info.discoverable
=============================================================================
