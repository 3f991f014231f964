------------------------------ MODULE Dashboard ------------------------------
(***************************************************************************)
(* The live dashboard of internal/dashboard: the key thread (readKeys and  *)
(* its escape-sequence parser), the draw thread (Run), what both share     *)
(* with the engine through the Model and the controls, and the end of the  *)
(* three in runLoop of cmd/hohd.                                           *)
(*                                                                         *)
(* Every method of Model is one step: it runs under the model's mutex.     *)
(* A byte of input is named by the key it is on its own.                   *)
(***************************************************************************)
EXTENDS Integers, Sequences, SequencesExt, FiniteSetsExt

CONSTANTS
  Switches,   \* the mirrored controls, in the order draw reads them
  Viewports,  \* the table heights TableRows may give as the window is resized
  MaxRows,    \* bound: rows of either table
  Typed,      \* bound: the keys typed
  MaxKeys     \* bound: how many are typed

ASSUME SwitchesAssumption ==
  Switches \in Seq({"apple", "trackers", "pause", "debug"}) /\ IsInjective(Switches)
ASSUME BoundsAssumption ==
  Viewports \subseteq Nat \ {0} /\ MaxRows \in Nat /\ MaxKeys \in Nat

VARIABLES
  tty,                        \* bytes on their way to the next read
  kpc, data, carry, forced,   \* readKeys; forced while forceInput runs
  flipped,                    \* the switch just flipped, not yet mirrored
  ctl,                        \* the controls' values
  devices,                    \* the number of LearnControl.devices
  mirror,                     \* Model: the controls as displayed
  focus, offset, limit, viewport, rows, help,  \* Model: tables and overlay
  dpc, next, seen,            \* draw thread: next switch to mirror, value read
  mpc, cancelled,             \* runLoop and its context
  raw, alt,                   \* terminal: raw mode, alternate screen
  typed, owed, wrong, gapped, \* history: keys typed, operations they call for,
                              \* one was misread, a key's bytes came too far apart
  held                        \* history: each control's values since this draw began

keyVars   == <<tty, kpc, data, carry, forced, flipped>>
modelVars == <<mirror, focus, offset, limit, viewport, rows, help>>
drawVars  == <<dpc, next, seen>>
mainVars  == <<mpc, cancelled, raw, alt>>
histVars  == <<typed, owed, wrong, gapped>>
vars == <<keyVars, ctl, devices, modelVars, drawVars, mainVars, histVars, held>>

Tables == {"crowd", "learned"}

SwitchSet == Range(Switches)

Values(s) == IF s = "apple" THEN 3 ELSE 2

-----------------------------------------------------------------------------
(* The parser.                                                             *)

\* What the terminal sends for a key; an arrow's last byte is a key of its own.
KeyBytes ==
  [up |-> <<"esc", "[", "a">>, pgup |-> <<"esc", "[", "5", "~">>,
   pgdn |-> <<"esc", "[", "6", "~">>, esc |-> <<"esc">>, a |-> <<"a">>, s |-> <<"s">>,
   space |-> <<"space">>, d |-> <<"d">>, j |-> <<"j">>, home |-> <<"g">>, end |-> <<"G">>,
   tab |-> <<"tab">>, help |-> <<"?">>, q |-> <<"q">>]

ASSUME TypedAssumption == Typed \subseteq DOMAIN KeyBytes

\* What handleSingle does for a byte, and applyCSI for a sequence's body.
SingleOp(b) ==
  CASE b = "a" -> "apple" [] b = "s" -> "trackers" [] b = "space" -> "pause"
    [] b = "d" -> "debug" [] b = "j" -> "down" [] b = "g" -> "top" [] b = "G" -> "end"
    [] b = "tab" -> "focus" [] b = "?" -> "help" [] b = "q" -> "quit" [] OTHER -> "none"

CSIOp(body) ==
  CASE body = <<"a">> -> "up" [] body = <<"5", "~">> -> "pgup"
    [] body = <<"6", "~">> -> "pgdn" [] OTHER -> "none"

\* The bytes that end a sequence.
Finals == {"a", "s", "d", "j", "g", "G", "q", "~", "["}

\* parseEsc: the length and meaning of the sequence at the head of seg, length 0
\* when it is, or may be, unfinished.
ParseEsc(seg) ==
  LET ends == {j \in 3..Len(seg) : seg[j] \in Finals} IN
  CASE Len(seg) < 2 -> [len |-> 0, op |-> "none"]
    [] Len(seg) >= 2 /\ seg[2] # "[" -> [len |-> 1, op |-> "none"]
    [] Len(seg) >= 2 /\ seg[2] = "[" /\ ends = {} -> [len |-> 0, op |-> "none"]
    [] OTHER -> [len |-> Min(ends), op |-> CSIOp(SubSeq(seg, 3, Min(ends)))]

\* handleInput's next item, and forceInput's, which takes every byte singly.
Item ==
  IF Head(data) = "esc" /\ ~forced
    THEN ParseEsc(data)
    ELSE [len |-> 1, op |-> SingleOp(Head(data))]

-----------------------------------------------------------------------------
Init ==
  /\ tty = <<>> /\ kpc = "gone" /\ data = <<>> /\ carry = <<>> /\ forced = FALSE
  /\ flipped = "none"
  /\ ctl = [s \in SwitchSet |-> 0] /\ devices = 0
  /\ mirror = ctl
  /\ focus = "crowd" /\ viewport = 0 /\ help = FALSE
  /\ offset = [t \in Tables |-> 0] /\ limit = offset /\ rows = offset
  /\ dpc = "start" /\ next = 1 /\ seen = 0
  /\ mpc = "run" /\ cancelled = FALSE /\ raw = FALSE /\ alt = FALSE
  /\ typed = 0 /\ owed = <<>> /\ wrong = FALSE /\ gapped = FALSE
  /\ held = [s \in SwitchSet |-> {ctl[s]}]

-----------------------------------------------------------------------------
(* readKeys.                                                               *)

KeyLoop ==
  /\ kpc = "top"
  /\ kpc' = IF cancelled THEN "gone" ELSE "read"
  /\ UNCHANGED <<tty, data, carry, forced, flipped, ctl, devices, modelVars, drawVars,
                 mainVars, histVars, held>>

\* Variant of Read that drops the carried bytes.
ReadWithoutCarry ==
  /\ kpc = "read"
  /\ \E n \in 1..Len(tty) :
       /\ data' = SubSeq(tty, 1, n)
       /\ tty' = SubSeq(tty, n + 1, Len(tty))
  /\ carry' = <<>>
  /\ kpc' = "handle"
  /\ UNCHANGED <<forced, flipped, ctl, devices, modelVars, drawVars, mainVars, histVars,
                 held>>

\* A read returns whatever part of the input has arrived.
Read ==
  /\ kpc = "read"
  /\ \E n \in 1..Len(tty) :
       /\ data' = carry \o SubSeq(tty, 1, n)
       /\ tty' = SubSeq(tty, n + 1, Len(tty))
  /\ carry' = <<>>
  /\ kpc' = "handle"
  /\ UNCHANGED <<forced, flipped, ctl, devices, modelVars, drawVars, mainVars, histVars,
                 held>>

\* Variant of ReadTimeout that takes the deadline for the end of the input.
ReadTimeoutFatal ==
  /\ kpc = "read"
  /\ kpc' = "gone"
  /\ UNCHANGED <<tty, data, carry, forced, flipped, ctl, devices, modelVars, drawVars,
                 mainVars, histVars, held>>

\* 200 ms without a byte: the carry is flushed without its leading ESC.  Possible but
\* never certain: SetReadDeadline's error is ignored, and the Go runtime supports no
\* deadlines on a stdin that is in blocking mode, as a terminal's usually is.
ReadTimeout ==
  /\ kpc = "read"
  /\ gapped' = (gapped \/ (carry # <<>> /\ tty # <<>>))
  /\ IF carry = <<>>
       THEN kpc' = "top" /\ UNCHANGED <<data, carry, forced>>
       ELSE kpc' = "handle" /\ data' = Tail(carry) /\ carry' = <<>> /\ forced' = TRUE
  /\ UNCHANGED <<tty, flipped, ctl, devices, modelVars, drawVars, mainVars, typed, owed,
                 wrong, held>>

\* The bytes are used up, or what is left is an unfinished sequence to carry.
Handled ==
  /\ kpc = "handle"
  /\ data # <<>> => Item.len = 0
  /\ carry' = data
  /\ data' = <<>> /\ forced' = FALSE
  /\ kpc' = "top"
  /\ UNCHANGED <<tty, flipped, ctl, devices, modelVars, drawVars, mainVars, histVars, held>>

\* The key thread takes op, one of ops, from its input.
Takes(ops) ==
  /\ kpc = "handle" /\ data # <<>>
  /\ Item.len > 0 /\ Item.op \in ops
  /\ data' = SubSeq(data, Item.len + 1, Len(data))
  /\ IF Item.op = "none"
       THEN UNCHANGED <<owed, wrong>>
       ELSE IF owed # <<>> /\ Head(owed) = Item.op
       THEN owed' = Tail(owed) /\ UNCHANGED wrong
       ELSE wrong' = TRUE /\ UNCHANGED owed
  /\ UNCHANGED <<tty, carry, devices, drawVars, typed, gapped>>

Ignore ==
  /\ Takes({"none"})
  /\ UNCHANGED <<kpc, forced, flipped, ctl, modelVars, mainVars, held>>

\* clampScrollLocked.
Clamp(o, max) == IF o > max THEN max ELSE IF o < 0 THEN 0 ELSE o

Page == IF viewport > 2 THEN viewport - 1 ELSE 1

Moves == {"up", "down", "pgup", "pgdn"}

Delta(op) ==
  CASE op = "up" -> -1 [] op = "down" -> 1 [] op = "pgup" -> -Page [] op = "pgdn" -> Page

\* Scroll and ScrollPage on the focused table.
Moved(op) ==
  [t \in Tables |->
     Clamp(IF t = focus THEN offset[t] + Delta(op) ELSE offset[t], limit[t])]

Scroll ==
  /\ Takes(Moves)
  /\ offset' = Moved(Item.op)
  /\ UNCHANGED <<kpc, forced, flipped, ctl, mirror, focus, limit, viewport, rows, help,
                 mainVars, held>>

ScrollToEnd ==
  /\ Takes({"top", "end"})
  /\ offset' = [offset EXCEPT ![focus] = IF Item.op = "top" THEN 0 ELSE limit[focus]]
  /\ UNCHANGED <<kpc, forced, flipped, ctl, mirror, focus, limit, viewport, rows, help,
                 mainVars, held>>

CycleFocus ==
  /\ Takes({"focus"})
  /\ focus' = IF focus = "crowd" THEN "learned" ELSE "crowd"
  /\ UNCHANGED <<kpc, forced, flipped, ctl, mirror, offset, limit, viewport, rows, help,
                 mainVars, held>>

ToggleHelp ==
  /\ Takes({"help"})
  /\ help' = ~help
  /\ UNCHANGED <<kpc, forced, flipped, ctl, mirror, focus, offset, limit, viewport, rows,
                 mainVars, held>>

\* A switch is flipped first and mirrored into the model afterwards; a switch
\* that was not given to the dashboard (a nil control) does nothing.
Flip ==
  /\ Takes({"apple", "trackers", "pause", "debug"})
  /\ IF Item.op \in SwitchSet
       THEN LET v == (ctl[Item.op] + 1) % Values(Item.op) IN
            /\ ctl' = [ctl EXCEPT ![Item.op] = v]
            /\ held' = IF dpc = "wait" THEN held ELSE [held EXCEPT ![Item.op] = @ \cup {v}]
            /\ flipped' = Item.op /\ kpc' = "mirror"
       ELSE UNCHANGED <<ctl, held, flipped, kpc>>
  /\ UNCHANGED <<forced, modelVars, mainVars>>

\* Variant of MirrorFlip that displays the value after the next flip.
MirrorNext ==
  /\ kpc = "mirror"
  /\ mirror' = [mirror EXCEPT ![flipped] = (ctl[flipped] + 1) % Values(flipped)]
  /\ flipped' = "none" /\ kpc' = "handle"
  /\ UNCHANGED <<tty, data, carry, forced, ctl, devices, focus, offset, limit, viewport,
                 rows, help, drawVars, mainVars, histVars, held>>

\* The value displayed is the one the flip returned: nobody else flips.
MirrorFlip ==
  /\ kpc = "mirror"
  /\ mirror' = [mirror EXCEPT ![flipped] = ctl[flipped]]
  /\ flipped' = "none" /\ kpc' = "handle"
  /\ UNCHANGED <<tty, data, carry, forced, ctl, devices, focus, offset, limit, viewport,
                 rows, help, drawVars, mainVars, histVars, held>>

\* OnQuit.  readKeys returns; from forceInput it first comes back to its loop.
Quit ==
  /\ Takes({"quit"})
  /\ cancelled' = TRUE
  /\ kpc' = IF forced THEN "top" ELSE "gone"
  /\ forced' = FALSE
  /\ UNCHANGED <<flipped, ctl, modelVars, mpc, raw, alt, held>>

KeyThreadRuns ==
  \/ KeyLoop \/ Read \/ Handled
  \/ Ignore \/ Scroll \/ ScrollToEnd \/ CycleFocus \/ ToggleHelp \/ Flip \/ MirrorFlip \/ Quit

KeyThread == KeyThreadRuns \/ ReadTimeout

-----------------------------------------------------------------------------
(* Run.                                                                    *)

\* Raw mode and the key thread if stdin is a terminal, the alternate screen.
Start ==
  /\ dpc = "start"
  /\ dpc' = "learned" /\ alt' = TRUE
  /\ raw' \in BOOLEAN
  /\ kpc' = IF raw' THEN "top" ELSE "gone"
  /\ UNCHANGED <<tty, data, carry, forced, flipped, ctl, devices, modelVars, next, seen,
                 mpc, cancelled, histVars, held>>

\* SetLearned; the history of the controls' values starts over.
MirrorLearned ==
  /\ dpc = "learned"
  /\ rows' = [rows EXCEPT !["learned"] = devices]
  /\ held' = [s \in SwitchSet |-> {ctl[s]}]
  /\ next' = 1
  /\ dpc' = IF Switches = <<>> THEN "bounds" ELSE "read"
  /\ UNCHANGED <<keyVars, ctl, devices, mirror, focus, offset, limit, viewport, help,
                 seen, mainVars, histVars>>

ReadSwitch ==
  /\ dpc = "read"
  /\ seen' = ctl[Switches[next]]
  /\ dpc' = "write"
  /\ UNCHANGED <<keyVars, ctl, devices, modelVars, next, mainVars, histVars, held>>

WriteMirror ==
  /\ dpc = "write"
  /\ mirror' = [mirror EXCEPT ![Switches[next]] = seen]
  /\ next' = next + 1 /\ seen' = 0
  /\ dpc' = IF next = Len(Switches) THEN "bounds" ELSE "read"
  /\ UNCHANGED <<keyVars, ctl, devices, focus, offset, limit, viewport, rows, help,
                 mainVars, histVars, held>>

\* Variant of SetScrollBounds that leaves the offsets alone.
SetScrollBoundsOnly ==
  /\ dpc = "bounds"
  /\ viewport' \in Viewports
  /\ limit' = [t \in Tables |-> Max({rows[t] - viewport', 0})]
  /\ dpc' = "snapshot"
  /\ UNCHANGED <<keyVars, ctl, devices, mirror, focus, offset, rows, help, next, seen,
                 mainVars, histVars, held>>

SetScrollBounds ==
  /\ dpc = "bounds"
  /\ viewport' \in Viewports
  /\ limit' = [t \in Tables |-> Max({rows[t] - viewport', 0})]
  /\ offset' = [t \in Tables |-> Clamp(offset[t], limit'[t])]
  /\ dpc' = "snapshot"
  /\ UNCHANGED <<keyVars, ctl, devices, mirror, focus, rows, help, next, seen, mainVars,
                 histVars, held>>

\* scrollView: the row of table t that a frame shows first.
DrawnOffset(t) == Clamp(offset[t], Max({rows[t] - viewport, 0}))

Snapshot ==
  /\ dpc = "snapshot"
  /\ dpc' = "wait"
  /\ held' = [s \in SwitchSet |-> {}]
  /\ UNCHANGED <<keyVars, ctl, devices, modelVars, next, seen, mainVars, histVars>>

DrawTick ==
  /\ dpc = "wait"
  /\ dpc' = "learned"
  /\ UNCHANGED <<keyVars, ctl, devices, modelVars, next, seen, mainVars, histVars, held>>

\* Run's return: the deferred calls restore the screen and the terminal.
DrawEnds ==
  /\ dpc = "wait" /\ cancelled
  /\ dpc' = "gone"
  /\ raw' = FALSE /\ alt' = FALSE
  /\ UNCHANGED <<keyVars, ctl, devices, modelVars, next, seen, mpc, cancelled, histVars,
                 held>>

DrawThread ==
  \/ Start \/ MirrorLearned \/ ReadSwitch \/ WriteMirror \/ SetScrollBounds \/ Snapshot
  \/ DrawTick \/ DrawEnds

-----------------------------------------------------------------------------
(* runLoop, the engine and the user.                                       *)

\* Variant of EngineEnds that leaves the dashboard's context alone.
EngineEndsOnly ==
  /\ mpc = "run"
  /\ mpc' = "join"
  /\ UNCHANGED <<keyVars, ctl, devices, modelVars, drawVars, cancelled, raw, alt, histVars,
                 held>>

\* engine.Run returns, because its context is cancelled or on an early error.
EngineEnds ==
  /\ mpc = "run"
  /\ mpc' = "join" /\ cancelled' = TRUE
  /\ UNCHANGED <<keyVars, ctl, devices, modelVars, drawVars, raw, alt, histVars, held>>

\* Variant of Join that does not wait for the draw thread.
JoinNothing ==
  /\ mpc = "join"
  /\ mpc' = "exit"
  /\ UNCHANGED <<keyVars, ctl, devices, modelVars, drawVars, cancelled, raw, alt, histVars,
                 held>>

Join ==
  /\ mpc = "join" /\ dpc = "gone"
  /\ mpc' = "exit"
  /\ UNCHANGED <<keyVars, ctl, devices, modelVars, drawVars, cancelled, raw, alt, histVars,
                 held>>

Main == EngineEnds \/ Join

\* Model.Decoy with a vendor not seen before.
NewVendor ==
  /\ mpc = "run" /\ rows["crowd"] < MaxRows
  /\ rows' = [rows EXCEPT !["crowd"] = @ + 1]
  /\ UNCHANGED <<keyVars, ctl, devices, mirror, focus, offset, limit, viewport, help,
                 drawVars, mainVars, histVars, held>>

\* LearnControl.setDevices.
Learned ==
  /\ mpc = "run"
  /\ devices' \in 0..MaxRows \ {devices}
  /\ UNCHANGED <<keyVars, ctl, modelVars, drawVars, mainVars, histVars, held>>

Signal ==
  /\ ~cancelled /\ cancelled' = TRUE
  /\ UNCHANGED <<keyVars, ctl, devices, modelVars, drawVars, mpc, raw, alt, histVars,
                 held>>

OpOfKey(k) ==
  LET b == KeyBytes[k] IN IF Len(b) = 1 THEN SingleOp(b[1]) ELSE CSIOp(SubSeq(b, 3, Len(b)))

\* Only with the terminal in raw mode does a key come here byte by byte.
Type(k) ==
  /\ raw /\ typed < MaxKeys /\ typed' = typed + 1
  /\ tty' = tty \o KeyBytes[k]
  /\ owed' = IF OpOfKey(k) = "none" THEN owed ELSE Append(owed, OpOfKey(k))
  /\ UNCHANGED <<kpc, data, carry, forced, flipped, ctl, devices, modelVars, drawVars,
                 mainVars, wrong, gapped, held>>

Environment == NewVendor \/ Learned \/ Signal \/ \E k \in Typed : Type(k)

Next == mpc # "exit" /\ (KeyThread \/ DrawThread \/ Main \/ Environment)

Spec == Init /\ [][Next]_vars

\* The three threads run; the engine ends once cancelled (ShutdownCompletes of
\* Engine); a select with both channels ready takes ctx.Done sooner or later, and a
\* read that finds bytes returns them rather than its deadline, sooner or later.
\* No read is sure to time out.
FairSpec ==
  /\ Spec
  /\ WF_vars(Next /\ KeyThreadRuns) /\ SF_vars(Next /\ Read)
  /\ WF_vars(Next /\ DrawThread) /\ SF_vars(DrawEnds)
  /\ WF_vars(EngineEnds /\ cancelled) /\ WF_vars(Join)
-----------------------------------------------------------------------------
Bytes ==
  {"esc", "[", "a", "s", "d", "5", "6", "~", "space", "j", "g", "G", "tab", "?", "q"}

TypeOK ==
  /\ {tty, data, carry} \subseteq Seq(Bytes)
  /\ kpc \in {"top", "read", "handle", "mirror", "gone"}
  /\ {forced, help, cancelled, raw, alt, wrong, gapped} \subseteq BOOLEAN
  /\ flipped \in SwitchSet \cup {"none"}
  /\ \A s \in SwitchSet : ctl[s] \in 0..Values(s) - 1 /\ mirror[s] \in 0..Values(s) - 1
  /\ devices \in 0..MaxRows /\ focus \in Tables
  /\ {offset, limit, rows} \subseteq [Tables -> 0..MaxRows]
  /\ viewport \in Viewports \cup {0}
  /\ dpc \in {"start", "learned", "read", "write", "bounds", "snapshot", "wait", "gone"}
  /\ next \in 1..Len(Switches) + 1 /\ seen \in 0..2
  /\ mpc \in {"run", "join", "exit"} /\ typed \in 0..MaxKeys

\* The keys typed do what they are bound to, each once and in order, however the
\* terminal splits their bytes over reads; one is misread only if its own bytes
\* came more than the read deadline apart.
KeysUnderstood == wrong => gapped

\* Scrolling matches what is drawn: a frame shows each table from the offset the
\* keys move, although keys, new vendors, a new scan and a new window size change
\* offsets, rows and height while the frame is being prepared.
ScrollMatches == dpc = "snapshot" => \A t \in Tables : DrawnOffset(t) = offset[t]

\* A frame shows each control as it was at some moment since draw began, although
\* the key thread and the draw thread both write the mirrors.
FrameFresh == dpc = "snapshot" => \A s \in SwitchSet : mirror[s] \in held[s]

\* The process does not go on to hand the adapter back and exit with the terminal
\* still in raw mode or on the alternate screen.
TerminalRestored == mpc = "exit" => ~raw /\ ~alt

\* Every key typed is dispatched: a sequence cut by a read is completed by the next,
\* and an ESC that starts none holds nothing up.  Unless the dashboard ends first, or
\* a key's own bytes came more than the read deadline apart.
KeysServed == owed # <<>> ~> owed = <<>> \/ cancelled \/ gapped

\* After q, a signal or an engine that gives up, the terminal is restored and
\* runLoop returns.
DashboardEnds == cancelled \/ mpc = "join" ~> mpc = "exit"
=============================================================================
