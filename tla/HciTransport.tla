---------------------------- MODULE HciTransport ----------------------------
(***************************************************************************)
(* The HCI command transport (Conn.sendCommand and Conn.Scan of            *)
(* internal/hci) under the commands that a cycle, a pause and a learn scan *)
(* send over it.  The controller takes commands in order, each after any   *)
(* delay, may obey or refuse it, and its answer may be lost.  An answer    *)
(* carries the opcode alone: one that comes after the read timeout is left *)
(* for a later command, or for the scan's read loop.                       *)
(***************************************************************************)
EXTENDS Integers, Sequences

CONSTANTS
  MaxCycles,  \* bound: decoys minted
  MaxScans,   \* bound: learn scans
  MaxLag      \* bound: commands unanswered and answers unread when a pause or a scan begins

ASSUME BoundsAssumption == MaxCycles \in Nat /\ MaxScans \in Nat /\ MaxLag \in Nat

VARIABLES
  at,               \* the command being sent or awaited; "top" of the loop, "mode"
                    \* behind its learn branch, "listen" in the scan's read loop
  waiting,          \* sendCommand has written it and reads
  minted, scans,    \* decoys minted, scans begun; the last ones are the current ones
  result,           \* what the iteration's cycle returned
  sent,             \* commands written, not yet taken by the controller
  replies,          \* Command Complete events not yet read
  adv, addr, data,  \* controller: advertising, whose address, whose payload
  scanning,         \* controller
  late,             \* history: commands that returned unanswered, two for more,
                    \* since the transport was in step
  missed,           \* history: the timeouts among them since the cycle, pause or scan began
  doubt             \* history: of what an earlier command's answer was taken for the
                    \* answer, the "decoy" or the "scan"

hostVars  == <<at, waiting, minted, scans, result>>
queueVars == <<sent, replies>>
airVars   == <<adv, addr, data, scanning>>
histVars  == <<late, missed, doubt>>
vars == <<hostVars, queueVars, airVars, histVars>>

CycleCommands == {"off", "addr", "data", "on"}

ScanCommands == {"clear", "params", "start", "stop"}

Commands == CycleCommands \cup ScanCommands \cup {"pause", "quiet"}

\* SetAdvEnable on and off share one opcode, and so do the scan's enables.
Opcode(c) ==
  CASE c \in {"pause", "quiet", "off", "on"} -> "enable"
    [] c \in {"clear", "start", "stop"} -> "scan"
    [] OTHER -> c

Id == 0..(IF MaxCycles > MaxScans THEN MaxCycles ELSE MaxScans)

Command == [cmd : Commands, id : Id]

InStep == sent = <<>> /\ replies = <<>>

Init ==
  /\ at = "top" /\ waiting = FALSE /\ minted = 0 /\ scans = 0 /\ result = "none"
  /\ sent = <<>> /\ replies = <<>>
  /\ adv = FALSE /\ addr = 0 /\ data = 0 /\ scanning = FALSE
  /\ late = 0 /\ missed = 0 /\ doubt = {}
-----------------------------------------------------------------------------
(* The loop, sendCommand and Scan.                                         *)

Begins(c) ==
  /\ at' = c /\ result' = "none" /\ missed' = 0
  /\ UNCHANGED <<waiting, queueVars, airVars, late, doubt>>

Cycle ==
  /\ at \in {"top", "mode"} /\ minted < MaxCycles
  /\ minted' = minted + 1
  /\ Begins("off") /\ UNCHANGED scans

\* MaxLag bounds the model: while it is paused the loop adds to the queue of a
\* controller that answers nothing without end.
Lagging == Len(sent) + Len(replies) > MaxLag

\* The disable of a paused iteration.
Pause ==
  /\ at \in {"top", "mode"} /\ ~Lagging
  /\ Begins("pause") /\ UNCHANGED <<minted, scans>>

\* The learn branch, which disables advertising before it scans.
Learn ==
  /\ at = "top" /\ scans < MaxScans /\ ~Lagging
  /\ scans' = scans + 1
  /\ Begins("quiet") /\ UNCHANGED minted

\* Variant of Goes that goes on after any error.
GoesOn(ok) ==
  /\ waiting' = FALSE
  /\ at' = CASE at = "off" -> "addr" [] at = "addr" -> "data" [] at = "data" -> "on"
             [] at = "quiet" -> "clear" [] at = "clear" -> "params"
             [] at = "params" -> "start" [] at = "start" -> "listen" [] at = "stop" -> "mode"
             [] OTHER -> "top"
  /\ result' = IF at = "on" THEN "ok" ELSE result
  /\ UNCHANGED <<minted, scans>>

\* Variant of Goes whose scan goes on when its enable fails.
GoesOnScanning(ok) ==
  /\ waiting' = FALSE
  /\ at' = CASE at = "off" -> "addr"
             [] at = "addr" /\ ok -> "data"
             [] at = "data" /\ ok -> "on"
             [] at = "quiet" -> "clear"
             [] at = "clear" -> "params"
             [] at = "params" /\ ok -> "start"
             [] at = "start" -> "listen"
             [] at = "stop" \/ (at = "params" /\ ~ok) -> "mode"
             [] OTHER -> "top"
  /\ result' = CASE at \in {"addr", "data"} /\ ~ok -> "failed"
                 [] at = "on" -> IF ok THEN "ok" ELSE "failed"
                 [] OTHER -> result
  /\ UNCHANGED <<minted, scans>>

\* The command has returned: the disables and the clearing of a lingering scan are
\* best effort, any other error ends the cycle or the scan.
Goes(ok) ==
  /\ waiting' = FALSE
  /\ at' = CASE at = "off" -> "addr"
             [] at = "addr" /\ ok -> "data"
             [] at = "data" /\ ok -> "on"
             [] at = "quiet" -> "clear"
             [] at = "clear" -> "params"
             [] at = "params" /\ ok -> "start"
             [] at = "start" /\ ok -> "listen"
             [] at = "stop" \/ (at \in {"params", "start"} /\ ~ok) -> "mode"
             [] OTHER -> "top"
  /\ result' = CASE at \in {"addr", "data"} /\ ~ok -> "failed"
                 [] at = "on" -> IF ok THEN "ok" ELSE "failed"
                 [] OTHER -> result
  /\ UNCHANGED <<minted, scans>>

Writes == at \in Commands /\ ~waiting

Write ==
  /\ Writes
  /\ waiting' = TRUE
  /\ sent' = Append(sent, [cmd |-> at, id |-> IF at \in ScanCommands THEN scans ELSE minted])
  /\ late' = IF InStep THEN 0 ELSE late
  /\ UNCHANGED <<at, minted, scans, result, replies, airVars, missed, doubt>>

Unanswered == late' = IF late < 2 THEN late + 1 ELSE 2

WriteFails ==
  /\ Writes
  /\ Goes(FALSE) /\ Unanswered
  /\ UNCHANGED <<queueVars, airVars, missed, doubt>>

\* r answers the command awaited, and none is left behind it.
Own(r) ==
  /\ r.cmd = at /\ r.id = (IF at \in ScanCommands THEN scans ELSE minted)
  /\ sent = <<>> /\ Tail(replies) = <<>>

Subject == IF at \in CycleCommands THEN "decoy" ELSE "scan"

\* The answers to a best-effort command are not looked at.
Doubt(r) ==
  CASE at \notin {"addr", "data", "on", "params", "start"} -> doubt
    [] at \in {"addr", "data", "on", "params", "start"} /\ ~Own(r) -> doubt \cup {Subject}
    [] at \in {"addr", "params"} /\ Own(r) /\ r.ok -> doubt \ {Subject}
    [] OTHER -> doubt

\* Variant of Match that takes any Command Complete for its answer.
MatchAny ==
  /\ waiting /\ replies # <<>>
  /\ replies' = Tail(replies)
  /\ Goes(Head(replies).ok)
  /\ doubt' = Doubt(Head(replies))
  /\ UNCHANGED <<sent, airVars, late, missed>>

\* A Command Complete for the opcode awaited, whichever command it answers.
Match ==
  /\ waiting /\ replies # <<>>
  /\ Opcode(Head(replies).cmd) = Opcode(at)
  /\ replies' = Tail(replies)
  /\ Goes(Head(replies).ok)
  /\ doubt' = Doubt(Head(replies))
  /\ UNCHANGED <<sent, airVars, late, missed>>

\* Any other is read and dropped.
Skip ==
  /\ waiting /\ replies # <<>>
  /\ Opcode(Head(replies).cmd) # Opcode(at)
  /\ replies' = Tail(replies)
  /\ UNCHANGED <<at, waiting, minted, scans, result, sent, airVars, histVars>>

GivenUp == Unanswered /\ missed' = missed + 1 /\ UNCHANGED doubt

\* Variant of Timeout that reads on, as Scan's loop does.
TimeoutReadsOn ==
  /\ waiting /\ replies = <<>>
  /\ UNCHANGED vars

\* SO_RCVTIMEO passes without an event.
Timeout ==
  /\ waiting /\ replies = <<>>
  /\ Goes(FALSE) /\ GivenUp
  /\ UNCHANGED <<queueVars, airVars>>

\* The deadline, looked at before each read: other events and interrupted reads, which
\* start the receive timeout anew, may carry the loop past it.
Deadline ==
  /\ waiting
  /\ Goes(FALSE) /\ GivenUp
  /\ UNCHANGED <<queueVars, airVars>>

\* Scan's read loop: whatever is no advertising report is dropped, a late answer too.
Listen ==
  /\ at = "listen" /\ replies # <<>>
  /\ replies' = Tail(replies)
  /\ UNCHANGED <<hostVars, sent, airVars, histVars>>

\* The window has passed, or a read failed; the deferred disable follows.
ListenEnds ==
  /\ at = "listen"
  /\ at' = "stop"
  /\ UNCHANGED <<waiting, minted, scans, result, queueVars, airVars, histVars>>

Host ==
  \/ Cycle \/ Pause \/ Learn
  \/ Write \/ WriteFails \/ Match \/ Skip \/ Timeout \/ Deadline
  \/ Listen \/ ListenEnds
-----------------------------------------------------------------------------
(* The controller.                                                         *)

Legal(c) ==
  /\ c.cmd = "addr" => ~adv
  /\ c.cmd = "params" => ~scanning

Obey(c) ==
  /\ adv' = CASE c.cmd = "on" -> TRUE [] c.cmd \in {"off", "pause", "quiet"} -> FALSE
              [] OTHER -> adv
  /\ addr' = IF c.cmd = "addr" THEN c.id ELSE addr
  /\ data' = IF c.cmd = "data" THEN c.id ELSE data
  /\ scanning' = CASE c.cmd = "start" -> TRUE [] c.cmd \in {"clear", "stop"} -> FALSE
                   [] OTHER -> scanning

Execute ==
  /\ sent # <<>>
  /\ sent' = Tail(sent)
  /\ \E ok, answered \in BOOLEAN :
       /\ ok => Legal(Head(sent))
       /\ IF ok THEN Obey(Head(sent)) ELSE UNCHANGED airVars
       /\ replies' = IF answered
                       THEN Append(replies, [cmd |-> Head(sent).cmd, id |-> Head(sent).id,
                                             ok |-> ok])
                       ELSE replies
  /\ UNCHANGED <<hostVars, histVars>>

Next == Host \/ Execute

Spec == Init /\ [][Next]_vars

\* The program runs: a write, a read, a passed deadline and the scan's window end.
\* Nothing is assumed of the controller.
FairSpec ==
  /\ Spec
  /\ WF_vars(Write \/ WriteFails)
  /\ WF_vars(Match \/ Skip \/ Timeout)
  /\ WF_vars(ListenEnds)
-----------------------------------------------------------------------------
TypeOK ==
  /\ at \in Commands \cup {"top", "mode", "listen"} /\ waiting \in BOOLEAN
  /\ minted \in 0..MaxCycles /\ scans \in 0..MaxScans /\ result \in {"none", "ok", "failed"}
  /\ sent \in Seq(Command)
  /\ replies \in Seq([cmd : Commands, id : Id, ok : BOOLEAN])
  /\ adv \in BOOLEAN /\ addr \in 0..MaxCycles /\ data \in 0..MaxCycles /\ scanning \in BOOLEAN
  /\ late \in 0..2 /\ missed \in 0..3 /\ doubt \in SUBSET {"decoy", "scan"}

\* What is on the air is one decoy, its address with its payload, however late,
\* refused, lost or unanswered the commands are, unless an earlier command's answer
\* was taken for a later one's.
OnAirCoherent == adv /\ "decoy" \notin doubt => addr = data

\* A decoy that cycle reports as minted is the one on the air, with the same caveat.
ReportedIsOnAir ==
  at = "top" /\ result = "ok" /\ "decoy" \notin doubt => adv /\ addr = minted /\ data = minted

\* A scan listens only to a controller that scans, with the caveat of its own: a
\* learn that returns nothing heard nothing.
ListenedIsScanning == at = "listen" /\ "scan" \notin doubt => scanning

\* How remote the caveats are: one late answer is always skipped or harmless.  Only
\* when two commands have returned unanswered before the transport was in step again
\* can an answer be taken for that of a later address, payload, enable or scan.
OneLateHarmless == [][doubt' \ doubt # {} => late >= 2]_vars

\* A controller that answers nothing stalls a cycle for two timeouts at most, behind
\* its best-effort disable, and a learn scan, with three best-effort commands, for three.
StallBounded == missed <= IF at \in CycleCommands \cup {"top", "pause"} THEN 2 ELSE 3

\* A cycle, a pause and a scan end even with a controller that answers nothing.
IterationEnds == at \notin {"top", "mode"} ~> at \in {"top", "mode"}
=============================================================================
