------------------------- MODULE HciTransportProofs -------------------------
(***************************************************************************)
(* Proofs about HciTransport, for any number of decoys, scans and pauses,  *)
(* any backlog of commands and answers, and every controller.              *)
(***************************************************************************)
EXTENDS HciTransport, SequenceTheorems, TLAPS

Reply == [cmd : Commands, id : Id, ok : BOOLEAN]

\* The commands whose answer the code looks at.
Checked == {"addr", "data", "on", "params", "start"}

\* c is, or answers, the command being sent or awaited.
Mine(c) == c.cmd = at /\ c.id = (IF at \in ScanCommands THEN scans ELSE minted)

\* The address command of the current cycle is the last one sent, there is but
\* one, and once it has been executed a good answer to it tells what the
\* controller holds.
IsAddr(c) == c.cmd = "addr" /\ c.id = minted

AddrIds == \A i \in 1..Len(replies) : replies[i].cmd = "addr" => replies[i].id <= minted

AddrUnsent ==
  at = "off" \/ (at = "addr" /\ ~waiting) =>
    /\ \A i \in 1..Len(sent) : ~IsAddr(sent[i])
    /\ \A i \in 1..Len(replies) : ~IsAddr(replies[i])

AddrSent ==
  at = "addr" /\ waiting /\ sent # <<>> =>
    /\ \A i \in 1..Len(sent) : i < Len(sent) => ~IsAddr(sent[i])
    /\ IsAddr(sent[Len(sent)])
    /\ \A i \in 1..Len(replies) : ~IsAddr(replies[i])

AddrTaken ==
  at = "addr" /\ waiting /\ sent = <<>> =>
    \A i \in 1..Len(replies) : IsAddr(replies[i]) /\ replies[i].ok => ~adv /\ addr = minted

AddrOnce == AddrIds /\ AddrUnsent /\ AddrSent /\ AddrTaken

\* What the command awaited does when it is obeyed.
Effect ==
  CASE at = "data" -> data = minted
    [] at = "on" -> adv
    [] at = "start" -> scanning

\* Nothing but the current command is under way.
Alone ==
  /\ ~waiting => InStep
  /\ waiting =>
       \/ replies = <<>> /\ Len(sent) = 1 /\ Mine(sent[1])
       \/ sent = <<>> /\ replies = <<>>
       \/ sent = <<>> /\ Len(replies) = 1 /\ Mine(replies[1]) /\ (replies[1].ok => Effect)

\* Without doubt, a payload or an enable was written with the transport in step, behind
\* a confirmed address: whatever is left unanswered of it can only come first.
Leftover ==
  \A i \in 1..Len(sent) :
    /\ sent[i].cmd = "data" => i = 1 /\ ~adv
    /\ sent[i].cmd = "on" => i = 1 /\ addr = data

Points ==
  /\ at = "data" => Alone /\ ~adv /\ addr = minted
  /\ at = "on" => Alone /\ addr = minted /\ data = minted
  /\ result = "ok" => InStep /\ adv /\ addr = minted /\ data = minted

DecoySteps == "decoy" \notin doubt => (adv => addr = data) /\ Leftover /\ Points

ScanSteps ==
  "scan" \notin doubt =>
    /\ at = "start" => Alone
    /\ at = "listen" => InStep /\ scanning

\* The timeouts used up by each point.
Stalls ==
  missed <= CASE at \in {"off", "pause", "quiet"} -> 0
              [] at \in {"addr", "data", "on", "clear"} -> 1
              [] at \in {"top", "params", "start", "listen", "stop"} -> 2
              [] at = "mode" -> 3

\* With one late command at most one older command is queued, and it has another
\* opcode whenever the answer of the current one is looked at.
Backlog == Len(sent) + Len(replies) <= IF waiting THEN late + 1 ELSE late

Current ==
  waiting =>
    /\ \A i \in 1..Len(replies) : i > 1 \/ late = 0 => Mine(replies[i])
    /\ \A i \in 1..Len(sent) : i > 1 \/ replies # <<>> \/ late = 0 => Mine(sent[i])

Distinct ==
  at \in Checked =>
    /\ \A i \in 1..Len(replies) : Opcode(replies[i].cmd) = Opcode(at) =>
         waiting /\ sent = <<>> /\ i = Len(replies) /\ Mine(replies[i])
    /\ \A i \in 1..Len(sent) : Opcode(sent[i].cmd) = Opcode(at) =>
         waiting /\ i = Len(sent) /\ Mine(sent[i])

OneOlder == late <= 1 => Backlog /\ Current /\ Distinct

\* Only the end of a cycle has a result, and no decoy is sent before it is minted.
Results ==
  /\ result # "none" => at = "top"
  /\ waiting => at \in Commands
  /\ \A i \in 1..Len(sent) : sent[i].cmd \in CycleCommands => sent[i].id <= minted

IInv ==
  TypeOK /\ Results /\ AddrOnce /\ DecoySteps /\ ScanSteps /\ Stalls /\ OneOlder

USE DEF hostVars, queueVars, airVars, histVars, vars
-----------------------------------------------------------------------------
(* Queues.                                                                 *)

\* What Tail takes from a queue that holds something.
LEMMA TailFacts ==
  ASSUME NEW S, NEW s \in Seq(S), s # <<>>
  PROVE  /\ Len(s) \in Nat /\ Len(s) > 0
         /\ Head(s) = s[1] /\ Head(s) \in S
         /\ Tail(s) \in Seq(S) /\ Len(Tail(s)) = Len(s) - 1
         /\ \A i \in 1..Len(Tail(s)) : i + 1 \in 1..Len(s) /\ Tail(s)[i] = s[i + 1]
         /\ Tail(s) = <<>> <=> Len(s) = 1
<1>1. Len(s) \in Nat /\ Len(s) > 0
  BY EmptySeq, LenProperties
<1>2. Head(s) = s[1]
  OBVIOUS
<1>3. /\ Head(s) \in S /\ Tail(s) \in Seq(S) /\ Len(Tail(s)) = Len(s) - 1
      /\ \A i \in 1..Len(Tail(s)) : Tail(s)[i] = s[i + 1]
  BY HeadTailProperties
<1>4. \A i \in 1..Len(Tail(s)) : i + 1 \in 1..Len(s)
  BY <1>1, <1>3
<1>5. Tail(s) = <<>> <=> Len(Tail(s)) = 0
  BY <1>3, EmptySeq
<1> QED BY <1>1, <1>2, <1>3, <1>4, <1>5

-----------------------------------------------------------------------------
(* Every step keeps the types.                                             *)

\* A command returns to a place of the loop, with a result of the cycle.
LEMMA GoesType ==
  ASSUME TypeOK, NEW ok \in BOOLEAN, Goes(ok)
  PROVE  /\ at' \in Commands \cup {"top", "mode", "listen"}
         /\ waiting' = FALSE /\ result' \in {"none", "ok", "failed"}
         /\ minted' = minted /\ scans' = scans
<1>1. at' \in Commands \cup {"top", "mode", "listen"}
  BY DEF TypeOK, Goes, Commands, CycleCommands, ScanCommands
<1>2. result' \in {"none", "ok", "failed"}
  BY DEF TypeOK, Goes
<1> QED BY <1>1, <1>2 DEF Goes

\* What the host sends is a command, and the current one.
LEMMA WriteType ==
  ASSUME TypeOK, Write
  PROVE  LET c == [cmd |-> at, id |-> IF at \in ScanCommands THEN scans ELSE minted]
         IN  /\ c \in Command /\ sent' = Append(sent, c)
             /\ sent' \in Seq(Command) /\ Len(sent') = Len(sent) + 1
             /\ Len(sent) \in Nat
             /\ \A i \in 1..Len(sent) : sent'[i] = sent[i]
             /\ sent'[Len(sent')] = c
<1> DEFINE c == [cmd |-> at, id |-> IF at \in ScanCommands THEN scans ELSE minted]
<1>1. minted \in Id /\ scans \in Id
  BY BoundsAssumption DEF TypeOK, Id
<1>2. at \in Commands
  BY DEF Write, Writes
<1>3. c \in Command
  BY <1>1, <1>2 DEF Command
<1>4. sent \in Seq(Command) /\ sent' = Append(sent, c)
  BY DEF TypeOK, Write
<1> HIDE DEF c
<1>5. /\ Append(sent, c) \in Seq(Command)
      /\ Len(Append(sent, c)) = Len(sent) + 1
      /\ \A i \in 1..Len(sent) : Append(sent, c)[i] = sent[i]
      /\ Append(sent, c)[Len(sent) + 1] = c
      /\ Len(sent) \in Nat
  BY <1>3, <1>4, AppendProperties, LenProperties
<1>6. c \in Command /\ sent' = Append(sent, c) /\ sent' \in Seq(Command)
      /\ Len(sent') = Len(sent) + 1 /\ Len(sent) \in Nat
      /\ (\A i \in 1..Len(sent) : sent'[i] = sent[i]) /\ sent'[Len(sent')] = c
  BY <1>3, <1>4, <1>5
<1> QED BY <1>6 DEF c

\* What the host reads is an answer, and the rest of the queue moves up.
LEMMA ReadType ==
  ASSUME TypeOK, replies # <<>>, replies' = Tail(replies)
  PROVE  /\ replies[1] \in Reply /\ Head(replies) = replies[1]
         /\ replies' \in Seq(Reply)
         /\ Len(replies) \in Nat /\ Len(replies) > 0 /\ Len(replies') = Len(replies) - 1
         /\ \A i \in 1..Len(replies') : i + 1 \in 1..Len(replies) /\ replies'[i] = replies[i + 1]
         /\ replies' = <<>> <=> Len(replies) = 1
<1>1. replies \in Seq(Reply)
  BY DEF TypeOK, Reply
<1> QED BY <1>1, TailFacts

\* The controller takes the first command; of an answer it says which command it is to.
LEMMA ExecuteType ==
  ASSUME TypeOK, Execute
  PROVE  LET c == sent[1]
         IN  /\ c \in Command /\ Head(sent) = c /\ sent' \in Seq(Command)
             /\ Len(sent) \in Nat /\ Len(sent) > 0 /\ Len(sent') = Len(sent) - 1
             /\ \A i \in 1..Len(sent') : i + 1 \in 1..Len(sent) /\ sent'[i] = sent[i + 1]
             /\ sent' = <<>> <=> Len(sent) = 1
             /\ Len(replies) \in Nat /\ replies' \in Seq(Reply)
             /\ \A i \in 1..Len(replies) : i \in 1..Len(replies') /\ replies'[i] = replies[i]
             /\ UNCHANGED <<hostVars, histVars>>
             /\ \E ok \in BOOLEAN :
                  /\ ok => Legal(c) /\ Obey(c)
                  /\ ~ok => UNCHANGED airVars
                  /\ \/ replies' = replies
                     \/ /\ Len(replies') = Len(replies) + 1
                        /\ replies'[Len(replies')].cmd = c.cmd
                        /\ replies'[Len(replies')].id = c.id
                        /\ replies'[Len(replies')].ok = ok
<1> DEFINE c == sent[1]
<1>1. sent \in Seq(Command) /\ sent # <<>> /\ sent' = Tail(sent)
  BY DEF TypeOK, Execute
<1>2. /\ Head(sent) = sent[1] /\ sent[1] \in Command /\ sent' \in Seq(Command)
      /\ Len(sent) \in Nat /\ Len(sent) > 0 /\ Len(sent') = Len(sent) - 1
      /\ \A i \in 1..Len(sent') : i + 1 \in 1..Len(sent) /\ sent'[i] = sent[i + 1]
      /\ sent' = <<>> <=> Len(sent) = 1
  BY <1>1, TailFacts
<1>3. PICK ok \in BOOLEAN, answered \in BOOLEAN :
        /\ ok => Legal(c)
        /\ IF ok THEN Obey(c) ELSE UNCHANGED airVars
        /\ replies' = IF answered
                        THEN Append(replies, [cmd |-> c.cmd, id |-> c.id, ok |-> ok])
                        ELSE replies
  BY <1>2 DEF Execute
<1> DEFINE r == [cmd |-> c.cmd, id |-> c.id, ok |-> ok]
<1>4. r \in Reply /\ replies \in Seq(Reply)
  BY <1>2 DEF Reply, Command, TypeOK
<1>5. Len(replies) \in Nat
  BY <1>4, LenProperties
<1>6. /\ replies' \in Seq(Reply)
      /\ \A i \in 1..Len(replies) : i \in 1..Len(replies') /\ replies'[i] = replies[i]
      /\ \/ replies' = replies
         \/ Len(replies') = Len(replies) + 1 /\ replies'[Len(replies')] = r
  <2> HIDE DEF r
  <2>1. CASE answered
    <3>1. replies' = Append(replies, r)
      BY <1>3, <2>1 DEF r
    <3>2. /\ Append(replies, r) \in Seq(Reply)
          /\ Len(Append(replies, r)) = Len(replies) + 1
          /\ \A i \in 1..Len(replies) : Append(replies, r)[i] = replies[i]
          /\ Append(replies, r)[Len(replies) + 1] = r
      BY <1>4, AppendProperties
    <3> QED BY <3>1, <3>2, <1>5
  <2>2. CASE ~answered
    BY <1>3, <1>4, <2>2
  <2> QED BY <2>1, <2>2
<1>7. r.cmd = c.cmd /\ r.id = c.id /\ r.ok = ok
  OBVIOUS
<1> HIDE DEF r
<1>8. \/ replies' = replies
      \/ /\ Len(replies') = Len(replies) + 1
         /\ replies'[Len(replies')].cmd = c.cmd
         /\ replies'[Len(replies')].id = c.id
         /\ replies'[Len(replies')].ok = ok
  BY <1>6, <1>7
<1>9. UNCHANGED <<hostVars, histVars>>
  BY DEF Execute
<1> QED BY <1>2, <1>3, <1>5, <1>6, <1>8, <1>9

\* The code's commands follow one another, the checked ones only upon a good answer.
LEMMA GoesNext ==
  ASSUME TypeOK, Results, NEW ok \in BOOLEAN, Goes(ok), at \in Commands
  PROVE  /\ at' \notin {"off", "pause", "quiet"}
         /\ at' = "addr" => at = "off"
         /\ at' = "data" => at = "addr" /\ ok
         /\ at' = "on" => at = "data" /\ ok
         /\ at' = "clear" => at = "quiet"
         /\ at' = "params" => at = "clear"
         /\ at' = "start" => at = "params" /\ ok
         /\ at' = "listen" => at = "start" /\ ok
         /\ at' = "mode" => at \in {"params", "start", "stop"}
         /\ at' # "stop"
         /\ at' = "top" => at \in {"addr", "data", "on", "pause"}
         /\ result' = "ok" => at = "on" /\ ok /\ at' = "top"
         /\ result' # "none" => at' = "top"
<1>1. result = "none"
  BY DEF Results, Commands, CycleCommands, ScanCommands
<1>2. at \in {"off", "addr", "data", "on", "clear", "params", "start", "stop", "pause", "quiet"}
  BY DEF Commands, CycleCommands, ScanCommands
<1> QED BY <1>1, <1>2 DEF Goes

\* Which part of a step is whose.
LEMMA HostSteps ==
  ASSUME TypeOK, Results, Host \/ UNCHANGED vars
  PROVE  /\ UNCHANGED airVars
         /\ \/ replies' = replies
            \/ replies # <<>> /\ replies' = Tail(replies) /\ sent' = sent
         /\ sent' = sent \/ Write
         /\ minted' = minted \/ Cycle
         /\ scans' = scans \/ Learn
<1>1. CASE Cycle \/ Pause \/ Learn \/ UNCHANGED vars
  BY <1>1 DEF Cycle, Pause, Learn, Begins
<1>2. CASE Write
  BY <1>2 DEF Write
<1>3. CASE WriteFails \/ Timeout \/ Deadline
  BY <1>3 DEF WriteFails, Timeout, Deadline, Goes
<1>4. CASE Match \/ Skip \/ Listen \/ ListenEnds
  BY <1>4 DEF Match, Skip, Listen, ListenEnds, Goes
<1> QED BY <1>1, <1>2, <1>3, <1>4 DEF Host

\* The step types, with the bounds of the history.
LEMMA TypeStep ==
  ASSUME TypeOK, Results, Stalls, [Next]_vars
  PROVE  TypeOK'
<1>1. CASE Host \/ UNCHANGED vars
  <2>1. sent' \in Seq(Command)
    BY <1>1, HostSteps, WriteType DEF TypeOK
  <2>2. replies' \in Seq(Reply)
    BY <1>1, HostSteps, ReadType DEF TypeOK, Reply
  <2>3. /\ adv' \in BOOLEAN /\ addr' \in 0..MaxCycles /\ data' \in 0..MaxCycles
        /\ scanning' \in BOOLEAN
    BY <1>1, HostSteps DEF TypeOK
  <2>4. /\ at' \in Commands \cup {"top", "mode", "listen"} /\ waiting' \in BOOLEAN
        /\ minted' \in 0..MaxCycles /\ scans' \in 0..MaxScans
        /\ result' \in {"none", "ok", "failed"}
    <3>1. CASE Cycle \/ Pause \/ Learn
      BY <3>1, BoundsAssumption
         DEF TypeOK, Cycle, Pause, Learn, Begins, Commands, CycleCommands
    <3>2. CASE WriteFails \/ Timeout \/ Deadline
      BY <3>2, GoesType DEF TypeOK, WriteFails, Timeout, Deadline
    <3>3. CASE Match
      <4>1. Head(replies).ok \in BOOLEAN /\ Goes(Head(replies).ok)
        BY <3>3, ReadType DEF Match, Reply
      <4> QED BY <4>1, GoesType DEF TypeOK
    <3>4. CASE Write \/ Skip \/ Listen \/ UNCHANGED vars
      BY <3>4 DEF TypeOK, Write, Skip, Listen
    <3>5. CASE ListenEnds
      BY <3>5 DEF TypeOK, ListenEnds, Commands, ScanCommands
    <3> QED BY <1>1, <3>1, <3>2, <3>3, <3>4, <3>5 DEF Host
  <2>5. late' \in 0..2 /\ missed' \in 0..3
    <3>1. CASE Cycle \/ Pause \/ Learn \/ Write
      BY <3>1 DEF TypeOK, Cycle, Pause, Learn, Begins, Write
    <3>2. CASE WriteFails
      BY <3>2 DEF TypeOK, WriteFails, Unanswered
    <3>3. CASE Timeout \/ Deadline
      <4>1. waiting /\ missed' = missed + 1 /\ Unanswered
        BY <3>3 DEF Timeout, Deadline, GivenUp
      <4>3. late' \in 0..2
        BY <4>1 DEF TypeOK, Unanswered
      <4>2. missed \in 0..3 /\ missed <= 2
        BY <4>1 DEF Results, Stalls, TypeOK, Commands, CycleCommands, ScanCommands
      <4> QED BY <4>1, <4>2, <4>3
    <3>4. CASE Match \/ Skip \/ Listen \/ ListenEnds \/ UNCHANGED vars
      BY <3>4 DEF TypeOK, Match, Skip, Listen, ListenEnds
    <3> QED BY <1>1, <3>1, <3>2, <3>3, <3>4 DEF Host
  <2>6. doubt' \in SUBSET {"decoy", "scan"}
    <3>1. doubt' = doubt \/ doubt' = Doubt(Head(replies))
      BY <1>1 DEF Host, Cycle, Pause, Learn, Begins, Write, WriteFails, Match, Skip, Timeout,
                  Deadline, GivenUp, Listen, ListenEnds
    <3>2. \/ doubt' = doubt
          \/ \E x \in {"decoy", "scan"} : doubt' = doubt \cup {x} \/ doubt' = doubt \ {x}
      BY <3>1 DEF Doubt, Subject
    <3> QED BY <3>2 DEF TypeOK
  <2> QED BY <2>1, <2>2, <2>3, <2>4, <2>5, <2>6 DEF TypeOK, Reply
<1>2. CASE Execute
  <2>1. UNCHANGED <<hostVars, histVars>> /\ sent' \in Seq(Command) /\ replies' \in Seq(Reply)
    BY <1>2, ExecuteType
  <2>2. /\ adv' \in BOOLEAN /\ addr' \in 0..MaxCycles /\ data' \in 0..MaxCycles
        /\ scanning' \in BOOLEAN
    <3>1. sent[1] \in Command /\ 1 \in 1..Len(sent)
      BY <1>2, ExecuteType
    <3>2. Obey(sent[1]) \/ UNCHANGED airVars
      BY <1>2, ExecuteType
    <3>3. sent[1].id \in Nat
      BY <3>1, BoundsAssumption DEF Command, Id
    <3>4. sent[1].cmd \in {"addr", "data"} => sent[1].id \in 0..MaxCycles
      BY <3>1, <3>3, BoundsAssumption DEF Results, TypeOK, CycleCommands
    <3> QED BY <3>2, <3>4 DEF Obey, TypeOK
  <2> QED BY <2>1, <2>2 DEF TypeOK, Reply
<1> QED BY <1>1, <1>2 DEF Next

\* Only the end of a cycle has a result, and no decoy is sent before it is minted.
LEMMA ResultsStep ==
  ASSUME TypeOK, Results, [Next]_vars
  PROVE  Results'
<1>1. CASE Host \/ UNCHANGED vars
  <2>1. (result' # "none" => at' = "top") /\ (waiting' => at' \in Commands)
    <3>1. CASE Cycle \/ Pause \/ Learn
      BY <3>1 DEF Results, TypeOK, Cycle, Pause, Learn, Begins, Commands, CycleCommands
    <3>2. CASE WriteFails \/ Timeout \/ Deadline
      <4>1. Goes(FALSE) /\ at \in Commands
        BY <3>2 DEF WriteFails, Writes, Timeout, Deadline, Results
      <4> QED BY <4>1, GoesNext DEF Goes
    <3>3. CASE Match
      <4>1. Head(replies).ok \in BOOLEAN /\ Goes(Head(replies).ok) /\ at \in Commands
        BY <3>3, ReadType DEF Match, Reply, Results
      <4> QED BY <4>1, GoesNext DEF Goes
    <3>4. CASE Write \/ Skip \/ Listen \/ UNCHANGED vars
      BY <3>4 DEF Results, Write, Writes, Skip, Listen
    <3>5. CASE ListenEnds
      BY <3>5 DEF Results, ListenEnds, Commands, ScanCommands, CycleCommands
    <3> QED BY <1>1, <3>1, <3>2, <3>3, <3>4, <3>5 DEF Host
  <2>2. \A i \in 1..Len(sent') : sent'[i].cmd \in CycleCommands => sent'[i].id <= minted'
    <3>1. minted \in Nat /\ minted' \in Nat /\ minted <= minted'
      BY <1>1, HostSteps DEF TypeOK, Cycle
    <3>2. CASE Write
      <4>1. minted' = minted /\ CycleCommands \cap ScanCommands = {}
        BY <3>2 DEF Write, CycleCommands, ScanCommands
      <4> QED BY <3>1, <3>2, <4>1, WriteType DEF Results
    <3>3. CASE sent' = sent
      <4>1. \A i \in 1..Len(sent) : sent[i] \in Command
        BY ElementOfSeq DEF TypeOK
      <4>2. \A c \in Command : c.id \in Int
        BY BoundsAssumption DEF Command, Id
      <4> QED BY <3>1, <3>3, <4>1, <4>2 DEF Results
    <3> QED BY <1>1, <3>2, <3>3, HostSteps
  <2> QED BY <2>1, <2>2 DEF Results
<1>2. CASE Execute
  BY <1>2, ExecuteType DEF Results
<1> QED BY <1>1, <1>2 DEF Next
-----------------------------------------------------------------------------
(* How long a dead controller stalls the loop, and what is queued then.    *)

\* No step goes over the timeouts of its point of the loop.
LEMMA StallsStep ==
  ASSUME TypeOK, Results, Stalls, [Next]_vars
  PROVE  Stalls'
<1>1. CASE Cycle \/ Pause \/ Learn
  BY <1>1 DEF Stalls, Cycle, Pause, Learn, Begins
<1>2. CASE WriteFails
  <2>1. Goes(FALSE) /\ at \in Commands /\ missed' = missed
    BY <1>2 DEF WriteFails, Writes
  <2>2. missed \in Nat
    BY DEF TypeOK
  <2> QED BY <2>1, <2>2 DEF Goes, Stalls, Commands, CycleCommands, ScanCommands
<1>3. CASE Timeout \/ Deadline
  <2>1. Goes(FALSE) /\ at \in Commands /\ missed' = missed + 1
    BY <1>3 DEF Timeout, Deadline, GivenUp, Results
  <2>2. missed \in Nat
    BY DEF TypeOK
  <2> QED BY <2>1, <2>2 DEF Goes, Stalls, Commands, CycleCommands, ScanCommands
<1>4. CASE Match
  <2>1. PICK ok \in BOOLEAN : Goes(ok)
    BY <1>4, ReadType DEF Match, Reply
  <2>2. at \in Commands /\ missed' = missed /\ missed \in Nat
    BY <1>4 DEF Match, Results, TypeOK
  <2> QED BY <2>1, <2>2 DEF Goes, Stalls, Commands, CycleCommands, ScanCommands
<1>5. CASE Write \/ Skip \/ Listen \/ Execute \/ UNCHANGED vars
  BY <1>5 DEF Stalls, Write, Skip, Listen, Execute
<1>6. CASE ListenEnds
  BY <1>6 DEF Stalls, ListenEnds
<1> QED BY <1>1, <1>2, <1>3, <1>4, <1>5, <1>6 DEF Next, Host

\* After a command that is given up, or a best-effort one that is answered, what is
\* queued of it has another opcode than the next command whose answer counts.
LEMMA OtherOpcode ==
  ASSUME TypeOK, Results, NEW ok \in BOOLEAN, Goes(ok), at \in Commands,
         ~ok \/ at \notin Checked, at' \in Checked
  PROVE  Opcode(at) # Opcode(at')
<1>1. (at = "off" /\ at' = "addr") \/ (at = "clear" /\ at' = "params")
  BY GoesNext DEF Checked
<1> QED BY <1>1 DEF Opcode

\* One late command is never followed by a second older one of the same opcode.
LEMMA OneOlderStep ==
  ASSUME TypeOK, Results, OneOlder, [Next]_vars
  PROVE  OneOlder'
<1> SUFFICES ASSUME late' <= 1
             PROVE  Backlog' /\ Current' /\ Distinct'
  BY DEF OneOlder
<1>l. /\ sent \in Seq(Command) /\ replies \in Seq(Reply)
      /\ Len(sent) \in Nat /\ Len(replies) \in Nat /\ late \in 0..2
      /\ sent = <<>> <=> Len(sent) = 0
      /\ replies = <<>> <=> Len(replies) = 0
      /\ waiting \in BOOLEAN
  BY EmptySeq, LenProperties DEF TypeOK, Reply
<1>1. CASE Cycle \/ Pause \/ Learn
  <2>1. /\ late' = late /\ sent' = sent /\ replies' = replies
        /\ waiting' = FALSE /\ waiting = FALSE /\ at' \notin Checked
    BY <1>1 DEF Cycle, Pause, Learn, Begins, Results, TypeOK, Checked,
                Commands, CycleCommands, ScanCommands
  <2>2. Backlog
    BY <1>l, <2>1 DEF OneOlder
  <2> QED BY <2>1, <2>2 DEF Backlog, Current, Distinct
<1>2. CASE Write
  <2>1. /\ waiting = FALSE /\ waiting' = TRUE /\ at \in Commands
        /\ at' = at /\ minted' = minted /\ scans' = scans /\ replies' = replies
        /\ late' = IF InStep THEN 0 ELSE late
    BY <1>l, <1>2 DEF Write, Writes
  <2>2. /\ Len(sent') = Len(sent) + 1 /\ \A i \in 1..Len(sent) : sent'[i] = sent[i]
        /\ Mine(sent[Len(sent)])'
    BY <1>2, <2>1, WriteType DEF Mine
  <2>3. /\ Len(sent) + Len(replies) <= late'
        /\ at \in Checked =>
             /\ \A i \in 1..Len(replies) : Opcode(replies[i].cmd) # Opcode(at)
             /\ \A i \in 1..Len(sent) : Opcode(sent[i].cmd) # Opcode(at)
    <3>1. CASE InStep
      BY <1>l, <2>1, <3>1 DEF InStep
    <3>2. CASE ~InStep
      <4>1. late' = late /\ Backlog /\ Distinct
        BY <2>1, <3>2 DEF OneOlder
      <4> QED BY <2>1, <4>1 DEF Backlog, Distinct
    <3> QED BY <3>1, <3>2
  <2>4. Backlog'
    BY <1>l, <2>1, <2>2, <2>3 DEF Backlog
  <2>5. Current'
    <3>1. Len(replies') <= 1 /\ (late' = 0 => Len(replies') = 0)
      BY <1>l, <2>1, <2>3
    <3>2. \A i \in 1..Len(sent') : i > 1 \/ replies' # <<>> \/ late' = 0 => i = Len(sent')
      BY <1>l, <2>1, <2>2, <2>3
    <3>3. \A i \in 1..Len(sent') : i > 1 \/ replies' # <<>> \/ late' = 0 => Mine(sent[i])'
      BY <2>2, <3>2
    <3>4. \A i \in 1..Len(replies') : ~(i > 1 \/ late' = 0)
      BY <1>l, <2>1, <3>1
    <3> QED BY <3>3, <3>4 DEF Current
  <2>6. Distinct'
    <3>1. \A i \in 1..Len(sent') : i = Len(sent') \/ (i \in 1..Len(sent) /\ sent'[i] = sent[i])
      BY <1>l, <2>2
    <3> QED BY <2>1, <2>2, <2>3, <3>1 DEF Distinct
  <2> QED BY <2>4, <2>5, <2>6
<1>3. CASE WriteFails
  <2>1. /\ late' = late + 1 /\ waiting = FALSE /\ waiting' = FALSE
        /\ sent' = sent /\ replies' = replies
    BY <1>l, <1>3 DEF WriteFails, Writes, Unanswered, Goes
  <2>2. Len(sent) = 0 /\ Len(replies) = 0
    BY <1>l, <2>1 DEF OneOlder, Backlog
  <2> QED BY <1>l, <2>1, <2>2 DEF Backlog, Current, Distinct
<1>4. CASE Timeout \/ Deadline
  <2>1. /\ late = 0 /\ late' = 1 /\ waiting = TRUE /\ waiting' = FALSE
        /\ sent' = sent /\ replies' = replies /\ Goes(FALSE)
    BY <1>l, <1>4 DEF Timeout, Deadline, GivenUp, Unanswered, Goes
  <2>2. Backlog /\ Current
    BY <2>1 DEF OneOlder
  <2>3. /\ Len(sent) + Len(replies) <= 1
        /\ \A i \in 1..Len(replies) : replies[i].cmd = at
        /\ \A i \in 1..Len(sent) : sent[i].cmd = at
    BY <1>l, <2>1, <2>2 DEF Backlog, Current, Mine
  <2>4. at' \in Checked => Opcode(at) # Opcode(at')
    BY <2>1, OtherOpcode DEF Results
  <2> QED BY <1>l, <2>1, <2>3, <2>4 DEF Backlog, Current, Distinct
<1>5. CASE Match
  <2>1. /\ late' = late /\ waiting = TRUE /\ waiting' = FALSE /\ sent' = sent /\ at \in Commands
        /\ replies # <<>> /\ Opcode(replies[1].cmd) = Opcode(at)
    BY <1>l, <1>5, ReadType DEF Match, Goes, Results
  <2>2. PICK ok \in BOOLEAN : Goes(ok)
    BY <1>5, ReadType DEF Match, Reply
  <2>3. /\ Len(replies) > 0 /\ Len(replies') = Len(replies) - 1
        /\ \A i \in 1..Len(replies') : i + 1 \in 1..Len(replies) /\ replies'[i] = replies[i + 1]
    BY <1>5, ReadType DEF Match
  <2>4. Backlog /\ Current /\ Distinct
    BY <2>1 DEF OneOlder
  <2>5. Backlog' /\ Current'
    BY <1>l, <2>1, <2>3, <2>4 DEF Backlog, Current
  <2>6. CASE at \in Checked
    <3>1. 1 \in 1..Len(replies)
      BY <1>l, <2>3
    <3>2. sent = <<>> /\ Len(replies) = 1
      BY <2>1, <2>4, <2>6, <3>1 DEF Distinct
    <3>3. Len(sent') = 0 /\ Len(replies') = 0
      <4>1. Len(sent) = 0 /\ sent' = sent
        BY <1>l, <2>1, <3>2
      <4>2. Len(replies') = Len(replies) - 1
        BY <2>3
      <4>3. Len(replies') = 0
        BY <3>2, <4>2
      <4> QED BY <4>1, <4>3
    <3> QED BY <2>5, <3>3 DEF Distinct
  <2>7. CASE at \notin Checked
    <3>1. \A i \in 1..Len(replies') : replies'[i].cmd = at
      <4>1. \A i \in 1..Len(replies') : i + 1 > 1 /\ i + 1 \in 1..Len(replies)
        BY <1>l, <2>3
      <4>2. \A i \in 1..Len(replies') : Mine(replies[i + 1])
        BY <2>1, <2>4, <4>1 DEF Current
      <4> QED BY <2>3, <4>2 DEF Mine
    <3>2. \A i \in 1..Len(sent') : sent'[i].cmd = at
      BY <2>1, <2>4 DEF Current, Mine
    <3>3. at' \in Checked => Opcode(at) # Opcode(at')
      BY <2>1, <2>2, <2>7, OtherOpcode
    <3> QED BY <2>5, <3>1, <3>2, <3>3 DEF Distinct
  <2> QED BY <2>6, <2>7
<1>6. CASE Skip
  <2>1. /\ late' = late /\ waiting = TRUE /\ waiting' = TRUE /\ sent' = sent
        /\ at' = at /\ minted' = minted /\ scans' = scans
    BY <1>l, <1>6 DEF Skip
  <2>2. /\ Len(replies) > 0 /\ Len(replies') = Len(replies) - 1
        /\ \A i \in 1..Len(replies') : i + 1 \in 1..Len(replies) /\ replies'[i] = replies[i + 1]
    BY <1>6, ReadType DEF Skip
  <2>3. Backlog /\ Current /\ Distinct
    BY <2>1 DEF OneOlder
  <2>4. Backlog'
    BY <1>l, <2>1, <2>2, <2>3 DEF Backlog
  <2>5. Current'
    BY <1>l, <2>1, <2>2, <2>3 DEF Current, Mine
  <2>6. Distinct'
    <3>1. SUFFICES ASSUME at \in Checked PROVE Distinct'
      BY <2>1 DEF Distinct
    <3>2. \A i \in 1..Len(replies') : Opcode(replies'[i].cmd) = Opcode(at) =>
            sent = <<>> /\ i = Len(replies') /\ Mine(replies[i])'
      BY <1>l, <2>1, <2>2, <2>3, <3>1 DEF Distinct, Mine
    <3>3. \A i \in 1..Len(sent') : Opcode(sent'[i].cmd) = Opcode(at) =>
            i = Len(sent') /\ Mine(sent[i])'
      BY <1>l, <2>1, <2>3, <3>1 DEF Distinct, Mine
    <3> QED BY <2>1, <3>2, <3>3 DEF Distinct
  <2> QED BY <2>4, <2>5, <2>6
<1>7. CASE Listen \/ ListenEnds
  <2>1. /\ late' = late /\ sent' = sent /\ Len(replies') <= Len(replies) /\ Len(replies') \in Nat
        /\ waiting' = FALSE /\ waiting = FALSE /\ at' \notin Checked
    <3>1. CASE Listen
      BY <1>l, <3>1, ReadType
         DEF Listen, Results, TypeOK, Checked, Commands, CycleCommands, ScanCommands
    <3>2. CASE ListenEnds
      BY <1>l, <3>2 DEF ListenEnds, Results, TypeOK, Checked, Commands, CycleCommands, ScanCommands
    <3> QED BY <1>7, <3>1, <3>2
  <2>2. Backlog
    BY <2>1 DEF OneOlder
  <2> QED BY <1>l, <2>1, <2>2 DEF Backlog, Current, Distinct
<1>8. CASE Execute
  <2>1. /\ late' = late /\ waiting' = waiting
        /\ at' = at /\ minted' = minted /\ scans' = scans
    BY <1>8, ExecuteType
  <2>2. /\ Len(sent) > 0 /\ Len(sent') = Len(sent) - 1
        /\ \A i \in 1..Len(sent') : i + 1 \in 1..Len(sent) /\ sent'[i] = sent[i + 1]
        /\ sent' = <<>> <=> Len(sent) = 1
    BY <1>8, ExecuteType
  <2>3. /\ replies' \in Seq(Reply)
        /\ \A i \in 1..Len(replies) : i \in 1..Len(replies') /\ replies'[i] = replies[i]
    BY <1>8, ExecuteType
  <2>a. \/ replies' = replies
        \/ /\ Len(replies') = Len(replies) + 1
           /\ replies'[Len(replies')].cmd = sent[1].cmd /\ replies'[Len(replies')].id = sent[1].id
    BY <1>8, ExecuteType
  <2>4. Len(replies') \in Nat
    BY <2>3, LenProperties
  <2>5. Backlog /\ Current /\ Distinct
    BY <2>1 DEF OneOlder
  <2>6. Backlog'
    <3>1. Len(replies') <= Len(replies) + 1
      BY <1>l, <2>a
    <3>2. Len(sent') + Len(replies') <= Len(sent) + Len(replies)
      BY <1>l, <2>2, <2>4, <3>1
    <3> QED BY <1>l, <2>1, <2>2, <2>4, <2>5, <3>2 DEF Backlog
  <2>7. Current'
    <3> SUFFICES ASSUME waiting PROVE Current'
      BY <2>1 DEF Current
    <3>1. ASSUME NEW i \in 1..Len(sent') PROVE Mine(sent[i])'
      <4>1. i + 1 \in 1..Len(sent) /\ i + 1 > 1 /\ sent'[i] = sent[i + 1]
        BY <1>l, <2>2
      <4>2. Mine(sent[i + 1])
        BY <2>5, <4>1 DEF Current
      <4> QED BY <2>1, <4>1, <4>2 DEF Mine
    <3>2. \A i \in 1..Len(replies') :
            i \in 1..Len(replies) \/ (i = Len(replies') /\ i = Len(replies) + 1)
      BY <1>l, <2>4, <2>a
    <3>3. ASSUME NEW i \in 1..Len(replies'), i > 1 \/ late' = 0
          PROVE  Mine(replies[i])'
      <4>1. CASE i \in 1..Len(replies)
        BY <2>1, <2>3, <2>5, <3>3, <4>1 DEF Current, Mine
      <4>2. CASE i = Len(replies') /\ i = Len(replies) + 1
        <5>1. 1 \in 1..Len(sent) /\ (replies # <<>> \/ late = 0)
          BY <1>l, <2>1, <2>2, <3>3, <4>2
        <5>2. Mine(sent[1])
          BY <2>5, <5>1 DEF Current
        <5>3. Len(replies') # Len(replies)
          BY <1>l, <4>2
        <5>4. replies' # replies
          BY <5>3
        <5>5. replies'[i].cmd = sent[1].cmd /\ replies'[i].id = sent[1].id
          BY <2>a, <4>2, <5>4
        <5> QED BY <2>1, <5>2, <5>5 DEF Mine
      <4> QED BY <3>2, <4>1, <4>2
    <3> QED BY <3>1, <3>3 DEF Current
  <2>8. Distinct'
    <3> SUFFICES ASSUME at \in Checked PROVE Distinct'
      BY <2>1 DEF Distinct
    <3>1. \A i \in 1..Len(sent') : Opcode(sent'[i].cmd) = Opcode(at) =>
            waiting /\ i = Len(sent') /\ Mine(sent[i])'
      BY <1>l, <2>1, <2>2, <2>5 DEF Distinct, Mine
    <3>2. ASSUME NEW i \in 1..Len(replies'), Opcode(replies'[i].cmd) = Opcode(at)
          PROVE  waiting /\ sent' = <<>> /\ i = Len(replies') /\ Mine(replies[i])'
      <4>1. CASE i \in 1..Len(replies)
        <5>0. replies'[i] = replies[i]
          BY <2>3, <4>1
        <5>1. sent = <<>>
          BY <2>1, <2>5, <3>2, <4>1, <5>0 DEF Distinct
        <5> QED BY <1>l, <2>2, <5>1
      <4>2. CASE i \notin 1..Len(replies)
        <5>1. /\ i = Len(replies')
              /\ replies'[i].cmd = sent[1].cmd /\ replies'[i].id = sent[1].id
          BY <1>l, <2>4, <2>a, <4>2
        <5>2. 1 \in 1..Len(sent)
          BY <1>l, <2>2
        <5>3. waiting /\ 1 = Len(sent) /\ Mine(sent[1])
          BY <2>5, <3>2, <5>1, <5>2 DEF Distinct
        <5> QED BY <2>1, <2>2, <5>1, <5>3 DEF Mine
      <4> QED BY <4>1, <4>2
    <3> QED BY <2>1, <3>1, <3>2 DEF Distinct
  <2> QED BY <2>6, <2>7, <2>8
<1>9. CASE UNCHANGED vars
  BY <1>9 DEF OneOlder, Backlog, Current, Distinct, Mine
<1> QED BY <1>1, <1>2, <1>3, <1>4, <1>5, <1>6, <1>7, <1>8, <1>9 DEF Next, Host
-----------------------------------------------------------------------------
(* What the controller holds.                                              *)

\* A command that returns leaves the controller as it was, and reads one answer
\* at most, the one it goes by.
LEMMA Returns ==
  ASSUME TypeOK, Results, WriteFails \/ Timeout \/ Deadline \/ Match
  PROVE  /\ at \in Commands /\ waiting' = FALSE /\ sent' = sent
         /\ minted' = minted /\ scans' = scans /\ UNCHANGED airVars
         /\ \A i \in 1..Len(replies') : \E j \in 1..Len(replies) : replies'[i] = replies[j]
         /\ \E ok \in BOOLEAN : Goes(ok) /\ (ok => Match /\ replies[1].ok)
<1>1. CASE WriteFails \/ Timeout \/ Deadline
  <2>1. /\ at \in Commands /\ Goes(FALSE) /\ sent' = sent /\ replies' = replies /\ UNCHANGED airVars
    BY <1>1 DEF WriteFails, Writes, Timeout, Deadline, Results
  <2>2. minted' = minted /\ scans' = scans /\ waiting' = FALSE
    BY <2>1 DEF Goes
  <2> QED BY <2>1, <2>2
<1>2. CASE Match
  <2>1. /\ at \in Commands /\ sent' = sent /\ UNCHANGED airVars
        /\ Goes(replies[1].ok) /\ replies[1].ok \in BOOLEAN
    BY <1>2, ReadType DEF Match, Results, Reply
  <2>2. minted' = minted /\ scans' = scans /\ waiting' = FALSE
    BY <2>1 DEF Goes
  <2>3. \A i \in 1..Len(replies') : i + 1 \in 1..Len(replies) /\ replies'[i] = replies[i + 1]
    BY <1>2, ReadType DEF Match
  <2> QED BY <1>2, <2>1, <2>2, <2>3
<1> QED BY <1>1, <1>2

\* The address of the current decoy is sent once, so a good answer to it is the
\* controller's word that it has it and is not advertising.
LEMMA AddrOnceStep ==
  ASSUME TypeOK, Results, AddrOnce, [Next]_vars
  PROVE  AddrOnce'
<1>l. /\ Len(sent) \in Nat /\ Len(replies) \in Nat /\ minted \in Nat
      /\ sent = <<>> <=> Len(sent) = 0
      /\ waiting \in BOOLEAN
  BY EmptySeq, LenProperties DEF TypeOK
<1>o. AddrIds /\ AddrUnsent /\ AddrSent /\ AddrTaken
  BY DEF AddrOnce
<1>t. /\ \A i \in 1..Len(sent) : sent[i].id \in Int
      /\ \A i \in 1..Len(replies) : replies[i].id \in Int
  <2>1. /\ \A i \in 1..Len(sent) : sent[i] \in Command
        /\ \A i \in 1..Len(replies) : replies[i] \in Reply
    BY ElementOfSeq DEF TypeOK, Reply
  <2>2. (\A c \in Command : c.id \in Int) /\ (\A c \in Reply : c.id \in Int)
    BY BoundsAssumption DEF Command, Reply, Id
  <2> QED BY <2>1, <2>2
<1>1. CASE Cycle
  <2>1. at' = "off" /\ minted' = minted + 1 /\ sent' = sent /\ replies' = replies
    BY <1>1 DEF Cycle, Begins
  <2>2. \A i \in 1..Len(sent) : sent[i].cmd = "addr" => sent[i].id <= minted
    BY DEF Results, CycleCommands
  <2>3. AddrIds'
    BY <1>l, <1>o, <1>t, <2>1 DEF AddrIds
  <2>4. AddrUnsent'
    BY <1>l, <1>o, <1>t, <2>1, <2>2 DEF AddrIds, AddrUnsent, IsAddr
  <2> QED BY <2>1, <2>3, <2>4 DEF AddrOnce, AddrSent, AddrTaken
<1>2. CASE Pause \/ Learn \/ Listen \/ ListenEnds
  <2>1. at' \notin {"off", "addr"} /\ minted' = minted
    BY <1>2 DEF Pause, Learn, Listen, ListenEnds, Begins
  <2>2. AddrIds'
    <3>1. CASE Pause \/ Learn \/ ListenEnds
      BY <1>o, <2>1, <3>1 DEF AddrIds, Pause, Learn, ListenEnds, Begins
    <3>2. CASE Listen
      <4>1. \A i \in 1..Len(replies') : i + 1 \in 1..Len(replies) /\ replies'[i] = replies[i + 1]
        BY <3>2, ReadType DEF Listen
      <4> QED BY <1>o, <2>1, <4>1 DEF AddrIds
    <3> QED BY <1>2, <3>1, <3>2
  <2> QED BY <2>1, <2>2 DEF AddrOnce, AddrUnsent, AddrSent, AddrTaken
<1>3. CASE Write
  <2>1. /\ waiting = FALSE /\ waiting' = TRUE /\ at' = at /\ minted' = minted /\ replies' = replies
    BY <1>l, <1>3 DEF Write, Writes
  <2>2. /\ Len(sent') = Len(sent) + 1 /\ \A i \in 1..Len(sent) : sent'[i] = sent[i]
        /\ sent'[Len(sent')].cmd = at
        /\ at = "addr" => sent'[Len(sent')].id = minted
        /\ sent' # <<>>
    <3>1. /\ Len(sent') = Len(sent) + 1 /\ \A i \in 1..Len(sent) : sent'[i] = sent[i]
          /\ sent'[Len(sent')] = [cmd |-> at, id |-> IF at \in ScanCommands THEN scans ELSE minted]
          /\ sent' \in Seq(Command)
      BY <1>3, WriteType
    <3>2. sent' # <<>>
      BY <1>l, <3>1, EmptySeq
    <3> QED BY <3>1, <3>2 DEF ScanCommands
  <2>3. \A i \in 1..Len(sent') : i = Len(sent') \/ (i \in 1..Len(sent) /\ i < Len(sent'))
    BY <1>l, <2>2
  <2>4. AddrIds' /\ AddrTaken'
    BY <1>o, <2>1, <2>2 DEF AddrIds, AddrTaken
  <2>5. AddrUnsent'
    BY <1>o, <2>1, <2>2, <2>3 DEF AddrUnsent, IsAddr
  <2>6. AddrSent'
    <3> SUFFICES ASSUME at = "addr" PROVE AddrSent'
      BY <2>1 DEF AddrSent
    <3>1. /\ \A i \in 1..Len(sent) : ~IsAddr(sent[i])
          /\ \A i \in 1..Len(replies) : ~IsAddr(replies[i])
      BY <1>o, <2>1 DEF AddrUnsent
    <3>2. \A i \in 1..Len(sent') : i < Len(sent') => i \in 1..Len(sent)
      BY <1>l, <2>2
    <3> QED BY <2>1, <2>2, <3>1, <3>2 DEF AddrSent, IsAddr
  <2> QED BY <2>4, <2>5, <2>6 DEF AddrOnce
<1>4. CASE WriteFails \/ Timeout \/ Deadline \/ Match
  <2>1. /\ at \in Commands /\ waiting' = FALSE /\ sent' = sent /\ minted' = minted
        /\ \A i \in 1..Len(replies') : \E j \in 1..Len(replies) : replies'[i] = replies[j]
    BY <1>4, Returns
  <2>2. at' # "off" /\ (at' = "addr" => at = "off")
    BY <1>4, Returns, GoesNext
  <2>3. AddrIds'
    BY <1>o, <2>1 DEF AddrIds
  <2>4. AddrUnsent'
    BY <1>o, <2>1, <2>2 DEF AddrUnsent, IsAddr
  <2> QED BY <2>1, <2>3, <2>4 DEF AddrOnce, AddrSent, AddrTaken
<1>5. CASE Skip
  <2>1. /\ at' = at /\ waiting' = waiting /\ minted' = minted /\ sent' = sent /\ UNCHANGED airVars
    BY <1>5 DEF Skip
  <2>2. \A i \in 1..Len(replies') : \E j \in 1..Len(replies) : replies'[i] = replies[j]
    BY <1>5, ReadType DEF Skip
  <2>3. AddrIds' /\ AddrUnsent' /\ AddrSent'
    BY <1>o, <2>1, <2>2 DEF AddrIds, AddrUnsent, AddrSent, IsAddr
  <2>4. AddrTaken'
    BY <1>o, <2>1, <2>2 DEF AddrTaken, IsAddr
  <2> QED BY <2>3, <2>4 DEF AddrOnce
<1>6. CASE Execute
  <2>1. at' = at /\ waiting' = waiting /\ minted' = minted
    BY <1>6, ExecuteType
  <2>2. /\ Len(sent) > 0 /\ Len(sent') = Len(sent) - 1
        /\ \A i \in 1..Len(sent') : i + 1 \in 1..Len(sent) /\ sent'[i] = sent[i + 1]
        /\ sent' = <<>> <=> Len(sent) = 1
    BY <1>6, ExecuteType
  <2>3. PICK ok \in BOOLEAN :
          /\ ok => Legal(sent[1]) /\ Obey(sent[1])
          /\ \/ replies' = replies
             \/ /\ Len(replies') = Len(replies) + 1
                /\ replies'[Len(replies')].cmd = sent[1].cmd
                /\ replies'[Len(replies')].id = sent[1].id
                /\ replies'[Len(replies')].ok = ok
    BY <1>6, ExecuteType
  <2>4. \A i \in 1..Len(replies) : replies'[i] = replies[i]
    BY <1>6, ExecuteType
  <2>5. \A i \in 1..Len(replies') :
          \/ i \in 1..Len(replies) /\ replies'[i] = replies[i]
          \/ replies'[i].cmd = sent[1].cmd /\ replies'[i].id = sent[1].id /\ replies'[i].ok = ok
    <3>1. CASE replies' = replies
      BY <3>1
    <3>2. CASE replies' # replies
      <4>1. \A i \in 1..Len(replies') : i \in 1..Len(replies) \/ i = Len(replies')
        BY <1>l, <2>3, <3>2
      <4> QED BY <2>3, <2>4, <3>2, <4>1
    <3> QED BY <3>1, <3>2
  <2>6. 1 \in 1..Len(sent) /\ Len(sent) \in 1..Len(sent)
    BY <1>l, <2>2
  <2>7. AddrIds'
    <3>1. sent[1].cmd = "addr" => sent[1].id <= minted
      BY <2>6 DEF Results, CycleCommands
    <3> QED BY <1>o, <2>1, <2>5, <3>1 DEF AddrIds
  <2>8. AddrUnsent'
    BY <1>o, <2>1, <2>2, <2>5, <2>6 DEF AddrUnsent, IsAddr
  <2>9. AddrSent'
    <3> SUFFICES ASSUME at = "addr", waiting, sent' # <<>> PROVE AddrSent'
      BY <2>1 DEF AddrSent
    <3>1. 1 < Len(sent)
      BY <1>l, <2>2
    <3>2. sent # <<>>
      BY <1>l, <3>1
    <3>3. /\ \A i \in 1..Len(sent) : i < Len(sent) => ~IsAddr(sent[i])
          /\ IsAddr(sent[Len(sent)])
          /\ \A i \in 1..Len(replies) : ~IsAddr(replies[i])
      BY <1>o, <3>2 DEF AddrSent
    <3>4. \A i \in 1..Len(sent') : i < Len(sent') => ~IsAddr(sent[i])'
      BY <1>l, <2>1, <2>2, <3>3 DEF IsAddr
    <3>5. IsAddr(sent[Len(sent)])'
      <4>1. Len(sent') \in 1..Len(sent') /\ Len(sent') + 1 = Len(sent)
        BY <1>l, <2>2, <3>1
      <4> QED BY <2>1, <2>2, <3>3, <4>1 DEF IsAddr
    <3>6. ~IsAddr(sent[1])
      BY <2>6, <3>1, <3>3
    <3>7. \A i \in 1..Len(replies') : ~IsAddr(replies[i])'
      BY <2>1, <2>5, <3>3, <3>6 DEF IsAddr
    <3> QED BY <3>4, <3>5, <3>7 DEF AddrSent
  <2>a. AddrTaken'
    <3> SUFFICES ASSUME at = "addr", waiting, sent' = <<>>,
                        NEW i \in 1..Len(replies'), IsAddr(replies[i])', replies'[i].ok
                 PROVE  adv' = FALSE /\ addr' = minted
      BY <2>1 DEF AddrTaken
    <3>1. Len(sent) = 1 /\ sent # <<>>
      BY <1>l, <2>2
    <3>2. IsAddr(sent[1]) /\ \A j \in 1..Len(replies) : ~IsAddr(replies[j])
      BY <1>o, <3>1 DEF AddrSent
    <3>3. ok = TRUE
      BY <2>1, <2>5, <3>2 DEF IsAddr
    <3>4. Legal(sent[1]) /\ Obey(sent[1]) /\ adv \in BOOLEAN
      BY <2>3, <3>3 DEF TypeOK
    <3> QED BY <3>2, <3>4 DEF Legal, Obey, IsAddr
  <2> QED BY <2>7, <2>8, <2>9, <2>a DEF AddrOnce
<1>7. CASE UNCHANGED vars
  BY <1>7 DEF AddrOnce, AddrIds, AddrUnsent, AddrSent, AddrTaken, IsAddr
<1> QED BY <1>1, <1>2, <1>3, <1>4, <1>5, <1>6, <1>7 DEF Next, Host

\* What is alone under way stays alone, and is what the controller executes.
LEMMA AloneStep ==
  ASSUME TypeOK, Alone, at \in {"data", "on", "start"}, Write \/ Skip \/ Execute
  PROVE  /\ Alone' /\ at' = at
         /\ Execute => waiting /\ Len(sent) = 1 /\ replies = <<>> /\ Mine(sent[1])
<1>l. /\ Len(sent) \in Nat /\ Len(replies) \in Nat /\ waiting \in BOOLEAN
      /\ sent = <<>> <=> Len(sent) = 0
      /\ replies = <<>> <=> Len(replies) = 0
  BY EmptySeq, LenProperties DEF TypeOK
<1>1. CASE Write
  <2>1. waiting = FALSE /\ waiting' = TRUE /\ at' = at /\ minted' = minted /\ scans' = scans
        /\ replies' = replies
    BY <1>l, <1>1 DEF Write, Writes
  <2>2. sent = <<>> /\ replies = <<>>
    BY <2>1 DEF Alone, InStep
  <2>3. Len(sent') = 1 /\ Mine(sent[1])'
    <3>1. /\ Len(sent') = Len(sent) + 1
          /\ sent'[Len(sent')] = [cmd |-> at, id |-> IF at \in ScanCommands THEN scans ELSE minted]
      BY <1>1, WriteType
    <3> QED BY <1>l, <2>1, <2>2, <3>1 DEF Mine
  <2>4. Alone'
    BY <2>1, <2>2, <2>3 DEF Alone
  <2>5. ~Execute
    BY <2>2 DEF Execute
  <2> QED BY <2>1, <2>4, <2>5
<1>2. CASE Skip
  <2>1. /\ waiting = TRUE /\ waiting' = TRUE /\ at' = at /\ sent' = sent /\ replies # <<>>
    BY <1>l, <1>2 DEF Skip
  <2>2. sent = <<>> /\ Len(replies) = 1
    BY <1>l, <2>1 DEF Alone
  <2>3. replies' = <<>>
    BY <1>2, <2>2, ReadType DEF Skip
  <2>4. ~Execute
    BY <2>2 DEF Execute
  <2> QED BY <2>1, <2>2, <2>3, <2>4 DEF Alone
<1>3. CASE Execute
  <2>1. at' = at /\ waiting' = waiting /\ minted' = minted /\ scans' = scans
    BY <1>3, ExecuteType
  <2>2. sent # <<>>
    BY <1>3 DEF Execute
  <2>3. waiting /\ Len(sent) = 1 /\ replies = <<>> /\ Mine(sent[1])
    BY <1>l, <2>2 DEF Alone, InStep
  <2>4. sent' = <<>>
    BY <1>3, <2>3, ExecuteType
  <2>5. PICK ok \in BOOLEAN :
          /\ ok => Legal(sent[1]) /\ Obey(sent[1])
          /\ \/ replies' = replies
             \/ /\ Len(replies') = Len(replies) + 1
                /\ replies'[Len(replies')].cmd = sent[1].cmd
                /\ replies'[Len(replies')].id = sent[1].id
                /\ replies'[Len(replies')].ok = ok
    BY <1>3, ExecuteType
  <2>6. ok => Effect'
    BY <2>1, <2>3, <2>5 DEF Effect, Obey, Mine, ScanCommands
  <2>7. CASE replies' = replies
    BY <2>1, <2>3, <2>4, <2>7 DEF Alone
  <2>8. CASE replies' # replies
    <3>1. Len(replies) = 0
      BY <1>l, <2>3
    <3>2. Len(replies') = 1 /\ replies'[1].cmd = sent[1].cmd /\ replies'[1].id = sent[1].id
          /\ replies'[1].ok = ok
      BY <2>5, <2>8, <3>1
    <3>3. Mine(replies[1])' /\ (replies'[1].ok => Effect')
      BY <2>1, <2>3, <2>6, <3>2 DEF Mine
    <3> QED BY <2>1, <2>3, <2>4, <3>2, <3>3 DEF Alone
  <2> QED BY <2>1, <2>3, <2>7, <2>8
<1> QED BY <1>1, <1>2, <1>3

\* What is alone under way is answered by its own answer, and nothing is left then.
LEMMA AloneMatch ==
  ASSUME TypeOK, Results, Alone, at \in {"data", "on", "start"}, Match
  PROVE  InStep' /\ Own(Head(replies)) /\ (replies[1].ok => Effect)
<1>1. Len(sent) \in Nat /\ Len(replies) \in Nat /\ (replies = <<>> <=> Len(replies) = 0)
  BY EmptySeq, LenProperties DEF TypeOK
<1>2. /\ waiting /\ replies # <<>> /\ replies' = Tail(replies) /\ sent' = sent
      /\ Head(replies) = replies[1]
  BY ReadType DEF Match
<1>3. sent = <<>> /\ Len(replies) = 1 /\ Mine(replies[1]) /\ (replies[1].ok => Effect)
  BY <1>1, <1>2 DEF Alone
<1>4. replies' = <<>>
  BY <1>2, <1>3, ReadType
<1> QED BY <1>2, <1>3, <1>4 DEF InStep, Own, Mine

\* A scan that listens was started by the answer to its own enable.
LEMMA ScanStepsStep ==
  ASSUME TypeOK, Results, ScanSteps, [Next]_vars
  PROVE  ScanSteps'
<1> SUFFICES ASSUME "scan" \notin doubt'
             PROVE  (at' = "start" => Alone') /\ (at' = "listen" => InStep' /\ scanning')
  BY DEF ScanSteps
<1>1. CASE Cycle \/ Pause \/ Learn \/ ListenEnds
  BY <1>1 DEF Cycle, Pause, Learn, ListenEnds, Begins
<1>2. CASE WriteFails \/ Timeout \/ Deadline
  <2>1. Goes(FALSE) /\ at \in Commands
    BY <1>2 DEF WriteFails, Writes, Timeout, Deadline, Results
  <2> QED BY <2>1, GoesNext
<1>3. CASE Match
  <2>1. /\ at \in Commands /\ Goes(replies[1].ok) /\ replies[1].ok \in BOOLEAN
        /\ Head(replies) = replies[1] /\ doubt' = Doubt(replies[1])
        /\ replies' = Tail(replies) /\ sent' = sent /\ waiting' = FALSE /\ scanning' = scanning
    BY <1>3, ReadType DEF Match, Results, Reply, Goes
  <2>2. CASE at' = "start"
    <3>1. at = "params" /\ replies[1].ok
      BY <2>1, <2>2, GoesNext
    <3>2. Own(replies[1])
      BY <2>1, <3>1 DEF Doubt, Subject, CycleCommands
    <3>3. InStep'
      BY <2>1, <3>2 DEF Own, InStep
    <3> QED BY <2>1, <2>2, <3>3 DEF Alone
  <2>3. CASE at' = "listen"
    <3>1. at = "start" /\ replies[1].ok
      BY <2>1, <2>3, GoesNext
    <3>2. "scan" \notin doubt
      BY <2>1, <3>1 DEF Doubt, Subject, CycleCommands
    <3>3. InStep' /\ Effect
      BY <1>3, <3>1, <3>2, AloneMatch DEF ScanSteps
    <3> QED BY <2>1, <2>3, <3>1, <3>3 DEF Effect
  <2> QED BY <2>2, <2>3
<1>4. CASE Write \/ Skip
  <2>1. at' = at /\ at \in Commands /\ doubt' = doubt
    BY <1>4 DEF Write, Writes, Skip, Results
  <2>2. at # "listen"
    BY <2>1 DEF Commands, CycleCommands, ScanCommands
  <2>3. at = "start" => Alone'
    BY <1>4, <2>1, AloneStep DEF ScanSteps
  <2> QED BY <2>1, <2>2, <2>3
<1>5. CASE Listen
  <2>1. at' = "listen" /\ at = "listen" /\ doubt' = doubt /\ replies # <<>>
    BY <1>5 DEF Listen
  <2> QED BY <2>1 DEF ScanSteps, InStep
<1>6. CASE Execute
  <2>1. at' = at /\ doubt' = doubt
    BY <1>6, ExecuteType
  <2>2. at # "listen"
    BY <1>6, <2>1 DEF ScanSteps, InStep, Execute
  <2>3. at = "start" => Alone'
    BY <1>6, <2>1, AloneStep DEF ScanSteps
  <2> QED BY <2>1, <2>2, <2>3
<1>7. CASE UNCHANGED vars
  BY <1>7 DEF ScanSteps, Alone, InStep, Effect, Mine
<1> QED BY <1>1, <1>2, <1>3, <1>4, <1>5, <1>6, <1>7 DEF Next, Host

\* What is on the air, and what a cycle reports, is one decoy.
LEMMA DecoyStepsStep ==
  ASSUME TypeOK, Results, AddrOnce, DecoySteps, [Next]_vars
  PROVE  DecoySteps'
<1> SUFFICES ASSUME "decoy" \notin doubt'
             PROVE  (adv => addr = data)' /\ Leftover' /\ Points'
  BY DEF DecoySteps
<1>l. /\ Len(sent) \in Nat /\ Len(replies) \in Nat /\ waiting \in BOOLEAN /\ adv \in BOOLEAN
      /\ sent = <<>> <=> Len(sent) = 0
      /\ replies = <<>> <=> Len(replies) = 0
  BY EmptySeq, LenProperties DEF TypeOK
<1>1. CASE Match
  <2>1. /\ at \in Commands /\ Goes(replies[1].ok) /\ replies[1].ok \in BOOLEAN
        /\ Head(replies) = replies[1] /\ doubt' = Doubt(replies[1])
    BY <1>1, ReadType DEF Match, Results, Reply
  <2>a. 1 \in 1..Len(replies)
    <3>1. replies # <<>>
      BY <1>1 DEF Match
    <3> QED BY <1>l, <3>1
  <2>2. /\ waiting = TRUE /\ waiting' = FALSE /\ replies' = Tail(replies) /\ sent' = sent
        /\ minted' = minted /\ adv' = adv /\ addr' = addr /\ data' = data
    BY <1>l, <1>1 DEF Match, Goes
  <2>3. CASE at = "addr" /\ Own(replies[1]) /\ replies[1].ok
    <3>1. sent = <<>> /\ replies' = <<>> /\ IsAddr(replies[1])
      BY <2>2, <2>3 DEF Own, IsAddr, ScanCommands
    <3>2. adv = FALSE /\ addr = minted
      BY <1>l, <2>a, <2>2, <2>3, <3>1 DEF AddrOnce, AddrTaken
    <3>3. InStep' /\ Len(sent') = 0
      BY <1>l, <2>2, <3>1 DEF InStep
    <3>4. at' = "data" /\ result' # "ok"
      BY <2>1, <2>3 DEF Goes, Results
    <3> QED BY <2>2, <3>2, <3>3, <3>4 DEF Leftover, Points, Alone
  <2>4. CASE ~(at = "addr" /\ Own(replies[1]) /\ replies[1].ok)
    <3>1. doubt \subseteq doubt' \cup {"scan"}
      BY <2>1, <2>4 DEF Doubt, Subject, CycleCommands
    <3>b. "decoy" \notin doubt
      BY <3>1
    <3>2. (adv => addr = data) /\ Leftover /\ Points
      BY <3>b DEF DecoySteps
    <3>3. (adv => addr = data)' /\ Leftover'
      BY <2>2, <3>2 DEF Leftover
    <3>4. at' # "data"
      <4>1. SUFFICES ASSUME at' = "data" PROVE FALSE
        OBVIOUS
      <4>2. at = "addr" /\ replies[1].ok
        BY <2>1, <4>1, GoesNext
      <4> QED BY <2>1, <2>4, <4>2 DEF Doubt, Subject, CycleCommands
    <3>5. at' = "on" => Alone' /\ addr' = minted' /\ data' = minted'
      <4>1. SUFFICES ASSUME at' = "on" PROVE Alone' /\ addr' = minted' /\ data' = minted'
        OBVIOUS
      <4>2. at = "data" /\ replies[1].ok
        BY <2>1, <4>1, GoesNext
      <4>3. Alone /\ addr = minted
        BY <3>2, <4>2 DEF Points
      <4>4. InStep' /\ data = minted
        BY <1>1, <4>2, <4>3, AloneMatch DEF Effect
      <4> QED BY <2>2, <4>3, <4>4 DEF Alone
    <3>6. result' = "ok" => InStep' /\ adv' /\ addr' = minted' /\ data' = minted'
      <4>1. SUFFICES ASSUME result' = "ok"
                     PROVE  InStep' /\ adv' /\ addr' = minted' /\ data' = minted'
        OBVIOUS
      <4>2. at = "on" /\ replies[1].ok
        BY <2>1, <4>1, GoesNext
      <4>3. Alone /\ addr = minted /\ data = minted
        BY <3>2, <4>2 DEF Points
      <4>4. InStep' /\ adv
        BY <1>1, <4>2, <4>3, AloneMatch DEF Effect
      <4> QED BY <2>2, <4>3, <4>4
    <3> QED BY <3>3, <3>4, <3>5, <3>6 DEF Points
  <2> QED BY <2>3, <2>4
<1>2. CASE ~Match
  <2>1. doubt' = doubt
    <3>1. CASE Cycle \/ Pause \/ Learn
      BY <3>1 DEF Cycle, Pause, Learn, Begins
    <3>2. CASE Write \/ WriteFails \/ Skip \/ Timeout \/ Deadline
      BY <3>2 DEF Write, WriteFails, Skip, Timeout, Deadline, GivenUp
    <3>3. CASE Listen \/ ListenEnds \/ UNCHANGED vars
      BY <3>3 DEF Listen, ListenEnds
    <3>4. CASE Execute
      BY <3>4, ExecuteType
    <3> QED BY <1>2, <3>1, <3>2, <3>3, <3>4 DEF Next, Host
  <2>2. (adv => addr = data) /\ Leftover /\ Points
    BY <2>1 DEF DecoySteps
  <2>3. CASE Cycle \/ Pause \/ Learn \/ ListenEnds
    <3>1. /\ at' \notin {"data", "on"} /\ result' # "ok" /\ sent' = sent
          /\ adv' = adv /\ addr' = addr /\ data' = data
      BY <2>3 DEF Cycle, Pause, Learn, ListenEnds, Begins, Results
    <3> QED BY <2>2, <3>1 DEF Leftover, Points
  <2>4. CASE WriteFails \/ Timeout \/ Deadline
    <3>1. /\ Goes(FALSE) /\ at \in Commands /\ sent' = sent
          /\ adv' = adv /\ addr' = addr /\ data' = data
      BY <2>4 DEF WriteFails, Writes, Timeout, Deadline, Results
    <3>2. at' \notin {"data", "on"} /\ result' # "ok"
      BY <3>1, GoesNext
    <3> QED BY <2>2, <3>1, <3>2 DEF Leftover, Points
  <2>5. CASE Write
    <3>1. /\ at \in Commands /\ waiting = FALSE /\ result' = result /\ at' = at /\ minted' = minted
          /\ adv' = adv /\ addr' = addr /\ data' = data
      BY <1>l, <2>5 DEF Write, Writes
    <3>2. result' # "ok"
      BY <3>1 DEF Results, Commands, CycleCommands, ScanCommands
    <3>3. /\ Len(sent') = Len(sent) + 1 /\ \A i \in 1..Len(sent) : sent'[i] = sent[i]
          /\ sent'[Len(sent')].cmd = at
      BY <2>5, WriteType
    <3>4. \A i \in 1..Len(sent') : i \in 1..Len(sent) \/ i = Len(sent')
      BY <1>l, <3>3
    <3>5. at \in {"data", "on"} => Len(sent) = 0
      BY <1>l, <2>2, <3>1 DEF Points, Alone, InStep
    <3>6. Leftover'
      <4> SUFFICES ASSUME NEW i \in 1..Len(sent')
                   PROVE  /\ sent'[i].cmd = "data" => i = 1 /\ ~adv'
                          /\ sent'[i].cmd = "on" => i = 1 /\ addr' = data'
        BY DEF Leftover
      <4>1. CASE i \in 1..Len(sent)
        BY <2>2, <3>1, <3>3, <4>1 DEF Leftover
      <4>2. CASE i = Len(sent')
        <5>1. at \in {"data", "on"} => i = 1
          BY <3>3, <3>5, <4>2
        <5> QED BY <2>2, <3>1, <3>3, <4>2, <5>1 DEF Points
      <4> QED BY <3>4, <4>1, <4>2
    <3>7. at \in {"data", "on"} => Alone'
      BY <2>2, <2>5, AloneStep DEF Points
    <3> QED BY <2>2, <3>1, <3>2, <3>6, <3>7 DEF Points
  <2>6. CASE Skip
    <3>1. /\ at \in Commands /\ result' = result /\ at' = at /\ minted' = minted /\ sent' = sent
          /\ adv' = adv /\ addr' = addr /\ data' = data
      BY <2>6 DEF Skip, Results
    <3>2. result' # "ok"
      BY <3>1 DEF Results, Commands, CycleCommands, ScanCommands
    <3>3. at \in {"data", "on"} => Alone'
      BY <2>2, <2>6, AloneStep DEF Points
    <3> QED BY <2>2, <3>1, <3>2, <3>3 DEF Leftover, Points
  <2>7. CASE Listen
    <3>1. /\ at' = "listen" /\ at = "listen" /\ result' = result /\ sent' = sent
          /\ adv' = adv /\ addr' = addr /\ data' = data
      BY <2>7 DEF Listen
    <3> QED BY <2>2, <3>1 DEF Leftover, Points, Results
  <2>8. CASE Execute
    <3>1. /\ at' = at /\ minted' = minted /\ result' = result
      BY <2>8, ExecuteType
    <3>2. /\ Len(sent) > 0 /\ Len(sent') = Len(sent) - 1
          /\ \A i \in 1..Len(sent') : i + 1 \in 1..Len(sent) /\ sent'[i] = sent[i + 1]
      BY <2>8, ExecuteType
    <3>3. PICK ok \in BOOLEAN :
            /\ ok => Legal(sent[1]) /\ Obey(sent[1])
            /\ ~ok => UNCHANGED airVars
      BY <2>8, ExecuteType
    <3>4. 1 \in 1..Len(sent)
      BY <1>l, <3>2
    <3>5. /\ sent[1].cmd = "data" => adv = FALSE
          /\ sent[1].cmd = "on" => addr = data
      BY <1>l, <2>2, <3>4 DEF Leftover
    <3>6. (adv => addr = data)'
      <4>1. CASE ok
        <5>1. Legal(sent[1]) /\ Obey(sent[1])
          BY <3>3, <4>1
        <5> QED BY <1>l, <2>2, <3>5, <5>1 DEF Legal, Obey
      <4>2. CASE ~ok
        BY <2>2, <3>3, <4>2
      <4> QED BY <4>1, <4>2
    <3>7. Leftover'
      <4>1. \A i \in 1..Len(sent') : i + 1 # 1
        BY <1>l, <3>2
      <4>2. \A i \in 1..Len(sent') : sent'[i].cmd \notin {"data", "on"}
        BY <2>2, <3>2, <4>1 DEF Leftover
      <4> QED BY <4>2 DEF Leftover
    <3>8. at \in {"data", "on"} => Alone' /\ Mine(sent[1])
      BY <2>2, <2>8, AloneStep DEF Points
    <3>9. /\ at = "data" => ~adv' /\ addr' = minted
          /\ at = "on" => addr' = minted /\ data' = minted
      <4>1. CASE ok
        <5>1. Obey(sent[1])
          BY <3>3, <4>1
        <5> QED BY <2>2, <3>8, <5>1 DEF Obey, Points, Mine
      <4>2. CASE ~ok
        BY <2>2, <3>3, <4>2 DEF Points
      <4> QED BY <4>1, <4>2
    <3>10. result # "ok"
      BY <2>2, <2>8 DEF Points, InStep, Execute
    <3> QED BY <3>1, <3>6, <3>7, <3>8, <3>9, <3>10 DEF Points
  <2>9. CASE UNCHANGED vars
    BY <2>2, <2>9 DEF Leftover, Points, Alone, InStep, Effect, Mine
  <2> QED BY <1>2, <2>3, <2>4, <2>5, <2>6, <2>7, <2>8, <2>9 DEF Next, Host
<1> QED BY <1>1, <1>2
-----------------------------------------------------------------------------
(* The theorems.                                                           *)

\* The inductive invariant holds at the start and is kept by every step.
LEMMA Invariant == Spec => []IInv
<1>1. Init => IInv
  <2> SUFFICES ASSUME Init PROVE IInv
    OBVIOUS
  <2>1. TypeOK
    <3>1. sent \in Seq(Command) /\ replies \in Seq([cmd : Commands, id : Id, ok : BOOLEAN])
      BY EmptySeq DEF Init
    <3>2. /\ minted \in 0..MaxCycles /\ scans \in 0..MaxScans
          /\ addr \in 0..MaxCycles /\ data \in 0..MaxCycles
          /\ late \in 0..2 /\ missed \in 0..3
      BY BoundsAssumption DEF Init
    <3>3. at \in Commands \cup {"top", "mode", "listen"} /\ result \in {"none", "ok", "failed"}
      BY DEF Init
    <3>4. waiting \in BOOLEAN /\ adv \in BOOLEAN /\ scanning \in BOOLEAN
      BY DEF Init
    <3>5. doubt \in SUBSET {"decoy", "scan"}
      BY DEF Init
    <3> QED BY <3>1, <3>2, <3>3, <3>4, <3>5 DEF TypeOK
  <2>2. Len(sent) = 0 /\ Len(replies) = 0
    BY EmptySeq DEF Init
  <2>3. Results /\ AddrOnce
    BY <2>2 DEF Init, Results, AddrOnce, AddrIds, AddrUnsent, AddrSent, AddrTaken
  <2>4. DecoySteps
    BY <2>2 DEF Init, DecoySteps, Leftover, Points
  <2>5. ScanSteps /\ Stalls
    BY DEF Init, ScanSteps, Stalls
  <2>6. OneOlder
    BY <2>2 DEF Init, OneOlder, Backlog, Current, Distinct
  <2> QED BY <2>1, <2>3, <2>4, <2>5, <2>6 DEF IInv
<1>2. IInv /\ [Next]_vars => IInv'
  <2> SUFFICES ASSUME IInv, [Next]_vars PROVE IInv'
    OBVIOUS
  <2> USE DEF IInv
  <2>1. TypeOK'
    BY TypeStep
  <2>2. Results'
    BY ResultsStep
  <2>3. AddrOnce'
    BY AddrOnceStep
  <2>4. DecoySteps'
    BY DecoyStepsStep
  <2>5. ScanSteps'
    BY ScanStepsStep
  <2>6. Stalls'
    BY StallsStep
  <2>7. OneOlder'
    BY OneOlderStep
  <2> QED BY <2>1, <2>2, <2>3, <2>4, <2>5, <2>6, <2>7
<1> QED BY <1>1, <1>2, PTL DEF Spec

\* The queues hold commands and answers, and the timeouts are at most three.
THEOREM TypeCorrect == Spec => []TypeOK
<1>1. IInv => TypeOK
  BY DEF IInv
<1> QED BY Invariant, <1>1, PTL

\* What is on the air is one decoy, its address with its payload, however late, refused
\* or unanswered the commands are, unless an older answer was taken for a later command's.
THEOREM OneDecoyOnAir == Spec => []OnAirCoherent
<1>1. IInv => OnAirCoherent
  BY DEF IInv, DecoySteps, OnAirCoherent
<1> QED BY Invariant, <1>1, PTL

\* The decoy that a cycle reports is the one on the air, with the same caveat.
THEOREM ReportedDecoyOnAir == Spec => []ReportedIsOnAir
<1>1. IInv => ReportedIsOnAir
  BY DEF IInv, DecoySteps, Points, ReportedIsOnAir
<1> QED BY Invariant, <1>1, PTL

\* A scan whose read loop runs was started, unless an older answer was taken for its own.
THEOREM ScanIsOn == Spec => []ListenedIsScanning
<1>1. IInv => ListenedIsScanning
  BY DEF IInv, ScanSteps, ListenedIsScanning
<1> QED BY Invariant, <1>1, PTL

\* A dead controller costs a cycle two timeouts at most, and a learn scan three.
THEOREM StallsAreBounded == Spec => []StallBounded
<1>1. IInv => StallBounded
  <2> SUFFICES ASSUME IInv PROVE StallBounded
    OBVIOUS
  <2>1. missed \in Nat /\ missed <= 3
    BY DEF IInv, TypeOK
  <2> QED BY <2>1 DEF IInv, Stalls, StallBounded, CycleCommands
<1> QED BY Invariant, <1>1, PTL

\* A single command that returned unanswered never makes an answer pass for another's.
THEOREM OneLateIsHarmless == Spec => OneLateHarmless
<1>1. IInv /\ [Next]_vars => [doubt' \ doubt # {} => late >= 2]_vars
  <2> SUFFICES ASSUME IInv, [Next]_vars, ~(late >= 2)
               PROVE  doubt' \subseteq doubt
    BY DEF IInv
  <2>1. CASE Match
    <3>1. /\ waiting = TRUE /\ replies # <<>> /\ Opcode(replies[1].cmd) = Opcode(at)
          /\ Head(replies) = replies[1] /\ 1 \in 1..Len(replies)
          /\ doubt' = Doubt(replies[1])
      BY <2>1, ReadType DEF Match, IInv, TypeOK
    <3>2. CASE at \in Checked
      <4>1. late <= 1
        BY DEF IInv, TypeOK
      <4>2. sent = <<>> /\ Len(replies) = 1 /\ Mine(replies[1])
        BY <3>1, <3>2, <4>1 DEF IInv, OneOlder, Distinct
      <4>3. Tail(replies) = <<>>
        BY <4>2, <3>1, TailFacts DEF IInv, TypeOK
      <4>4. Own(replies[1])
        BY <4>2, <4>3 DEF Own, Mine
      <4> QED BY <3>1, <4>4 DEF Doubt
    <3>3. CASE at \notin Checked
      BY <3>1, <3>3 DEF Doubt, Checked
    <3> QED BY <3>2, <3>3
  <2>2. CASE ~Match
    BY <2>2, ExecuteType DEF IInv, Next, Host, Cycle, Pause, Learn, Begins, Write, WriteFails, Skip,
       Timeout, Deadline, GivenUp, Listen, ListenEnds
  <2> QED BY <2>1, <2>2
<1> QED BY Invariant, <1>1, PTL DEF OneLateHarmless, Spec
=============================================================================
