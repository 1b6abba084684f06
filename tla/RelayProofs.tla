----------------------------- MODULE RelayProofs -----------------------------
(***************************************************************************)
(* The safety of Relay, for every set of limits, streams, commands and     *)
(* faults.                                                                 *)
(*                                                                         *)
(* The bounded queue: a step of a thread keeps the queue, adds a frame to  *)
(* it, takes one out, writes one or drops them all (QueueMoves); what the  *)
(* queue is charged with is the sum over the frames queued and in flight,  *)
(* which is told by a function of the suffixes of the queue.               *)
(*                                                                         *)
(* What the peer is told: the frames still coming (in flight, queued, and  *)
(* the closing events) may be told one after another, each a step of       *)
(* RelayContract, and lead from what was written to what the threads have  *)
(* promised (Story); it is reached exactly while the queue has not failed. *)
(* That every frame was told when the flush ends, and that the detailed    *)
(* relay takes only steps of its contract, follow.                         *)
(***************************************************************************)
EXTENDS Relay, FiniteSetTheorems, FunctionTheorems, SequenceTheorems, WellFoundedInduction, TLAPS

(* The parts of TypeOK.                                                    *)
Messages == [kind : Commands \cup {"Shutdown", "ControllerEof", "SidebandEof", "Stop",
                                   "WorkerExited"}, cause : Causes]
Sups == [at : {"start", "loop", "stop", "retire", "cancel", "join", "closing",
               "join_writer", "ended"},
         retiring : {"No", "Running", "Late"}, prior : Causes, status : BOOLEAN,
         closings : Seq(Frame), sent : Nat]
Mailboxes == [at : {"unstarted", "running", "done"}, queue : Seq({"Message", "Shutdown", "Close"})]
Readers == [at : {"unstarted", "reading", "sending", "done", "failed"}, size : Sizes \cup {0}]
Queues == [frames : Seq(Frame), output : Usage, supervisor : Usage,
           status : {"Open", "Finishing", "Failed"}]
Writers == [at : {"next", "writing", "done"}, frame : Frame]
Clocks == [drain : {"Unset", "Running", "Expired"}, flush : {"Unset", "Running", "Expired"}]
Wires == [told : [Streams \cup {"Lifetime", "Supervisor"} -> Nat], closed : SUBSET Streams,
          fatal : Causes, outcome : BOOLEAN]
Pipes == [written : 0..MaxWritten, read : 0..MaxWritten, partial : BOOLEAN, open : BOOLEAN]

LEMMA TypeParts ==
    TypeOK <=>
      /\ controls \in Seq(Messages)
      /\ sup \in Sups
      /\ failure \in Causes
      /\ stopping \in BOOLEAN
      /\ command \in {"unstarted", "reading", "done"}
      /\ input \in [Inputs -> Mailboxes]
      /\ reader \in [Streams -> Readers]
      /\ queue \in Queues
      /\ writer \in Writers
      /\ clock \in Clocks
      /\ wire \in Wires
      /\ consumer \in {"Reading", "Stuck", "Gone"}
      /\ worker \in {"None", "Alive", "Dead"}
      /\ pipe \in [Streams -> Pipes]
      /\ turns \in 0..MaxTurns
  BY DEF TypeOK, Messages, Sups, Mailboxes, Readers, Queues, Writers, Clocks, Wires, Pipes

(* How a step moves the queue and its writer.                              *)
Statuses == {"Open", "Finishing", "Failed"}
Fits(f) == IF f.supervisor THEN queue.supervisor.frames < SupervisorFrames
           ELSE OutputAvailable(f.size)

Keeps == UNCHANGED writer /\ \E s \in Statuses : queue' = [queue EXCEPT !.status = s]
Adds(f) == UNCHANGED writer /\ \E s \in Statuses : queue' = [Enqueued(f) EXCEPT !.status = s]
Pops ==
    /\ writer.at = "next" /\ queue.frames # <<>>
    /\ writer' = [at |-> "writing", frame |-> Head(queue.frames)]
    /\ queue' = [queue EXCEPT !.frames = Tail(@)]
Writes ==
    /\ writer.at = "writing"
    /\ writer' = [at |-> "next", frame |-> NoFrame]
    /\ \E s \in Statuses : queue' = [Released(writer.frame) EXCEPT !.status = s]
Drops ==
    /\ writer' = [writer EXCEPT !.at = "done"]
    /\ queue' = [queue EXCEPT !.frames = <<>>]

(* Before the worker is spawned nothing was sent and no reader runs.       *)
Untouched ==
    sup.at = "start" =>
      /\ queue = [frames |-> <<>>, output |-> NoUsage, supervisor |-> NoUsage, status |-> "Open"]
      /\ writer = [at |-> "next", frame |-> NoFrame]
      /\ \A s \in Streams : reader[s].at = "unstarted"

LEMMA EventTyped ==
    ASSUME NEW kind \in Streams \cup {"WorkerStarted", "InterruptResult", "ShutdownStarted", "Closed",
                                      "Fatal", "Outcome"},
           NEW of \in Streams \cup Causes, NEW n \in Nat, NEW b \in BOOLEAN,
           kind = "Closed" => of \in Streams, kind = "Fatal" => of \in Causes
    PROVE  /\ Event(kind, of, n, b) \in Frame
           /\ Event(kind, of, n, b).supervisor = b /\ Event(kind, of, n, b).size = 1
  BY DEF Event, Frame

LEMMA KeptQueue ==
    ASSUME queue \in Queues, UNCHANGED <<queue, writer>>
    PROVE  Keeps
  <1>1. queue' = [queue EXCEPT !.status = queue.status] BY DEF Queues
  <1> QED BY <1>1 DEF Keeps, Queues, Statuses

LEMMA Sent ==
    ASSUME queue \in Queues, UNCHANGED writer, NEW f \in Frame, f.supervisor, SendSupervisor(f)
    PROVE  Keeps \/ (Fits(f) /\ Adds(f))
  <1>1. CASE Admitted
    <2>1. queue' = [Enqueued(f) EXCEPT !.status = queue.status]
      BY <1>1 DEF SendSupervisor, Enqueued, Queues
    <2> QED BY <1>1, <2>1 DEF Adds, Fits, Admitted, Queues, Statuses
  <1>2. CASE ~Admitted /\ queue.status = "Open"
    BY <1>2 DEF SendSupervisor, Failed, Keeps, Statuses
  <1>3. CASE ~Admitted /\ queue.status # "Open"
    BY <1>3, KeptQueue DEF SendSupervisor
  <1> QED BY <1>1, <1>2, <1>3

LEMMA SizeWrite ==
    ASSUME NEW f \in Frame, NEW n \in Nat
    PROVE  /\ [f EXCEPT !.size = n] \in Frame
           /\ [f EXCEPT !.size = n].size = n /\ [f EXCEPT !.size = n].supervisor = f.supervisor
  <1> DEFINE g == [f EXCEPT !.size = n]
             All == [kind : Streams \cup {"WorkerStarted", "InterruptResult", "ShutdownStarted",
                                          "Closed", "Fatal", "Outcome"},
                     of : Streams \cup Causes, n : Nat, size : Nat, supervisor : BOOLEAN]
  <1>1. f \in All /\ (f.kind = "Closed" => f.of \in Streams) /\ (f.kind = "Fatal" => f.of \in Causes)
    BY DEF Frame
  <1>2. g \in All /\ g.kind = f.kind /\ g.of = f.of /\ g.size = n /\ g.supervisor = f.supervisor
    BY <1>1
  <1> HIDE DEF g
  <1>3. g \in Frame BY <1>1, <1>2 DEF Frame
  <1> QED BY <1>2, <1>3 DEF g

LEMMA EnqueuedAsIs ==
    ASSUME queue \in Queues, NEW f
    PROVE  [Enqueued(f) EXCEPT !.status = queue.status] = Enqueued(f)
  BY DEF Enqueued, Queues

(* Every step moves the queue in one of five ways.                         *)
QueueMoves == Keeps \/ (\E f \in Frame : Fits(f) /\ Adds(f)) \/ Pops \/ Writes \/ Drops

LEMMA WriterMoves ==
    ASSUME TypeOK, PopFrame \/ WriteFrame \/ WriteFails \/ WriterEnds
    PROVE  QueueMoves
  <1> USE TypeParts
  <1>1. CASE PopFrame BY <1>1 DEF PopFrame, Pops, QueueMoves
  <1>2. CASE WriteFrame
    <2>1. queue' = [Released(writer.frame) EXCEPT !.status = queue.status]
      BY <1>2 DEF WriteFrame, Released, Queues
    <2> QED BY <1>2, <2>1 DEF WriteFrame, Writes, QueueMoves, Queues, Statuses
  <1>3. CASE WriteFails BY <1>3 DEF WriteFails, Writes, QueueMoves, Statuses
  <1>4. CASE WriterEnds BY <1>4 DEF WriterEnds, Drops, QueueMoves
  <1> QED BY <1>1, <1>2, <1>3, <1>4

LEMMA ReaderMoves ==
    ASSUME TypeOK, RelayAssumption, NEW s \in Streams, Reader(s) \/ ReadFails(s)
    PROVE  QueueMoves
  <1> USE TypeParts
  <1>1. CASE Read(s) BY <1>1, KeptQueue DEF Read, restR, QueueMoves
  <1>2. CASE Send(s) /\ Accepting
    <2> DEFINE e == Event(s, "None", pipe[s].read, FALSE)
               f == [e EXCEPT !.size = reader[s].size]
    <2>1. pipe[s].read \in Nat /\ reader[s].size \in Nat
      <3>1. pipe[s] \in Pipes /\ reader[s] \in Readers OBVIOUS
      <3>2. MaxWritten \in Nat /\ Sizes \subseteq Nat BY DEF RelayAssumption
      <3>3. pipe[s].read \in 0..MaxWritten BY <3>1 DEF Pipes
      <3>4. reader[s].size \in Sizes \cup {0} BY <3>1 DEF Readers
      <3>5. pipe[s].read \in Nat BY <3>2, <3>3
      <3>6. \A x \in Sizes \cup {0} : x \in Nat
        <4> HIDE TypeParts
        <4> QED BY <3>2
      <3>7. reader[s].size \in Nat BY <3>4, <3>6
      <3> QED BY <3>5, <3>7
    <2>5. s \notin {"Closed", "Fatal"} BY DEF RelayAssumption, Streams, Sideband
    <2>2. f \in Frame /\ f.supervisor = FALSE /\ f.size = reader[s].size
      <3>1. e \in Frame /\ e.supervisor = FALSE /\ e.kind = s
        <4>1. "None" \in Causes BY DEF Causes
        <4>2. e.kind = s BY DEF Event
        <4> QED BY <2>1, <2>5, <4>1, <4>2, EventTyped
      <3> HIDE DEF e
      <3> QED BY <2>1, <3>1, SizeWrite
    <2>3. queue' = Enqueued(f) /\ OutputAvailable(f.size) /\ UNCHANGED writer
      BY <1>2, <2>2 DEF Send, restR
    <2>4. queue' = [Enqueued(f) EXCEPT !.status = queue.status]
      BY <2>3, EnqueuedAsIs
    <2> HIDE DEF f
    <2> QED BY <2>2, <2>3, <2>4 DEF QueueMoves, Adds, Fits, Queues, Statuses
  <1>3. CASE Send(s) /\ ~Accepting
    <2>1. CASE queue.status = "Open"
      BY <1>3, <2>1 DEF Send, restR, Failed, Keeps, QueueMoves, Statuses
    <2>2. CASE queue.status # "Open"
      BY <1>3, <2>2, KeptQueue DEF Send, restR, QueueMoves
    <2> QED BY <2>1, <2>2
  <1>4. CASE ReadEof(s) BY <1>4, KeptQueue DEF ReadEof, restR, QueueMoves
  <1>5. CASE DrainEnds(s) BY <1>5, KeptQueue DEF DrainEnds, restR, QueueMoves
  <1>6. CASE ReadFails(s) BY <1>6, KeptQueue DEF ReadFails, restR, QueueMoves
  <1> QED BY <1>1, <1>2, <1>3, <1>4, <1>5, <1>6 DEF Reader

LEMMA LoopMoves ==
    ASSUME TypeOK, Loop
    PROVE  QueueMoves
  <1> USE TypeParts
  <1>1. CASE Forward BY <1>1, KeptQueue DEF Forward, Take, restS, QueueMoves
  <1>2. CASE Interrupt
    <2>1. sup.sent + 1 \in Nat BY DEF Sups
    <2>2. UNCHANGED writer BY <1>2 DEF Interrupt, Take, restS
    <2> QED BY <1>2, <2>1, <2>2, EventTyped, Sent DEF Interrupt, QueueMoves, Causes
  <1>3. CASE ShutDown
    <2>1. sup.sent + 1 \in Nat BY DEF Sups
    <2>2. UNCHANGED writer BY <1>3 DEF ShutDown, Take, restS
    <2>3. CASE UNCHANGED queue BY <2>2, <2>3, KeptQueue DEF QueueMoves
    <2>4. CASE SendSupervisor(Event("ShutdownStarted", "None", sup.sent + 1, TRUE))
      BY <2>1, <2>2, <2>4, EventTyped, Sent DEF QueueMoves, Causes
    <2> QED BY <1>3, <2>3, <2>4 DEF ShutDown
  <1>4. CASE SidebandEof BY <1>4, KeptQueue DEF SidebandEof, Take, restS, QueueMoves
  <1>5. CASE Ignore BY <1>5, KeptQueue DEF Ignore, Take, restS, QueueMoves
  <1>6. CASE Stopped BY <1>6, KeptQueue DEF Stopped, Take, restS, QueueMoves
  <1>7. CASE WorkerExited BY <1>7, KeptQueue DEF WorkerExited, Take, restS, QueueMoves
  <1>8. CASE OutOfTime BY <1>8, KeptQueue DEF OutOfTime, restS, QueueMoves
  <1> QED BY <1>1, <1>2, <1>3, <1>4, <1>5, <1>6, <1>7, <1>8 DEF Loop

(* The closing events are those of the supervisor.                         *)
OwnFrame == {f \in Frame : f.supervisor}
SupervisorsOwn == sup.closings \in Seq(OwnFrame)

LEMMA SupervisorMoves ==
    ASSUME TypeOK, SupervisorsOwn, Supervisor
    PROVE  QueueMoves
  <1> USE TypeParts
  <1>1. CASE Loop BY <1>1, LoopMoves
  <1>2. CASE Kill BY <1>2, KeptQueue DEF Kill, restS, QueueMoves
  <1>3. CASE Retire BY <1>3, KeptQueue DEF Retire, restS, QueueMoves
  <1>4. CASE CancelThreads BY <1>4, KeptQueue DEF CancelThreads, restS, QueueMoves
  <1>5. CASE Join BY <1>5, KeptQueue DEF Join, restS, QueueMoves
  <1>6. CASE Close
    <2>1. UNCHANGED writer BY <1>6 DEF Close, restS
    <2>2. CASE sup.closings # <<>>
      <3>1. Head(sup.closings) \in OwnFrame
        BY <2>2, HeadTailProperties DEF SupervisorsOwn
      <3>2. SendSupervisor(Head(sup.closings)) BY <1>6, <2>2 DEF Close
      <3> QED BY <2>1, <3>1, <3>2, Sent DEF OwnFrame, QueueMoves
    <2>3. CASE sup.closings = <<>>
      BY <1>6, <2>1, <2>3 DEF Close, QueueMoves, Keeps, Statuses, Queues
    <2> QED BY <2>2, <2>3
  <1>7. CASE End BY <1>7, KeptQueue DEF End, restS, QueueMoves
  <1> QED BY <1>1, <1>2, <1>3, <1>4, <1>5, <1>6, <1>7 DEF Supervisor

LEMMA StartMoves ==
    ASSUME TypeOK, RelayAssumption, Untouched, Spawn \/ SpawnFails
    PROVE  QueueMoves
  <1> USE TypeParts
  <1>1. queue = [frames |-> <<>>, output |-> NoUsage, supervisor |-> NoUsage, status |-> "Open"]
    BY DEF Spawn, SpawnFails, Untouched
  <1>2. \A f \in Frame : Fits(f)
    BY <1>1 DEF Fits, OutputAvailable, NoUsage, RelayAssumption
  <1>3. CASE Spawn
    <2> DEFINE f == Event("WorkerStarted", "None", 1, FALSE)
    <2>1. f \in Frame BY EventTyped DEF Causes
    <2>2. queue' = [Enqueued(f) EXCEPT !.status = queue.status] /\ UNCHANGED writer
      BY <1>3, EnqueuedAsIs DEF Spawn, restS
    <2> HIDE DEF f
    <2> QED BY <1>2, <2>1, <2>2 DEF QueueMoves, Adds, Queues, Statuses
  <1>4. CASE SpawnFails
    <2> DEFINE f == Event("Fatal", "Spawn", 0, TRUE)
    <2>1. f \in Frame BY EventTyped DEF Causes
    <2>2. queue' = [Enqueued(f) EXCEPT !.status = "Finishing"] /\ UNCHANGED writer
      BY <1>4 DEF SpawnFails, restS
    <2> HIDE DEF f
    <2> QED BY <1>2, <2>1, <2>2 DEF QueueMoves, Adds, Statuses
  <1> QED BY <1>3, <1>4

LEMMA StepMoves ==
    ASSUME TypeOK, RelayAssumption, Untouched, SupervisorsOwn, [Next]_vars
    PROVE  QueueMoves
  <1> USE TypeParts
  <1>1. CASE Relayed
    <2>1. CASE \E i \in Inputs : InputFails(i) \/ InputEnds(i)
      BY <2>1, KeptQueue DEF InputFails, InputEnds, restI, QueueMoves
    <2>2. CASE Tick BY <2>2, KeptQueue DEF Tick, restT, QueueMoves
    <2> QED BY <1>1, <2>1, <2>2, WriterMoves, ReaderMoves, StartMoves, SupervisorMoves DEF Relayed
  <1>2. CASE SpawnFails BY <1>2, StartMoves
  <1>3. CASE \E s \in Streams : ReadFails(s) BY <1>3, ReaderMoves
  <1>4. CASE \E i \in Inputs : WriteInput(i)
    BY <1>4, KeptQueue DEF WriteInput, restI, QueueMoves
  <1>5. CASE ReadCommand \/ CommandsEnd
    BY <1>5, KeptQueue DEF ReadCommand, CommandsEnd, restC, QueueMoves
  <1>6. CASE ConsumerTurns \/ WorkerWrites \/ WorkerCloses \/ WorkerExits
    BY <1>6, KeptQueue DEF ConsumerTurns, WorkerWrites, WorkerCloses, WorkerExits, restX, QueueMoves
  <1>7. CASE UNCHANGED vars BY <1>7, KeptQueue DEF vars, QueueMoves
  <1> QED BY <1>1, <1>2, <1>3, <1>4, <1>5, <1>6, <1>7 DEF Next

(* What the suffixes of the queue are charged with, from the last frame to *)
(* the first, and that the queue is charged with all of it and with what   *)
(* its writer holds.                                                       *)
Used(b) == IF b THEN queue.supervisor ELSE queue.output
Plus(usage, b, f) == IF f.supervisor = b THEN Charge(usage, f.size) ELSE usage
SuffixSums == 1..(Len(queue.frames) + 1)
Backlog(b, rest) ==
    /\ rest[Len(queue.frames) + 1] = NoUsage
    /\ \A k \in 1..Len(queue.frames) : rest[k] = Plus(rest[k + 1], b, queue.frames[k])
    /\ \A k \in SuffixSums : rest[k].frames = 0 => rest[k].bytes = 0
Accounted(b) ==
    \E rest \in [SuffixSums -> Usage] :
       /\ Backlog(b, rest)
       /\ Used(b) = IF writer.at = "writing" THEN Plus(rest[1], b, writer.frame) ELSE rest[1]

LEMMA ChargeTyped ==
    ASSUME NEW u \in Usage, NEW n \in Nat
    PROVE  /\ Charge(u, n) \in Usage
           /\ Charge(u, n).frames = u.frames + 1 /\ Charge(u, n).bytes = u.bytes + n
           /\ Release(Charge(u, n), n) = u
  BY DEF Charge, Release, Usage

LEMMA PlusTyped ==
    ASSUME NEW u \in Usage, NEW f \in Frame, NEW b \in BOOLEAN
    PROVE  Plus(u, b, f) \in Usage /\ (Plus(u, b, f).frames = 0 => Plus(u, b, f) = u)
  <1>1. f.size \in Nat BY DEF Frame
  <1>2. Charge(u, f.size) \in Usage /\ Charge(u, f.size).frames = u.frames + 1
    BY <1>1, ChargeTyped
  <1>3. u.frames + 1 # 0 BY DEF Usage
  <1> QED BY <1>2, <1>3 DEF Plus

LEMMA KeepsAccounts ==
    ASSUME queue \in Queues, Keeps, NEW b \in BOOLEAN, Accounted(b)
    PROVE  Accounted(b)' /\ queue' \in Queues
  <1>1. /\ queue'.frames = queue.frames /\ queue'.output = queue.output
        /\ queue'.supervisor = queue.supervisor
        /\ queue' \in Queues /\ UNCHANGED writer
    BY DEF Keeps, Queues, Statuses
  <1> QED BY <1>1 DEF Accounted, Backlog, Used, SuffixSums

LEMMA PlusCommutes ==
    ASSUME NEW u \in Usage, NEW b \in BOOLEAN, NEW f \in Frame, NEW g \in Frame
    PROVE  Plus(Plus(u, b, f), b, g) = Plus(Plus(u, b, g), b, f)
  <1>1. f.size \in Nat /\ g.size \in Nat BY DEF Frame
  <1>2. Charge(Charge(u, f.size), g.size) = Charge(Charge(u, g.size), f.size)
    BY <1>1 DEF Charge, Usage
  <1> QED BY <1>2 DEF Plus

LEMMA AddsAccounts ==
    ASSUME queue \in Queues, writer \in Writers, NEW f \in Frame, Adds(f),
           NEW b \in BOOLEAN, Accounted(b)
    PROVE  Accounted(b)' /\ queue' \in Queues
  <1> DEFINE n == Len(queue.frames)
  <1>1. n \in Nat /\ queue.frames \in Seq(Frame) /\ queue.output \in Usage /\ queue.supervisor \in Usage
    BY DEF Queues
  <1>2. f.supervisor \in BOOLEAN /\ f.size \in Nat BY DEF Frame
  <1>3. /\ queue'.frames = Append(queue.frames, f)
        /\ queue'.output = IF f.supervisor THEN queue.output ELSE Charge(queue.output, f.size)
        /\ queue'.supervisor = IF f.supervisor THEN Charge(queue.supervisor, f.size) ELSE queue.supervisor
        /\ queue'.status \in Statuses
        /\ queue' = [frames |-> queue'.frames, output |-> queue'.output,
                     supervisor |-> queue'.supervisor, status |-> queue'.status]
        /\ UNCHANGED writer
    BY DEF Adds, Enqueued, Queues
  <1>4. queue' \in Queues
    <2>1. queue'.frames \in Seq(Frame) BY <1>1, <1>3
    <2>2. queue'.output \in Usage /\ queue'.supervisor \in Usage BY <1>1, <1>2, <1>3, ChargeTyped
    <2> QED BY <1>3, <2>1, <2>2 DEF Queues, Statuses
  <1>5. PICK rest \in [SuffixSums -> Usage] :
           /\ Backlog(b, rest)
           /\ Used(b) = IF writer.at = "writing" THEN Plus(rest[1], b, writer.frame) ELSE rest[1]
    BY DEF Accounted
  <1>6. /\ Len(queue'.frames) = n + 1 /\ queue'.frames[n + 1] = f
        /\ \A k \in 1..n : queue'.frames[k] = queue.frames[k] /\ queue.frames[k] \in Frame
    BY <1>1, <1>3
  <1>7. SuffixSums' = 1..(n + 2) /\ SuffixSums = 1..(n + 1) BY <1>1, <1>6 DEF SuffixSums
  <1>8. NoUsage \in Usage BY DEF NoUsage, Usage
  <1>9. \A k \in 1..(n + 1) : Plus(rest[k], b, f) \in Usage
    BY <1>5, <1>7, PlusTyped
  <1>11. PICK rest2 \in [1..(n + 2) -> Usage] :
            /\ rest2[n + 2] = NoUsage
            /\ \A k \in 1..(n + 1) : rest2[k] = Plus(rest[k], b, f)
    <2> DEFINE r == [k \in 1..(n + 2) |-> IF k = n + 2 THEN NoUsage ELSE Plus(rest[k], b, f)]
    <2>1. r \in [1..(n + 2) -> Usage] BY <1>1, <1>8, <1>9
    <2>2. r[n + 2] = NoUsage /\ \A k \in 1..(n + 1) : r[k] = Plus(rest[k], b, f) BY <1>1
    <2> HIDE DEF r
    <2> QED BY <2>1, <2>2
  <1>12. ASSUME NEW k \in 1..(n + 1) PROVE rest2[k] = Plus(rest2[k + 1], b, queue'.frames[k])
    <2>1. CASE k = n + 1
      BY <1>1, <1>5, <1>6, <1>11, <2>1 DEF Backlog
    <2>2. CASE k # n + 1
      <3>1. k \in 1..n /\ k + 1 \in 1..(n + 1) BY <1>1, <2>2
      <3>2. rest[k] = Plus(rest[k + 1], b, queue.frames[k]) BY <1>5, <3>1 DEF Backlog
      <3>3. rest[k + 1] \in Usage BY <1>7, <3>1
      <3> QED BY <1>6, <1>11, <3>1, <3>2, <3>3, PlusCommutes
    <2> QED BY <2>1, <2>2
  <1>13. ASSUME NEW k \in 1..(n + 2) PROVE rest2[k].frames = 0 => rest2[k].bytes = 0
    <2>1. CASE k = n + 2 BY <1>11, <2>1 DEF NoUsage
    <2>2. CASE k # n + 2
      <3>1. k \in 1..(n + 1) /\ rest[k] \in Usage BY <1>1, <1>7, <2>2
      <3>2. rest[k].frames = 0 => rest[k].bytes = 0 BY <1>5, <1>7, <3>1 DEF Backlog
      <3> QED BY <1>11, <3>1, <3>2, PlusTyped
    <2> QED BY <2>1, <2>2
  <1>14. Backlog(b, rest2)'
    <2>1. rest2[Len(queue'.frames) + 1] = NoUsage BY <1>1, <1>6, <1>11
    <2> QED BY <1>6, <1>7, <1>12, <1>13, <2>1 DEF Backlog
  <1>15. Used(b)' = Plus(Used(b), b, f)
    BY <1>2, <1>3 DEF Used, Plus
  <1>16. Used(b)' = IF writer'.at = "writing" THEN Plus(rest2[1], b, writer'.frame) ELSE rest2[1]
    <2>1. rest[1] \in Usage /\ rest2[1] = Plus(rest[1], b, f) BY <1>1, <1>7, <1>11
    <2>2. writer.frame \in Frame BY DEF Writers
    <2> QED BY <1>3, <1>5, <1>15, <2>1, <2>2, PlusCommutes
  <1> QED BY <1>4, <1>7, <1>14, <1>16 DEF Accounted

LEMMA PopsAccounts ==
    ASSUME queue \in Queues, Pops, NEW b \in BOOLEAN, Accounted(b)
    PROVE  Accounted(b)' /\ queue' \in Queues /\ writer' \in Writers
  <1> DEFINE n == Len(queue.frames)
  <1>1. n \in Nat \ {0} /\ queue.frames \in Seq(Frame)
    BY EmptySeq DEF Queues, Pops
  <1>2. /\ Head(queue.frames) = queue.frames[1] /\ Head(queue.frames) \in Frame
        /\ Tail(queue.frames) \in Seq(Frame) /\ Len(Tail(queue.frames)) = n - 1
        /\ \A k \in 1..(n - 1) : Tail(queue.frames)[k] = queue.frames[k + 1]
    BY <1>1, HeadTailProperties DEF Pops
  <1>3. /\ queue'.frames = Tail(queue.frames)
        /\ queue'.output = queue.output /\ queue'.supervisor = queue.supervisor
        /\ queue' = [queue EXCEPT !.frames = Tail(queue.frames)]
        /\ writer' = [at |-> "writing", frame |-> queue.frames[1]] /\ writer.at = "next"
    BY <1>2 DEF Pops, Queues
  <1>4. queue' \in Queues /\ writer' \in Writers BY <1>2, <1>3 DEF Queues, Writers
  <1>5. PICK rest \in [SuffixSums -> Usage] : Backlog(b, rest) /\ Used(b) = rest[1]
    BY <1>3 DEF Accounted
  <1>6. SuffixSums = 1..(n + 1) /\ SuffixSums' = 1..n BY <1>1, <1>2, <1>3 DEF SuffixSums
  <1>7. PICK rest2 \in [1..n -> Usage] : \A k \in 1..n : rest2[k] = rest[k + 1]
    <2> DEFINE r == [k \in 1..n |-> rest[k + 1]]
    <2>1. r \in [1..n -> Usage] BY <1>1, <1>6
    <2>2. \A k \in 1..n : r[k] = rest[k + 1] OBVIOUS
    <2> HIDE DEF r
    <2> QED BY <2>1, <2>2
  <1>8. Backlog(b, rest2)'
    <2>1. rest2[n] = NoUsage BY <1>1, <1>5, <1>7 DEF Backlog
    <2>2. \A k \in 1..(n - 1) : rest2[k] = Plus(rest2[k + 1], b, queue'.frames[k])
      BY <1>1, <1>2, <1>3, <1>5, <1>7 DEF Backlog
    <2>3. \A k \in 1..n : rest2[k].frames = 0 => rest2[k].bytes = 0
      BY <1>1, <1>5, <1>6, <1>7 DEF Backlog
    <2>4. Len(queue'.frames) = n - 1 BY <1>2, <1>3
    <2> QED BY <1>1, <1>6, <2>1, <2>2, <2>3, <2>4 DEF Backlog
  <1>9. Used(b)' = Plus(rest2[1], b, queue.frames[1])
    BY <1>1, <1>3, <1>5, <1>7 DEF Used, Backlog
  <1> QED BY <1>3, <1>4, <1>6, <1>8, <1>9 DEF Accounted

LEMMA WritesAccounts ==
    ASSUME queue \in Queues, writer \in Writers, Writes, \A b \in BOOLEAN : Accounted(b)
    PROVE  /\ \A b \in BOOLEAN : Accounted(b)'
           /\ queue' \in Queues /\ writer' \in Writers
           /\ \A b \in BOOLEAN : Used(b) = Plus(Used(b)', b, writer.frame)
           /\ \A b \in BOOLEAN : Used(b)'.frames = 0 => Used(b)'.bytes = 0
  <1> DEFINE f == writer.frame
  <1>1. f \in Frame /\ f.supervisor \in BOOLEAN /\ f.size \in Nat BY DEF Writers, Frame
  <1>2. /\ queue'.frames = queue.frames
        /\ queue'.output = IF f.supervisor THEN queue.output ELSE Release(queue.output, f.size)
        /\ queue'.supervisor = IF f.supervisor THEN Release(queue.supervisor, f.size) ELSE queue.supervisor
        /\ queue'.status \in Statuses
        /\ queue' = [frames |-> queue'.frames, output |-> queue'.output,
                     supervisor |-> queue'.supervisor, status |-> queue'.status]
        /\ writer.at = "writing" /\ writer' = [at |-> "next", frame |-> NoFrame]
    BY DEF Writes, Released, Queues
  <1>3. ASSUME NEW b \in BOOLEAN
        PROVE  /\ Accounted(b)' /\ Used(b)' \in Usage
               /\ Used(b) = Plus(Used(b)', b, f)
               /\ Used(b)'.frames = 0 => Used(b)'.bytes = 0
    <2>1. PICK rest \in [SuffixSums -> Usage] : Backlog(b, rest) /\ Used(b) = Plus(rest[1], b, f)
      BY <1>2 DEF Accounted
    <2>2. 1 \in SuffixSums
      <3>1. Len(queue.frames) \in Nat BY DEF Queues
      <3> QED BY <3>1 DEF SuffixSums
    <2>3. Used(b)' = rest[1]
      BY <1>1, <1>2, <2>1, <2>2, ChargeTyped DEF Used, Plus
    <2>4. SuffixSums' = SuffixSums /\ Backlog(b, rest)' BY <1>2, <2>1 DEF Backlog, SuffixSums
    <2>5. Accounted(b)' BY <1>2, <2>3, <2>4 DEF Accounted
    <2> QED BY <2>1, <2>2, <2>3, <2>5 DEF Backlog
  <1>4. queue' \in Queues
    <2>1. queue'.output \in Usage /\ queue'.supervisor \in Usage BY <1>3 DEF Used
    <2>2. queue'.frames \in Seq(Frame) BY <1>2 DEF Queues
    <2> QED BY <1>2, <2>1, <2>2 DEF Queues, Statuses
  <1>5. NoFrame \in Frame BY DEF NoFrame, Frame, Causes
  <1> QED BY <1>2, <1>3, <1>4, <1>5 DEF Writers

(* How many frames of a sequence are the supervisor's, or are not.         *)
Of(q, b) == {k \in 1..Len(q) : q[k].supervisor = b}
Counted(b) == Used(b).frames = FramesCharged(b)

LEMMA OfFinite ==
    ASSUME NEW q \in Seq(Frame), NEW b
    PROVE  IsFiniteSet(Of(q, b)) /\ Cardinality(Of(q, b)) \in Nat
  <1>1. IsFiniteSet(1..Len(q)) BY FS_Interval
  <1>2. Of(q, b) \in SUBSET (1..Len(q)) BY DEF Of
  <1> QED BY <1>1, <1>2, FS_Subset, FS_CardinalityType

LEMMA OfAppend ==
    ASSUME NEW q \in Seq(Frame), NEW f \in Frame, NEW b
    PROVE  Cardinality(Of(Append(q, f), b)) =
             Cardinality(Of(q, b)) + IF f.supervisor = b THEN 1 ELSE 0
  <1>1. /\ Len(q) \in Nat /\ Len(Append(q, f)) = Len(q) + 1 /\ Append(q, f)[Len(q) + 1] = f
        /\ \A k \in 1..Len(q) : Append(q, f)[k] = q[k]
    OBVIOUS
  <1>2. CASE f.supervisor = b
    <2>1. Of(Append(q, f), b) = Of(q, b) \cup {Len(q) + 1} BY <1>1, <1>2 DEF Of
    <2>2. Len(q) + 1 \notin Of(q, b) BY <1>1 DEF Of
    <2> QED BY <1>2, <2>1, <2>2, OfFinite, FS_AddElement
  <1>3. CASE f.supervisor # b
    <2>1. Of(Append(q, f), b) = Of(q, b) BY <1>1, <1>3 DEF Of
    <2> QED BY <1>3, <2>1, OfFinite
  <1> QED BY <1>2, <1>3

LEMMA OfTail ==
    ASSUME NEW q \in Seq(Frame), q # <<>>, NEW b
    PROVE  Cardinality(Of(q, b)) =
             Cardinality(Of(Tail(q), b)) + IF q[1].supervisor = b THEN 1 ELSE 0
  <1> DEFINE S == Of(Tail(q), b)
             T == Of(q, b) \ {1}
             shift == [k \in S |-> k + 1]
  <1>1. /\ Len(q) \in Nat \ {0} /\ Tail(q) \in Seq(Frame) /\ Len(Tail(q)) = Len(q) - 1
        /\ \A k \in 1..(Len(q) - 1) : Tail(q)[k] = q[k + 1]
    BY EmptySeq, HeadTailProperties
  <1>2. \A k \in S : k \in Nat /\ k + 1 \in T BY <1>1 DEF Of
  <1>3. \A k \in T : k - 1 \in S /\ (k - 1) + 1 = k BY <1>1 DEF Of
  <1>4. shift \in [S -> T] BY <1>2
  <1>5. \A k, l \in S : shift[k] = shift[l] => k = l BY <1>2
  <1>6. \A k \in T : \E l \in S : shift[l] = k BY <1>3
  <1>7. shift \in Bijection(S, T)
    <2> HIDE DEF S, T, shift
    <2> QED BY <1>4, <1>5, <1>6, Fun_IsBij
  <1>8. Cardinality(T) = Cardinality(S)
    <2>1. IsFiniteSet(S) BY <1>1, OfFinite
    <2>2. ExistsBijection(S, T) BY <1>7 DEF ExistsBijection
    <2> HIDE DEF S, T, shift
    <2> QED BY <2>1, <2>2, FS_Bijection
  <1>9. Cardinality(T) = IF 1 \in Of(q, b) THEN Cardinality(Of(q, b)) - 1 ELSE Cardinality(Of(q, b))
    BY OfFinite, FS_RemoveElement
  <1>10. 1 \in Of(q, b) <=> q[1].supervisor = b BY <1>1 DEF Of
  <1>11. Cardinality(Of(q, b)) \in Nat /\ Cardinality(S) \in Nat BY <1>1, OfFinite
  <1> HIDE DEF S, T, shift
  <1>12. Cardinality(Of(q, b)) = Cardinality(S) + IF q[1].supervisor = b THEN 1 ELSE 0
    BY <1>8, <1>9, <1>10, <1>11
  <1> QED BY <1>12 DEF S

LEMMA ChargedIsOf ==
    ASSUME queue \in Queues, NEW b \in BOOLEAN
    PROVE  FramesCharged(b) = Cardinality(Of(queue.frames, b)) + InFlight(b)
  <1>1. queue.frames \in Seq(Frame) BY DEF Queues
  <1>2. FramesOf(b) = Of(queue.frames, b) BY <1>1, LenProperties DEF FramesOf, Of
  <1> QED BY <1>2 DEF FramesCharged

LEMMA CountsKept ==
    ASSUME queue \in Queues, writer \in Writers, queue' \in Queues, \A b \in BOOLEAN : Counted(b),
           \/ Keeps
           \/ \E f \in Frame : Adds(f)
           \/ Pops
           \/ Writes /\ \A b \in BOOLEAN : Used(b) = Plus(Used(b)', b, writer.frame)
    PROVE  \A b \in BOOLEAN : Counted(b)'
  <1> SUFFICES ASSUME NEW b \in BOOLEAN PROVE Counted(b)' OBVIOUS
  <1> DEFINE c == Cardinality(Of(queue.frames, b))
  <1>1. queue.frames \in Seq(Frame) /\ c \in Nat /\ Used(b) \in Usage /\ Used(b).frames \in Nat
    BY OfFinite DEF Queues, Used, Usage
  <1>2. Used(b).frames = c + InFlight(b) BY ChargedIsOf DEF Counted
  <1>3. FramesCharged(b)' = Cardinality(Of(queue'.frames, b)) + InFlight(b)'
    <2>1. queue'.frames \in Seq(Frame) BY DEF Queues
    <2>2. FramesOf(b)' = Of(queue'.frames, b) BY <2>1, LenProperties DEF FramesOf, Of
    <2> QED BY <2>2 DEF FramesCharged
  <1>4. CASE Keeps
    BY <1>2, <1>3, <1>4 DEF Keeps, Used, InFlight, Queues, Counted
  <1>5. ASSUME NEW f \in Frame, Adds(f) PROVE Counted(b)'
    <2>1. queue'.frames = Append(queue.frames, f) /\ UNCHANGED writer
      BY <1>5 DEF Adds, Enqueued, Queues
    <2>2. Used(b)' = Plus(Used(b), b, f)
      <3>1. f.supervisor \in BOOLEAN BY DEF Frame
      <3> QED BY <1>5, <3>1 DEF Adds, Enqueued, Queues, Used, Plus
    <2>3. Used(b)'.frames = Used(b).frames + IF f.supervisor = b THEN 1 ELSE 0
      BY <1>1, <2>2 DEF Plus, Charge
    <2>4. InFlight(b)' = InFlight(b) /\ InFlight(b) \in Nat BY <2>1 DEF InFlight
    <2>5. Cardinality(Of(queue'.frames, b)) = c + IF f.supervisor = b THEN 1 ELSE 0
      BY <1>1, <2>1, OfAppend
    <2> QED BY <1>1, <1>2, <1>3, <2>3, <2>4, <2>5 DEF Counted
  <1>6. CASE Pops
    <2>1. /\ queue'.frames = Tail(queue.frames) /\ UNCHANGED <<queue.output, queue.supervisor>>
          /\ Head(queue.frames) = queue.frames[1]
      BY <1>1, <1>6 DEF Pops, Queues
    <2>2. InFlight(b) = 0 /\ InFlight(b)' = IF queue.frames[1].supervisor = b THEN 1 ELSE 0
      BY <1>6, <2>1 DEF Pops, InFlight
    <2>3. c = Cardinality(Of(queue'.frames, b)) + IF queue.frames[1].supervisor = b THEN 1 ELSE 0
      BY <1>1, <1>6, <2>1, OfTail DEF Pops
    <2>4. Used(b)' = Used(b) BY <2>1 DEF Used
    <2> QED BY <1>1, <1>2, <1>3, <2>2, <2>3, <2>4 DEF Counted
  <1>7. CASE Writes /\ \A d \in BOOLEAN : Used(d) = Plus(Used(d)', d, writer.frame)
    <2>1. queue'.frames = queue.frames /\ writer.at = "writing" /\ writer'.at = "next"
      BY <1>7 DEF Writes, Released, Queues
    <2>2. Used(b)' \in Usage /\ Used(b)'.frames \in Nat BY DEF Queues, Used, Usage
    <2>3. Used(b).frames = Used(b)'.frames + IF writer.frame.supervisor = b THEN 1 ELSE 0
      BY <1>7, <2>2 DEF Plus, Charge
    <2>4. InFlight(b)' = 0 /\ InFlight(b) = IF writer.frame.supervisor = b THEN 1 ELSE 0
      BY <2>1 DEF InFlight
    <2> QED BY <1>1, <1>2, <1>3, <2>1, <2>2, <2>3, <2>4 DEF Counted
  <1> QED BY <1>4, <1>5, <1>6, <1>7

(* The other variables: helpers first.                                     *)
RestTyped ==
    /\ controls \in Seq(Messages)
    /\ sup \in Sups
    /\ failure \in Causes
    /\ stopping \in BOOLEAN
    /\ command \in {"unstarted", "reading", "done"}
    /\ input \in [Inputs -> Mailboxes]
    /\ reader \in [Streams -> Readers]
    /\ clock \in Clocks
    /\ wire \in Wires
    /\ consumer \in {"Reading", "Stuck", "Gone"}
    /\ worker \in {"None", "Alive", "Dead"}
    /\ pipe \in [Streams -> Pipes]
    /\ turns \in 0..MaxTurns

LEMMA RestOfType == TypeOK <=> RestTyped /\ queue \in Queues /\ writer \in Writers
  BY TypeParts DEF RestTyped

LEMMA PostTyped ==
    ASSUME controls \in Seq(Messages), NEW m \in Messages, Post(m)
    PROVE  controls' \in Seq(Messages)
  BY DEF Post

LEMMA ReportTyped ==
    ASSUME controls \in Seq(Messages), failure \in Causes, NEW c \in Causes, Report(c)
    PROVE  controls' \in Seq(Messages) /\ failure' \in Causes
  <1>1. Stop(c) \in Messages BY DEF Stop, Messages
  <1> QED BY <1>1, PostTyped DEF Report

LEMMA ControlTyped ==
    ASSUME NEW kind \in Commands \cup {"Shutdown", "ControllerEof", "SidebandEof", "WorkerExited"}
    PROVE  Control(kind) \in Messages
  BY DEF Control, Messages, Causes

LEMMA TurnTyped ==
    ASSUME RelayAssumption, turns \in 0..MaxTurns, Turn
    PROVE  turns' \in 0..MaxTurns
  <1>1. MaxTurns \in Nat BY DEF RelayAssumption
  <1> QED BY <1>1 DEF Turn

LEMMA LabelTyped ==
    ASSUME reader \in [Streams -> Readers], NEW s \in Streams,
           NEW label \in {"unstarted", "reading", "sending", "done", "failed"}, ReaderAt(s, label)
    PROVE  reader' \in [Streams -> Readers]
  BY DEF ReaderAt, Readers

LEMMA MailTyped ==
    ASSUME input \in [Inputs -> Mailboxes], NEW i \in Inputs,
           NEW m \in {"Message", "Shutdown", "Close"}
    PROVE  Give(i, m) \in [Inputs -> Mailboxes]
  BY DEF Give, Mailboxes

LEMMA DiesTyped ==
    ASSUME worker \in {"None", "Alive", "Dead"}, pipe \in [Streams -> Pipes], Dies
    PROVE  worker' \in {"None", "Alive", "Dead"} /\ pipe' \in [Streams -> Pipes]
  <1>1. ASSUME NEW held \in SUBSET Streams
        PROVE  [s \in Streams |-> [pipe[s] EXCEPT !.open = @ /\ s \in held]] \in [Streams -> Pipes]
    <2>1. ASSUME NEW s \in Streams PROVE [pipe[s] EXCEPT !.open = @ /\ s \in held] \in Pipes
      <3>1. pipe[s] \in Pipes /\ (pipe[s].open /\ s \in held) \in BOOLEAN OBVIOUS
      <3> QED BY <3>1 DEF Pipes
    <2> QED BY <2>1
  <1> QED BY <1>1 DEF Dies

LEMMA ToldTyped ==
    ASSUME wire \in Wires, NEW f \in Frame
    PROVE  Told(f) \in Wires
  <1>1. /\ wire.told \in [Streams \cup {"Lifetime", "Supervisor"} -> Nat] /\ f.n \in Nat
        /\ wire.closed \in SUBSET Streams /\ wire.outcome \in BOOLEAN /\ wire.fatal \in Causes
    BY DEF Wires, Frame
  <1>2. f.kind = "Closed" => f.of \in Streams BY DEF Frame
  <1>3. f.kind = "Fatal" => f.of \in Causes BY DEF Frame
  <1>4. ASSUME NEW p \in Streams \cup {"Lifetime", "Supervisor"}
        PROVE  [wire EXCEPT !.told[p] = f.n] \in Wires
    BY <1>1 DEF Wires
  <1>5. /\ f.kind = "Closed" => [wire EXCEPT !.closed = @ \cup {f.of}] \in Wires
        /\ f.kind = "Fatal" => [wire EXCEPT !.fatal = f.of] \in Wires
        /\ [wire EXCEPT !.outcome = TRUE] \in Wires
    BY <1>1, <1>2, <1>3 DEF Wires
  <1>6. f.kind \in Streams \cup {"WorkerStarted", "InterruptResult", "ShutdownStarted", "Closed",
                                 "Fatal", "Outcome"}
    BY DEF Frame
  <1> QED BY <1>4, <1>5, <1>6 DEF Told

LEMMA ClosingsTyped ==
    ASSUME sup \in Sups, NEW cause \in Causes
    PROVE  Closings(cause) \in Seq(OwnFrame)
  <1>1. /\ \A s \in Streams : Event("Closed", s, 0, TRUE) \in OwnFrame
        /\ Event("Fatal", cause, 0, TRUE) \in OwnFrame
        /\ Event("Outcome", "None", 0, TRUE) \in OwnFrame
    <2>1. \A s \in Streams : Event("Closed", s, 0, TRUE) \in OwnFrame BY DEF Event, Frame, OwnFrame
    <2>2. Event("Fatal", cause, 0, TRUE) \in OwnFrame BY DEF Event, Frame, OwnFrame
    <2>3. "None" \in Causes BY DEF Causes
    <2>4. Event("Outcome", "None", 0, TRUE) \in OwnFrame BY <2>3 DEF Event, Frame, OwnFrame
    <2> QED BY <2>1, <2>2, <2>4
  <1>2. <<>> \in Seq(OwnFrame) /\ \A f \in OwnFrame : <<f>> \in Seq(OwnFrame)
    OBVIOUS
  <1>3. (IF "Stdout" \in Raw THEN <<Event("Closed", "Stdout", 0, TRUE)>> ELSE <<>>) \in Seq(OwnFrame)
    <2>1. "Stdout" \in Raw => "Stdout" \in Streams BY DEF Streams
    <2> QED BY <1>1, <1>2, <2>1
  <1>4. (IF "Stderr" \in Raw THEN <<Event("Closed", "Stderr", 0, TRUE)>> ELSE <<>>) \in Seq(OwnFrame)
    <2>1. "Stderr" \in Raw => "Stderr" \in Streams BY DEF Streams
    <2> QED BY <1>1, <1>2, <2>1
  <1>5. (IF cause # "None" THEN <<Event("Fatal", cause, 0, TRUE)>> ELSE <<>>) \in Seq(OwnFrame)
    BY <1>1, <1>2
  <1>6. <<Event("Closed", Sideband, 0, TRUE)>> \in Seq(OwnFrame)
    <2>1. Sideband \in Streams BY DEF Streams
    <2> QED BY <1>1, <1>2, <2>1
  <1>7. (IF sup.status THEN <<Event("Outcome", "None", 0, TRUE)>> ELSE <<>>) \in Seq(OwnFrame)
    BY <1>1, <1>2
  <1> QED BY <1>3, <1>4, <1>5, <1>6, <1>7, ConcatProperties DEF Closings

(* One lemma for each kind of thread.                                      *)
LEMMA WriterTyped ==
    ASSUME TypeOK, PopFrame \/ WriteFrame \/ WriteFails \/ WriterEnds
    PROVE  RestTyped' /\ sup' = sup
  <1> USE RestOfType DEF RestTyped
  <1>1. CASE PopFrame BY <1>1 DEF PopFrame, others, external
  <1>2. CASE WriteFrame
    <2>1. wire' \in Wires
      <3>1. writer.frame \in Frame BY DEF Writers
      <3> QED BY <1>2, <3>1, ToldTyped DEF WriteFrame
    <2> QED BY <1>2, <2>1 DEF WriteFrame, others, external
  <1>3. CASE WriteFails BY <1>3 DEF WriteFails, others, external
  <1>4. CASE WriterEnds
    <2>1. Stop("Transport") \in Messages BY DEF Stop, Messages, Causes
    <2>2. controls' \in Seq(Messages) BY <1>4, <2>1, PostTyped DEF WriterEnds
    <2> QED BY <1>4, <2>2 DEF WriterEnds, others, external
  <1> QED BY <1>1, <1>2, <1>3, <1>4

LEMMA ReaderTyped ==
    ASSUME TypeOK, RelayAssumption, NEW s \in Streams, Reader(s) \/ ReadFails(s)
    PROVE  RestTyped' /\ sup' = sup
  <1> USE RestOfType DEF RestTyped
  <1>1. CASE Read(s)
    <2>1. reader' \in [Streams -> Readers]
      <3>1. ASSUME NEW size \in Sizes
            PROVE  [reader EXCEPT ![s] = [at |-> "sending", size |-> size]] \in [Streams -> Readers]
        BY DEF Readers
      <3> QED BY <1>1, <3>1 DEF Read
    <2>2. pipe' \in [Streams -> Pipes]
      <3>1. pipe[s] \in Pipes /\ MaxWritten \in Nat BY DEF RelayAssumption
      <3>2. pipe[s].read \in 0..MaxWritten /\ pipe[s].written \in 0..MaxWritten BY <3>1 DEF Pipes
      <3>3. pipe[s].read + 1 \in 0..MaxWritten BY <1>1, <3>1, <3>2 DEF Read
      <3>4. [pipe[s] EXCEPT !.read = @ + 1] \in Pipes BY <3>1, <3>3 DEF Pipes
      <3>5. pipe' = [pipe EXCEPT ![s] = [pipe[s] EXCEPT !.read = @ + 1]] BY <1>1 DEF Read
      <3> QED BY <3>4, <3>5
    <2> QED BY <1>1, <2>1, <2>2 DEF Read, restR
  <1>2. CASE Send(s)
    <2>1. reader' \in [Streams -> Readers] BY <1>2, LabelTyped DEF Send
    <2> QED BY <1>2, <2>1 DEF Send, restR
  <1>3. CASE ReadEof(s)
    <2>1. reader' \in [Streams -> Readers] BY <1>3, LabelTyped DEF ReadEof
    <2>2. controls' \in Seq(Messages) /\ failure' \in Causes
      <3>1. Control("SidebandEof") \in Messages /\ "Partial" \in Causes
        BY ControlTyped DEF Causes
      <3> QED BY <1>3, <3>1, PostTyped, ReportTyped DEF ReadEof
    <2> QED BY <1>3, <2>1, <2>2 DEF ReadEof, restR
  <1>4. CASE DrainEnds(s)
    <2>1. reader' \in [Streams -> Readers] BY <1>4, LabelTyped DEF DrainEnds
    <2> QED BY <1>4, <2>1 DEF DrainEnds, restR
  <1>5. CASE ReadFails(s)
    <2>1. reader' \in [Streams -> Readers] BY <1>5, LabelTyped DEF ReadFails
    <2>2. controls' \in Seq(Messages) /\ failure' \in Causes
      <3>1. "Read" \in Causes BY DEF Causes
      <3> QED BY <1>5, <3>1, ReportTyped DEF ReadFails
    <2>3. turns' \in 0..MaxTurns BY <1>5, TurnTyped DEF ReadFails, Fault
    <2> QED BY <1>5, <2>1, <2>2, <2>3 DEF ReadFails, restR
  <1> QED BY <1>1, <1>2, <1>3, <1>4, <1>5 DEF Reader

LEMMA InputTyped ==
    ASSUME TypeOK, NEW i \in Inputs, WriteInput(i) \/ InputFails(i) \/ InputEnds(i)
    PROVE  RestTyped' /\ sup' = sup
  <1> USE RestOfType DEF RestTyped
  <1>1. [input EXCEPT ![i] = [at |-> "done", queue |-> <<>>]] \in [Inputs -> Mailboxes]
    BY DEF Mailboxes
  <1>2. CASE WriteInput(i)
    <2>1. input' \in [Inputs -> Mailboxes]
      <3>1. input[i] \in Mailboxes OBVIOUS
      <3>2. input[i].queue \in Seq({"Message", "Shutdown", "Close"}) /\ input[i].queue # <<>>
        BY <1>2, <3>1 DEF WriteInput, Mailboxes
      <3>3. Tail(input[i].queue) \in Seq({"Message", "Shutdown", "Close"}) BY <3>2
      <3>4. [input[i] EXCEPT !.queue = Tail(@)] \in Mailboxes BY <3>1, <3>3 DEF Mailboxes
      <3>5. input' = [input EXCEPT ![i] = [input[i] EXCEPT !.queue = Tail(@)]]
        BY <1>2 DEF WriteInput
      <3> QED BY <3>4, <3>5
    <2> QED BY <1>2, <2>1 DEF WriteInput, restI
  <1>3. CASE InputFails(i)
    <2>1. controls' \in Seq(Messages) /\ failure' \in Causes
      <3>1. "Write" \in Causes BY DEF Causes
      <3> QED BY <1>3, <3>1, ReportTyped DEF InputFails
    <2> QED BY <1>1, <1>3, <2>1 DEF InputFails, EndInput, restI
  <1>4. CASE InputEnds(i) BY <1>1, <1>4 DEF InputEnds, EndInput, restI
  <1> QED BY <1>2, <1>3, <1>4

LEMMA CommandTyped ==
    ASSUME TypeOK, RelayAssumption, ReadCommand \/ CommandsEnd
    PROVE  RestTyped' /\ sup' = sup
  <1> USE RestOfType DEF RestTyped
  <1>1. turns' \in 0..MaxTurns BY TurnTyped DEF ReadCommand, CommandsEnd
  <1>2. CASE ReadCommand
    <2>1. controls' \in Seq(Messages) BY <1>2, ControlTyped, PostTyped DEF ReadCommand
    <2> QED BY <1>1, <1>2, <2>1 DEF ReadCommand, restC
  <1>3. CASE CommandsEnd
    <2>1. controls' \in Seq(Messages) /\ failure' \in Causes
      <3>1. Control("ControllerEof") \in Messages /\ "Command" \in Causes
        BY ControlTyped DEF Causes
      <3> QED BY <1>3, <3>1, PostTyped, ReportTyped DEF CommandsEnd
    <2> QED BY <1>1, <1>3, <2>1 DEF CommandsEnd, restC
  <1> QED BY <1>2, <1>3

LEMMA OthersTyped ==
    ASSUME TypeOK, RelayAssumption, ConsumerTurns \/ WorkerWrites \/ WorkerCloses \/ WorkerExits
    PROVE  RestTyped' /\ sup' = sup
  <1> USE RestOfType DEF RestTyped
  <1>1. turns' \in 0..MaxTurns
    BY TurnTyped DEF ConsumerTurns, WorkerWrites, WorkerCloses, WorkerExits
  <1>2. CASE ConsumerTurns BY <1>1, <1>2 DEF ConsumerTurns, restX
  <1>3. CASE WorkerWrites
    <2>1. pipe' \in [Streams -> Pipes]
      <3>1. PICK s \in Streams :
               /\ pipe[s].written < MaxWritten
               /\ \/ pipe' = [pipe EXCEPT ![s].written = @ + 1]
                  \/ pipe' = [pipe EXCEPT ![s].partial = TRUE]
        BY <1>3 DEF WorkerWrites
      <3>2. pipe[s] \in Pipes /\ MaxWritten \in Nat BY DEF RelayAssumption
      <3>3. pipe[s].written \in 0..MaxWritten BY <3>2 DEF Pipes
      <3>4. pipe[s].written + 1 \in 0..MaxWritten BY <3>1, <3>2, <3>3
      <3>5. [pipe[s] EXCEPT !.written = @ + 1] \in Pipes /\ [pipe[s] EXCEPT !.partial = TRUE] \in Pipes
        BY <3>2, <3>4 DEF Pipes
      <3>6. \/ pipe' = [pipe EXCEPT ![s] = [pipe[s] EXCEPT !.written = @ + 1]]
            \/ pipe' = [pipe EXCEPT ![s] = [pipe[s] EXCEPT !.partial = TRUE]]
        BY <3>1
      <3> QED BY <3>5, <3>6
    <2> QED BY <1>1, <1>3, <2>1 DEF WorkerWrites, restX
  <1>4. CASE WorkerCloses
    <2>1. pipe' \in [Streams -> Pipes]
      <3>1. PICK s \in Streams : pipe' = [pipe EXCEPT ![s].open = FALSE] BY <1>4 DEF WorkerCloses
      <3> QED BY <3>1 DEF Pipes
    <2> QED BY <1>1, <1>4, <2>1 DEF WorkerCloses, restX
  <1>5. CASE WorkerExits
    <2>1. worker' \in {"None", "Alive", "Dead"} /\ pipe' \in [Streams -> Pipes]
      BY <1>5, DiesTyped DEF WorkerExits
    <2>2. controls' \in Seq(Messages) BY <1>5, ControlTyped, PostTyped DEF WorkerExits
    <2> QED BY <1>1, <1>5, <2>1, <2>2 DEF WorkerExits, restX
  <1> QED BY <1>2, <1>3, <1>4, <1>5

(* The supervisor starts the threads, loops, retires and closes.           *)
LEMMA StartTyped ==
    ASSUME TypeOK, RelayAssumption, Spawn \/ SpawnFails
    PROVE  RestTyped' /\ sup'.at # "start" /\ sup'.closings = sup.closings
  <1> USE RestOfType DEF RestTyped
  <1>1. CASE SpawnFails
    <2>1. turns' \in 0..MaxTurns BY <1>1, TurnTyped DEF SpawnFails, Fault
    <2> QED BY <1>1, <2>1 DEF SpawnFails, restS, Sups, Clocks
  <1>2. CASE Spawn
    <2>1. pipe' \in [Streams -> Pipes]
      <3>1. \A s \in Streams : [pipe[s] EXCEPT !.open = TRUE] \in Pipes BY DEF Pipes
      <3> QED BY <1>2, <3>1 DEF Spawn
    <2>2. PICK k \in 0..Len(Threads) :
            LET started == Range(SubSeq(Threads, 1, k)) IN
            /\ input' = [i \in Inputs |->
                            IF i \in started THEN [input[i] EXCEPT !.at = "running"] ELSE input[i]]
            /\ reader' = [s \in Streams |->
                             IF s \in started THEN [reader[s] EXCEPT !.at = "reading"] ELSE reader[s]]
            /\ command' = IF "CommandReader" \in started THEN "reading" ELSE command
            /\ IF k = Len(Threads)
               THEN sup' = [sup EXCEPT !.at = "loop"] /\ UNCHANGED <<failure, controls, stopping, turns>>
               ELSE /\ Fault("Setup")
                    /\ sup' = [sup EXCEPT !.at = "stop", !.prior = "Setup"]
                    /\ Report("Setup") /\ stopping' = TRUE
      BY <1>2 DEF Spawn
    <2>3. input' \in [Inputs -> Mailboxes]
      <3>1. \A i \in Inputs : [input[i] EXCEPT !.at = "running"] \in Mailboxes BY DEF Mailboxes
      <3> QED BY <2>2, <3>1
    <2>4. reader' \in [Streams -> Readers]
      <3>1. \A s \in Streams : [reader[s] EXCEPT !.at = "reading"] \in Readers BY DEF Readers
      <3> QED BY <2>2, <3>1
    <2>5. "Setup" \in Causes BY DEF Causes
    <2>6. /\ sup' \in Sups /\ sup'.at # "start" /\ sup'.closings = sup.closings
          /\ stopping' \in BOOLEAN
      <3>1. \/ sup' = [sup EXCEPT !.at = "loop"]
            \/ sup' = [sup EXCEPT !.at = "stop", !.prior = "Setup"]
        BY <2>2
      <3>2. stopping' \in BOOLEAN BY <2>2
      <3> QED BY <2>5, <3>1, <3>2 DEF Sups
    <2>7. controls' \in Seq(Messages) /\ failure' \in Causes BY <2>2, <2>5, ReportTyped
    <2>8. turns' \in 0..MaxTurns BY <2>2, TurnTyped DEF Fault
    <2>9. command' \in {"unstarted", "reading", "done"} BY <2>2
    <2> QED BY <1>2, <2>1, <2>3, <2>4, <2>6, <2>7, <2>8, <2>9 DEF Spawn, restS
  <1> QED BY <1>1, <1>2

LEMMA TakeTyped ==
    ASSUME TypeOK, NEW kinds, Take(kinds)
    PROVE  /\ controls' \in Seq(Messages) /\ Head(controls) \in Messages
           /\ Head(controls).cause \in Causes /\ Head(controls).kind \in kinds
           /\ failure' \in Causes /\ command' \in {"unstarted", "reading", "done"}
           /\ reader' \in [Streams -> Readers] /\ clock' \in Clocks /\ wire' \in Wires
           /\ consumer' \in {"Reading", "Stuck", "Gone"} /\ worker' \in {"None", "Alive", "Dead"}
           /\ pipe' \in [Streams -> Pipes] /\ sup.at = "loop"
  <1> USE RestOfType DEF RestTyped
  <1>1. controls # <<>> /\ controls \in Seq(Messages) BY DEF Take
  <1>2. Head(controls) \in Messages /\ Tail(controls) \in Seq(Messages) BY <1>1, HeadTailProperties
  <1>3. Head(controls).cause \in Causes BY <1>2 DEF Messages
  <1> QED BY <1>2, <1>3 DEF Take, restS

LEMMA ForceStopTyped ==
    ASSUME sup \in Sups, NEW c \in Causes, ForceStop(c)
    PROVE  sup' \in Sups /\ sup'.at = "stop" /\ sup'.closings = sup.closings
  BY DEF ForceStop, Sups

Looping == RestTyped' /\ sup'.at # "start" /\ sup'.closings = sup.closings

LEMMA LoopTyped ==
    ASSUME TypeOK, RelayAssumption, Loop
    PROVE  Looping
  <1> USE RestOfType DEF RestTyped, Looping
  <1>0. {"None", "Write", "Observe", "Reap"} \subseteq Causes BY DEF Causes
  <1>1. CASE Forward
    <2>1. Take({"Worker", "Stdin"}) BY <1>1 DEF Forward
    <2>2. input' \in [Inputs -> Mailboxes]
      BY <1>1, MailTyped DEF Forward, Inputs
    <2>3. sup' \in Sups /\ sup'.at # "start" /\ sup'.closings = sup.closings
      BY <1>0, <1>1, <2>1, ForceStopTyped, TakeTyped DEF Forward
    <2> QED BY <1>1, <2>1, <2>2, <2>3, TakeTyped DEF Forward
  <1>2. CASE Interrupt
    <2>1. Take({"Interrupt"}) BY <1>2 DEF Interrupt
    <2>2. sup' \in Sups /\ sup'.at # "start" /\ sup'.closings = sup.closings
      <3>1. CASE Admitted
        <4>1. sup.sent + 1 \in Nat /\ sup.at = "loop" BY <2>1 DEF Sups, Take
        <4> QED BY <1>2, <3>1, <4>1 DEF Interrupt, Sups
      <3>2. CASE ~Admitted BY <1>0, <1>2, <3>2, ForceStopTyped DEF Interrupt
      <3> QED BY <3>1, <3>2
    <2> QED BY <1>2, <2>1, <2>2, TakeTyped DEF Interrupt
  <1>3. CASE ShutDown
    <2>1. Take({"Shutdown", "ControllerEof"}) BY <1>3 DEF ShutDown
    <2>2. sup' \in Sups /\ sup'.at # "start" /\ sup'.closings = sup.closings
      <3>1. sup.sent + 1 \in Nat /\ sup.at = "loop" BY <2>1 DEF Sups, Take
      <3>2. \A b \in BOOLEAN :
              [[sup EXCEPT !.retiring = "Running"] EXCEPT !.sent = IF b THEN @ + 1 ELSE @] \in Sups
        BY <3>1 DEF Sups
      <3>3. [[sup EXCEPT !.retiring = "Running"] EXCEPT !.at = "stop", !.prior = "None"] \in Sups
        BY <1>0 DEF Sups
      <3>4. \/ sup' = [[sup EXCEPT !.retiring = "Running"] EXCEPT !.at = "stop", !.prior = "None"]
            \/ \E b \in BOOLEAN :
                 sup' = [[sup EXCEPT !.retiring = "Running"] EXCEPT !.sent = IF b THEN @ + 1 ELSE @]
        BY <1>3 DEF ShutDown
      <3>5. sup' \in Sups BY <3>2, <3>3, <3>4
      <3>6. sup'.at # "start" /\ sup'.closings = sup.closings BY <3>1, <3>4 DEF Sups
      <3> QED BY <3>5, <3>6
    <2>3. input' \in [Inputs -> Mailboxes]
      <3>1. ASSUME NEW i \in Inputs, NEW m \in {"Message", "Shutdown", "Close"}
            PROVE  [input[i] EXCEPT !.queue = Append(@, m)] \in Mailboxes
        <4>1. input[i] \in Mailboxes OBVIOUS
        <4>2. input[i].queue \in Seq({"Message", "Shutdown", "Close"}) BY <4>1 DEF Mailboxes
        <4>3. Append(input[i].queue, m) \in Seq({"Message", "Shutdown", "Close"}) BY <4>2
        <4> QED BY <4>1, <4>3 DEF Mailboxes
      <3>2. [i \in Inputs |->
               IF ~Running(i) THEN input[i]
               ELSE [input[i] EXCEPT !.queue =
                        Append(@, IF i = "StdinWriter" THEN "Close" ELSE "Shutdown")]]
            \in [Inputs -> Mailboxes]
        BY <3>1
      <3> QED BY <1>3, <3>2 DEF ShutDown
    <2>4. stopping' \in BOOLEAN BY <1>3 DEF ShutDown
    <2> QED BY <1>3, <2>1, <2>2, <2>3, <2>4, TakeTyped DEF ShutDown
  <1>4. CASE SidebandEof
    <2>1. Take({"SidebandEof"}) BY <1>4 DEF SidebandEof
    <2>2. input' \in [Inputs -> Mailboxes] BY <1>4, MailTyped DEF SidebandEof, Inputs
    <2>3. sup' \in Sups /\ sup'.at # "start" /\ sup'.closings = sup.closings
      BY <1>4, <2>1, TakeTyped DEF SidebandEof, Sups
    <2> QED BY <1>4, <2>1, <2>2, <2>3, TakeTyped DEF SidebandEof
  <1>5. CASE Ignore
    <2>1. Take(Commands \cup {"Shutdown", "ControllerEof"}) BY <1>5 DEF Ignore
    <2> QED BY <1>5, <2>1, TakeTyped DEF Ignore
  <1>6. CASE Stopped
    <2>1. Take({"Stop"}) BY <1>6 DEF Stopped
    <2>2. sup' \in Sups /\ sup'.at # "start" /\ sup'.closings = sup.closings
      BY <1>6, <2>1, ForceStopTyped, TakeTyped DEF Stopped
    <2> QED BY <1>6, <2>1, <2>2, TakeTyped DEF Stopped
  <1>7. CASE WorkerExited
    <2>1. Take({"WorkerExited"}) BY <1>7 DEF WorkerExited
    <2>2. turns' \in 0..MaxTurns BY <1>7, TurnTyped DEF WorkerExited, Reaps, Fault
    <2>3. sup' \in Sups /\ sup'.at # "start" /\ sup'.closings = sup.closings
      <3>1. CASE ForceStop("Observe") BY <1>0, <3>1, ForceStopTyped
      <3>2. CASE \E reaped \in BOOLEAN :
                   sup' = [sup EXCEPT !.at = "retire", !.status = reaped,
                                      !.prior = IF reaped THEN "None" ELSE "Reap"]
        BY <1>0, <3>2 DEF Sups
      <3> QED BY <1>7, <3>1, <3>2 DEF WorkerExited
    <2> QED BY <1>7, <2>1, <2>2, <2>3, TakeTyped DEF WorkerExited
  <1>8. CASE OutOfTime
    <2>1. sup' \in Sups /\ sup'.at # "start" /\ sup'.closings = sup.closings
      BY <1>0, <1>8, ForceStopTyped DEF OutOfTime
    <2> QED BY <1>8, <2>1 DEF OutOfTime, restS
  <1> QED BY <1>1, <1>2, <1>3, <1>4, <1>5, <1>6, <1>7, <1>8 DEF Loop

LEMMA SupervisorTyped ==
    ASSUME TypeOK, RelayAssumption, SupervisorsOwn, Supervisor
    PROVE  RestTyped' /\ SupervisorsOwn' /\ sup.at # "start" /\ sup'.at # "start"
  <1> USE RestOfType DEF RestTyped
  <1>0. {"None", "Reap"} \subseteq Causes BY DEF Causes
  <1>1. CASE Loop
    <2>1. sup.at = "loop"
      BY <1>1 DEF Loop, Forward, Interrupt, ShutDown, SidebandEof, Ignore, Stopped, WorkerExited,
         OutOfTime, Take
    <2> QED BY <1>1, <2>1, LoopTyped DEF Looping, SupervisorsOwn
  <1>2. CASE Kill
    <2>1. turns' \in 0..MaxTurns BY <1>2, TurnTyped DEF Kill, Reaps, Fault
    <2>2. worker' \in {"None", "Alive", "Dead"} /\ pipe' \in [Streams -> Pipes]
      BY <1>2, DiesTyped DEF Kill
    <2>3. sup' \in Sups /\ sup'.at = "retire" /\ sup'.closings = sup.closings
      <3>1. PICK reaped \in BOOLEAN :
               sup' = [sup EXCEPT !.at = "retire", !.status = reaped,
                                  !.prior = IF reaped \/ @ # "None" THEN @ ELSE "Reap"]
        BY <1>2 DEF Kill
      <3> QED BY <1>0, <3>1 DEF Sups
    <2> QED BY <1>2, <2>1, <2>2, <2>3 DEF Kill, restS, SupervisorsOwn
  <1>3. CASE Retire
    <2>1. sup' \in Sups /\ sup'.at = "cancel" /\ sup'.closings = sup.closings
      BY <1>0, <1>3 DEF Retire, Sups
    <2>2. failure' \in Causes
      <3>1. sup.prior \in Causes BY DEF Sups
      <3> QED BY <1>3, <3>1 DEF Retire
    <2>3. clock' \in Clocks BY <1>3 DEF Retire, Clocks
    <2> QED BY <1>3, <2>1, <2>2, <2>3 DEF Retire, restS, SupervisorsOwn
  <1>4. CASE CancelThreads
    <2>1. reader' \in [Streams -> Readers]
      <3>1. ASSUME NEW s \in Streams
            PROVE  [reader[s] EXCEPT !.at = IF s \in Raw THEN "reading" ELSE "done"] \in Readers
        BY DEF Readers
      <3> QED BY <1>4, <3>1 DEF CancelThreads
    <2>2. input' \in [Inputs -> Mailboxes] BY <1>4 DEF CancelThreads, InputsEnd, Mailboxes
    <2>3. sup' \in Sups /\ sup'.at = "join" /\ sup'.closings = sup.closings
      BY <1>4 DEF CancelThreads, Sups
    <2>4. clock' \in Clocks BY <1>4 DEF CancelThreads, Clocks
    <2> QED BY <1>4, <2>1, <2>2, <2>3, <2>4 DEF CancelThreads, restS, SupervisorsOwn
  <1>5. CASE Join
    <2>1. Closings(failure) \in Seq(OwnFrame) BY ClosingsTyped
    <2>2. Closings(failure) \in Seq(Frame) BY <2>1, SeqMonotonic DEF OwnFrame
    <2>3. sup' = [sup EXCEPT !.at = "closing", !.closings = Closings(failure)] BY <1>5 DEF Join
    <2>4. sup' \in Sups /\ sup'.at = "closing" /\ sup'.closings = Closings(failure)
      BY <2>2, <2>3 DEF Sups
    <2> QED BY <1>5, <2>1, <2>4 DEF Join, restS, SupervisorsOwn
  <1>6. CASE Close
    <2>1. sup' \in Sups /\ sup'.at # "start" /\ sup'.closings \in Seq(OwnFrame)
      <3>1. CASE sup.closings # <<>>
        <4>1. Tail(sup.closings) \in Seq(OwnFrame)
          BY <3>1, HeadTailProperties DEF SupervisorsOwn
        <4>2. Tail(sup.closings) \in Seq(Frame) BY <4>1, SeqMonotonic DEF OwnFrame
        <4>3. sup' = [sup EXCEPT !.closings = Tail(sup.closings)] /\ sup.at = "closing"
          BY <1>6, <3>1 DEF Close
        <4> QED BY <4>1, <4>2, <4>3 DEF Sups
      <3>2. CASE sup.closings = <<>> BY <1>6, <3>2 DEF Close, Sups, SupervisorsOwn
      <3> QED BY <3>1, <3>2
    <2> QED BY <1>6, <2>1 DEF Close, restS, SupervisorsOwn
  <1>7. CASE End
    <2>1. sup' \in Sups /\ sup'.at = "ended" /\ sup'.closings = sup.closings
      BY <1>7 DEF End, Sups
    <2> QED BY <1>7, <2>1 DEF End, restS, SupervisorsOwn
  <1>8. sup.at # "start"
    <2>1. Loop => sup.at = "loop"
      BY DEF Loop, Forward, Interrupt, ShutDown, SidebandEof, Ignore, Stopped, WorkerExited,
         OutOfTime, Take
    <2> QED BY <2>1 DEF Supervisor, Kill, Retire, CancelThreads, Join, Close, End
  <1> QED BY <1>1, <1>2, <1>3, <1>4, <1>5, <1>6, <1>7, <1>8 DEF Supervisor

LEMMA TickTyped ==
    ASSUME TypeOK, Tick
    PROVE  /\ RestTyped' /\ sup'.closings = sup.closings /\ UNCHANGED <<queue, writer, reader>>
           /\ sup'.at = sup.at
  <1> USE RestOfType DEF RestTyped
  <1>1. sup' \in Sups /\ sup'.closings = sup.closings /\ sup'.at = sup.at
    BY DEF Tick, Sups, restT
  <1>2. clock' \in Clocks BY DEF Tick, Clocks, restT
  <1> QED BY <1>1, <1>2 DEF Tick, restT, external

(* Every step keeps the types of what is not the queue, the closing events *)
(* the supervisor's, and the queue untouched until the spawn.              *)
LEMMA StepRest ==
    ASSUME TypeOK, RelayAssumption, Untouched, SupervisorsOwn, [Next]_vars
    PROVE  RestTyped' /\ SupervisorsOwn' /\ Untouched'
  <1>1. sup \in Sups /\ RestTyped BY RestOfType DEF RestTyped
  <1>2. CASE PopFrame \/ WriteFrame \/ WriteFails \/ WriterEnds
    <2>1. sup.at # "start"
      BY <1>2 DEF Untouched, PopFrame, WriteFrame, WriteFails, WriterEnds
    <2> QED BY <1>2, <2>1, WriterTyped DEF SupervisorsOwn, Untouched
  <1>3. CASE \E s \in Streams : Reader(s) \/ ReadFails(s)
    <2>1. sup.at # "start"
      BY <1>3 DEF Untouched, Reader, ReadFails, Read, Send, ReadEof, DrainEnds
    <2> QED BY <1>3, <2>1, ReaderTyped DEF SupervisorsOwn, Untouched
  <1>4. CASE \E i \in Inputs : WriteInput(i) \/ InputFails(i) \/ InputEnds(i)
    <2>1. UNCHANGED <<queue, writer, reader>>
      BY <1>4 DEF WriteInput, InputFails, InputEnds, restI
    <2> QED BY <1>4, <2>1, InputTyped DEF SupervisorsOwn, Untouched
  <1>5. CASE Spawn \/ SpawnFails BY <1>5, StartTyped DEF SupervisorsOwn, Untouched
  <1>6. CASE Supervisor BY <1>6, SupervisorTyped DEF Untouched
  <1>7. CASE Tick BY <1>7, TickTyped DEF SupervisorsOwn, Untouched
  <1>8. CASE ReadCommand \/ CommandsEnd
    <2>1. UNCHANGED <<queue, writer, reader>> BY <1>8 DEF ReadCommand, CommandsEnd, restC
    <2> QED BY <1>8, <2>1, CommandTyped DEF SupervisorsOwn, Untouched
  <1>9. CASE ConsumerTurns \/ WorkerWrites \/ WorkerCloses \/ WorkerExits
    <2>1. UNCHANGED <<queue, writer, reader>>
      BY <1>9 DEF ConsumerTurns, WorkerWrites, WorkerCloses, WorkerExits, restX
    <2> QED BY <1>9, <2>1, OthersTyped DEF SupervisorsOwn, Untouched
  <1>10. CASE UNCHANGED vars
    BY <1>1, <1>10 DEF vars, external, RestTyped, SupervisorsOwn, Untouched
  <1> QED BY <1>2, <1>3, <1>4, <1>5, <1>6, <1>7, <1>8, <1>9, <1>10 DEF Next, Relayed

-----------------------------------------------------------------------------
(* The inductive invariant of the queue.                                   *)
Limits ==
    /\ queue.output.frames <= OutputFrames
    /\ queue.output.bytes <= OutputBytes \/ queue.output.frames = 1
    /\ queue.supervisor.frames <= SupervisorFrames

QueueInv ==
    /\ TypeOK
    /\ Untouched
    /\ SupervisorsOwn
    /\ Limits
    /\ writer.at # "done" => \A b \in BOOLEAN : Accounted(b) /\ Counted(b)

LEMMA QueueTyped ==
    ASSUME queue \in Queues, writer \in Writers, Keeps \/ (\E f \in Frame : Adds(f)) \/ Drops
    PROVE  queue' \in Queues /\ writer' \in Writers
  <1>1. CASE Keeps BY <1>1 DEF Keeps, Queues, Statuses
  <1>2. CASE Drops
    <2>0. <<>> \in Seq(Frame) BY EmptySeq
    <2>1. [queue EXCEPT !.frames = <<>>] \in Queues BY <2>0 DEF Queues
    <2>2. [writer EXCEPT !.at = "done"] \in Writers BY DEF Writers
    <2> QED BY <1>2, <2>1, <2>2 DEF Drops
  <1>3. ASSUME NEW f \in Frame, Adds(f) PROVE queue' \in Queues /\ writer' \in Writers
    <2>1. PICK s \in Statuses : queue' = [Enqueued(f) EXCEPT !.status = s] BY <1>3 DEF Adds
    <2>2. f.supervisor \in BOOLEAN /\ f.size \in Nat BY DEF Frame
    <2>3. queue.frames \in Seq(Frame) /\ queue.output \in Usage /\ queue.supervisor \in Usage
      BY DEF Queues
    <2>4. /\ Append(queue.frames, f) \in Seq(Frame)
          /\ Charge(queue.output, f.size) \in Usage /\ Charge(queue.supervisor, f.size) \in Usage
      BY <2>2, <2>3, ChargeTyped
    <2>5. Enqueued(f) \in Queues BY <2>2, <2>3, <2>4 DEF Enqueued, Queues
    <2> QED BY <1>3, <2>1, <2>5 DEF Adds, Queues, Statuses
  <1> QED BY <1>1, <1>2, <1>3

LEMMA LimitsKept ==
    ASSUME queue \in Queues, RelayAssumption, Limits, NEW f \in Frame, Fits(f), Adds(f)
    PROVE  Limits'
  <1>1. f.supervisor \in BOOLEAN /\ f.size \in Nat BY DEF Frame
  <1>2. /\ OutputFrames \in Nat \ {0} /\ OutputBytes \in Nat /\ SupervisorFrames \in Nat \ {0}
    BY DEF RelayAssumption
  <1>3. /\ queue.output.frames \in Nat /\ queue.output.bytes \in Nat
        /\ queue.supervisor.frames \in Nat
    BY DEF Queues, Usage
  <1>4. /\ queue'.output = IF f.supervisor THEN queue.output ELSE Charge(queue.output, f.size)
        /\ queue'.supervisor = IF f.supervisor THEN Charge(queue.supervisor, f.size) ELSE queue.supervisor
    BY DEF Adds, Enqueued, Queues
  <1>5. CASE f.supervisor
    BY <1>2, <1>3, <1>4, <1>5 DEF Limits, Fits, Charge
  <1>6. CASE ~f.supervisor
    <2>1. /\ queue'.output.frames = queue.output.frames + 1
          /\ queue'.output.bytes = queue.output.bytes + f.size
          /\ queue'.supervisor = queue.supervisor
      BY <1>4, <1>6 DEF Charge
    <2>2. \/ queue.output.frames = 0
          \/ queue.output.frames < OutputFrames /\ queue.output.bytes + f.size <= OutputBytes
      BY <1>6 DEF Fits, OutputAvailable
    <2> QED BY <1>1, <1>2, <1>3, <2>1, <2>2 DEF Limits
  <1> QED BY <1>5, <1>6

LEMMA WritesLimits ==
    ASSUME queue \in Queues, writer \in Writers, queue' \in Queues, RelayAssumption, Limits,
           \A b \in BOOLEAN : Used(b) = Plus(Used(b)', b, writer.frame),
           \A b \in BOOLEAN : Used(b)'.frames = 0 => Used(b)'.bytes = 0
    PROVE  Limits'
  <1>1. writer.frame.supervisor \in BOOLEAN /\ writer.frame.size \in Nat
    <2>1. writer.frame \in Frame BY DEF Writers
    <2> QED BY <2>1 DEF Frame
  <1>2. OutputFrames \in Nat /\ OutputBytes \in Nat /\ SupervisorFrames \in Nat
    BY DEF RelayAssumption
  <1>3. /\ queue'.output.frames \in Nat /\ queue'.output.bytes \in Nat
        /\ queue'.supervisor.frames \in Nat /\ queue'.supervisor.bytes \in Nat
    BY DEF Queues, Usage
  <1>4. queue.output = Plus(queue'.output, FALSE, writer.frame) BY DEF Used
  <1>5. queue.supervisor = Plus(queue'.supervisor, TRUE, writer.frame) BY DEF Used
  <1>6. queue'.output.frames = 0 => queue'.output.bytes = 0 BY DEF Used
  <1>7. /\ queue'.output.frames <= queue.output.frames /\ queue'.output.bytes <= queue.output.bytes
        /\ queue'.output.frames = queue.output.frames \/ queue'.output.frames + 1 = queue.output.frames
    BY <1>1, <1>3, <1>4 DEF Plus, Charge
  <1>8. queue'.supervisor.frames <= queue.supervisor.frames
    BY <1>1, <1>3, <1>5 DEF Plus, Charge
  <1>9. /\ queue.output.frames \in Nat /\ queue.output.bytes \in Nat
        /\ queue.supervisor.frames \in Nat
    BY DEF Queues, Usage
  <1> QED BY <1>2, <1>3, <1>6, <1>7, <1>8, <1>9 DEF Limits

LEMMA QueueStep ==
    ASSUME QueueInv, RelayAssumption, [Next]_vars
    PROVE  QueueInv'
  <1>1. /\ TypeOK /\ RestTyped /\ queue \in Queues /\ writer \in Writers /\ Untouched
        /\ SupervisorsOwn /\ Limits
    BY RestOfType DEF QueueInv
  <1>2. RestTyped' /\ SupervisorsOwn' /\ Untouched' BY <1>1, StepRest
  <1>3. QueueMoves BY <1>1, StepMoves
  <1>4. TypeOK' <=> RestTyped' /\ queue' \in Queues /\ writer' \in Writers
    BY TypeParts DEF RestTyped, TypeOK, Messages, Sups, Mailboxes, Readers, Queues, Writers, Clocks,
                     Wires, Pipes
  <1> SUFFICES /\ queue' \in Queues /\ writer' \in Writers /\ Limits'
               /\ writer'.at # "done" => \A b \in BOOLEAN : Accounted(b)' /\ Counted(b)'
    BY <1>2, <1>4 DEF QueueInv
  <1>5. CASE Keeps
    <2>1. queue' \in Queues /\ writer' = writer BY <1>1, <1>5, QueueTyped DEF Keeps
    <2>2. Limits' BY <1>1, <1>5 DEF Keeps, Queues, Limits
    <2>3. writer.at # "done" => \A b \in BOOLEAN : Accounted(b)' /\ Counted(b)'
      BY <1>1, <1>5, <2>1, KeepsAccounts, CountsKept DEF QueueInv
    <2> QED BY <1>1, <2>1, <2>2, <2>3
  <1>6. ASSUME NEW f \in Frame, Fits(f), Adds(f)
        PROVE  /\ queue' \in Queues /\ writer' \in Writers /\ Limits'
               /\ writer'.at # "done" => \A b \in BOOLEAN : Accounted(b)' /\ Counted(b)'
    <2>1. queue' \in Queues /\ writer' = writer BY <1>1, <1>6, QueueTyped DEF Adds
    <2>2. Limits' BY <1>1, <1>6, LimitsKept
    <2>3. writer.at # "done" => \A b \in BOOLEAN : Accounted(b)' /\ Counted(b)'
      BY <1>1, <1>6, <2>1, AddsAccounts, CountsKept DEF QueueInv
    <2> QED BY <1>1, <2>1, <2>2, <2>3
  <1>7. CASE Pops
    <2>1. writer.at # "done" BY <1>7 DEF Pops
    <2>2. /\ \A b \in BOOLEAN : Accounted(b)'
          /\ queue' \in Queues /\ writer' \in Writers
      BY <1>1, <1>7, <2>1, PopsAccounts DEF QueueInv
    <2>3. \A b \in BOOLEAN : Counted(b)' BY <1>1, <1>7, <2>1, <2>2, CountsKept DEF QueueInv
    <2>4. Limits' BY <1>1, <1>7 DEF Pops, Queues, Limits
    <2> QED BY <2>2, <2>3, <2>4
  <1>8. CASE Writes
    <2>1. writer.at # "done" BY <1>8 DEF Writes
    <2>2. /\ \A b \in BOOLEAN : Accounted(b)'
          /\ queue' \in Queues /\ writer' \in Writers
          /\ \A b \in BOOLEAN : Used(b) = Plus(Used(b)', b, writer.frame)
          /\ \A b \in BOOLEAN : Used(b)'.frames = 0 => Used(b)'.bytes = 0
      BY <1>1, <1>8, <2>1, WritesAccounts DEF QueueInv
    <2>3. \A b \in BOOLEAN : Counted(b)' BY <1>1, <1>8, <2>1, <2>2, CountsKept DEF QueueInv
    <2>4. Limits' BY <1>1, <2>2, WritesLimits
    <2> QED BY <2>2, <2>3, <2>4
  <1>9. CASE Drops
    <2>1. queue' \in Queues /\ writer' \in Writers BY <1>1, <1>9, QueueTyped
    <2>2. Limits' BY <1>1, <1>9 DEF Drops, Queues, Limits
    <2>3. writer'.at = "done" BY <1>1, <1>9 DEF Drops, Writers
    <2> QED BY <2>1, <2>2, <2>3
  <1> QED BY <1>3, <1>5, <1>6, <1>7, <1>8, <1>9 DEF QueueMoves

LEMMA QueueStart ==
    ASSUME Init, RelayAssumption
    PROVE  QueueInv
  <1>1. TypeOK
    <2>1. NoFrame \in Frame /\ "None" \in Causes BY DEF NoFrame, Frame, Causes
    <2>2. NoUsage \in Usage BY DEF NoUsage, Usage
    <2>3. MaxWritten \in Nat /\ MaxTurns \in Nat BY DEF RelayAssumption
    <2>4. sup \in Sups /\ controls \in Seq(Messages) BY <2>1 DEF Init, Sups
    <2>5. input \in [Inputs -> Mailboxes] /\ reader \in [Streams -> Readers]
      BY DEF Init, Mailboxes, Readers
    <2>6. queue \in Queues /\ writer \in Writers /\ clock \in Clocks
      BY <2>1, <2>2 DEF Init, Queues, Writers, Clocks
    <2>7. wire \in Wires BY <2>1 DEF Init, Wires
    <2>8. pipe \in [Streams -> Pipes] BY <2>3 DEF Init, Pipes
    <2>9. turns \in 0..MaxTurns BY <2>3 DEF Init
    <2> QED BY <2>1, <2>4, <2>5, <2>6, <2>7, <2>8, <2>9, TypeParts DEF Init
  <1>2. Untouched /\ SupervisorsOwn BY DEF Init, Untouched, SupervisorsOwn
  <1>3. Limits BY DEF Init, Limits, NoUsage, RelayAssumption
  <1>4. ASSUME NEW b \in BOOLEAN PROVE Accounted(b) /\ Counted(b)
    <2>1. queue.frames = <<>> /\ Len(queue.frames) = 0 /\ writer.at = "next" /\ Used(b) = NoUsage
      BY DEF Init, Used
    <2>2. SuffixSums = {1} BY <2>1 DEF SuffixSums
    <2>3. Backlog(b, [k \in SuffixSums |-> NoUsage]) BY <2>1, <2>2 DEF Backlog, NoUsage
    <2>4. Accounted(b) BY <2>1, <2>2, <2>3 DEF Accounted, NoUsage, Usage
    <2>5. FramesOf(b) = {} BY <2>1 DEF FramesOf
    <2>6. FramesCharged(b) = 0 BY <2>1, <2>5, FS_EmptySet DEF FramesCharged, InFlight
    <2> QED BY <2>1, <2>4, <2>6 DEF Counted, NoUsage
  <1> QED BY <1>1, <1>2, <1>3, <1>4 DEF QueueInv

(* The event queue holds what its limits allow, and is charged with what   *)
(* is queued or in flight (event_writer.rs: EventSender::enqueue,          *)
(* EventQueue::next and write): no frame is released twice or never.       *)
THEOREM QueueHolds == Spec => []QueueBounded
  <1>1. Init => QueueInv BY QueueStart, RelayAssumption
  <1>2. QueueInv /\ [Next]_vars => QueueInv' BY QueueStep, RelayAssumption
  <1>3. QueueInv => QueueBounded
    <2> SUFFICES ASSUME QueueInv PROVE QueueBounded OBVIOUS
    <2>1. TypeOK /\ Limits BY DEF QueueInv
    <2>2. writer.at # "done" =>
            queue.output.frames = FramesCharged(FALSE) /\ queue.supervisor.frames = FramesCharged(TRUE)
      BY DEF QueueInv, Counted, Used
    <2> QED BY <2>1, <2>2 DEF QueueBounded, Limits
  <1> QED BY <1>1, <1>2, <1>3, PTL DEF Spec

-----------------------------------------------------------------------------
(* The way of the frames to the controller: the one in flight, then, while *)
(* the queue has not failed, those that are queued and the closing events  *)
(* that the supervisor has still to send.                                  *)
InWriter == IF writer.at = "writing" THEN <<writer.frame>> ELSE <<>>
Intact == queue.status # "Failed"
Coming == IF Intact THEN InWriter \o (queue.frames \o sup.closings) ELSE InWriter

(* The wire w after the frame f, and when f may follow it.  The closing    *)
(* events are late: the supervisor sends them when all threads have ended. *)
Telling(w, f) ==
    CASE f.kind = "WorkerStarted" -> [w EXCEPT !.told["Lifetime"] = f.n]
      [] f.kind \in {"InterruptResult", "ShutdownStarted"} -> [w EXCEPT !.told["Supervisor"] = f.n]
      [] f.kind = "Closed" -> [w EXCEPT !.closed = @ \cup {f.of}]
      [] f.kind = "Fatal" -> [w EXCEPT !.fatal = f.of]
      [] f.kind = "Outcome" -> [w EXCEPT !.outcome = TRUE]
      [] OTHER -> [w EXCEPT !.told[f.kind] = f.n]
Teller(f) ==
    IF f.kind = "WorkerStarted" THEN "Lifetime"
    ELSE IF f.kind \in {"InterruptResult", "ShutdownStarted"} THEN "Supervisor" ELSE f.kind
May(w, f, late) ==
    /\ ~w.outcome
    /\ f.kind \in {"Closed", "Fatal", "Outcome"} => late
    /\ f.kind = "Closed" => f.of \notin w.closed /\ (f.of = Sideband => Raw \subseteq w.closed)
    /\ f.kind = "Fatal" => /\ f.of # "None" /\ w.fatal = "None" /\ Sideband \notin w.closed
                           /\ Raw \subseteq w.closed \/ w.told["Lifetime"] = 0
    /\ f.kind = "Outcome" => w.closed = Streams
    /\ f.kind \notin {"Closed", "Fatal", "Outcome"} =>
         /\ Teller(f) \notin w.closed /\ f.n = w.told[Teller(f)] + 1
         /\ f.kind \in Streams => w.told["Lifetime"] > 0
(* The frames of M may follow the wire w, one after another, up to v.      *)
Tells(M, w, v, late) ==
    \E story : /\ story[0] = w /\ story[Len(M)] = v
               /\ \A k \in 1..Len(M) :
                     May(story[k - 1], M[k], late) /\ story[k] = Telling(story[k - 1], M[k])

(* What the controller has been sent when all that is coming has come.     *)
Producers == Streams \cup {"Lifetime", "Supervisor"}
HandedOver ==
    [p \in Producers |->
       IF p = "Lifetime" THEN IF worker = "None" THEN 0 ELSE 1
       ELSE IF p = "Supervisor" THEN sup.sent
       ELSE IF reader[p].at = "sending" THEN pipe[p].read - 1 ELSE pipe[p].read]
Late == sup.at \in {"closing", "join_writer", "ended"}
Promise ==
    [told |-> HandedOver, closed |-> IF Late /\ worker # "None" THEN Streams ELSE {},
     fatal |-> IF ~Late THEN "None" ELSE IF worker = "None" THEN "Spawn" ELSE failure,
     outcome |-> Late /\ worker # "None" /\ sup.status]

Flow == \E v : Tells(Coming, wire, v, Late) /\ (Intact => v = Promise)

(* Where the supervisor is, and what has ended with it.                    *)
Stages ==
    /\ sup.at = "start" => failure = "None" /\ worker = "None"
    /\ worker = "None" => /\ sup.at \in {"start", "join_writer", "ended"}
                          /\ command = "unstarted" /\ sup.sent = 0
                          /\ \A i \in Inputs : input[i].at = "unstarted"
                          /\ \A s \in Streams : reader[s].at = "unstarted" /\ pipe[s].read = 0
    /\ sup.at # "closing" => sup.closings = <<>>
    /\ sup.at \notin {"join", "closing", "join_writer", "ended"} => clock.drain = "Unset"
    /\ sup.at \in {"join", "closing", "join_writer", "ended"} /\ worker # "None" =>
         \A i \in Inputs : input[i].at = "done"
    /\ Late /\ worker # "None" => Joined /\ command = "done"
    /\ queue.status = "Finishing" => sup.at \in {"join_writer", "ended"}
    /\ sup.at \in {"join_writer", "ended"} => queue.status # "Open"
    /\ writer.at = "done" => queue.status # "Open" /\ queue.frames = <<>>
    /\ sup.at = "ended" => writer.at = "done"
(* A reader that is done has read everything.                              *)
Drained ==
    /\ \A s \in Streams : pipe[s].read <= pipe[s].written
                          /\ (reader[s].at = "sending" => pipe[s].read > 0)
    /\ reader[Sideband].at = "unstarted" /\ worker # "None" => failure = "Setup"
    /\ sup.at \in {"join", "closing", "join_writer", "ended"} /\ worker # "None" =>
         \A s \in Streams : reader[s].at # "unstarted"
    /\ clock.drain # "Expired" /\ Intact =>
         \A s \in Streams : reader[s].at = "done" =>
            pipe[s].read = pipe[s].written \/ (s = Sideband /\ failure = "Setup")

LEMMA TellsNone ==
    ASSUME NEW w, NEW late
    PROVE  Tells(<<>>, w, w, late)
  <1> DEFINE story == [k \in 0..0 |-> w]
  <1>1. Len(<<>>) = 0 /\ story[0] = w OBVIOUS
  <1>2. \A k \in 1..0 : FALSE OBVIOUS
  <1> HIDE DEF story
  <1> QED BY <1>1, <1>2 DEF Tells

LEMMA TellsNothing ==
    ASSUME NEW w, NEW v, NEW late, Tells(<<>>, w, v, late)
    PROVE  v = w
  BY DEF Tells

LEMMA TellsOne ==
    ASSUME NEW w, NEW f, NEW late, May(w, f, late)
    PROVE  Tells(<<f>>, w, Telling(w, f), late)
  <1> DEFINE story == [k \in 0..1 |-> IF k = 0 THEN w ELSE Telling(w, f)]
  <1>1. story[0] = w /\ story[1] = Telling(w, f) OBVIOUS
  <1>2. Len(<<f>>) = 1 /\ <<f>>[1] = f OBVIOUS
  <1>3. \A k \in 1..1 : k = 1 /\ k - 1 = 0 OBVIOUS
  <1> HIDE DEF story
  <1>4. \A k \in 1..Len(<<f>>) :
           May(story[k - 1], <<f>>[k], late) /\ story[k] = Telling(story[k - 1], <<f>>[k])
    BY <1>1, <1>2, <1>3
  <1> QED BY <1>1, <1>2, <1>4 DEF Tells

LEMMA TellsJoin ==
    ASSUME NEW L \in Seq(Frame), NEW M \in Seq(Frame), NEW w, NEW u, NEW v, NEW late,
           Tells(L, w, u, late), Tells(M, u, v, late)
    PROVE  Tells(L \o M, w, v, late)
  <1> DEFINE l == Len(L)
             m == Len(M)
  <1>0. l \in Nat /\ m \in Nat OBVIOUS
  <1>1. PICK first : /\ first[0] = w /\ first[l] = u
                     /\ \A k \in 1..l : May(first[k - 1], L[k], late) /\ first[k] = Telling(first[k - 1], L[k])
    BY DEF Tells
  <1>2. PICK second : /\ second[0] = u /\ second[m] = v
                      /\ \A k \in 1..m :
                            May(second[k - 1], M[k], late) /\ second[k] = Telling(second[k - 1], M[k])
    BY DEF Tells
  <1>3. /\ Len(L \o M) = l + m
        /\ \A k \in 1..(l + m) : (L \o M)[k] = IF k <= l THEN L[k] ELSE M[k - l]
    BY ConcatProperties
  <1> DEFINE story == [k \in 0..(l + m) |-> IF k <= l THEN first[k] ELSE second[k - l]]
  <1> HIDE DEF l, m
  <1>4. story[0] = w /\ story[l + m] = v
    <2>1. story[0] = first[0] BY <1>0
    <2>2. CASE m = 0
      <3>1. story[l + m] = first[l] /\ u = v BY <1>0, <1>1, <1>2, <2>2
      <3> QED BY <1>1, <2>1, <3>1
    <2>3. CASE m # 0
      <3>1. ~(l + m <= l) /\ (l + m) - l = m /\ l + m \in 0..(l + m) BY <1>0, <2>3
      <3> QED BY <1>1, <1>2, <2>1, <3>1
    <2> QED BY <2>2, <2>3
  <1>5. ASSUME NEW k \in 1..(l + m)
        PROVE  May(story[k - 1], (L \o M)[k], late) /\ story[k] = Telling(story[k - 1], (L \o M)[k])
    <2>1. CASE k <= l
      <3>1. k \in 1..l /\ k - 1 \in 0..(l + m) /\ k - 1 <= l /\ k \in 0..(l + m) BY <1>0, <2>1
      <3>2. story[k - 1] = first[k - 1] /\ story[k] = first[k] /\ (L \o M)[k] = L[k]
        BY <1>3, <2>1, <3>1
      <3> QED BY <1>1, <3>1, <3>2
    <2>2. CASE k > l
      <3>1. /\ k - l \in 1..m /\ k - 1 \in 0..(l + m) /\ k \in 0..(l + m) /\ ~(k <= l)
            /\ (k - 1) - l = (k - l) - 1
        BY <1>0, <2>2
      <3>2. story[k] = second[k - l] /\ (L \o M)[k] = M[k - l] BY <1>3, <3>1
      <3>3. story[k - 1] = second[(k - l) - 1]
        <4>1. CASE k - 1 <= l
          <5>1. k - 1 = l /\ (k - l) - 1 = 0 BY <1>0, <2>2, <4>1
          <5>2. story[k - 1] = first[l] BY <3>1, <4>1, <5>1
          <5> QED BY <1>1, <1>2, <5>1, <5>2
        <4>2. CASE ~(k - 1 <= l) BY <3>1, <4>2
        <4> QED BY <4>1, <4>2
      <3> QED BY <1>2, <3>1, <3>2, <3>3
    <2>3. k <= l \/ k > l BY <1>0
    <2> QED BY <2>1, <2>2, <2>3
  <1> HIDE DEF story
  <1> QED BY <1>3, <1>4, <1>5 DEF Tells

LEMMA TellsNext ==
    ASSUME NEW M \in Seq(Frame), M # <<>>, NEW w, NEW v, NEW late, Tells(M, w, v, late)
    PROVE  May(w, Head(M), late) /\ Tells(Tail(M), Telling(w, Head(M)), v, late)
  <1> DEFINE n == Len(M)
  <1>0. n \in Nat \ {0} BY EmptySeq
  <1>1. PICK story : /\ story[0] = w /\ story[n] = v
                     /\ \A k \in 1..n : May(story[k - 1], M[k], late) /\ story[k] = Telling(story[k - 1], M[k])
    BY DEF Tells
  <1>2. /\ Head(M) = M[1] /\ Len(Tail(M)) = n - 1 /\ \A k \in 1..(n - 1) : Tail(M)[k] = M[k + 1]
    BY HeadTailProperties
  <1> DEFINE later == [k \in 0..(n - 1) |-> story[k + 1]]
  <1> HIDE DEF n
  <1>3. May(w, M[1], late) /\ story[1] = Telling(w, M[1])
    <2>1. 1 \in 1..n /\ 1 - 1 = 0 BY <1>0
    <2> QED BY <1>1, <2>1
  <1>4. later[0] = Telling(w, M[1]) /\ later[n - 1] = v
    <2>1. 0 \in 0..(n - 1) /\ n - 1 \in 0..(n - 1) /\ (n - 1) + 1 = n /\ 0 + 1 = 1 BY <1>0
    <2>2. later[0] = story[1] /\ later[n - 1] = story[n] BY <2>1
    <2> QED BY <1>1, <1>3, <2>2
  <1>5. ASSUME NEW k \in 1..(n - 1)
        PROVE  May(later[k - 1], Tail(M)[k], late) /\ later[k] = Telling(later[k - 1], Tail(M)[k])
    <2>1. /\ k \in 0..(n - 1) /\ k - 1 \in 0..(n - 1) /\ k + 1 \in 1..n
          /\ (k + 1) - 1 = k /\ (k - 1) + 1 = k
      BY <1>0
    <2>2. later[k] = story[k + 1] /\ later[k - 1] = story[k] BY <2>1
    <2>3. May(story[k], M[k + 1], late) /\ story[k + 1] = Telling(story[k], M[k + 1]) BY <1>1, <2>1
    <2> QED BY <1>2, <2>2, <2>3
  <1> HIDE DEF later
  <1> QED BY <1>2, <1>3, <1>4, <1>5 DEF Tells

LEMMA TellsPart ==
    ASSUME NEW L \in Seq(Frame), NEW M \in Seq(Frame), NEW w, NEW v, NEW late,
           Tells(L \o M, w, v, late)
    PROVE  \E u : Tells(L, w, u, late)
  <1> DEFINE l == Len(L)
             m == Len(M)
  <1>0. l \in Nat /\ m \in Nat OBVIOUS
  <1>3. /\ Len(L \o M) = l + m
        /\ \A k \in 1..(l + m) : (L \o M)[k] = IF k <= l THEN L[k] ELSE M[k - l]
    BY ConcatProperties
  <1>1. PICK story : /\ story[0] = w
                     /\ \A k \in 1..(l + m) :
                          May(story[k - 1], (L \o M)[k], late) /\ story[k] = Telling(story[k - 1], (L \o M)[k])
    BY <1>3 DEF Tells
  <1> HIDE DEF l, m
  <1>2. ASSUME NEW k \in 1..l
        PROVE  May(story[k - 1], L[k], late) /\ story[k] = Telling(story[k - 1], L[k])
    <2>1. k \in 1..(l + m) /\ k <= l BY <1>0
    <2>2. (L \o M)[k] = L[k] BY <1>3, <2>1
    <2> QED BY <1>1, <2>1, <2>2
  <1>4. Tells(L, w, story[l], late) BY <1>1, <1>2 DEF Tells, l
  <1> QED BY <1>4

LEMMA TellsLater ==
    ASSUME NEW M, NEW w, NEW v, NEW late, NEW later, late => later, Tells(M, w, v, late)
    PROVE  Tells(M, w, v, later)
  <1>1. ASSUME NEW u, NEW f, May(u, f, late) PROVE May(u, f, later)
    BY <1>1 DEF May
  <1>2. PICK story : /\ story[0] = w /\ story[Len(M)] = v
                     /\ \A k \in 1..Len(M) :
                          May(story[k - 1], M[k], late) /\ story[k] = Telling(story[k - 1], M[k])
    BY DEF Tells
  <1>3. \A k \in 1..Len(M) : May(story[k - 1], M[k], later) BY <1>1, <1>2
  <1> QED BY <1>2, <1>3 DEF Tells

LEMMA ComingTyped ==
    ASSUME TypeOK
    PROVE  /\ InWriter \in Seq(Frame) /\ queue.frames \in Seq(Frame) /\ sup.closings \in Seq(Frame)
           /\ Coming \in Seq(Frame)
  <1>1. writer \in Writers /\ queue \in Queues /\ sup \in Sups BY TypeParts
  <1>2. queue.frames \in Seq(Frame) /\ sup.closings \in Seq(Frame) /\ writer.frame \in Frame
    BY <1>1 DEF Writers, Queues, Sups
  <1>3. InWriter \in Seq(Frame)
    <2>1. <<writer.frame>> \in Seq(Frame) /\ <<>> \in Seq(Frame) BY <1>2
    <2> QED BY <2>1 DEF InWriter
  <1>4. InWriter \o (queue.frames \o sup.closings) \in Seq(Frame) BY <1>2, <1>3, ConcatProperties
  <1> QED BY <1>2, <1>3, <1>4 DEF Coming

(* How a step moves what is coming.                                        *)
LEMMA FlowStays ==
    ASSUME Flow, Coming' = Coming, wire' = wire, Late => Late', Intact' => Intact /\ Promise' = Promise
    PROVE  Flow'
  <1>1. PICK v : Tells(Coming, wire, v, Late) /\ (Intact => v = Promise) BY DEF Flow
  <1>2. Tells(Coming, wire, v, Late') BY <1>1, TellsLater
  <1>3. Intact' => v = Promise' BY <1>1
  <1> QED BY ONLY <1>2, <1>3, Coming' = Coming, wire' = wire DEF Flow

LEMMA FlowCut ==
    ASSUME Flow, NEW K \in Seq(Frame), Coming' \in Seq(Frame), Coming = Coming' \o K, wire' = wire,
           Late => Late', ~Intact'
    PROVE  Flow'
  <1>1. PICK v : Tells(Coming, wire, v, Late) BY DEF Flow
  <1>2. PICK u : Tells(Coming', wire, u, Late) BY <1>1, TellsPart
  <1>3. Tells(Coming', wire, u, Late') BY <1>2, TellsLater
  <1> QED BY ONLY <1>3, wire' = wire, ~Intact' DEF Flow

LEMMA FlowJoins ==
    ASSUME Flow, Intact, NEW K \in Seq(Frame), Coming \in Seq(Frame), Coming' = Coming \o K, wire' = wire,
           Late => Late', Tells(K, Promise, Promise', Late')
    PROVE  Flow'
  <1>1. Tells(Coming, wire, Promise, Late) BY DEF Flow
  <1>2. Tells(Coming, wire, Promise, Late') BY <1>1, TellsLater
  <1>3. Tells(Coming', wire, Promise', Late') BY <1>2, TellsJoin
  <1> QED BY ONLY <1>3, wire' = wire DEF Flow

LEMMA FlowWrites ==
    ASSUME Flow, Coming \in Seq(Frame), Coming # <<>>, Coming' = Tail(Coming),
           wire' = Telling(wire, Head(Coming)), Late' = Late, Intact' => Intact /\ Promise' = Promise
    PROVE  Flow' /\ May(wire, Head(Coming), Late)
  <1>1. PICK v : Tells(Coming, wire, v, Late) /\ (Intact => v = Promise) BY DEF Flow
  <1>2. May(wire, Head(Coming), Late) /\ Tells(Coming', wire', v, Late)
    BY <1>1, TellsNext
  <1>3. Intact' => v = Promise' BY <1>1
  <1>4. Flow' BY ONLY <1>2, <1>3, Late' = Late DEF Flow
  <1> QED BY <1>2, <1>4

LEMMA SameComing ==
    ASSUME UNCHANGED <<queue, writer>>, sup'.closings = sup.closings
    PROVE  Coming' = Coming /\ (Intact' <=> Intact)
  BY DEF Coming, InWriter, Intact

LEMMA OneMore ==
    ASSUME TypeOK, UNCHANGED writer, sup.closings = <<>>, sup'.closings = <<>>, Intact,
           NEW f \in Frame, queue' = Enqueued(f) \/ queue' = [Enqueued(f) EXCEPT !.status = "Finishing"]
    PROVE  Coming' = Coming \o <<f>> /\ Intact' /\ <<f>> \in Seq(Frame) /\ Coming \in Seq(Frame)
  <1>1. /\ InWriter \in Seq(Frame) /\ queue.frames \in Seq(Frame) /\ Coming \in Seq(Frame)
        /\ queue \in Queues
    BY ComingTyped, TypeParts
  <1>2. queue'.frames = Append(queue.frames, f) /\ queue'.status # "Failed"
    BY <1>1 DEF Enqueued, Queues, Intact
  <1>3. InWriter' = InWriter BY DEF InWriter
  <1>4. Coming' = InWriter \o (Append(queue.frames, f) \o <<>>)
    BY <1>2, <1>3 DEF Coming, Intact
  <1>5. Coming = InWriter \o (queue.frames \o <<>>) BY DEF Coming
  <1>6. Append(queue.frames, f) = queue.frames \o <<f>> /\ <<f>> \in Seq(Frame) /\ <<>> \in Seq(Frame)
    BY <1>1, AppendIsConcat
  <1>7. /\ queue.frames \o <<>> = queue.frames
        /\ Append(queue.frames, f) \o <<>> = Append(queue.frames, f)
    <2>1. Append(queue.frames, f) \in Seq(Frame) BY <1>1
    <2> QED BY <1>1, <2>1, ConcatEmptySeq
  <1>8. InWriter \o (queue.frames \o <<f>>) = (InWriter \o queue.frames) \o <<f>>
    <2>1. InWriter \in Seq(Frame) /\ queue.frames \in Seq(Frame) /\ <<f>> \in Seq(Frame)
      BY ONLY <1>1, <1>6
    <2>2. ASSUME NEW r \in Seq(Frame), NEW s \in Seq(Frame), NEW t \in Seq(Frame)
          PROVE  (r \o s) \o t = r \o (s \o t)
      BY ConcatAssociative
    <2> QED BY ONLY <2>1, <2>2, Zenon
  <1>9. Coming' = InWriter \o (queue.frames \o <<f>>) BY ONLY <1>4, <1>6, <1>7
  <1>10. Coming = InWriter \o queue.frames BY ONLY <1>5, <1>7
  <1>11. Coming' = Coming \o <<f>> BY ONLY <1>8, <1>9, <1>10
  <1> QED BY <1>1, <1>2, <1>6, <1>11 DEF Intact

LEMMA CutShort ==
    ASSUME TypeOK, TypeOK', InWriter' = InWriter, queue'.status = "Failed"
    PROVE  \E K \in Seq(Frame) : Coming = Coming' \o K /\ Coming' \in Seq(Frame) /\ ~Intact'
  <1>1. /\ InWriter \in Seq(Frame) /\ queue.frames \in Seq(Frame) /\ sup.closings \in Seq(Frame)
    BY ComingTyped
  <1>2. Coming' = InWriter /\ ~Intact' BY DEF Coming, Intact
  <1>3. CASE Intact
    <2>1. queue.frames \o sup.closings \in Seq(Frame) BY <1>1, ConcatProperties
    <2> QED BY <1>1, <1>2, <1>3, <2>1 DEF Coming
  <1>4. CASE ~Intact
    <2>1. <<>> \in Seq(Frame) /\ InWriter \o <<>> = InWriter BY <1>1, ConcatEmptySeq
    <2> QED BY <1>1, <1>2, <1>4, <2>1 DEF Coming
  <1> QED BY <1>3, <1>4

LEMMA PromiseKept ==
    ASSUME sup'.sent = sup.sent, Late' <=> Late, worker' = "None" <=> worker = "None",
           Late /\ worker # "None" => failure' = failure /\ sup'.status = sup.status,
           \A s \in Streams :
             (IF reader'[s].at = "sending" THEN pipe'[s].read - 1 ELSE pipe'[s].read)
             = (IF reader[s].at = "sending" THEN pipe[s].read - 1 ELSE pipe[s].read)
    PROVE  Promise' = Promise
  <1>1. HandedOver' = HandedOver
    <2>1. ASSUME NEW p \in Producers PROVE HandedOver'[p] = HandedOver[p]
      BY DEF HandedOver, Producers
    <2> QED BY <2>1 DEF HandedOver
  <1> QED BY <1>1 DEF Promise

LEMMA HeadFirst ==
    ASSUME NEW f \in Frame, NEW M \in Seq(Frame)
    PROVE  /\ <<f>> \o M \in Seq(Frame) /\ <<f>> \o M # <<>>
           /\ Head(<<f>> \o M) = f /\ Tail(<<f>> \o M) = M
  <1>0. <<f>> \in Seq(Frame) /\ Len(<<f>>) = 1 /\ <<f>>[1] = f /\ Len(M) \in Nat OBVIOUS
  <1>1. /\ <<f>> \o M \in Seq(Frame)
        /\ Len(<<f>> \o M) = 1 + Len(M)
        /\ \A i \in 1..(1 + Len(M)) : (<<f>> \o M)[i] = IF i <= 1 THEN <<f>>[i] ELSE M[i - 1]
    BY <1>0, ConcatProperties
  <1> DEFINE N == <<f>> \o M
  <1> HIDE DEF N
  <1>2. N \in Seq(Frame) /\ Len(N) = 1 + Len(M) BY <1>1 DEF N
  <1>3. \A i \in 1..(1 + Len(M)) : N[i] = IF i <= 1 THEN <<f>>[i] ELSE M[i - 1] BY <1>1 DEF N
  <1>4. N # <<>> BY <1>0, <1>2
  <1>5. /\ Head(N) = N[1] /\ Tail(N) \in Seq(Frame) /\ Len(Tail(N)) = Len(N) - 1
        /\ \A i \in 1..Len(Tail(N)) : Tail(N)[i] = N[i + 1]
    BY <1>2, <1>4, HeadTailProperties
  <1>6. Head(N) = f BY <1>0, <1>3, <1>5
  <1>7. Len(Tail(N)) = Len(M) BY <1>0, <1>2, <1>5
  <1>8. ASSUME NEW i \in 1..Len(M) PROVE Tail(N)[i] = M[i]
    <2>1. i + 1 \in 1..(1 + Len(M)) /\ ~(i + 1 <= 1) /\ (i + 1) - 1 = i BY <1>0
    <2> QED BY <1>3, <1>5, <1>7, <2>1
  <1>9. Tail(N) = M BY <1>5, <1>7, <1>8
  <1> QED BY <1>2, <1>4, <1>6, <1>9 DEF N

LEMMA HeadBack ==
    ASSUME NEW s \in Seq(Frame), s # <<>>
    PROVE  /\ Head(s) \in Frame /\ Tail(s) \in Seq(Frame) /\ <<Head(s)>> \in Seq(Frame)
           /\ <<Head(s)>> \o Tail(s) = s
  <1>1. Head(s) \in Frame /\ Tail(s) \in Seq(Frame) BY HeadTailProperties
  <1>2. Len(s) \in Nat \ {0} BY EmptySeq
  <1> DEFINE h == Head(s)
             t == Tail(s)
  <1>3. /\ <<h>> \o t \in Seq(Frame) /\ Len(<<h>> \o t) = 1 + Len(t)
        /\ \A i \in 1..(1 + Len(t)) : (<<h>> \o t)[i] = IF i <= 1 THEN <<h>>[i] ELSE t[i - 1]
    <2>1. <<h>> \in Seq(Frame) /\ Len(<<h>>) = 1 BY <1>1
    <2> HIDE DEF h, t
    <2>2. t \in Seq(Frame) BY <1>1 DEF t
    <2> QED BY <2>1, <2>2, ConcatProperties
  <1>4. /\ h = s[1] /\ Len(t) = Len(s) - 1 /\ \A i \in 1..Len(t) : t[i] = s[i + 1]
    BY HeadTailProperties
  <1> HIDE DEF h, t
  <1>5. Len(<<h>> \o t) = Len(s) BY <1>2, <1>3, <1>4
  <1>6. ASSUME NEW i \in 1..Len(s) PROVE (<<h>> \o t)[i] = s[i]
    <2>1. i \in 1..(1 + Len(t)) BY <1>2, <1>4
    <2>2. CASE i = 1 BY <1>3, <1>4, <2>1, <2>2
    <2>3. CASE i # 1
      <3>1. i - 1 \in 1..Len(t) /\ ~(i <= 1) /\ (i - 1) + 1 = i BY <1>2, <1>4, <2>3
      <3> QED BY <1>3, <1>4, <2>1, <3>1
    <2> QED BY <2>2, <2>3
  <1> DEFINE j == <<h>> \o t
  <1> HIDE DEF j
  <1>9. j \in Seq(Frame) /\ s \in Seq(Frame) /\ Len(j) = Len(s) BY <1>3, <1>5 DEF j
  <1>10. \A i \in 1..Len(s) : j[i] = s[i] BY <1>6 DEF j
  <1>11. j = s BY ONLY <1>9, <1>10, SeqEqual
  <1>7. <<h>> \o t = s BY <1>11 DEF j
  <1>8. <<Head(s)>> \in Seq(Frame) BY <1>1
  <1> QED BY <1>1, <1>7, <1>8 DEF h, t

LEMMA Regrouped ==
    ASSUME NEW r \in Seq(Frame), NEW s \in Seq(Frame), NEW t \in Seq(Frame)
    PROVE  (r \o s) \o t = r \o (s \o t)
  BY ConcatAssociative

(* The first frame of a sequence taken to the end of the one before it.    *)
LEMMA MovedOut ==
    ASSUME NEW s \in Seq(Frame), NEW t \in Seq(Frame), s # <<>>
    PROVE  <<Head(s)>> \o (Tail(s) \o t) = s \o t
  <1> DEFINE one == <<Head(s)>>
             rest == Tail(s)
  <1>1. one \in Seq(Frame) /\ rest \in Seq(Frame) /\ one \o rest = s BY HeadBack
  <1> HIDE DEF one, rest
  <1>2. one \in Seq(Frame) /\ rest \in Seq(Frame) /\ t \in Seq(Frame) BY <1>1
  <1>3. (one \o rest) \o t = one \o (rest \o t) BY ONLY <1>2, Regrouped
  <1>4. one \o (rest \o t) = s \o t BY ONLY <1>1, <1>3
  <1> QED BY <1>4 DEF one, rest

LEMMA MovedIn ==
    ASSUME NEW r \in Seq(Frame), NEW s \in Seq(Frame), s # <<>>
    PROVE  Append(r, Head(s)) \o Tail(s) = r \o s
  <1> DEFINE h == Head(s)
             one == <<h>>
             rest == Tail(s)
  <1>1. h \in Frame /\ one \in Seq(Frame) /\ rest \in Seq(Frame) /\ one \o rest = s BY HeadBack
  <1>2. Append(r, h) = r \o one BY <1>1, AppendIsConcat
  <1> HIDE DEF one, rest, h
  <1>3. one \in Seq(Frame) /\ rest \in Seq(Frame) /\ r \in Seq(Frame) BY <1>1
  <1>4. (r \o one) \o rest = r \o (one \o rest) BY ONLY <1>3, Regrouped
  <1>5. Append(r, h) \o rest = r \o s BY ONLY <1>1, <1>2, <1>4
  <1> QED BY <1>5 DEF one, rest, h

LEMMA WriterFlow ==
    ASSUME TypeOK, TypeOK', Flow, PopFrame \/ WriteFrame \/ WriteFails \/ WriterEnds
    PROVE  Flow'
  <1>1. /\ InWriter \in Seq(Frame) /\ queue.frames \in Seq(Frame) /\ sup.closings \in Seq(Frame)
        /\ Coming \in Seq(Frame) /\ Coming' \in Seq(Frame) /\ queue \in Queues /\ writer \in Writers
    <2>1. Coming' \in Seq(Frame)
      <3>1. writer' \in Writers /\ queue' \in Queues /\ sup' \in Sups
        BY DEF TypeOK, Writers, Queues, Sups
      <3>2. queue'.frames \in Seq(Frame) /\ sup'.closings \in Seq(Frame) /\ writer'.frame \in Frame
        BY <3>1 DEF Writers, Queues, Sups
      <3>3. InWriter' \in Seq(Frame)
        <4>1. <<writer'.frame>> \in Seq(Frame) /\ <<>> \in Seq(Frame) BY <3>2
        <4> QED BY <4>1 DEF InWriter
      <3>4. InWriter' \o (queue'.frames \o sup'.closings) \in Seq(Frame) BY <3>2, <3>3, ConcatProperties
      <3> QED BY <3>3, <3>4 DEF Coming
    <2> QED BY <2>1, ComingTyped, TypeParts
  <1>2. UNCHANGED <<sup, worker, reader, pipe, failure>>
    BY DEF PopFrame, WriteFrame, WriteFails, WriterEnds, others, external
  <1>3. Promise' = Promise /\ Late' = Late BY <1>2 DEF Promise, HandedOver, Late
  <1> DEFINE rest == queue.frames \o sup.closings
  <1>4. rest \in Seq(Frame) /\ <<>> \o rest = rest BY <1>1, ConcatProperties, ConcatEmptySeq
  <1>5. CASE PopFrame
    <2>1. /\ writer.at = "next" /\ Intact /\ queue.frames # <<>> /\ wire' = wire
          /\ writer'.at = "writing" /\ writer'.frame = Head(queue.frames)
          /\ queue'.frames = Tail(queue.frames) /\ queue'.status = queue.status
      BY <1>1, <1>5 DEF PopFrame, Queues, Intact
    <2>2. Coming = rest BY <1>4, <2>1 DEF Coming, InWriter
    <2>3. Coming' = <<Head(queue.frames)>> \o (Tail(queue.frames) \o sup.closings)
      BY <1>2, <2>1 DEF Coming, InWriter, Intact
    <2>5. Coming' = Coming 
      <3>1. <<Head(queue.frames)>> \o (Tail(queue.frames) \o sup.closings) = queue.frames \o sup.closings
        BY <1>1, <2>1, MovedOut
      <3> QED BY ONLY <2>2, <2>3, <3>1 DEF rest
    <2>6. Intact' => Intact BY <2>1
    <2> QED BY <1>3, <2>1, <2>5, <2>6, FlowStays
  <1>6. CASE WriteFrame
    <2>1. /\ writer.at = "writing" /\ wire' = Told(writer.frame) /\ writer'.at = "next"
          /\ queue'.frames = queue.frames /\ queue'.status = queue.status /\ writer.frame \in Frame
      BY <1>1, <1>6 DEF WriteFrame, Queues, Released, Writers
    <2>2. wire' = Telling(wire, writer.frame) BY <2>1 DEF Told, Telling
    <2>3. Coming # <<>> /\ Head(Coming) = writer.frame /\ Tail(Coming) = IF Intact THEN rest ELSE <<>>
      <3>1. CASE Intact
        <4>1. Coming = <<writer.frame>> \o rest BY <2>1, <3>1 DEF Coming, InWriter
        <4> HIDE DEF rest
        <4> QED BY <1>4, <2>1, <3>1, <4>1, HeadFirst
      <3>2. CASE ~Intact
        <4>1. Coming = <<writer.frame>> BY <2>1, <3>2 DEF Coming, InWriter
        <4> QED BY <2>1, <3>2, <4>1
      <3> QED BY <3>1, <3>2
    <2>4. Coming' = Tail(Coming)
      <3>1. Intact' <=> Intact BY <2>1 DEF Intact
      <3>2. InWriter' = <<>> BY <2>1 DEF InWriter
      <3>3. Coming' = IF Intact THEN <<>> \o (queue.frames \o sup.closings) ELSE <<>>
        BY <1>2, <2>1, <3>1, <3>2 DEF Coming
      <3> QED BY ONLY <1>4, <2>3, <3>3 DEF rest
    <2>5. Intact' => Intact BY <2>1 DEF Intact
    <2> QED BY <1>1, <1>3, <2>2, <2>3, <2>4, <2>5, FlowWrites
  <1>7. CASE WriteFails
    <2>1. writer'.at = "next" /\ queue'.status = "Failed" /\ wire' = wire
      BY <1>1, <1>7 DEF WriteFails, Queues, Released
    <2>2. Coming' = <<>> /\ ~Intact' BY <2>1 DEF Coming, InWriter, Intact
    <2>3. Coming = Coming' \o Coming BY <1>1, <2>2, ConcatEmptySeq
    <2> QED BY <1>1, <1>3, <2>1, <2>2, <2>3, FlowCut
  <1>8. CASE WriterEnds
    <2>1. /\ writer.at = "next" /\ writer'.at = "done" /\ wire' = wire
          /\ queue'.frames = <<>> /\ queue'.status = queue.status
          /\ queue.status # "Failed" => queue.frames = <<>>
      BY <1>1, <1>8 DEF WriterEnds, Queues, Writers
    <2>2. Coming' = Coming /\ (Intact' <=> Intact)
      BY <1>2, <2>1 DEF Coming, InWriter, Intact
    <2> QED BY <1>3, <2>1, <2>2, FlowStays
  <1> QED BY <1>5, <1>6, <1>7, <1>8

Story == Flow /\ Stages /\ Drained

LEMMA WriterStory ==
    ASSUME TypeOK, TypeOK', Story, PopFrame \/ WriteFrame \/ WriteFails \/ WriterEnds
    PROVE  Story'
  <1>0. Flow' BY WriterFlow DEF Story
  <1>1. queue \in Queues /\ writer \in Writers BY TypeParts
  <1>2. UNCHANGED <<sup, worker, reader, pipe, failure, command, input, clock>>
    BY DEF PopFrame, WriteFrame, WriteFails, WriterEnds, others, external
  <1>3. /\ queue'.status \in {queue.status, "Failed"}
        /\ writer.at # "done"
        /\ writer'.at = "done" => queue'.status # "Open" /\ queue'.frames = <<>>
    <2>1. CASE PopFrame BY <1>1, <2>1 DEF PopFrame, Queues, Writers
    <2>2. CASE WriteFrame BY <1>1, <2>2 DEF WriteFrame, Queues, Writers, Released
    <2>3. CASE WriteFails BY <1>1, <2>3 DEF WriteFails, Queues, Writers, Released
    <2>4. CASE WriterEnds BY <1>1, <2>4 DEF WriterEnds, Queues, Writers
    <2> QED BY <2>1, <2>2, <2>3, <2>4
  <1>4. Stages' BY <1>2, <1>3 DEF Story, Stages, Late, Joined
  <1>5. Drained' BY <1>2, <1>3 DEF Story, Drained, Intact
  <1> QED BY <1>0, <1>4, <1>5 DEF Story

LEMMA SendTyped ==
    ASSUME TypeOK, NEW s \in Streams, reader[s].at = "sending"
    PROVE  LET e == Event(s, "None", pipe[s].read, FALSE)
               f == [e EXCEPT !.size = reader[s].size]
           IN  f \in Frame /\ f.kind = s /\ f.n = pipe[s].read
  <1> DEFINE e == Event(s, "None", pipe[s].read, FALSE)
  <1>1. pipe[s].read \in Nat /\ reader[s].size \in Nat
    <2>1. pipe[s] \in Pipes /\ reader[s] \in Readers BY TypeParts
    <2>2. MaxWritten \in Nat /\ Sizes \subseteq Nat BY RelayAssumption
    <2>3. pipe[s].read \in 0..MaxWritten BY <2>1 DEF Pipes
    <2>4. reader[s].size \in Sizes \cup {0} BY <2>1 DEF Readers
    <2>5. pipe[s].read \in Nat BY <2>2, <2>3
    <2>6. \A x \in Sizes \cup {0} : x \in Nat BY ONLY <2>2
    <2>7. reader[s].size \in Nat BY ONLY <2>4, <2>6
    <2> QED BY <2>5, <2>7
  <1>2. s \notin {"Closed", "Fatal"} BY RelayAssumption DEF RelayAssumption, Streams, Sideband
  <1>3. e \in Frame /\ e.kind = s /\ e.n = pipe[s].read
    <2>1. "None" \in Causes BY DEF Causes
    <2>2. e.kind = s /\ e.n = pipe[s].read BY DEF Event
    <2> QED BY <1>1, <1>2, <2>1, <2>2, EventTyped
  <1> HIDE DEF e
  <1>4. [e EXCEPT !.size = reader[s].size] \in Frame BY <1>1, <1>3, SizeWrite
  <1>5. /\ [e EXCEPT !.size = reader[s].size].kind = e.kind
        /\ [e EXCEPT !.size = reader[s].size].n = e.n
    BY <1>3 DEF Frame
  <1> QED BY <1>3, <1>4, <1>5 DEF e

(* A frame of a producer continues its numbers.                            *)
LEMMA PromiseTells ==
    ASSUME NEW f \in Frame, NEW p \in Producers, Teller(f) = p, f.kind \notin {"Closed", "Fatal", "Outcome"},
           ~Late, ~Late', f.n = HandedOver[p] + 1, HandedOver' = [HandedOver EXCEPT ![p] = f.n],
           p \in Streams => worker # "None"
    PROVE  Tells(<<f>>, Promise, Promise', Late')
  <1>1. /\ Promise = [told |-> HandedOver, closed |-> {}, fatal |-> "None", outcome |-> FALSE]
        /\ Promise' = [told |-> HandedOver', closed |-> {}, fatal |-> "None", outcome |-> FALSE]
    BY DEF Promise
  <1>2. f.kind \in Streams \cup {"WorkerStarted", "InterruptResult", "ShutdownStarted"}
    BY DEF Frame
  <1>3. f.kind \in Streams => f.kind \notin {"WorkerStarted", "InterruptResult", "ShutdownStarted"}
    BY RelayAssumption DEF RelayAssumption, Streams, Sideband
  <1>4. Telling(Promise, f) = [Promise EXCEPT !.told[p] = f.n]
    BY <1>2, <1>3 DEF Telling, Teller
  <1>5. Telling(Promise, f) = Promise' BY <1>1, <1>4
  <1>6. May(Promise, f, Late')
    <2>1. ~Promise.outcome /\ Promise.closed = {} /\ Promise.told = HandedOver BY <1>1
    <2>2. f.kind \in Streams => HandedOver["Lifetime"] > 0
      <3>1. f.kind \in Streams => p \in Streams BY <1>3 DEF Teller
      <3>2. worker # "None" => HandedOver["Lifetime"] = 1 BY DEF HandedOver, Producers
      <3> QED BY <3>1, <3>2
    <2> QED BY <2>1, <2>2 DEF May
  <1> QED BY <1>5, <1>6, TellsOne

(* While a reader runs the supervisor has not come to its closing events.  *)
LEMMA ReaderRuns ==
    ASSUME Stages, NEW s \in Streams, reader[s].at \in {"reading", "sending"}
    PROVE  ~Late /\ worker # "None" /\ sup.at \notin {"start", "join_writer", "ended"}
           /\ sup.closings = <<>> /\ queue.status # "Finishing"
  <1>1. worker # "None" BY DEF Stages
  <1>2. ~Late BY <1>1 DEF Stages, Joined
  <1>3. sup.at # "start" BY <1>1 DEF Stages
  <1> QED BY <1>1, <1>2, <1>3 DEF Stages, Late

LEMMA FailureKept ==
    ASSUME NEW c \in Causes, Report(c)
    PROVE  failure' = IF failure = "None" THEN c ELSE failure
  BY DEF Report

LEMMA ReadStory ==
    ASSUME TypeOK, TypeOK', Story, NEW s \in Streams,
           Read(s) \/ ReadEof(s) \/ DrainEnds(s) \/ ReadFails(s)
    PROVE  Story'
  <1>1. UNCHANGED <<queue, writer, sup, wire, worker, command, input, clock>>
    BY DEF Read, ReadEof, DrainEnds, ReadFails, restR
  <1>2. reader[s].at = "reading" BY DEF Read, ReadEof, DrainEnds, ReadFails
  <1>3. ~Late /\ worker # "None" /\ sup.at \notin {"start", "join_writer", "ended"}
    BY <1>2, ReaderRuns DEF Story
  <1>4. /\ reader \in [Streams -> Readers] /\ pipe \in [Streams -> Pipes]
        /\ \A t \in Streams : reader[t] \in Readers /\ pipe[t] \in Pipes
        /\ \A t \in Streams : pipe[t].read \in Nat /\ pipe[t].written \in Nat
    <2>1. MaxWritten \in Nat BY RelayAssumption DEF RelayAssumption
    <2>2. reader \in [Streams -> Readers] /\ pipe \in [Streams -> Pipes] BY TypeParts
    <2>3. \A t \in Streams : pipe[t].read \in 0..MaxWritten /\ pipe[t].written \in 0..MaxWritten
      BY <2>2 DEF Pipes
    <2> QED BY <2>1, <2>2, <2>3
  <1>5. failure' = failure \/ (failure = "None" /\ failure' \in {"Partial", "Read"})
    <2>1. "Partial" \in Causes /\ "Read" \in Causes BY DEF Causes
    <2> QED BY <2>1, FailureKept DEF Read, ReadEof, DrainEnds, ReadFails
  <1>6. /\ \A t \in Streams : t # s => reader'[t] = reader[t] /\ pipe'[t] = pipe[t]
        /\ \/ /\ reader'[s].at = "sending" /\ pipe'[s].read = pipe[s].read + 1
              /\ pipe[s].read < pipe[s].written /\ pipe'[s].written = pipe[s].written
           \/ /\ reader'[s].at = "done" /\ pipe' = pipe
              /\ pipe[s].read = pipe[s].written \/ clock.drain = "Expired"
           \/ reader'[s].at = "failed" /\ pipe' = pipe
    <2>1. CASE Read(s)
      <3>1. PICK size \in Sizes : reader' = [reader EXCEPT ![s] = [at |-> "sending", size |-> size]]
        BY <2>1 DEF Read
      <3>2. pipe' = [pipe EXCEPT ![s] = [pipe[s] EXCEPT !.read = @ + 1]] /\ pipe[s].read < pipe[s].written
        BY <2>1 DEF Read
      <3>3. [pipe[s] EXCEPT !.read = @ + 1].read = pipe[s].read + 1
            /\ [pipe[s] EXCEPT !.read = @ + 1].written = pipe[s].written
        BY <1>4 DEF Pipes
      <3> QED BY <1>4, <3>1, <3>2, <3>3
    <2>2. CASE ReadEof(s)
      BY <1>4, <2>2 DEF ReadEof, ReaderAt, Readers
    <2>3. CASE DrainEnds(s)
      BY <1>4, <2>3 DEF DrainEnds, ReaderAt, restR, Readers
    <2>4. CASE ReadFails(s)
      BY <1>4, <2>4 DEF ReadFails, ReaderAt, restR, Readers
    <2> QED BY <2>1, <2>2, <2>3, <2>4
  <1>7. Stages' BY <1>1, <1>2, <1>3, <1>6 DEF Story, Stages, Late, Joined
  <1>8. Drained'
    <2>1. \A t \in Streams : /\ pipe'[t].read <= pipe'[t].written
                             /\ reader'[t].at = "sending" => pipe'[t].read > 0
      BY <1>4, <1>6 DEF Story, Drained
    <2>2. /\ reader'[Sideband].at = "unstarted" /\ worker' # "None" => failure' = "Setup"
          /\ sup'.at \in {"join", "closing", "join_writer", "ended"} /\ worker' # "None" =>
               \A t \in Streams : reader'[t].at # "unstarted"
      <3>1. Sideband \in Streams BY DEF Streams
      <3>2. \A t \in Streams : reader'[t].at = "unstarted" => reader[t].at = "unstarted" BY <1>6
      <3>3. failure = "Setup" => failure' = "Setup" BY <1>5
      <3> QED BY <1>1, <3>1, <3>2, <3>3 DEF Story, Drained
    <2>3. ASSUME clock'.drain # "Expired", Intact', NEW t \in Streams, reader'[t].at = "done"
          PROVE  pipe'[t].read = pipe'[t].written \/ (t = Sideband /\ failure' = "Setup")
      BY <1>1, <1>5, <1>6, <2>3 DEF Story, Drained, Intact
    <2> QED BY <2>1, <2>2, <2>3 DEF Drained
  <1>9. Flow'
    <2>1. Coming' = Coming /\ (Intact' <=> Intact) BY <1>1, SameComing
    <2>2. ASSUME NEW t \in Streams
          PROVE  (IF reader'[t].at = "sending" THEN pipe'[t].read - 1 ELSE pipe'[t].read)
                 = (IF reader[t].at = "sending" THEN pipe[t].read - 1 ELSE pipe[t].read)
      BY <1>2, <1>4, <1>6
    <2>3. Promise' = Promise BY <1>1, <1>3, <2>2, PromiseKept DEF Late
    <2>4. Late' = Late BY <1>1 DEF Late
    <2> QED BY <1>1, <2>1, <2>3, <2>4, FlowStays DEF Story
  <1> QED BY <1>7, <1>8, <1>9 DEF Story

LEMMA SendStory ==
    ASSUME TypeOK, TypeOK', Story, NEW s \in Streams, Send(s)
    PROVE  Story'
  <1>1. UNCHANGED <<writer, sup, wire, worker, command, input, clock, failure, pipe>>
    BY DEF Send, restR
  <1>2. reader[s].at = "sending" BY DEF Send
  <1>3. ~Late /\ worker # "None" /\ sup.at \notin {"start", "join_writer", "ended"}
        /\ sup.closings = <<>> /\ queue.status # "Finishing"
    BY <1>2, ReaderRuns DEF Story
  <1>4. /\ reader \in [Streams -> Readers] /\ queue \in Queues /\ pipe[s].read \in Nat
    <2>1. MaxWritten \in Nat BY RelayAssumption DEF RelayAssumption
    <2>2. reader \in [Streams -> Readers] /\ queue \in Queues /\ pipe \in [Streams -> Pipes] BY TypeParts
    <2>3. pipe[s].read \in 0..MaxWritten BY <2>2 DEF Pipes
    <2> QED BY <2>1, <2>2, <2>3
  <1>5. /\ \A t \in Streams : t # s => reader'[t] = reader[t]
        /\ reader'[s].at = IF Accepting THEN "reading" ELSE "done"
        /\ queue'.status = IF Accepting THEN "Open" ELSE "Failed"
        /\ writer.at = "done" => queue'.frames = <<>>
    <2>1. CASE ~Accepting
      <3>1. queue'.status = "Failed" /\ queue'.frames = queue.frames
        BY <1>3, <1>4, <2>1 DEF Send, Failed, Queues
      <3> QED BY <1>4, <2>1, <3>1 DEF Send, ReaderAt, Readers, Story, Stages
    <2>2. CASE Accepting
      <3>1. queue.status = "Open" BY <2>2 DEF Accepting
      <3>2. queue'.status = "Open" BY <1>4, <2>2, <3>1 DEF Send, Enqueued, Queues
      <3>3. writer.at # "done" BY <3>1 DEF Story, Stages
      <3> QED BY <1>4, <2>2, <3>2, <3>3 DEF Send, ReaderAt, Readers
    <2> QED BY <2>1, <2>2
  <1>6. Stages' BY <1>1, <1>2, <1>3, <1>5 DEF Story, Stages, Late, Joined, Accepting
  <1>7. Drained'
    <2>1. Sideband \in Streams BY DEF Streams
    <2>2. Intact' => Intact BY <1>5 DEF Intact, Accepting
    <2>3. \A t \in Streams : /\ pipe'[t].read <= pipe'[t].written
                             /\ reader'[t].at = "sending" => pipe'[t].read > 0
      BY <1>1, <1>2, <1>5 DEF Story, Drained
    <2>4. /\ reader'[Sideband].at = "unstarted" /\ worker' # "None" => failure' = "Setup"
          /\ sup'.at \in {"join", "closing", "join_writer", "ended"} /\ worker' # "None" =>
               \A t \in Streams : reader'[t].at # "unstarted"
      BY <1>1, <1>2, <1>5, <2>1 DEF Story, Drained
    <2>5. ASSUME clock'.drain # "Expired", Intact', NEW t \in Streams, reader'[t].at = "done"
          PROVE  pipe'[t].read = pipe'[t].written \/ (t = Sideband /\ failure' = "Setup")
      <3>1. t # s BY <1>5, <2>5 DEF Intact
      <3> QED BY <1>1, <1>5, <2>2, <2>5, <3>1 DEF Story, Drained
    <2> QED BY <2>3, <2>4, <2>5 DEF Drained
  <1>8. Flow'
    <2>1. CASE ~Accepting
      <3>1. InWriter' = InWriter /\ Late' = Late BY <1>1 DEF InWriter, Late
      <3>2. PICK K \in Seq(Frame) : Coming = Coming' \o K /\ Coming' \in Seq(Frame) /\ ~Intact'
        BY <1>5, <2>1, <3>1, CutShort
      <3> QED BY <1>1, <3>1, <3>2, FlowCut DEF Story
    <2>2. CASE Accepting
      <3> DEFINE f == [Event(s, "None", pipe[s].read, FALSE) EXCEPT !.size = reader[s].size]
      <3>1. f \in Frame /\ f.kind = s /\ f.n = pipe[s].read BY <1>2, SendTyped
      <3>2. queue' = Enqueued(f) BY <2>2 DEF Send
      <3> HIDE DEF f
      <3>3. Intact /\ Late' = Late BY <1>1, <2>2 DEF Intact, Accepting, Late
      <3>4. Coming' = Coming \o <<f>> /\ <<f>> \in Seq(Frame) /\ Coming \in Seq(Frame)
        BY <1>1, <1>3, <3>1, <3>2, <3>3, OneMore
      <3>5. s \in Producers /\ s \notin {"Lifetime", "Supervisor", "Closed", "Fatal", "Outcome", "WorkerStarted",
                                        "InterruptResult", "ShutdownStarted"}
        BY RelayAssumption DEF RelayAssumption, Streams, Sideband, Producers
      <3>6. Teller(f) = s /\ f.kind \notin {"Closed", "Fatal", "Outcome"} BY <3>1, <3>5 DEF Teller
      <3>7. f.n = HandedOver[s] + 1 BY <1>2, <1>4, <3>1, <3>5 DEF HandedOver
      <3>8. HandedOver' = [HandedOver EXCEPT ![s] = f.n]
        <4>1. ASSUME NEW p \in Producers PROVE HandedOver'[p] = IF p = s THEN f.n ELSE HandedOver[p]
          <5>1. CASE p = s BY <1>1, <1>5, <2>2, <3>1, <3>5, <5>1 DEF HandedOver
          <5>2. CASE p # s
            <6>1. p \in Streams => reader'[p] = reader[p] BY <1>5, <5>2
            <6> QED BY <1>1, <5>2, <6>1 DEF HandedOver, Producers
          <5> QED BY <5>1, <5>2
        <4> QED BY <4>1 DEF HandedOver
      <3>9. Tells(<<f>>, Promise, Promise', Late')
        BY <1>3, <3>1, <3>3, <3>5, <3>6, <3>7, <3>8, PromiseTells
      <3> QED BY <1>1, <3>3, <3>4, <3>9, FlowJoins DEF Story
    <2> QED BY <2>1, <2>2
  <1> QED BY <1>6, <1>7, <1>8 DEF Story

(* Steps that say nothing.                                                 *)
LEMMA QuietFlow ==
    ASSUME Flow, UNCHANGED <<queue, writer, wire>>, sup'.closings = sup.closings, sup'.sent = sup.sent,
           Late' <=> Late, worker' = "None" <=> worker = "None",
           Late /\ worker # "None" => failure' = failure /\ sup'.status = sup.status,
           \A s \in Streams :
             (IF reader'[s].at = "sending" THEN pipe'[s].read - 1 ELSE pipe'[s].read)
             = (IF reader[s].at = "sending" THEN pipe[s].read - 1 ELSE pipe[s].read)
    PROVE  Flow'
  <1>1. Coming' = Coming /\ (Intact' <=> Intact) BY SameComing
  <1>2. Promise' = Promise BY PromiseKept
  <1> QED BY <1>1, <1>2, FlowStays

LEMMA InputStory ==
    ASSUME TypeOK, Story, NEW i \in Inputs, WriteInput(i) \/ InputFails(i) \/ InputEnds(i)
    PROVE  Story'
  <1>1. UNCHANGED <<sup, command, reader, queue, writer, clock, wire, worker, pipe>>
    BY DEF WriteInput, InputFails, InputEnds, restI
  <1>2. input[i].at = "running" /\ input \in [Inputs -> Mailboxes]
    BY TypeParts DEF WriteInput, InputFails, InputEnds, Running
  <1>3. worker # "None" /\ ~Late /\ sup.at # "start" /\ sup.at \notin {"join"}
    BY <1>2 DEF Story, Stages, Late
  <1>4. \A k \in Inputs : input'[k].at = input[k].at \/ (k = i /\ input'[k].at = "done")
    BY <1>2 DEF WriteInput, InputFails, InputEnds, EndInput, Mailboxes
  <1>5. failure' = failure \/ failure = "None"
    BY FailureKept DEF InputFails, Causes, WriteInput, InputEnds
  <1>6. Stages' BY <1>1, <1>3, <1>4 DEF Story, Stages, Late, Joined
  <1>7. Drained' BY <1>1, <1>3, <1>5 DEF Story, Drained, Intact
  <1>8. Flow' BY <1>1, <1>3, QuietFlow DEF Story, Late
  <1> QED BY <1>6, <1>7, <1>8 DEF Story

LEMMA CommandStory ==
    ASSUME TypeOK, Story, ReadCommand \/ CommandsEnd
    PROVE  Story'
  <1>1. UNCHANGED <<sup, input, reader, queue, writer, clock, wire, worker, pipe>>
    BY DEF ReadCommand, CommandsEnd, restC
  <1>2. command = "reading" /\ command' \in {"reading", "done"}
    BY DEF ReadCommand, CommandsEnd
  <1>3. worker # "None" /\ ~Late /\ sup.at # "start" BY <1>2 DEF Story, Stages, Late
  <1>4. failure' = failure \/ failure = "None"
    BY FailureKept DEF ReadCommand, CommandsEnd, Causes
  <1>5. Stages' BY <1>1, <1>2, <1>3 DEF Story, Stages, Late, Joined
  <1>6. Drained' BY <1>1, <1>3, <1>4 DEF Story, Drained, Intact
  <1>7. Flow' BY <1>1, <1>3, QuietFlow DEF Story, Late
  <1> QED BY <1>5, <1>6, <1>7 DEF Story

LEMMA TickStory ==
    ASSUME TypeOK, Story, Tick
    PROVE  Story'
  <1>1. UNCHANGED <<failure, command, input, reader, queue, writer, wire, worker, pipe>>
    BY DEF Tick, restT, external
  <1>2. /\ sup'.at = sup.at /\ sup'.closings = sup.closings /\ sup'.sent = sup.sent
        /\ sup'.status = sup.status
    <2>1. sup \in Sups BY TypeParts
    <2> QED BY <2>1 DEF Tick, Sups, restT
  <1>3. /\ clock'.drain # "Expired" => clock.drain # "Expired"
        /\ clock.drain = "Unset" => clock'.drain = "Unset"
    <2>1. clock \in Clocks BY TypeParts
    <2> QED BY <2>1 DEF Tick, Clocks, restT
  <1>4. Stages' BY <1>1, <1>2, <1>3 DEF Story, Stages, Late, Joined
  <1>5. Drained' BY <1>1, <1>2, <1>3 DEF Story, Drained, Intact
  <1>6. Flow' BY <1>1, <1>2, QuietFlow DEF Story, Late
  <1> QED BY <1>4, <1>5, <1>6 DEF Story

LEMMA DiesReads ==
    ASSUME TypeOK, Dies
    PROVE  /\ \A s \in Streams : pipe'[s].read = pipe[s].read /\ pipe'[s].written = pipe[s].written
           /\ worker # "None" => worker' # "None"
           /\ worker' # "None"
  <1>1. pipe \in [Streams -> Pipes] /\ worker \in {"None", "Alive", "Dead"} BY TypeParts
  <1>2. CASE worker = "Dead" BY <1>2 DEF Dies
  <1>3. CASE worker # "Dead"
    <2>1. PICK held \in SUBSET Streams :
             pipe' = [s \in Streams |-> [pipe[s] EXCEPT !.open = @ /\ s \in held]]
      BY <1>3 DEF Dies
    <2>2. ASSUME NEW s \in Streams
          PROVE  pipe'[s].read = pipe[s].read /\ pipe'[s].written = pipe[s].written
      <3>1. pipe[s] \in Pipes BY <1>1
      <3>2. pipe'[s] = [pipe[s] EXCEPT !.open = @ /\ s \in held] BY <2>1
      <3> QED BY <3>1, <3>2 DEF Pipes
    <2> QED BY <1>3, <2>2 DEF Dies
  <1> QED BY <1>2, <1>3

LEMMA OthersStory ==
    ASSUME TypeOK, Story, ConsumerTurns \/ WorkerWrites \/ WorkerCloses \/ WorkerExits
    PROVE  Story'
  <1>1. UNCHANGED <<sup, failure, command, input, reader, queue, writer, clock, wire>>
    BY DEF ConsumerTurns, WorkerWrites, WorkerCloses, WorkerExits, restX
  <1>2. worker' = "None" <=> worker = "None"
    <2>1. WorkerExits => worker = "Alive" /\ worker' # "None" BY DiesReads DEF WorkerExits
    <2> QED BY <2>1 DEF ConsumerTurns, WorkerWrites, WorkerCloses
  <1>3. /\ pipe \in [Streams -> Pipes]
        /\ \A s \in Streams : pipe[s].read \in Nat /\ pipe[s].written \in Nat
    <2>1. MaxWritten \in Nat BY RelayAssumption DEF RelayAssumption
    <2>2. pipe \in [Streams -> Pipes] BY TypeParts
    <2>3. \A t \in Streams : pipe[t].read \in 0..MaxWritten /\ pipe[t].written \in 0..MaxWritten
      BY <2>2 DEF Pipes
    <2> QED BY <2>1, <2>2, <2>3
  <1>4. ASSUME NEW t \in Streams
        PROVE  /\ pipe'[t].read = pipe[t].read
               /\ \/ pipe'[t].written = pipe[t].written
                  \/ pipe'[t].written = pipe[t].written + 1 /\ reader[t].at \notin {"done", "failed"}
    <2>1. CASE ConsumerTurns BY <2>1 DEF ConsumerTurns
    <2>2. CASE WorkerWrites
      <3>1. PICK s \in Streams :
               /\ reader[s].at \notin {"done", "failed"}
               /\ \/ pipe' = [pipe EXCEPT ![s].written = @ + 1]
                  \/ pipe' = [pipe EXCEPT ![s].partial = TRUE]
        BY <2>2 DEF WorkerWrites
      <3> QED BY <1>3, <3>1 DEF Pipes
    <2>3. CASE WorkerCloses
      <3>1. PICK s \in Streams : pipe' = [pipe EXCEPT ![s].open = FALSE] BY <2>3 DEF WorkerCloses
      <3> QED BY <1>3, <3>1 DEF Pipes
    <2>4. CASE WorkerExits BY <2>4, DiesReads DEF WorkerExits
    <2> QED BY <2>1, <2>2, <2>3, <2>4
  <1>5. Stages' BY <1>1, <1>2, <1>4 DEF Story, Stages, Late, Joined
  <1>6. Drained'
    <2>1. \A s \in Streams : /\ pipe'[s].read <= pipe'[s].written
                             /\ reader'[s].at = "sending" => pipe'[s].read > 0
      BY <1>1, <1>3, <1>4 DEF Story, Drained
    <2> QED BY <1>1, <1>2, <1>4, <2>1 DEF Story, Drained, Intact
  <1>7. Flow'
    <2>1. Late' <=> Late BY <1>1 DEF Late
    <2> QED BY <1>1, <1>2, <1>4, <2>1, QuietFlow DEF Story
  <1> QED BY <1>5, <1>6, <1>7 DEF Story

(* Before the start nothing is coming and nothing was told.                *)
LEMMA NothingYet ==
    ASSUME TypeOK, Untouched, Story, sup.at = "start"
    PROVE  /\ Coming = <<>> /\ Intact /\ ~Late /\ sup.closings = <<>> /\ worker = "None"
           /\ failure = "None" /\ wire = Promise /\ queue.status = "Open" /\ writer.at = "next"
           /\ \A p \in Producers : HandedOver[p] = 0
  <1>1. /\ queue.frames = <<>> /\ queue.status = "Open" /\ writer.at = "next"
        /\ \A s \in Streams : reader[s].at = "unstarted"
    BY DEF Untouched
  <1>2. worker = "None" /\ failure = "None" /\ sup.closings = <<>> /\ ~Late
    BY DEF Story, Stages, Late
  <1>3. <<>> \o (<<>> \o <<>>) = <<>>
    <2>1. <<>> \in Seq(Frame) BY EmptySeq
    <2> QED BY <2>1, ConcatEmptySeq
  <1>4. Coming = <<>> /\ Intact BY <1>1, <1>2, <1>3 DEF Coming, Intact, InWriter
  <1>5. Tells(<<>>, wire, Promise, Late) BY <1>4 DEF Story, Flow
  <1>6. wire = Promise BY <1>5, TellsNothing
  <1>7. \A p \in Producers : HandedOver[p] = 0
    BY <1>1, <1>2 DEF HandedOver, Producers, Story, Stages
  <1> QED BY <1>1, <1>2, <1>4, <1>6, <1>7

LEMMA SpawnFailsStory ==
    ASSUME TypeOK, Untouched, Story, SpawnFails
    PROVE  Story'
  <1> DEFINE f == Event("Fatal", "Spawn", 0, TRUE)
  <1>1. /\ UNCHANGED <<failure, command, input, reader, worker, pipe, writer, wire>>
        /\ sup.at = "start" /\ sup' = [sup EXCEPT !.at = "join_writer"]
        /\ clock' = [clock EXCEPT !.flush = "Running"]
        /\ queue' = [Enqueued(f) EXCEPT !.status = "Finishing"]
    BY DEF SpawnFails, restS
  <1>2. sup \in Sups /\ queue \in Queues /\ clock \in Clocks BY TypeParts
  <1>3. /\ sup'.at = "join_writer" /\ sup'.closings = sup.closings /\ sup'.sent = sup.sent
        /\ sup'.status = sup.status /\ queue'.status = "Finishing" /\ clock'.drain = clock.drain
    BY <1>1, <1>2 DEF Sups, Enqueued, Queues, Clocks
  <1>4. /\ Intact /\ ~Late /\ sup.closings = <<>> /\ worker = "None"
        /\ queue.status = "Open" /\ writer.at = "next"
    BY <1>1, NothingYet
  <1>5. Stages' BY <1>1, <1>3, <1>4 DEF Story, Stages, Late, Joined
  <1>6. Drained' BY <1>1, <1>3, <1>4 DEF Story, Drained, Intact
  <1>7. f \in Frame /\ f.kind = "Fatal" /\ f.of = "Spawn"
    <2>1. "Spawn" \in Causes BY DEF Causes
    <2> QED BY <2>1 DEF Event, Frame
  <1> HIDE DEF f
  <1>8. Coming' = Coming \o <<f>> /\ <<f>> \in Seq(Frame) /\ Coming \in Seq(Frame)
    BY <1>1, <1>3, <1>4, <1>7, OneMore
  <1>9. Tells(<<f>>, Promise, Promise', Late')
    <2>1. HandedOver' = HandedOver BY <1>1, <1>3 DEF HandedOver
    <2>2. /\ Promise = [told |-> HandedOver, closed |-> {}, fatal |-> "None", outcome |-> FALSE]
          /\ Promise' = [told |-> HandedOver, closed |-> {}, fatal |-> "Spawn", outcome |-> FALSE]
      BY <1>1, <1>3, <1>4, <2>1 DEF Promise, Late
    <2>3. Telling(Promise, f) = [Promise EXCEPT !.fatal = "Spawn"] BY <1>7 DEF Telling
    <2>4. Telling(Promise, f) = Promise' BY <2>2, <2>3
    <2>5. HandedOver["Lifetime"] = 0 BY <1>4 DEF HandedOver, Producers
    <2>6. May(Promise, f, Late')
      <3>1. Late' BY <1>3 DEF Late
      <3> QED BY <1>7, <2>2, <2>5, <3>1 DEF May
    <2> QED BY <2>4, <2>6, TellsOne
  <1>10. Flow'
    <2>1. wire' = wire /\ (Late => Late') BY <1>1, <1>4
    <2> QED BY <1>4, <1>8, <1>9, <2>1, FlowJoins DEF Story
  <1> QED BY <1>5, <1>6, <1>10 DEF Story

LEMMA SpawnStory ==
    ASSUME TypeOK, Untouched, Story, Spawn
    PROVE  Story'
  <1> DEFINE f == Event("WorkerStarted", "None", 1, FALSE)
  <1>1. /\ UNCHANGED <<clock, writer, wire, consumer>> /\ sup.at = "start" /\ worker' = "Alive"
        /\ pipe' = [s \in Streams |-> [pipe[s] EXCEPT !.open = TRUE]] /\ queue' = Enqueued(f)
    BY DEF Spawn, restS
  <1>2. PICK k \in 0..Len(Threads) :
          LET started == Range(SubSeq(Threads, 1, k)) IN
          /\ input' = [i \in Inputs |->
                          IF i \in started THEN [input[i] EXCEPT !.at = "running"] ELSE input[i]]
          /\ reader' = [s \in Streams |->
                           IF s \in started THEN [reader[s] EXCEPT !.at = "reading"] ELSE reader[s]]
          /\ IF k = Len(Threads)
             THEN sup' = [sup EXCEPT !.at = "loop"] /\ UNCHANGED failure
             ELSE sup' = [sup EXCEPT !.at = "stop", !.prior = "Setup"] /\ Report("Setup")
    BY DEF Spawn
  <1> DEFINE started == Range(SubSeq(Threads, 1, k))
  <1>3. k = Len(Threads) => Sideband \in started
    <2>1. ASSUME k = Len(Threads) PROVE Sideband \in started
      <3> DEFINE Names == {"StdinWriter", "SidebandWriter", "Stdout", "Stderr", "CommandReader",
                           "Sideband", "ExitObserver"}
      <3>1. Len(Threads) = 7 /\ Threads[6] = Sideband /\ Threads \in Seq(Names)
        <4>1. Len(Threads) = 7 BY DEF Threads
        <4>2. Threads[6] = Sideband BY DEF Threads
        <4>3. Threads \in Seq(Names) BY DEF Threads, Sideband
        <4> QED BY <4>1, <4>2, <4>3
      <3>2. SubSeq(Threads, 1, k) = Threads BY <2>1, <3>1, SubSeqFull
      <3>3. 6 \in DOMAIN Threads BY <3>1
      <3> QED BY <3>1, <3>2, <3>3 DEF Range
    <2> QED BY <2>1
  <1> HIDE DEF started
  <1>4. sup \in Sups /\ queue \in Queues /\ reader \in [Streams -> Readers] /\ pipe \in [Streams -> Pipes]
    BY TypeParts
  <1>5. /\ Coming = <<>> /\ Intact /\ ~Late /\ sup.closings = <<>> /\ worker = "None" /\ failure = "None"
        /\ queue.status = "Open" /\ writer.at = "next" /\ \A p \in Producers : HandedOver[p] = 0
    BY <1>1, NothingYet
  <1>6. /\ sup'.at \in {"loop", "stop"} /\ sup'.closings = <<>> /\ sup'.sent = sup.sent
        /\ failure' = IF k = Len(Threads) THEN "None" ELSE "Setup"
    <2>1. "Setup" \in Causes BY DEF Causes
    <2>2. k # Len(Threads) => failure' = "Setup" BY <1>2, <1>5, <2>1, FailureKept
    <2> QED BY <1>2, <1>4, <1>5, <2>2 DEF Sups
  <1>7. queue'.status = "Open" BY <1>1, <1>4, <1>5 DEF Enqueued, Queues
  <1>8. ASSUME NEW s \in Streams
        PROVE  /\ pipe'[s].read = 0 /\ pipe'[s].read = pipe[s].read /\ pipe'[s].written = pipe[s].written
               /\ reader'[s].at \in {"unstarted", "reading"}
               /\ s \in started => reader'[s].at = "reading"
    <2>1. pipe[s].read = 0 /\ reader[s].at = "unstarted" BY <1>5 DEF Story, Stages
    <2>2. pipe[s] \in Pipes /\ reader[s] \in Readers BY <1>4
    <2>3. pipe'[s] = [pipe[s] EXCEPT !.open = TRUE] BY <1>1
    <2>4. reader'[s] = IF s \in started THEN [reader[s] EXCEPT !.at = "reading"] ELSE reader[s]
      BY <1>2 DEF started
    <2> QED BY <2>1, <2>2, <2>3, <2>4 DEF Pipes, Readers
  <1>9. Stages' BY <1>1, <1>5, <1>6, <1>7 DEF Story, Stages, Late
  <1>10. Drained'
    <2>1. Sideband \in Streams BY DEF Streams
    <2>2. \A s \in Streams : /\ pipe'[s].read <= pipe'[s].written
                             /\ reader'[s].at # "sending"
      BY <1>8 DEF Story, Drained
    <2>3. reader'[Sideband].at = "unstarted" /\ worker' # "None" => failure' = "Setup"
      BY <1>3, <1>6, <1>8, <2>1
    <2>4. \A s \in Streams : reader'[s].at # "done" BY <1>8
    <2> QED BY <1>6, <2>2, <2>3, <2>4 DEF Drained
  <1>11. f \in Frame /\ f.kind = "WorkerStarted" /\ f.n = 1
    <2>1. "None" \in Causes BY DEF Causes
    <2> QED BY <2>1 DEF Event, Frame
  <1> HIDE DEF f
  <1>12. Coming' = Coming \o <<f>> /\ <<f>> \in Seq(Frame) /\ Coming \in Seq(Frame)
    BY <1>1, <1>5, <1>6, <1>11, OneMore
  <1>13. Tells(<<f>>, Promise, Promise', Late')
    <2>1. Teller(f) = "Lifetime" /\ "Lifetime" \in Producers /\ "Lifetime" \notin Streams
      BY <1>11, RelayAssumption DEF Teller, Producers, RelayAssumption, Streams, Sideband
    <2>2. HandedOver' = [HandedOver EXCEPT !["Lifetime"] = f.n]
      <3>1. ASSUME NEW p \in Producers PROVE HandedOver'[p] = IF p = "Lifetime" THEN f.n ELSE HandedOver[p]
        <4>1. CASE p = "Lifetime" BY <1>1, <1>11, <4>1 DEF HandedOver
        <4>2. CASE p = "Supervisor" BY <1>6, <4>2 DEF HandedOver
        <4>3. CASE p \in Streams /\ p # "Supervisor" BY <1>5, <1>8, <2>1, <4>3 DEF HandedOver
        <4> QED BY <4>1, <4>2, <4>3 DEF Producers
      <3> QED BY <3>1 DEF HandedOver
    <2>3. f.n = HandedOver["Lifetime"] + 1 BY <1>5, <1>11, <2>1
    <2>4. ~Late' BY <1>6 DEF Late
    <2> QED BY <1>5, <1>11, <2>1, <2>2, <2>3, <2>4, PromiseTells
  <1>14. Flow'
    <2>1. wire' = wire /\ (Late => Late') BY <1>1, <1>5
    <2> QED BY <1>5, <1>12, <1>13, <2>1, FlowJoins DEF Story
  <1> QED BY <1>9, <1>10, <1>14 DEF Story

(* A step of the loop either says nothing, or a numbered event of the      *)
(* supervisor's, which the queue admits or fails for.                      *)
Said(kind) ==
    LET f == Event(kind, "None", sup.sent + 1, TRUE) IN
    \/ Admitted /\ queue' = Enqueued(f) /\ sup'.sent = sup.sent + 1
    \/ ~Admitted /\ queue' = (IF queue.status = "Open" THEN Failed ELSE queue) /\ sup'.sent = sup.sent
LoopSays ==
    \/ UNCHANGED queue /\ sup'.sent = sup.sent
    \/ \E kind \in {"InterruptResult", "ShutdownStarted"} : Said(kind)
LoopShape ==
    /\ sup.at = "loop" /\ sup'.at \in {"loop", "stop", "retire"}
    /\ sup'.closings = sup.closings
    /\ UNCHANGED <<failure, command, reader, clock, worker, pipe, writer, wire, consumer>>
    /\ \A i \in Inputs : input'[i].at = input[i].at

LEMMA LoopSteps ==
    ASSUME TypeOK, Loop
    PROVE  LoopShape /\ LoopSays
  <1>1. sup \in Sups /\ input \in [Inputs -> Mailboxes] BY TypeParts
  <1>2. ASSUME NEW c, ForceStop(c)
        PROVE  sup'.at = "stop" /\ sup'.closings = sup.closings /\ sup'.sent = sup.sent
    BY <1>1, <1>2 DEF ForceStop, Sups
  <1>3. ASSUME NEW i \in Inputs, NEW m, input' = Give(i, m)
        PROVE  \A k \in Inputs : input'[k].at = input[k].at
    BY <1>1, <1>3 DEF Give, Mailboxes
  <1>4. "SidebandWriter" \in Inputs /\ "StdinWriter" \in Inputs BY DEF Inputs
  <1>5. CASE Forward
    <2>1. Take({"Worker", "Stdin"}) /\ UNCHANGED queue BY <1>5 DEF Forward
    <2>2. \/ (\E i \in Inputs : input' = Give(i, "Message")) /\ UNCHANGED sup
          \/ ForceStop("Write") /\ UNCHANGED input
      BY <1>4, <1>5 DEF Forward
    <2>3. /\ sup'.at \in {sup.at, "stop"} /\ sup'.closings = sup.closings /\ sup'.sent = sup.sent
          /\ \A i \in Inputs : input'[i].at = input[i].at
      BY <1>2, <1>3, <2>2
    <2> QED BY <2>1, <2>3 DEF LoopShape, LoopSays, Take, restS
  <1>6. CASE Interrupt
    <2>1. Take({"Interrupt"}) /\ UNCHANGED input BY <1>6 DEF Interrupt
    <2>2. /\ sup'.at \in {sup.at, "stop"} /\ sup'.closings = sup.closings
          /\ sup'.sent = IF Admitted THEN sup.sent + 1 ELSE sup.sent
      <3>1. CASE Admitted BY <1>1, <1>6, <3>1 DEF Interrupt, Sups
      <3>2. CASE ~Admitted BY <1>2, <1>6, <3>2 DEF Interrupt
      <3> QED BY <3>1, <3>2
    <2>3. SendSupervisor(Event("InterruptResult", "None", sup.sent + 1, TRUE)) BY <1>6 DEF Interrupt
    <2>4. Said("InterruptResult") BY <2>2, <2>3 DEF Said, SendSupervisor
    <2> QED BY <2>1, <2>2, <2>4 DEF LoopShape, LoopSays, Take, restS
  <1>7. CASE ShutDown
    <2>1. Take({"Shutdown", "ControllerEof"}) BY <1>7 DEF ShutDown
    <2> DEFINE accepted == Head(controls).kind = "Shutdown"
    <2>2. /\ sup'.at \in {sup.at, "stop"} /\ sup'.closings = sup.closings
          /\ sup'.sent = IF accepted /\ Admitted THEN sup.sent + 1 ELSE sup.sent
          /\ \A i \in Inputs : input'[i].at = input[i].at
      <3>1. CASE accepted /\ ~Admitted
        <4>1. sup' = [[sup EXCEPT !.retiring = "Running"] EXCEPT !.at = "stop", !.prior = "None"]
              /\ UNCHANGED input
          BY <1>7, <3>1 DEF ShutDown
        <4> QED BY <1>1, <3>1, <4>1 DEF Sups
      <3>2. CASE ~(accepted /\ ~Admitted)
        <4>1. sup' = [[sup EXCEPT !.retiring = "Running"] EXCEPT
                         !.sent = IF accepted THEN sup.sent + 1 ELSE sup.sent]
          BY <1>1, <1>7, <3>2 DEF ShutDown, Sups
        <4>2. input' = [i \in Inputs |->
                     IF ~Running(i) THEN input[i]
                     ELSE [input[i] EXCEPT !.queue =
                              Append(@, IF i = "StdinWriter" THEN "Close" ELSE "Shutdown")]]
          BY <1>7, <3>2 DEF ShutDown
        <4>3. ASSUME NEW i \in Inputs PROVE input'[i].at = input[i].at
          <5>1. input[i] \in Mailboxes BY <1>1
          <5> QED BY <4>2, <5>1 DEF Mailboxes
        <4> HIDE DEF accepted
        <4> QED BY <1>1, <3>2, <4>1, <4>3 DEF Sups
      <3> QED BY <3>1, <3>2
    <2>3. CASE accepted
      <3>1. SendSupervisor(Event("ShutdownStarted", "None", sup.sent + 1, TRUE)) BY <1>7, <2>3 DEF ShutDown
      <3>2. Said("ShutdownStarted") BY <2>2, <2>3, <3>1 DEF Said, SendSupervisor
      <3> QED BY <2>1, <2>2, <3>2 DEF LoopShape, LoopSays, Take, restS
    <2>4. CASE ~accepted
      <3>1. UNCHANGED queue BY <1>7, <2>4 DEF ShutDown
      <3> QED BY <2>1, <2>2, <2>4, <3>1 DEF LoopShape, LoopSays, Take, restS
    <2> QED BY <2>3, <2>4
  <1>8. CASE SidebandEof
    <2>1. Take({"SidebandEof"}) /\ UNCHANGED queue BY <1>8 DEF SidebandEof
    <2>2. /\ sup'.at = sup.at /\ sup'.closings = sup.closings /\ sup'.sent = sup.sent
          /\ \A i \in Inputs : input'[i].at = input[i].at
      BY <1>1, <1>3, <1>4, <1>8 DEF SidebandEof, Sups
    <2> QED BY <2>1, <2>2 DEF LoopShape, LoopSays, Take, restS
  <1>9. CASE Ignore BY <1>9 DEF Ignore, LoopShape, LoopSays, Take, restS
  <1>10. CASE Stopped
    <2>1. Take({"Stop"}) /\ UNCHANGED <<queue, input>> BY <1>10 DEF Stopped
    <2>2. sup'.at = "stop" /\ sup'.closings = sup.closings /\ sup'.sent = sup.sent
      BY <1>2, <1>10 DEF Stopped
    <2> QED BY <2>1, <2>2 DEF LoopShape, LoopSays, Take, restS
  <1>11. CASE WorkerExited
    <2>1. Take({"WorkerExited"}) /\ UNCHANGED <<queue, input>> BY <1>11 DEF WorkerExited
    <2>2. sup'.at \in {"stop", "retire"} /\ sup'.closings = sup.closings /\ sup'.sent = sup.sent
      <3>1. CASE ForceStop("Observe") BY <1>2, <3>1
      <3>2. CASE \E reaped \in BOOLEAN :
                   sup' = [sup EXCEPT !.at = "retire", !.status = reaped,
                                      !.prior = IF reaped THEN "None" ELSE "Reap"]
        BY <1>1, <3>2 DEF Sups
      <3> QED BY <1>11, <3>1, <3>2 DEF WorkerExited
    <2> QED BY <2>1, <2>2 DEF LoopShape, LoopSays, Take, restS
  <1>12. CASE OutOfTime
    <2>1. sup'.at = "stop" /\ sup'.closings = sup.closings /\ sup'.sent = sup.sent
      BY <1>2, <1>12 DEF OutOfTime
    <2> QED BY <1>12, <2>1 DEF OutOfTime, LoopShape, LoopSays, restS
  <1> QED BY <1>5, <1>6, <1>7, <1>8, <1>9, <1>10, <1>11, <1>12 DEF Loop

LEMMA LoopStory ==
    ASSUME TypeOK, TypeOK', Story, Loop
    PROVE  Story'
  <1>1. LoopShape /\ LoopSays BY LoopSteps
  <1>2. /\ UNCHANGED <<failure, command, reader, clock, worker, pipe, writer, wire, consumer>>
        /\ sup.at = "loop" /\ sup'.at \in {"loop", "stop", "retire"} /\ sup'.closings = sup.closings
        /\ \A i \in Inputs : input'[i].at = input[i].at
    BY <1>1 DEF LoopShape
  <1>3. queue \in Queues /\ sup \in Sups BY TypeParts
  <1>4. ~Late /\ ~Late' /\ worker # "None" /\ sup.closings = <<>> /\ queue.status # "Finishing"
    BY <1>2 DEF Late, Story, Stages
  <1>5. /\ queue'.status = queue.status \/ queue'.status = "Failed"
        /\ writer.at = "done" => queue'.frames = <<>>
    <2>1. CASE UNCHANGED queue BY <2>1 DEF Story, Stages
    <2>2. ASSUME NEW kind, Said(kind)
          PROVE  /\ queue'.status = queue.status \/ queue'.status = "Failed"
                 /\ writer.at = "done" => queue'.frames = <<>>
      <3>1. CASE Admitted
        <4>1. queue.status = "Open" BY <3>1 DEF Admitted, Accepting
        <4>2. writer.at # "done" BY <4>1 DEF Story, Stages
        <4> QED BY <1>3, <2>2, <3>1, <4>1, <4>2 DEF Said, Enqueued, Queues
      <3>2. CASE ~Admitted BY <1>3, <2>2, <3>2 DEF Said, Failed, Queues, Story, Stages
      <3> QED BY <3>1, <3>2
    <2> QED BY <1>1, <2>1, <2>2 DEF LoopSays
  <1>6. Stages' BY <1>2, <1>4, <1>5 DEF Story, Stages, Late
  <1>7. Drained' BY <1>2, <1>5 DEF Story, Drained, Intact
  <1>8. Flow'
    <2>1. CASE UNCHANGED queue /\ sup'.sent = sup.sent
      BY <1>2, <1>4, <2>1, QuietFlow DEF Story
    <2>2. ASSUME NEW kind \in {"InterruptResult", "ShutdownStarted"}, Said(kind) PROVE Flow'
      <3> DEFINE f == Event(kind, "None", sup.sent + 1, TRUE)
      <3>1. f \in Frame /\ f.kind = kind /\ f.n = sup.sent + 1
        <4>1. "None" \in Causes /\ sup.sent + 1 \in Nat BY <1>3 DEF Causes, Sups
        <4> QED BY <4>1 DEF Event, Frame
      <3>2. CASE Admitted
        <4>1. queue' = Enqueued(f) /\ sup'.sent = sup.sent + 1 BY <2>2, <3>2 DEF Said
        <4>2. Intact BY <3>2 DEF Admitted, Accepting, Intact
        <4> HIDE DEF f
        <4>3. Coming' = Coming \o <<f>> /\ <<f>> \in Seq(Frame) /\ Coming \in Seq(Frame)
          BY <1>2, <1>4, <3>1, <4>1, <4>2, OneMore
        <4>4. Teller(f) = "Supervisor" /\ "Supervisor" \in Producers /\ "Supervisor" \notin Streams
              /\ "Supervisor" # "Lifetime"
          BY <3>1, RelayAssumption DEF Teller, Producers, RelayAssumption, Streams, Sideband
        <4>5. HandedOver["Supervisor"] = sup.sent BY <4>4 DEF HandedOver
        <4>6. HandedOver' = [HandedOver EXCEPT !["Supervisor"] = f.n]
          <5>1. ASSUME NEW p \in Producers
                PROVE  HandedOver'[p] = IF p = "Supervisor" THEN f.n ELSE HandedOver[p]
            <6>1. CASE p = "Supervisor" BY <3>1, <4>1, <4>4, <6>1 DEF HandedOver
            <6>2. CASE p # "Supervisor" BY <1>2, <6>2 DEF HandedOver
            <6> QED BY <6>1, <6>2
          <5> QED BY <5>1 DEF HandedOver
        <4>7. f.kind \notin {"Closed", "Fatal", "Outcome"} /\ f.n = HandedOver["Supervisor"] + 1
          BY <3>1, <4>5
        <4>8. Tells(<<f>>, Promise, Promise', Late')
          BY <1>4, <3>1, <4>4, <4>6, <4>7, PromiseTells
        <4> QED BY <1>2, <1>4, <4>2, <4>3, <4>8, FlowJoins DEF Story
      <3>3. CASE ~Admitted /\ queue.status = "Open"
        <4>1. queue'.status = "Failed" BY <1>3, <2>2, <3>3 DEF Said, Failed, Queues
        <4>2. InWriter' = InWriter BY <1>2 DEF InWriter
        <4>3. PICK K \in Seq(Frame) : Coming = Coming' \o K /\ Coming' \in Seq(Frame) /\ ~Intact'
          BY <4>1, <4>2, CutShort
        <4> QED BY <1>2, <1>4, <4>3, FlowCut DEF Story
      <3>4. CASE ~Admitted /\ queue.status # "Open"
        <4>1. UNCHANGED queue /\ sup'.sent = sup.sent BY <2>2, <3>4 DEF Said
        <4> QED BY <2>1, <4>1
      <3> QED BY <3>2, <3>3, <3>4
    <2> QED BY <1>1, <2>1, <2>2 DEF LoopSays
  <1> QED BY <1>6, <1>7, <1>8 DEF Story

Wired(c, f, o) == [told |-> HandedOver, closed |-> c, fatal |-> f, outcome |-> o]

LEMMA ClosedSays ==
    ASSUME NEW s \in Streams, NEW c, s \notin c, s = Sideband => Raw \subseteq c, NEW cause
    PROVE  Tells(<<Event("Closed", s, 0, TRUE)>>, Wired(c, cause, FALSE), Wired(c \cup {s}, cause, FALSE), TRUE)
  <1> DEFINE f == Event("Closed", s, 0, TRUE)
             w == Wired(c, cause, FALSE)
  <1>1. f.kind = "Closed" /\ f.of = s BY DEF Event
  <1>2. w.closed = c /\ w.outcome = FALSE BY DEF Wired
  <1>3. May(w, f, TRUE)
    <2> HIDE DEF f, w
    <2> QED BY <1>1, <1>2 DEF May
  <1>4. Telling(w, f) = Wired(c \cup {s}, cause, FALSE)
    <2>1. Telling(w, f) = [w EXCEPT !.closed = @ \cup {f.of}]
      <3> HIDE DEF f, w
      <3> QED BY <1>1 DEF Telling
    <2> QED BY <1>1, <2>1 DEF Wired
  <1> QED BY <1>3, <1>4, TellsOne

LEMMA FatalSays ==
    ASSUME NEW cause, cause # "None"
    PROVE  Tells(<<Event("Fatal", cause, 0, TRUE)>>, Wired(Raw, "None", FALSE), Wired(Raw, cause, FALSE), TRUE)
  <1> DEFINE f == Event("Fatal", cause, 0, TRUE)
             w == Wired(Raw, "None", FALSE)
  <1>1. f.kind = "Fatal" /\ f.of = cause BY DEF Event
  <1>2. w.closed = Raw /\ w.outcome = FALSE /\ w.fatal = "None" BY DEF Wired
  <1>3. Sideband \notin Raw BY RelayAssumption DEF RelayAssumption, Sideband
  <1>4. May(w, f, TRUE)
    <2> HIDE DEF f, w
    <2> QED BY <1>1, <1>2, <1>3 DEF May
  <1>5. Telling(w, f) = Wired(Raw, cause, FALSE)
    <2>1. Telling(w, f) = [w EXCEPT !.fatal = f.of]
      <3> HIDE DEF f, w
      <3> QED BY <1>1 DEF Telling
    <2> QED BY <1>1, <2>1 DEF Wired
  <1> QED BY <1>4, <1>5, TellsOne

LEMMA OutcomeSays ==
    ASSUME NEW cause
    PROVE  Tells(<<Event("Outcome", "None", 0, TRUE)>>, Wired(Streams, cause, FALSE),
                 Wired(Streams, cause, TRUE), TRUE)
  <1> DEFINE f == Event("Outcome", "None", 0, TRUE)
             w == Wired(Streams, cause, FALSE)
  <1>1. f.kind = "Outcome" BY DEF Event
  <1>2. w.closed = Streams /\ w.outcome = FALSE BY DEF Wired
  <1>3. May(w, f, TRUE)
    <2> HIDE DEF f, w
    <2> QED BY <1>1, <1>2 DEF May
  <1>4. Telling(w, f) = Wired(Streams, cause, TRUE)
    <2>1. Telling(w, f) = [w EXCEPT !.outcome = TRUE]
      <3> HIDE DEF f, w
      <3> QED BY <1>1 DEF Telling
    <2> QED BY <1>1, <2>1 DEF Wired
  <1> QED BY <1>3, <1>4, TellsOne

(* The closing events close every stream, tell the failure between the     *)
(* closures of the raw streams and of the sideband, and end with the       *)
(* outcome of a worker that was reaped.                                    *)
LEMMA ClosingsSay ==
    ASSUME TypeOK
    PROVE  Tells(Closings(failure), Wired({}, "None", FALSE), Wired(Streams, failure, sup.status), TRUE)
  <1> DEFINE one == IF "Stdout" \in Raw THEN <<Event("Closed", "Stdout", 0, TRUE)>> ELSE <<>>
             two == IF "Stderr" \in Raw THEN <<Event("Closed", "Stderr", 0, TRUE)>> ELSE <<>>
             three == IF failure # "None" THEN <<Event("Fatal", failure, 0, TRUE)>> ELSE <<>>
             four == <<Event("Closed", Sideband, 0, TRUE)>>
             five == IF sup.status THEN <<Event("Outcome", "None", 0, TRUE)>> ELSE <<>>
             out == Raw \cap {"Stdout"}
  <1>0. failure \in Causes /\ sup.status \in BOOLEAN
    <2>1. sup \in Sups /\ failure \in Causes BY TypeParts
    <2> QED BY <2>1 DEF Sups
  <1>1. Raw \subseteq {"Stdout", "Stderr"} /\ Streams = Raw \cup {"Sideband"} /\ Sideband = "Sideband"
    BY RelayAssumption DEF RelayAssumption, Streams, Sideband
  <1>2. one \in Seq(Frame) /\ two \in Seq(Frame) /\ three \in Seq(Frame) /\ four \in Seq(Frame) /\ five \in Seq(Frame)
    <2>1. /\ \A s \in Streams : Event("Closed", s, 0, TRUE) \in Frame
          /\ Event("Fatal", failure, 0, TRUE) \in Frame /\ Event("Outcome", "None", 0, TRUE) \in Frame
      <3>1. \A s \in Streams : Event("Closed", s, 0, TRUE) \in Frame BY DEF Event, Frame
      <3>2. Event("Fatal", failure, 0, TRUE) \in Frame BY <1>0 DEF Event, Frame
      <3>3. "None" \in Causes BY DEF Causes
      <3>4. Event("Outcome", "None", 0, TRUE) \in Frame BY <3>3 DEF Event, Frame
      <3> QED BY <3>1, <3>2, <3>4
    <2>2. <<>> \in Seq(Frame) /\ \A f \in Frame : <<f>> \in Seq(Frame) OBVIOUS
    <2>3. Sideband \in Streams /\ \A s \in Raw : s \in Streams BY <1>1
    <2>4. one \in Seq(Frame) BY ONLY <2>1, <2>2, <2>3
    <2>5. two \in Seq(Frame) BY ONLY <2>1, <2>2, <2>3
    <2>6. three \in Seq(Frame) BY ONLY <2>1, <2>2
    <2>7. four \in Seq(Frame) BY ONLY <2>1, <2>2, <2>3
    <2>8. five \in Seq(Frame) BY ONLY <2>1, <2>2
    <2> QED BY <2>4, <2>5, <2>6, <2>7, <2>8
  <1>3. Tells(one, Wired({}, "None", FALSE), Wired(out, "None", FALSE), TRUE)
    <2>1. CASE "Stdout" \in Raw
      <3>1. out = {} \cup {"Stdout"} /\ "Stdout" \in Streams /\ "Stdout" # Sideband /\ "Stdout" \notin {} BY <1>1, <2>1
      <3> HIDE DEF out
      <3>2. Tells(<<Event("Closed", "Stdout", 0, TRUE)>>, Wired({}, "None", FALSE),
                  Wired({} \cup {"Stdout"}, "None", FALSE), TRUE)
        BY <3>1, ClosedSays
      <3> QED BY <2>1, <3>1, <3>2
    <2>2. CASE "Stdout" \notin Raw
      <3>1. out = {} BY <1>1, <2>2
      <3> HIDE DEF out
      <3> QED BY <2>2, <3>1, TellsNone
    <2> QED BY <2>1, <2>2
  <1>4. Tells(two, Wired(out, "None", FALSE), Wired(Raw, "None", FALSE), TRUE)
    <2>1. CASE "Stderr" \in Raw
      <3>1. Raw = out \cup {"Stderr"} /\ "Stderr" \in Streams /\ "Stderr" # Sideband /\ "Stderr" \notin out
        BY <1>1, <2>1
      <3> HIDE DEF out
      <3>2. Tells(<<Event("Closed", "Stderr", 0, TRUE)>>, Wired(out, "None", FALSE),
                  Wired(out \cup {"Stderr"}, "None", FALSE), TRUE)
        BY <3>1, ClosedSays
      <3>3. Tells(<<Event("Closed", "Stderr", 0, TRUE)>>, Wired(out, "None", FALSE),
                  Wired(Raw, "None", FALSE), TRUE)
        BY ONLY <3>1, <3>2, Zenon
      <3> QED BY <2>1, <3>3
    <2>2. CASE "Stderr" \notin Raw
      <3>1. out = Raw BY <1>1, <2>2
      <3> HIDE DEF out
      <3> QED BY <2>2, <3>1, TellsNone
    <2> QED BY <2>1, <2>2
  <1>5. Tells(three, Wired(Raw, "None", FALSE), Wired(Raw, failure, FALSE), TRUE)
    BY FatalSays, TellsNone
  <1>6. Tells(four, Wired(Raw, failure, FALSE), Wired(Streams, failure, FALSE), TRUE)
    <2>1. Streams = Raw \cup {Sideband} /\ Sideband \in Streams /\ Sideband \notin Raw BY <1>1
    <2>2. Tells(four, Wired(Raw, failure, FALSE), Wired(Raw \cup {Sideband}, failure, FALSE), TRUE)
      BY <2>1, ClosedSays
    <2> QED BY ONLY <2>1, <2>2, Zenon
  <1>7. Tells(five, Wired(Streams, failure, FALSE), Wired(Streams, failure, sup.status), TRUE)
    <2>1. CASE sup.status
      <3>1. sup.status = TRUE BY <1>0, <2>1
      <3> QED BY <2>1, <3>1, OutcomeSays
    <2>2. CASE ~sup.status
      <3>1. sup.status = FALSE BY <1>0, <2>2
      <3> QED BY <2>2, <3>1, TellsNone
    <2> QED BY <2>1, <2>2
  <1> DEFINE W0 == Wired({}, "None", FALSE)
             W1 == Wired(out, "None", FALSE)
             W2 == Wired(Raw, "None", FALSE)
             W3 == Wired(Raw, failure, FALSE)
             W4 == Wired(Streams, failure, FALSE)
             W5 == Wired(Streams, failure, sup.status)
  <1>8. Closings(failure) = one \o two \o three \o four \o five BY DEF Closings
  <1>9. /\ Tells(one, W0, W1, TRUE) /\ Tells(two, W1, W2, TRUE) /\ Tells(three, W2, W3, TRUE)
        /\ Tells(four, W3, W4, TRUE) /\ Tells(five, W4, W5, TRUE)
    BY <1>3, <1>4, <1>5, <1>6, <1>7
  <1> HIDE DEF one, two, three, four, five, W0, W1, W2, W3, W4, W5
  <1>10. one \o two \in Seq(Frame) /\ Tells(one \o two, W0, W2, TRUE)
    BY <1>2, <1>9, TellsJoin, ConcatProperties
  <1>11. one \o two \o three \in Seq(Frame) /\ Tells(one \o two \o three, W0, W3, TRUE)
    BY <1>2, <1>9, <1>10, TellsJoin, ConcatProperties
  <1>12. one \o two \o three \o four \in Seq(Frame) /\ Tells(one \o two \o three \o four, W0, W4, TRUE)
    BY <1>2, <1>9, <1>11, TellsJoin, ConcatProperties
  <1>13. Tells(one \o two \o three \o four \o five, W0, W5, TRUE)
    BY <1>2, <1>9, <1>12, TellsJoin
  <1> QED BY <1>8, <1>13 DEF W0, W5

LEMMA KillStory ==
    ASSUME TypeOK, Story, Kill
    PROVE  Story'
  <1>1. UNCHANGED <<failure, command, input, reader, queue, clock, writer, wire>> /\ sup.at = "stop" /\ Dies
    BY DEF Kill, restS
  <1>2. sup'.at = "retire" /\ sup'.closings = sup.closings /\ sup'.sent = sup.sent
    <2>1. sup \in Sups BY TypeParts
    <2>2. PICK reaped \in BOOLEAN :
             sup' = [sup EXCEPT !.at = "retire", !.status = reaped,
                                !.prior = IF reaped \/ @ # "None" THEN @ ELSE "Reap"]
      BY DEF Kill
    <2> QED BY <2>1, <2>2 DEF Sups
  <1>3. worker # "None" BY <1>1 DEF Story, Stages
  <1>4. /\ \A s \in Streams : pipe'[s].read = pipe[s].read /\ pipe'[s].written = pipe[s].written
        /\ worker' # "None"
    BY <1>1, DiesReads
  <1>5. Stages' BY <1>1, <1>2, <1>3, <1>4 DEF Story, Stages, Late
  <1>6. Drained' BY <1>1, <1>2, <1>3, <1>4 DEF Story, Drained, Intact
  <1>7. Flow' BY <1>1, <1>2, <1>3, <1>4, QuietFlow DEF Story, Late
  <1> QED BY <1>5, <1>6, <1>7 DEF Story

LEMMA RetireStory ==
    ASSUME TypeOK, Story, Retire
    PROVE  Story'
  <1>1. UNCHANGED <<command, input, reader, queue, worker, pipe, writer, wire>> /\ sup.at = "retire"
    BY DEF Retire, restS
  <1>2. sup'.at = "cancel" /\ sup'.closings = sup.closings /\ sup'.sent = sup.sent
        /\ clock'.drain = clock.drain
    <2>1. sup \in Sups /\ clock \in Clocks BY TypeParts
    <2> QED BY <2>1 DEF Retire, Sups, Clocks
  <1>3. worker # "None" BY <1>1 DEF Story, Stages
  <1>4. failure' = failure \/ failure = "None" BY DEF Retire
  <1>5. Stages' BY <1>1, <1>2, <1>3 DEF Story, Stages, Late
  <1>6. Drained' BY <1>1, <1>2, <1>3, <1>4 DEF Story, Drained, Intact
  <1>7. Flow' BY <1>1, <1>2, <1>3, QuietFlow DEF Story, Late
  <1> QED BY <1>5, <1>6, <1>7 DEF Story

LEMMA CancelStory ==
    ASSUME TypeOK, Story, CancelThreads
    PROVE  Story'
  <1>1. UNCHANGED <<failure, command, queue, worker, pipe, writer, wire>> /\ sup.at = "cancel"
    BY DEF CancelThreads, restS
  <1>2. /\ sup'.at = "join" /\ sup'.closings = sup.closings /\ sup'.sent = sup.sent
        /\ clock'.drain = "Running"
    <2>1. sup \in Sups /\ clock \in Clocks BY TypeParts
    <2> QED BY <2>1 DEF CancelThreads, Sups, Clocks
  <1>3. worker # "None" BY <1>1 DEF Story, Stages
  <1>4. \A i \in Inputs : input'[i].at = "done" BY DEF CancelThreads, InputsEnd
  <1>5. ASSUME NEW s \in Streams
        PROVE  /\ reader[s].at # "unstarted" => reader'[s] = reader[s]
               /\ reader[s].at = "unstarted" => reader'[s].at = IF s \in Raw THEN "reading" ELSE "done"
    <2>1. reader[s] \in Readers BY TypeParts
    <2>2. reader'[s] = IF reader[s].at # "unstarted" THEN reader[s]
                       ELSE [reader[s] EXCEPT !.at = IF s \in Raw THEN "reading" ELSE "done"]
      BY DEF CancelThreads
    <2> QED BY <2>1, <2>2 DEF Readers
  <1>6. Stages' BY <1>1, <1>2, <1>3, <1>4 DEF Story, Stages, Late
  <1>7. Drained'
    <2>1. Sideband \in Streams /\ \A s \in Streams : s \notin Raw => s = Sideband BY DEF Streams
    <2>2. \A s \in Streams : /\ pipe'[s].read <= pipe'[s].written
                             /\ reader'[s].at = "sending" => pipe'[s].read > 0
      BY <1>1, <1>5 DEF Story, Drained
    <2>3. \A s \in Streams : reader'[s].at # "unstarted" BY <1>5
    <2>4. ASSUME Intact', NEW s \in Streams, reader'[s].at = "done"
          PROVE  pipe'[s].read = pipe'[s].written \/ (s = Sideband /\ failure' = "Setup")
      <3>1. CASE reader[s].at = "unstarted"
        <4>1. s = Sideband BY <1>5, <2>1, <2>4, <3>1
        <4> QED BY <1>1, <1>3, <3>1, <4>1 DEF Story, Drained
      <3>2. CASE reader[s].at # "unstarted"
        <4>1. reader[s].at = "done" BY <1>5, <2>4, <3>2
        <4>2. CASE clock.drain # "Expired" BY <1>1, <2>4, <4>1, <4>2 DEF Story, Drained, Intact
        <4>3. CASE clock.drain = "Expired" BY <1>1, <4>3 DEF Story, Stages
        <4> QED BY <4>2, <4>3
      <3> QED BY <3>1, <3>2
    <2> QED BY <2>1, <2>2, <2>3, <2>4 DEF Drained
  <1>8. Flow' BY <1>1, <1>2, <1>3, <1>5, QuietFlow DEF Story, Late
  <1> QED BY <1>6, <1>7, <1>8 DEF Story

LEMMA JoinStory ==
    ASSUME TypeOK, Story, Join
    PROVE  Story'
  <1>1. /\ UNCHANGED <<failure, input, reader, queue, clock, worker, pipe, writer, wire>>
        /\ sup.at = "join" /\ Joined /\ command' = "done"
    BY DEF Join, restS
  <1>2. /\ sup'.at = "closing" /\ sup'.closings = Closings(failure) /\ sup'.sent = sup.sent
        /\ sup'.status = sup.status
    <2>1. sup \in Sups BY TypeParts
    <2> QED BY <2>1 DEF Join, Sups
  <1>3. worker # "None" /\ ~Late /\ Late' /\ sup.closings = <<>>
    BY <1>1, <1>2 DEF Story, Stages, Late
  <1>4. Stages' BY <1>1, <1>2, <1>3 DEF Story, Stages, Late, Joined
  <1>5. Drained' BY <1>1, <1>2, <1>3 DEF Story, Drained, Intact
  <1>6. Flow'
    <2>1. CASE Intact
      <3>1. /\ InWriter \in Seq(Frame) /\ queue.frames \in Seq(Frame) /\ Coming \in Seq(Frame)
            /\ Closings(failure) \in Seq(Frame)
        <4>1. sup \in Sups /\ failure \in Causes BY TypeParts
        <4>2. Closings(failure) \in Seq(OwnFrame) BY <4>1, ClosingsTyped
        <4>3. Closings(failure) \in Seq(Frame) BY <4>2, SeqMonotonic DEF OwnFrame
        <4> QED BY <4>3, ComingTyped
      <3>2. Coming = InWriter \o queue.frames
        <4>1. Coming = InWriter \o (queue.frames \o <<>>) BY <1>3, <2>1 DEF Coming
        <4>2. queue.frames \o <<>> = queue.frames BY <3>1, ConcatEmptySeq
        <4> QED BY ONLY <4>1, <4>2
      <3>3. Coming' = InWriter \o (queue.frames \o Closings(failure))
        BY <1>1, <1>2, <2>1 DEF Coming, InWriter, Intact
      <3>4. (InWriter \o queue.frames) \o Closings(failure) = InWriter \o (queue.frames \o Closings(failure))
        <4> HIDE DEF InWriter
        <4> QED BY ONLY <3>1, Regrouped
      <3>5. Coming' = Coming \o Closings(failure) BY ONLY <3>2, <3>3, <3>4
      <3>6. Promise = Wired({}, "None", FALSE) BY <1>3 DEF Promise, Wired
      <3>7. Promise' = Wired(Streams, failure, sup.status)
        <4>1. HandedOver' = HandedOver BY <1>1, <1>2 DEF HandedOver
        <4>2. Promise' = [told |-> HandedOver', closed |-> Streams, fatal |-> failure,
                          outcome |-> TRUE /\ TRUE /\ sup.status]
          BY <1>1, <1>2, <1>3 DEF Promise
        <4>3. sup.status \in BOOLEAN
          <5>1. sup \in Sups BY TypeParts
          <5> QED BY <5>1 DEF Sups
        <4>4. (TRUE /\ TRUE /\ sup.status) = sup.status BY <4>3
        <4> QED BY ONLY <4>1, <4>2, <4>4 DEF Wired
      <3>8. Tells(Closings(failure), Promise, Promise', TRUE) BY <3>6, <3>7, ClosingsSay
      <3>9. Tells(Closings(failure), Promise, Promise', Late') BY <1>3, <3>8, TellsLater
      <3> QED BY <1>1, <1>3, <2>1, <3>1, <3>5, <3>9, FlowJoins DEF Story
    <2>2. CASE ~Intact
      <3>1. Coming' = Coming /\ ~Intact' BY <1>1, <2>2 DEF Coming, InWriter, Intact
      <3> QED BY <1>1, <1>3, <3>1, FlowStays DEF Story
    <2> QED BY <2>1, <2>2
  <1> QED BY <1>4, <1>5, <1>6 DEF Story

LEMMA CloseStory ==
    ASSUME TypeOK, TypeOK', Story, Close
    PROVE  Story'
  <1>1. /\ UNCHANGED <<failure, command, input, reader, clock, worker, pipe, writer, wire>>
        /\ sup.at = "closing"
    BY DEF Close, restS
  <1>2. sup \in Sups /\ queue \in Queues /\ sup.closings \in Seq(Frame) /\ queue.frames \in Seq(Frame)
        /\ InWriter \in Seq(Frame)
    BY TypeParts, ComingTyped
  <1>3. Late /\ worker # "None" /\ queue.status # "Finishing"
        /\ (writer.at = "done" => queue.status = "Failed" /\ queue.frames = <<>>)
    <2>1. queue.status \in {"Open", "Finishing", "Failed"} BY <1>2 DEF Queues
    <2> QED BY <1>1, <2>1 DEF Late, Story, Stages
  <1>4. sup'.sent = sup.sent /\ sup'.status = sup.status /\ sup'.at \in {"closing", "join_writer"}
    BY <1>1, <1>2 DEF Close, Sups
  <1>5. Late' BY <1>4 DEF Late
  <1>6. Promise' = Promise BY <1>1, <1>3, <1>4, <1>5, PromiseKept
  <1>7. CASE sup.closings # <<>>
    <2> DEFINE f == Head(sup.closings)
    <2>1. SendSupervisor(f) /\ sup'.closings = Tail(sup.closings) /\ sup'.at = "closing"
      BY <1>1, <1>2, <1>7 DEF Close, Sups
    <2> HIDE DEF f
    <2>2. CASE Admitted
      <3>1. queue' = Enqueued(f) /\ queue.status = "Open" /\ Intact
        BY <2>1, <2>2 DEF SendSupervisor, Admitted, Accepting, Intact
      <3>2. queue'.frames = Append(queue.frames, f) /\ queue'.status = "Open"
        BY <1>2, <3>1 DEF Enqueued, Queues
      <3>3. Append(queue.frames, f) \o Tail(sup.closings) = queue.frames \o sup.closings
        BY <1>2, <1>7, MovedIn DEF f
      <3>4. Coming' = InWriter \o (Append(queue.frames, f) \o Tail(sup.closings))
        BY <1>1, <2>1, <3>2 DEF Coming, InWriter, Intact
      <3>5. Coming = InWriter \o (queue.frames \o sup.closings) BY <3>1 DEF Coming
      <3>6. Coming' = Coming BY ONLY <3>3, <3>4, <3>5
      <3>7. Flow' BY <1>1, <1>3, <1>5, <1>6, <3>1, <3>6, FlowStays DEF Story
      <3>8. Stages' BY <1>1, <1>3, <2>1, <3>1, <3>2 DEF Story, Stages, Late, Joined
      <3>9. Drained' BY <1>1, <2>1, <3>1 DEF Story, Drained
      <3> QED BY <3>7, <3>8, <3>9 DEF Story
    <2>3. CASE ~Admitted
      <3>1. queue'.status = "Failed" /\ queue'.frames = queue.frames
        BY <1>2, <1>3, <2>1, <2>3 DEF SendSupervisor, Failed, Queues
      <3>2. InWriter' = InWriter BY <1>1 DEF InWriter
      <3>3. PICK K \in Seq(Frame) : Coming = Coming' \o K /\ Coming' \in Seq(Frame) /\ ~Intact'
        BY <3>1, <3>2, CutShort
      <3>4. Flow' BY <1>1, <1>5, <3>3, FlowCut DEF Story
      <3>5. Stages' BY <1>1, <1>3, <2>1, <3>1 DEF Story, Stages, Late, Joined
      <3>6. Drained' BY <1>1, <2>1, <3>3 DEF Story, Drained
      <3> QED BY <3>4, <3>5, <3>6 DEF Story
    <2> QED BY <2>2, <2>3
  <1>8. CASE sup.closings = <<>>
    <2>1. /\ queue'.frames = queue.frames /\ sup'.at = "join_writer" /\ sup'.closings = sup.closings
          /\ queue'.status = IF queue.status = "Open" THEN "Finishing" ELSE queue.status
      BY <1>2, <1>8 DEF Close, Sups, Queues
    <2>2. Intact' <=> Intact BY <2>1 DEF Intact
    <2>3. Coming' = Coming BY <1>1, <2>1, <2>2 DEF Coming, InWriter
    <2>4. Flow' BY <1>1, <1>5, <1>6, <2>2, <2>3, FlowStays DEF Story
    <2>5. Stages' BY <1>1, <1>3, <1>8, <2>1 DEF Story, Stages, Late, Joined
    <2>6. Drained' BY <1>1, <2>1, <2>2 DEF Story, Drained
    <2> QED BY <2>4, <2>5, <2>6 DEF Story
  <1> QED BY <1>7, <1>8

LEMMA EndStory ==
    ASSUME TypeOK, Story, End
    PROVE  Story'
  <1>1. /\ UNCHANGED <<failure, command, input, reader, queue, clock, worker, pipe, writer, wire>>
        /\ sup.at = "join_writer" /\ writer.at = "done"
    BY DEF End, restS
  <1>2. sup'.at = "ended" /\ sup'.closings = sup.closings /\ sup'.sent = sup.sent /\ sup'.status = sup.status
    <2>1. sup \in Sups BY TypeParts
    <2> QED BY <2>1 DEF End, Sups
  <1>3. Stages' BY <1>1, <1>2 DEF Story, Stages, Late, Joined
  <1>4. Drained' BY <1>1, <1>2 DEF Story, Drained, Intact
  <1>5. Flow' BY <1>1, <1>2, QuietFlow DEF Story, Late
  <1> QED BY <1>3, <1>4, <1>5 DEF Story

LEMMA StoryStep ==
    ASSUME TypeOK, TypeOK', Untouched, Story, [Next]_vars
    PROVE  Story'
  <1>1. CASE Relayed
    <2>1. CASE PopFrame \/ WriteFrame \/ WriteFails \/ WriterEnds BY <2>1, WriterStory
    <2>2. CASE \E s \in Streams : Reader(s) BY <2>2, ReadStory, SendStory DEF Reader
    <2>3. CASE \E i \in Inputs : InputFails(i) \/ InputEnds(i) BY <2>3, InputStory
    <2>4. CASE Spawn BY <2>4, SpawnStory
    <2>5. CASE Supervisor
      BY <2>5, LoopStory, KillStory, RetireStory, CancelStory, JoinStory, CloseStory, EndStory
         DEF Supervisor
    <2>6. CASE Tick BY <2>6, TickStory
    <2> QED BY <1>1, <2>1, <2>2, <2>3, <2>4, <2>5, <2>6 DEF Relayed
  <1>2. CASE SpawnFails BY <1>2, SpawnFailsStory
  <1>3. CASE \E s \in Streams : ReadFails(s) BY <1>3, ReadStory
  <1>4. CASE \E i \in Inputs : WriteInput(i) BY <1>4, InputStory
  <1>5. CASE ReadCommand \/ CommandsEnd BY <1>5, CommandStory
  <1>6. CASE ConsumerTurns \/ WorkerWrites \/ WorkerCloses \/ WorkerExits BY <1>6, OthersStory
  <1>7. CASE UNCHANGED vars
    <2>1. UNCHANGED <<sup, failure, command, input, reader, queue, writer, clock, wire, worker, pipe>>
      BY <1>7 DEF vars
    <2>2. Stages' BY <2>1 DEF Story, Stages, Late, Joined
    <2>3. Drained' BY <2>1 DEF Story, Drained, Intact
    <2>4. Flow' BY <2>1, QuietFlow DEF Story, Late
    <2> QED BY <2>2, <2>3, <2>4 DEF Story
  <1> QED BY <1>1, <1>2, <1>3, <1>4, <1>5, <1>6, <1>7 DEF Next

LEMMA StoryStart ==
    ASSUME Init
    PROVE  Story
  <1>1. Stages BY DEF Init, Stages, Late
  <1>2. Drained BY DEF Init, Drained, Streams
  <1>3. Flow
    <2>1. Coming = <<>>
      <3>1. <<>> \in Seq(Frame) BY EmptySeq
      <3>2. <<>> \o (<<>> \o <<>>) = <<>> BY <3>1, ConcatEmptySeq
      <3>3. queue.frames = <<>> /\ sup.closings = <<>> /\ writer.at = "next" /\ queue.status = "Open"
        BY DEF Init
      <3> QED BY <3>2, <3>3 DEF Coming, InWriter, Intact
    <2>2. HandedOver = [p \in Producers |-> 0] BY DEF Init, HandedOver, Producers
    <2>3. wire = Promise
      <3>1. wire = [told |-> [p \in Producers |-> 0], closed |-> {}, fatal |-> "None", outcome |-> FALSE]
        BY DEF Init, Producers
      <3>2. ~Late BY DEF Init, Late
      <3> QED BY <2>2, <3>1, <3>2 DEF Promise
    <2>4. Tells(<<>>, wire, Promise, Late) BY <2>3, TellsNone
    <2> QED BY <2>1, <2>4 DEF Flow
  <1> QED BY <1>1, <1>2, <1>3 DEF Story

-----------------------------------------------------------------------------
(* The bytes that the queue is charged with.  A sum over the queue from    *)
(* its end is the only function of its suffixes that starts at nothing and *)
(* adds one frame after another: the last suffix at which two such sums    *)
(* differ cannot exist.                                                    *)
Below == {p \in Nat \X Nat : p[1] < p[2]}
LEMMA BelowWellFounded == IsWellFoundedOn(Below, Nat)
  <1>1. Below = OpToRel(<, Nat) BY Zenon DEF Below, OpToRel
  <1> QED BY <1>1, NatLessThanWellFounded, Zenon

LEMMA Least ==
    ASSUME NEW T, T \subseteq Nat, T # {}
    PROVE  \E m \in T : \A n \in T : m <= n
  <1>1. PICK m \in T : \A n \in T : ~(<<n, m>> \in Below) BY BelowWellFounded, WFMin, Zenon
  <1>2. ASSUME NEW n \in T PROVE m <= n
    <2>1. n \in Nat /\ m \in Nat OBVIOUS
    <2>2. ~(n < m) BY <1>1, <2>1 DEF Below
    <2> QED BY <2>1, <2>2
  <1> QED BY <1>2

Bytes(b, f) == IF f.supervisor = b THEN f.size ELSE 0
Sums(g, b, M) ==
    g = [k \in 1..(Len(M) + 1) |-> IF k > Len(M) THEN 0 ELSE Bytes(b, M[k]) + g[k + 1]]

LEMMA SumsAgree ==
    ASSUME NEW M \in Seq(Frame), NEW b, NEW g, NEW h, Sums(g, b, M), Sums(h, b, M)
    PROVE  g[1] = h[1]
  <1> DEFINE n == Len(M)
  <1>0. n \in Nat OBVIOUS
  <1>1. /\ \A k \in 1..(n + 1) : g[k] = IF k > n THEN 0 ELSE Bytes(b, M[k]) + g[k + 1]
        /\ \A k \in 1..(n + 1) : h[k] = IF k > n THEN 0 ELSE Bytes(b, M[k]) + h[k + 1]
    BY DEF Sums
  <1> HIDE DEF n
  <1> DEFINE Differ == {d \in 0..n : g[n + 1 - d] # h[n + 1 - d]}
  <1>2. SUFFICES ASSUME Differ # {} PROVE FALSE
    <2>1. n \in 0..n /\ n + 1 - n = 1 BY <1>0
    <2> QED BY <2>1
  <1>3. PICK d \in Differ : \A e \in Differ : d <= e
    <2>1. Differ \subseteq Nat BY <1>0
    <2> HIDE DEF Differ
    <2> QED BY <1>2, <2>1, Least
  <1>4. d \in 0..n /\ g[n + 1 - d] # h[n + 1 - d] OBVIOUS
  <1>5. CASE d = 0
    <2>1. n + 1 - d = n + 1 /\ n + 1 \in 1..(n + 1) /\ n + 1 > n BY <1>0, <1>5
    <2> QED BY <1>1, <1>4, <2>1
  <1>6. CASE d # 0
    <2>1. /\ n + 1 - d \in 1..(n + 1) /\ ~(n + 1 - d > n) /\ (n + 1 - d) + 1 = n + 1 - (d - 1)
          /\ d - 1 \in 0..n /\ ~(d <= d - 1)
      BY <1>0, <1>4, <1>6
    <2>2. g[n + 1 - (d - 1)] = h[n + 1 - (d - 1)] BY <1>3, <2>1
    <2>3. /\ g[n + 1 - d] = Bytes(b, M[n + 1 - d]) + g[n + 1 - (d - 1)]
          /\ h[n + 1 - d] = Bytes(b, M[n + 1 - d]) + h[n + 1 - (d - 1)]
      BY <1>1, <2>1
    <2> QED BY <1>4, <2>2, <2>3
  <1> QED BY <1>5, <1>6

LEMMA BytesAreCharged ==
    ASSUME queue \in Queues, writer \in Writers, NEW b \in BOOLEAN, Accounted(b)
    PROVE  Used(b).bytes = BytesCharged(b)
  <1> DEFINE n == Len(queue.frames)
  <1>0. n \in Nat /\ queue.frames \in Seq(Frame) BY DEF Queues
  <1>1. PICK rest \in [SuffixSums -> Usage] :
           /\ Backlog(b, rest)
           /\ Used(b) = IF writer.at = "writing" THEN Plus(rest[1], b, writer.frame) ELSE rest[1]
    BY DEF Accounted
  <1> DEFINE h == [k \in 1..(n + 1) |-> rest[k].bytes]
  <1>2. ASSUME NEW u \in Usage, NEW f \in Frame PROVE Plus(u, b, f).bytes = Bytes(b, f) + u.bytes
    <2>1. u.bytes \in Nat /\ f.size \in Nat BY DEF Usage, Frame
    <2> QED BY <2>1 DEF Plus, Charge, Bytes
  <1>3. ASSUME NEW k \in 1..(n + 1)
        PROVE  h[k] = IF k > n THEN 0 ELSE Bytes(b, queue.frames[k]) + h[k + 1]
    <2>1. CASE k > n
      <3>1. k = n + 1 BY <1>0, <2>1
      <3> QED BY <1>1, <2>1, <3>1 DEF Backlog, NoUsage
    <2>2. CASE ~(k > n)
      <3>1. k \in 1..n /\ k + 1 \in 1..(n + 1) BY <1>0, <2>2
      <3>2. rest[k] = Plus(rest[k + 1], b, queue.frames[k]) /\ rest[k + 1] \in Usage
        BY <1>1, <3>1 DEF Backlog, SuffixSums
      <3>3. queue.frames[k] \in Frame BY <1>0, <3>1
      <3>4. rest[k].bytes = Bytes(b, queue.frames[k]) + rest[k + 1].bytes BY <1>2, <3>2, <3>3
      <3> QED BY <2>2, <3>1, <3>4
    <2> QED BY <2>1, <2>2
  <1>4. Sums(h, b, queue.frames) BY <1>3 DEF Sums
  <1> DEFINE from == CHOOSE g : Sums(g, b, queue.frames)
  <1>5. BytesCharged(b) = from[1] + (IF writer.at = "writing" THEN Bytes(b, writer.frame) ELSE 0)
    BY DEF BytesCharged, Sums, Bytes
  <1>6. Sums(from, b, queue.frames) BY <1>4
  <1> HIDE DEF from
  <1>7. from[1] = h[1] BY <1>0, <1>4, <1>6, SumsAgree
  <1>8. h[1] = rest[1].bytes /\ rest[1] \in Usage
    <2>1. 1 \in 1..(n + 1) BY <1>0
    <2> QED BY <1>1, <2>1 DEF SuffixSums
  <1> HIDE DEF h, n
  <1>9. CASE writer.at = "writing"
    <2>1. writer.frame \in Frame BY DEF Writers
    <2>2. Used(b).bytes = Bytes(b, writer.frame) + rest[1].bytes BY <1>1, <1>2, <1>8, <1>9, <2>1
    <2>3. Bytes(b, writer.frame) \in Nat /\ rest[1].bytes \in Nat
      BY <1>8, <2>1 DEF Bytes, Frame, Usage
    <2> QED BY <1>5, <1>7, <1>8, <1>9, <2>2, <2>3
  <1>10. CASE writer.at # "writing"
    <2>1. rest[1].bytes \in Nat BY <1>8 DEF Usage
    <2> QED BY <1>1, <1>5, <1>7, <1>8, <1>10, <2>1
  <1> QED BY <1>9, <1>10

RelayInv == QueueInv /\ Story

LEMMA RelayStep ==
    ASSUME RelayInv, [Next]_vars
    PROVE  RelayInv'
  <1>1. QueueInv' BY QueueStep, RelayAssumption DEF RelayInv
  <1>2. TypeOK /\ Untouched /\ TypeOK' BY <1>1 DEF RelayInv, QueueInv
  <1>3. Story' BY <1>2, StoryStep DEF RelayInv
  <1> QED BY <1>1, <1>3 DEF RelayInv

LEMMA AllTold ==
    ASSUME RelayInv
    PROVE  FlushedIsComplete
  <1>1. TypeOK /\ queue \in Queues /\ writer \in Writers BY TypeParts DEF RelayInv, QueueInv
  <1>2. ASSUME writer.at # "done"
        PROVE  queue.output.bytes = BytesCharged(FALSE) /\ queue.supervisor.bytes = BytesCharged(TRUE)
    <2>1. Accounted(FALSE) /\ Accounted(TRUE) BY <1>2 DEF RelayInv, QueueInv
    <2>2. Used(FALSE) = queue.output /\ Used(TRUE) = queue.supervisor BY DEF Used
    <2>3. Used(FALSE).bytes = BytesCharged(FALSE) /\ Used(TRUE).bytes = BytesCharged(TRUE)
      BY <1>1, <2>1, BytesAreCharged
    <2> QED BY <2>2, <2>3
  <1>3. ASSUME sup.at = "ended", queue.status = "Finishing", worker # "None"
        PROVE  /\ wire.closed = Streams /\ wire.outcome = sup.status /\ wire.fatal = failure
               /\ clock.drain # "Expired" =>
                    \A s \in Streams :
                       \/ reader[s].at = "failed" \/ wire.told[s] = pipe[s].written
                       \/ s = Sideband /\ failure = "Setup"
    <2>1. writer.at = "done" /\ queue.frames = <<>> /\ sup.closings = <<>> /\ Intact /\ Late
      BY <1>3 DEF RelayInv, Story, Stages, Intact, Late
    <2>2. Coming = <<>>
      <3>1. <<>> \in Seq(Frame) BY EmptySeq
      <3>2. <<>> \o (<<>> \o <<>>) = <<>> BY <3>1, ConcatEmptySeq
      <3> QED BY <2>1, <3>2 DEF Coming, InWriter
    <2>3. Tells(<<>>, wire, Promise, Late) BY <2>1, <2>2 DEF RelayInv, Story, Flow
    <2>4. wire = Promise BY <2>3, TellsNothing
    <2>5. /\ Promise.closed = Streams /\ Promise.fatal = failure /\ Promise.told = HandedOver
          /\ Promise.outcome = (Late /\ worker # "None" /\ sup.status)
      BY <1>3, <2>1 DEF Promise
    <2>6. sup.status \in BOOLEAN
      <3>1. sup \in Sups BY <1>1, TypeParts
      <3> QED BY <3>1 DEF Sups
    <2>7. wire.outcome = sup.status BY <1>3, <2>1, <2>4, <2>5, <2>6
    <2>8. ASSUME clock.drain # "Expired", NEW s \in Streams
          PROVE  reader[s].at = "failed" \/ wire.told[s] = pipe[s].written \/ (s = Sideband /\ failure = "Setup")
      <3>1. reader[s].at \in {"done", "failed"} BY <1>3, <2>1 DEF RelayInv, Story, Stages, Joined
      <3>2. reader[s].at = "done" => pipe[s].read = pipe[s].written \/ (s = Sideband /\ failure = "Setup")
        BY <2>1, <2>8 DEF RelayInv, Story, Drained
      <3>3. s \in Producers /\ s # "Lifetime" /\ s # "Supervisor"
        BY RelayAssumption DEF RelayAssumption, Streams, Sideband, Producers
      <3>4. reader[s].at = "done" => HandedOver[s] = pipe[s].read BY <3>3 DEF HandedOver
      <3> QED BY <2>4, <2>5, <3>1, <3>2, <3>4
    <2> QED BY <2>4, <2>5, <2>7, <2>8
  <1> QED BY <1>2, <1>3 DEF FlushedIsComplete

(* Nothing gets lost on the way: a relay whose last flush succeeded has    *)
(* told all that was written to the streams that it could read to the end, *)
(* every closure, the first failure and the outcome of a worker it reaped, *)
(* and the queue is charged with the bytes of its frames                   *)
(* (worker_relay.rs, event_writer.rs and lifecycle.rs: finish).            *)
THEOREM FlushTellsAll == Spec => []FlushedIsComplete
  <1>1. Init => RelayInv BY QueueStart, StoryStart, RelayAssumption DEF RelayInv
  <1>2. RelayInv /\ [Next]_vars => RelayInv' BY RelayStep
  <1>3. RelayInv => FlushedIsComplete BY AllTold
  <1> QED BY <1>1, <1>2, <1>3, PTL DEF Spec

-----------------------------------------------------------------------------
(* The contract.  What is written next may follow what was written, and    *)
(* retirement, once begun, is not taken back.                              *)
Retiring ==
    \/ sup.at \notin {"start", "loop"} \/ sup.retiring # "No"
    \/ \E k \in DOMAIN controls : controls[k].kind \in Ending

LEMMA PostKeeps ==
    ASSUME controls \in Seq(Messages), NEW m \in Messages, Post(m), Retiring, sup' = sup
    PROVE  Retiring'
  <1>1. CASE sup.at \notin {"start", "loop"} \/ sup.retiring # "No" BY <1>1 DEF Retiring
  <1>2. CASE sup.at \in {"start", "loop"} /\ \E k \in DOMAIN controls : controls[k].kind \in Ending
    <2>1. PICK k \in DOMAIN controls : controls[k].kind \in Ending BY <1>2
    <2>2. controls' = Append(controls, m) BY <1>2 DEF Post
    <2>3. k \in DOMAIN controls' /\ controls'[k] = controls[k]
      <3>1. k \in 1..Len(controls) /\ Len(controls) \in Nat BY <2>1
      <3>2. Len(controls') = Len(controls) + 1 /\ controls' \in Seq(Messages) BY <2>2
      <3>3. k \in 1..Len(controls') BY <3>1, <3>2
      <3> QED BY <2>2, <3>1, <3>2, <3>3
    <2> QED BY <2>1, <2>3 DEF Retiring
  <1> QED BY <1>1, <1>2 DEF Retiring

LEMMA ReportKeeps ==
    ASSUME controls \in Seq(Messages), NEW c \in Causes, Report(c), Retiring, sup' = sup
    PROVE  Retiring'
  <1>1. Stop(c) \in Messages BY DEF Stop, Messages
  <1>2. CASE failure = "None" BY <1>1, <1>2, PostKeeps DEF Report
  <1>3. CASE failure # "None" BY <1>3 DEF Report, Retiring
  <1> QED BY <1>2, <1>3

(* A control that ends the loop is taken when retirement has begun.        *)
LEMMA TakeKeeps ==
    ASSUME controls \in Seq(Messages), NEW kinds, Take(kinds), Retiring, sup.retiring = "No",
           kinds \cap Ending = {}
    PROVE  \E k \in DOMAIN controls' : controls'[k].kind \in Ending
  <1>1. PICK k \in DOMAIN controls : controls[k].kind \in Ending
    BY DEF Retiring, Take
  <1>2. controls # <<>> /\ Head(controls).kind \in kinds /\ controls' = Tail(controls)
    BY DEF Take
  <1>3. /\ Head(controls) = controls[1] /\ Len(controls') = Len(controls) - 1 /\ controls' \in Seq(Messages)
        /\ \A j \in 1..Len(controls') : controls'[j] = controls[j + 1]
    BY <1>2, HeadTailProperties
  <1>4. k \in 1..Len(controls) /\ Len(controls) \in Nat BY <1>1
  <1>5. k # 1 BY <1>1, <1>2, <1>3
  <1>6. k - 1 \in 1..Len(controls') /\ (k - 1) + 1 = k BY <1>3, <1>4, <1>5
  <1>7. controls'[k - 1] = controls[k] BY <1>3, <1>6
  <1>8. k - 1 \in DOMAIN controls' BY <1>3, <1>6
  <1> QED BY <1>1, <1>7, <1>8

LEMMA LoopRetiring ==
    ASSUME TypeOK, Loop, Retiring
    PROVE  Retiring'
  <1>1. sup \in Sups /\ controls \in Seq(Messages) BY TypeParts
  <1>2. ASSUME NEW c, ForceStop(c) PROVE Retiring'
    <2>1. sup'.at = "stop" BY <1>1, <1>2 DEF ForceStop, Sups
    <2> QED BY <2>1 DEF Retiring
  <1>3. ASSUME NEW kinds, Take(kinds), kinds \cap Ending = {}, sup.retiring = "No" PROVE Retiring'
    <2>1. \E k \in DOMAIN controls' : controls'[k].kind \in Ending BY <1>1, <1>3, TakeKeeps
    <2> QED BY <2>1 DEF Retiring
  <1>4. CASE Forward
    <2>1. Take({"Worker", "Stdin"}) /\ sup.retiring = "No" BY <1>4 DEF Forward
    <2> QED BY <1>3, <2>1 DEF Ending
  <1>5. CASE Interrupt
    <2>1. Take({"Interrupt"}) /\ sup.retiring = "No" BY <1>5 DEF Interrupt
    <2> QED BY <1>3, <2>1 DEF Ending
  <1>6. CASE ShutDown
    <2>1. sup'.retiring = "Running" BY <1>1, <1>6 DEF ShutDown, Sups
    <2> QED BY <2>1 DEF Retiring
  <1>7. CASE SidebandEof
    <2>1. sup'.retiring # "No" BY <1>1, <1>7 DEF SidebandEof, Sups
    <2> QED BY <2>1 DEF Retiring
  <1>8. CASE Ignore
    <2>1. sup' = sup /\ sup.retiring # "No" BY <1>8 DEF Ignore
    <2> QED BY <2>1 DEF Retiring
  <1>9. CASE Stopped BY <1>2, <1>9 DEF Stopped
  <1>10. CASE WorkerExited
    <2>1. CASE ForceStop("Observe") BY <1>2, <2>1
    <2>2. CASE \E reaped \in BOOLEAN :
                 sup' = [sup EXCEPT !.at = "retire", !.status = reaped,
                                    !.prior = IF reaped THEN "None" ELSE "Reap"]
      <3>1. sup'.at = "retire" BY <1>1, <2>2 DEF Sups
      <3> QED BY <3>1 DEF Retiring
    <2> QED BY <1>10, <2>1, <2>2 DEF WorkerExited
  <1>11. CASE OutOfTime BY <1>2, <1>11 DEF OutOfTime
  <1> QED BY <1>4, <1>5, <1>6, <1>7, <1>8, <1>9, <1>10, <1>11 DEF Loop

LEMMA StepRetires ==
    ASSUME TypeOK, [Next]_vars, Retiring
    PROVE  Retiring'
  <1>1. sup \in Sups /\ controls \in Seq(Messages) BY TypeParts
  <1>2. /\ Stop("Transport") \in Messages /\ Control("SidebandEof") \in Messages
        /\ Control("WorkerExited") \in Messages /\ Control("ControllerEof") \in Messages
        /\ \A kind \in Commands \cup {"Shutdown"} : Control(kind) \in Messages
    BY ControlTyped DEF Stop, Messages, Causes
  <1>3. {"Partial", "Read", "Write", "Command", "Setup"} \subseteq Causes BY DEF Causes
  <1>4. ASSUME sup' = sup, controls' = controls PROVE Retiring' BY <1>4 DEF Retiring
  <1>5. ASSUME sup'.at \notin {"start", "loop"} PROVE Retiring' BY <1>5 DEF Retiring
  <1>6. ASSUME NEW m \in Messages, Post(m), sup' = sup PROVE Retiring' BY <1>1, <1>6, PostKeeps
  <1>7. ASSUME NEW c \in Causes, Report(c), sup' = sup PROVE Retiring' BY <1>1, <1>7, ReportKeeps
  <1>8. CASE PopFrame \/ WriteFrame \/ WriteFails
    <2>1. sup' = sup /\ controls' = controls BY <1>8 DEF PopFrame, WriteFrame, WriteFails, others
    <2> QED BY <1>4, <2>1
  <1>9. CASE WriterEnds
    <2>1. sup' = sup /\ (Post(Stop("Transport")) \/ controls' = controls) BY <1>9 DEF WriterEnds, others
    <2> QED BY <1>2, <1>4, <1>6, <2>1
  <1>10. CASE \E s \in Streams : Reader(s) \/ ReadFails(s)
    <2>1. sup' = sup /\ \/ controls' = controls
                        \/ Post(Control("SidebandEof"))
                        \/ \E c \in {"Partial", "Read"} : Report(c)
      BY <1>10 DEF Reader, Read, Send, ReadEof, DrainEnds, ReadFails, restR
    <2> QED BY <1>2, <1>3, <1>4, <1>6, <1>7, <2>1
  <1>11. CASE \E i \in Inputs : WriteInput(i) \/ InputFails(i) \/ InputEnds(i)
    <2>1. sup' = sup /\ (controls' = controls \/ Report("Write"))
      BY <1>11 DEF WriteInput, InputFails, InputEnds, restI
    <2> QED BY <1>3, <1>4, <1>7, <2>1
  <1>12. CASE ReadCommand \/ CommandsEnd
    <2>1. sup' = sup /\ \/ \E kind \in Commands \cup {"Shutdown"} : Post(Control(kind))
                        \/ Post(Control("ControllerEof")) \/ Report("Command")
      BY <1>12 DEF ReadCommand, CommandsEnd, restC
    <2> QED BY <1>2, <1>3, <1>6, <1>7, <2>1
  <1>13. CASE Spawn
    <2>1. \/ sup' = [sup EXCEPT !.at = "loop"] /\ controls' = controls
          \/ sup' = [sup EXCEPT !.at = "stop", !.prior = "Setup"]
      BY <1>13 DEF Spawn
    <2>2. sup.at = "start" BY <1>13 DEF Spawn
    <2> QED BY <1>1, <1>5, <2>1, <2>2 DEF Retiring, Sups
  <1>14. CASE SpawnFails
    <2>1. sup'.at = "join_writer" BY <1>1, <1>14 DEF SpawnFails, Sups
    <2> QED BY <1>5, <2>1
  <1>15. CASE Supervisor
    <2>1. CASE Loop BY <2>1, LoopRetiring
    <2>2. CASE Kill \/ Retire \/ CancelThreads \/ Join \/ Close \/ End
      <3>1. Kill => sup'.at = "retire" BY <1>1 DEF Kill, Sups
      <3>2. Retire \/ CancelThreads \/ Join \/ Close \/ End
            => sup'.at \in {"cancel", "join", "closing", "join_writer", "ended"}
        BY <1>1 DEF Retire, CancelThreads, Join, Close, End, Sups
      <3> QED BY <1>5, <2>2, <3>1, <3>2
    <2> QED BY <1>15, <2>1, <2>2 DEF Supervisor
  <1>16. CASE Tick
    <2>1. controls' = controls /\ sup'.at = sup.at /\ (sup.retiring # "No" => sup'.retiring # "No")
      BY <1>1, <1>16 DEF Tick, restT, Sups
    <2> QED BY <2>1 DEF Retiring
  <1>17. CASE ConsumerTurns \/ WorkerWrites \/ WorkerCloses \/ WorkerExits
    <2>1. sup' = sup /\ (controls' = controls \/ Post(Control("WorkerExited")))
      BY <1>17 DEF ConsumerTurns, WorkerWrites, WorkerCloses, WorkerExits, restX
    <2> QED BY <1>2, <1>4, <1>6, <2>1
  <1>18. CASE UNCHANGED vars
    <2>1. sup' = sup /\ controls' = controls BY <1>18 DEF vars
    <2> QED BY <1>4, <2>1
  <1> QED BY <1>8, <1>9, <1>10, <1>11, <1>12, <1>13, <1>14, <1>15, <1>16, <1>17, <1>18
          DEF Next, Relayed

LEMMA WireKept ==
    ASSUME [Next]_vars, ~WriteFrame
    PROVE  wire' = wire
  <1>1. CASE PopFrame \/ WriteFails \/ WriterEnds BY <1>1 DEF PopFrame, WriteFails, WriterEnds
  <1>2. CASE \E s \in Streams : Reader(s) \/ ReadFails(s)
    BY <1>2 DEF Reader, Read, Send, ReadEof, DrainEnds, ReadFails, restR
  <1>3. CASE \E i \in Inputs : WriteInput(i) \/ InputFails(i) \/ InputEnds(i)
    BY <1>3 DEF WriteInput, InputFails, InputEnds, restI
  <1>4. CASE ReadCommand \/ CommandsEnd BY <1>4 DEF ReadCommand, CommandsEnd, restC
  <1>5. CASE Spawn \/ SpawnFails BY <1>5 DEF Spawn, SpawnFails, restS
  <1>6. CASE Supervisor
    <2>1. CASE Loop
      BY <2>1 DEF Loop, Forward, Interrupt, ShutDown, SidebandEof, Ignore, Stopped, WorkerExited,
         OutOfTime, Take, restS
    <2>2. CASE Kill \/ Retire \/ CancelThreads \/ Join \/ Close \/ End
      BY <2>2 DEF Kill, Retire, CancelThreads, Join, Close, End, restS
    <2> QED BY <1>6, <2>1, <2>2 DEF Supervisor
  <1>7. CASE Tick BY <1>7 DEF Tick, restT
  <1>8. CASE ConsumerTurns \/ WorkerWrites \/ WorkerCloses \/ WorkerExits
    BY <1>8 DEF ConsumerTurns, WorkerWrites, WorkerCloses, WorkerExits, restX
  <1>9. CASE UNCHANGED vars BY <1>9 DEF vars
  <1> QED BY <1>1, <1>2, <1>3, <1>4, <1>5, <1>6, <1>7, <1>8, <1>9 DEF Next, Relayed

LEMMA EndedKept ==
    ASSUME TypeOK, [Next]_vars, ~End
    PROVE  sup'.at = "ended" <=> sup.at = "ended"
  <1>0. sup \in Sups BY TypeParts
  <1>1. CASE PopFrame \/ WriteFrame \/ WriteFails \/ WriterEnds
    BY <1>1 DEF PopFrame, WriteFrame, WriteFails, WriterEnds, others
  <1>2. CASE \E s \in Streams : Reader(s) \/ ReadFails(s)
    BY <1>2 DEF Reader, Read, Send, ReadEof, DrainEnds, ReadFails, restR
  <1>3. CASE \E i \in Inputs : WriteInput(i) \/ InputFails(i) \/ InputEnds(i)
    BY <1>3 DEF WriteInput, InputFails, InputEnds, restI
  <1>4. CASE ReadCommand \/ CommandsEnd BY <1>4 DEF ReadCommand, CommandsEnd, restC
  <1>5. CASE SpawnFails BY <1>0, <1>5 DEF SpawnFails, Sups
  <1>6. CASE Spawn
    <2>1. /\ sup.at = "start"
          /\ \/ sup' = [sup EXCEPT !.at = "loop"]
             \/ sup' = [sup EXCEPT !.at = "stop", !.prior = "Setup"]
      BY <1>6 DEF Spawn
    <2> QED BY <1>0, <2>1 DEF Sups
  <1>7. CASE Supervisor
    <2>1. CASE Loop BY <2>1, LoopSteps DEF LoopShape
    <2>2. CASE Kill BY <1>0, <2>2 DEF Kill, Sups
    <2>3. CASE Retire \/ CancelThreads \/ Join \/ Close
      BY <1>0, <2>3 DEF Retire, CancelThreads, Join, Close, Sups
    <2> QED BY <1>7, <2>1, <2>2, <2>3 DEF Supervisor
  <1>8. CASE Tick BY <1>0, <1>8 DEF Tick, restT, Sups
  <1>9. CASE ConsumerTurns \/ WorkerWrites \/ WorkerCloses \/ WorkerExits
    BY <1>9 DEF ConsumerTurns, WorkerWrites, WorkerCloses, WorkerExits, restX
  <1>10. CASE UNCHANGED vars BY <1>10 DEF vars
  <1> QED BY <1>1, <1>2, <1>3, <1>4, <1>5, <1>6, <1>7, <1>8, <1>9, <1>10 DEF Next, Relayed

(* What the writer writes is a step of the contract.                       *)
LEMMA WriteKeepsContract ==
    ASSUME RelayInv, TypeOK', WriteFrame
    PROVE  Contract!Next
  <1>1. TypeOK /\ writer \in Writers /\ queue \in Queues /\ wire \in Wires BY TypeParts DEF RelayInv, QueueInv
  <1> DEFINE f == writer.frame
  <1>2. f \in Frame /\ writer.at = "writing" /\ wire' = Telling(wire, f) /\ UNCHANGED <<sup, controls>>
    BY <1>1 DEF WriteFrame, Writers, Told, Telling, others
  <1>3. May(wire, f, Late)
    <2>1. Coming \in Seq(Frame) /\ Coming # <<>> /\ Head(Coming) = f
      <3>1. /\ queue.frames \in Seq(Frame) /\ sup.closings \in Seq(Frame) /\ Coming \in Seq(Frame)
        BY <1>1, ComingTyped
      <3>2. queue.frames \o sup.closings \in Seq(Frame) BY <3>1, ConcatProperties
      <3>3. CASE Intact
        <4>1. Coming = <<f>> \o (queue.frames \o sup.closings) BY <1>2, <3>3 DEF Coming, InWriter
        <4> HIDE DEF f
        <4> QED BY <1>2, <3>1, <3>2, <4>1, HeadFirst
      <3>4. CASE ~Intact
        <4>1. Coming = <<f>> BY <1>2, <3>4 DEF Coming, InWriter
        <4> QED BY <1>2, <3>1, <4>1
      <3> QED BY <3>3, <3>4
    <2>2. PICK v : Tells(Coming, wire, v, Late) BY DEF RelayInv, Story, Flow
    <2> HIDE DEF f
    <2> QED BY <2>1, <2>2, TellsNext
  <1>4. Retiring' <=> Retiring BY <1>2 DEF Retiring
  <1>5. Late => Retiring BY DEF Late, Retiring
  <1>6. Streams = Raw \cup {Sideband} BY DEF Streams
  <1> HIDE DEF f
  <1>7. CASE f.kind = "Closed"
    <2>1. f.of \in Streams BY <1>2, <1>7 DEF Frame
    <2>2. /\ wire'.closed = wire.closed \cup {f.of} /\ wire'.told = wire.told /\ wire'.fatal = wire.fatal
          /\ wire'.outcome = wire.outcome
      BY <1>1, <1>2, <1>7 DEF Telling, Wires
    <2>3. Retiring /\ ~wire.outcome /\ f.of \notin wire.closed /\ (f.of = Sideband => Raw \subseteq wire.closed)
      BY <1>3, <1>5, <1>7 DEF May
    <2>4. Contract!Close(f.of) BY <1>2, <1>4, <2>2, <2>3 DEF Contract!Close, Retiring
    <2> QED BY <1>6, <2>1, <2>4 DEF Contract!Next
  <1>8. CASE f.kind = "Fatal"
    <2>1. /\ wire'.fatal = f.of /\ wire'.told = wire.told /\ wire'.closed = wire.closed
          /\ wire'.outcome = wire.outcome
      BY <1>1, <1>2, <1>8 DEF Telling, Wires
    <2>2. /\ Retiring /\ f.of # "None" /\ wire.fatal = "None" /\ Sideband \notin wire.closed
          /\ Raw \subseteq wire.closed \/ wire.told["Lifetime"] = 0
      BY <1>3, <1>5, <1>8 DEF May
    <2>3. Contract!TellFatal BY <1>2, <1>4, <2>1, <2>2 DEF Contract!TellFatal, Retiring
    <2> QED BY <2>3 DEF Contract!Next
  <1>9. CASE f.kind = "Outcome"
    <2>1. /\ wire'.outcome = TRUE /\ wire'.told = wire.told /\ wire'.closed = wire.closed
          /\ wire'.fatal = wire.fatal
      BY <1>1, <1>2, <1>9 DEF Telling, Wires
    <2>2. ~wire.outcome /\ wire.closed = Raw \cup {Sideband} BY <1>3, <1>6, <1>9 DEF May
    <2>3. Contract!TellOutcome BY <1>2, <1>4, <2>1, <2>2 DEF Contract!TellOutcome, Retiring
    <2> QED BY <2>3 DEF Contract!Next
  <1>10. CASE f.kind \notin {"Closed", "Fatal", "Outcome"}
    <2> DEFINE p == Teller(f)
    <2>1. f.kind \in Streams \cup {"WorkerStarted", "InterruptResult", "ShutdownStarted"}
      BY <1>2, <1>10 DEF Frame
    <2>2. f.kind \in Streams => f.kind \notin {"WorkerStarted", "InterruptResult", "ShutdownStarted"}
      BY RelayAssumption DEF RelayAssumption, Streams, Sideband
    <2>3. p \in Streams \cup {"Lifetime", "Supervisor"} /\ (p \in Streams => f.kind \in Streams)
      BY <2>1, <2>2, RelayAssumption DEF Teller, RelayAssumption, Streams, Sideband
    <2>4. wire' = [wire EXCEPT !.told[p] = f.n] BY <1>2, <1>10, <2>1, <2>2 DEF Telling, Teller
    <2>5. ~wire.outcome /\ p \notin wire.closed /\ f.n = wire.told[p] + 1
          /\ (f.kind \in Streams => wire.told["Lifetime"] > 0)
      BY <1>3, <1>10 DEF May
    <2> HIDE DEF p
    <2>6. /\ wire'.told = [wire.told EXCEPT ![p] = @ + 1] /\ wire'.closed = wire.closed
          /\ wire'.fatal = wire.fatal /\ wire'.outcome = wire.outcome
      <3>1. wire'.told = [wire.told EXCEPT ![p] = f.n] BY <1>1, <2>4 DEF Wires
      <3>2. wire.told \in [Streams \cup {"Lifetime", "Supervisor"} -> Nat] BY <1>1 DEF Wires
      <3>3. wire'.told = [wire.told EXCEPT ![p] = @ + 1] BY <2>3, <2>5, <3>1, <3>2
      <3> QED BY <1>1, <2>4, <3>3 DEF Wires
    <2>7. Contract!Tell(p) BY <1>2, <1>4, <1>6, <2>3, <2>5, <2>6 DEF Contract!Tell, Retiring
    <2> QED BY <2>3, <2>7 DEF Contract!Next
  <1> QED BY <1>7, <1>8, <1>9, <1>10

LEMMA ContractStep ==
    ASSUME RelayInv, RelayInv', [Next]_vars
    PROVE  [Contract!Next]_(Contract!vars)
  <1>1. TypeOK /\ TypeOK' BY DEF RelayInv, QueueInv
  <1>2. Retiring => Retiring' BY <1>1, StepRetires
  <1>3. CASE WriteFrame BY <1>1, <1>3, WriteKeepsContract
  <1>4. CASE End
    <2>1. ~WriteFrame
      BY <1>4 DEF End, WriteFrame
    <2>2. wire' = wire BY <2>1, WireKept
    <2>3. sup \in Sups BY <1>1, TypeParts
    <2>4. sup.at = "join_writer" /\ sup'.at = "ended" BY <1>4, <2>3 DEF End, Sups
    <2>5. Contract!End BY <2>2, <2>4 DEF Contract!End
    <2> QED BY <2>5 DEF Contract!Next
  <1>5. CASE ~WriteFrame /\ ~End
    <2>1. wire' = wire /\ (sup'.at = "ended" <=> sup.at = "ended")
      BY <1>1, <1>5, WireKept, EndedKept
    <2>2. CASE Retiring <=> Retiring' BY <2>1, <2>2 DEF Contract!vars, Retiring
    <2>3. CASE ~Retiring /\ Retiring'
      <3>1. Contract!Retire BY <2>1, <2>3 DEF Contract!Retire, Retiring
      <3> QED BY <3>1 DEF Contract!Next
    <2> QED BY <1>2, <2>2, <2>3
  <1> QED BY <1>3, <1>4, <1>5

LEMMA ContractStart == ASSUME Init PROVE Contract!Init
  BY DEF Init, Contract!Init, Ending

(* Event by event the relay does what docs/RELAY_PROTOCOL.md promises: the *)
(* worker is announced first, each producer keeps its order and loses      *)
(* nothing but a tail, nothing of a stream follows its closure, a failure  *)
(* is told once and between the closures, nothing follows the outcome, and *)
(* retirement is not taken back: every step of Relay is a step of its      *)
(* contract or none.                                                       *)
THEOREM RelayKeepsItsContract == Spec => Contract!Init /\ [][Contract!Next]_(Contract!vars)
  <1>1. Init => RelayInv /\ Contract!Init
    BY QueueStart, StoryStart, ContractStart, RelayAssumption DEF RelayInv
  <1>2. RelayInv /\ [Next]_vars => RelayInv' BY RelayStep
  <1>3. RelayInv /\ RelayInv' /\ [Next]_vars => [Contract!Next]_(Contract!vars) BY ContractStep
  <1> QED BY <1>1, <1>2, <1>3, PTL DEF Spec
==============================================================================
