------------------------------ MODULE Transcript ------------------------------
(***************************************************************************)
(* The recording of one console process (src/transcript.rs and             *)
(* src/transcript): a journal that only one thread at a time may write,    *)
(* a bounded queue of observed events that never waits for that thread,    *)
(* a thread that drains the queue on demand, and the raw output files,     *)
(* which have locks of their own.  Before the first send the recording is  *)
(* in a temporary directory; the first send publishes it.                  *)
(*                                                                         *)
(* One action is what a thread does under one lock of the queue, one       *)
(* write, or one copy.  Byte limits stand for the event limit, a piece of  *)
(* output is one byte, and projections are derived data that is left out.  *)
(***************************************************************************)
EXTENDS Integers, Sequences, FiniteSets, SequencesExt

CONSTANTS NCalls,          \* sends, in the order of their receipt
          Detached,        \* the sends whose handler may be cancelled while a
                           \* blocking task still admits their cell
          MaxPendingCalls, \* MAX_RESPONSE_GATED_CALLS
          MaxEvents,       \* MAX_PROTOCOL_EVENTS
          MaxImages,       \* MAX_INTERVAL_IMAGES
          Faults,          \* what may fail
          Budgets          \* how much a behaviour may have of each: sends, cells,
                           \* workers, pieces of output, and faults

Calls == 1..NCalls

ASSUME TranscriptAssumption ==
    /\ NCalls \in Nat /\ Detached \subseteq Calls
    /\ MaxPendingCalls \in Nat \ {0} /\ MaxEvents \in Nat \ {0} /\ MaxImages \in Nat
    /\ Budgets \subseteq [calls : 0..NCalls, cells : Nat, workers : Nat, outputs : Nat, faults : Nat]
    /\ Faults \subseteq {"Append", "Publish", "Output", "Image"}

VARIABLES
    queue,    \* ProtocolEvents
    update,   \* who holds the journal, and how far that update is
    journal,  \* ActiveTranscript and the failure of TranscriptState
    files,    \* the raw output files: CaptureStorage
    drainer,  \* the thread of start_drain
    handler,  \* the handlers of the sends
    source,   \* the cells that the sends carry
    transport,\* RecordingQueue
    tape,     \* what the holder of the output tape still has to do
    output,   \* the open interval files of the tape, and its receipts
    worker,   \* external: the worker
    image,    \* the image that is being saved
    closing,  \* how far shutdown is
    left      \* external: what is left of the behaviour's budget

vars == <<queue, update, journal, files, drainer, handler, source, transport, tape, output,
          worker, image, closing, left>>

Owner == [session : Nat, cell : Nat, interval : {"None", "Startup", "Cell", "Post"}]
NoOwner == [session |-> 0, cell |-> 0, interval |-> "None"]
Event(kind, call, owner, from, to) ==
    [kind |-> kind, call |-> call, owner |-> owner, from |-> from, to |-> to, at |-> 0]
Plain(kind, call) == Event(kind, call, NoOwner, 0, 0)
Causes == {"None", "Fault", "Backlog", "Admission", "Settlement", "Association", "Result"}
NoUpdate == [by |-> <<"nobody", 0>>, phase |-> "Free", batch |-> <<>>, count |-> 0]
NoFile == [temporary |-> -1, public |-> -1, at |-> "temporary", open |-> FALSE,
           retained |-> 0, failed |-> FALSE]
NoImage == [stage |-> "None", owner |-> NoOwner]

(* Who updates the journal: the drain thread, the handlers and shutdown.   *)
Drain == <<"drain", 0>>
Finalize == <<"finalize", 0>>
Updaters == {Drain, Finalize} \cup ({"activate", "begin", "finish"} \X Calls)

Init ==
    /\ queue = [pending |-> <<>>, retained |-> 0, failure |-> "None", draining |-> FALSE,
                observed |-> 0, sessions |-> 0, owner |-> NoOwner, cell |-> 0, starting |-> 0,
                images |-> 0]
    /\ update = NoUpdate
    /\ journal = [created |-> FALSE, published |-> FALSE, finished |-> FALSE, failure |-> "None",
                  directory |-> "temporary", entries |-> <<>>, ignored |-> {}, calls |-> <<>>]
    /\ files = <<>>
    /\ drainer = "Idle"
    /\ handler = [c \in Calls |-> [at |-> "Unsent", id |-> FALSE, addressed |-> 0]]
    /\ source = [c \in Calls |-> "None"]
    /\ transport = [closed |-> FALSE, received |-> 0]
    /\ tape = <<>>
    /\ output = [cell |-> NoOwner, idle |-> NoOwner, active |-> FALSE, receipts |-> {},
                 entered |-> {}]
    /\ worker = "None"
    /\ image = NoImage
    /\ closing = "No"
    /\ left \in Budgets

Spend(of) == left[of] > 0 /\ left' = [left EXCEPT ![of] = @ - 1]
Fault(kind) == kind \in Faults /\ Spend("faults")

-----------------------------------------------------------------------------
(* The queue of observed events.                                           *)

(* stop: the first failure stays, and what was pending is dropped.         *)
Stopped(q, cause) ==
    [q EXCEPT !.failure = IF @ = "None" THEN cause ELSE @,
              !.retained = @ - Len(q.pending), !.pending = <<>>]

(* Consecutive pieces of one file are one event.                           *)
Merges(q, event) ==
    /\ q.pending # <<>>
    /\ LET last == Last(q.pending) IN
       /\ last.kind = "OutputText" /\ event.kind = "OutputText"
       /\ last.owner = event.owner /\ last.to = event.from

\* mutant of Extended: the merged event tells of the last piece only
ExtendedLast(q, event) ==
    [q EXCEPT !.pending = Front(@) \o <<[event EXCEPT !.at = Last(q.pending).at]>>]

Extended(q, event) == [q EXCEPT !.pending = Front(@) \o <<[Last(@) EXCEPT !.to = event.to]>>]
Added(q, event) ==
    [q EXCEPT !.pending = Append(@, [event EXCEPT !.at = q.observed + 1]),
              !.retained = @ + 1, !.observed = @ + 1]
Pushed(q, event) ==
    IF Merges(q, event) THEN Extended(q, event)
    ELSE IF q.retained = MaxEvents THEN Stopped(q, "Backlog")
    ELSE Added(q, event)

(* observe: nothing once the recording failed, and otherwise an event, and *)
(* a thread that will drain it.                                            *)
Draining(q) == [q EXCEPT !.draining = TRUE]
Starts(q) == IF q.draining THEN drainer ELSE "Updating"
Observe(q, event) ==
    IF queue.failure = "None"
    THEN queue' = Draining(Pushed(q, event)) /\ drainer' = Starts(queue)
    ELSE UNCHANGED <<queue, drainer>>
Disable(cause) ==
    queue' = Draining(Stopped(queue, cause)) /\ drainer' = Starts(queue)

-----------------------------------------------------------------------------
(* The journal.                                                            *)

(* append: the calls whose sources and results are not settled are kept.   *)
\* mutant of Settled: a result settles a call whose source still runs
SettledEarly(entry) == entry.finished

Settled(entry) == entry.finished /\ ~entry.pending
Calling(j, c) == c \in DOMAIN j.calls
SetCall(calls, c, entry) ==
    [d \in (DOMAIN calls \cup {c}) \ (IF Settled(entry) THEN {c} ELSE {}) |->
        IF d = c THEN entry ELSE calls[d]]
NewCall == [session |-> 0, pending |-> FALSE, finished |-> FALSE]

Missing(event) ==
    CASE event.kind = "SourceAdmitted" -> "Admission"
      [] event.kind = "SourceFinished" -> "Settlement"
      [] event.kind = "SourceAssociated" -> "Association"
      [] event.kind = "ToolResult" -> "Result"
      [] OTHER -> "None"

CallAfter(j, event) ==
    LET c == event.call IN
    CASE event.kind = "ToolCall" -> NewCall
      [] event.kind = "SourceAdmitted" -> [j.calls[c] EXCEPT !.pending = TRUE]
      [] event.kind = "SourceFinished" -> [j.calls[c] EXCEPT !.pending = FALSE]
      [] event.kind \in {"SourceAssociated", "AssociateWaitingCall"} ->
            [j.calls[c] EXCEPT !.session = event.owner.session]
      [] event.kind = "ToolResult" -> [j.calls[c] EXCEPT !.finished = TRUE]

(* What the journal does not write although it takes the event.            *)
Ignores(j, event) ==
    \/ j.finished
    \/ event.kind = "WorkerStarting"
    \/ event.kind = "AssociateWaitingCall"
       /\ (~Calling(j, event.call) \/ j.calls[event.call].session # 0)
    \/ event.kind = "SourceAssociated" /\ Calling(j, event.call)
       /\ j.calls[event.call].session = event.owner.session

(* A missing call is an error, which disables the recording.               *)
Unknown(j, event) ==
    Missing(event) # "None" /\ ~j.finished /\ ~Calling(j, event.call)
Written(j, event) ==
    IF Ignores(j, event)
    THEN [j EXCEPT !.ignored = @ \cup {event.at}]
    ELSE [j EXCEPT !.entries = Append(@, [kind |-> event.kind, call |-> event.call,
                                          owner |-> event.owner, from |-> event.from,
                                          to |-> event.to, at |-> event.at]),
                   !.calls = IF Missing(event) # "None"
                                \/ event.kind \in {"ToolCall", "AssociateWaitingCall"}
                             THEN SetCall(@, event.call, CallAfter(j, event)) ELSE @]

(* capture: the journal is created by the first update that needs it.      *)
Created(j) ==
    IF j.created THEN j
    ELSE Written([j EXCEPT !.created = TRUE], Plain("RecordingStarted", 0))

(* What an update does to the journal, event after event until one fails.  *)
Record(j, event) ==
    IF j.failure # "None" THEN j
    ELSE IF Unknown(Created(j), event) THEN [Created(j) EXCEPT !.failure = Missing(event)]
    ELSE Written(Created(j), event)
RecordAll(j, events) ==
    LET after[n \in 0..Len(events)] == IF n = 0 THEN j ELSE Record(after[n - 1], events[n])
    IN  after[Len(events)]

(* finish associates an unclaimed source when the worker that the call     *)
(* addressed still owns the output.                                        *)
Claims(j, c) ==
    /\ Calling(j, c) /\ j.calls[c].session = 0
    /\ handler[c].addressed # 0
    /\ queue.failure = "None" /\ queue.owner.session = handler[c].addressed

Operation(by, j) ==
    LET c == by[2] IN
    CASE by[1] = "begin" -> <<Plain("ToolCall", c)>>
      [] by[1] = "finish" ->
            (IF Claims(j, c) THEN <<Event("SourceAssociated", c, queue.owner, 0, 0)>> ELSE <<>>)
            \o <<Plain("ToolResult", c)>>
      [] by[1] = "finalize" ->
            IF j.created /\ ~j.finished THEN <<Plain("RecordingEnded", 0)>> ELSE <<>>
      [] OTHER -> <<>>

(* What an updater does next, with the result of its update.  A begun call *)
(* that carries a cell addresses the worker that owned the output then.    *)
Addressed(by) ==
    IF by[1] = "begin" /\ left.cells > 0
    THEN [handler EXCEPT ![by[2]].addressed = queue.owner.session] ELSE handler
Returned(by, done, handlers) ==
    LET c == by[2] IN
    /\ drainer' = IF by = Drain THEN "Checking" ELSE drainer
    /\ closing' = IF by = Finalize THEN "Finishing" ELSE closing
    /\ handler' =
        CASE by[1] = "activate" -> [handlers EXCEPT ![c].at = "Beginning"]
          [] by[1] = "begin" -> [handlers EXCEPT ![c].at = "Running", ![c].id = done]
          [] by[1] = "finish" -> [handlers EXCEPT ![c].at = "Settled"]
          [] OTHER -> handlers

Predecessors(c) == {d \in 1..(c - 1) : handler[d].at \in {"Received", "Beginning"}}
Wants(by) ==
    LET c == by[2] IN
    CASE by = Drain -> drainer = "Updating"
      [] by = Finalize -> closing = "Recording" /\ tape = <<>>
      [] by[1] = "activate" -> handler[c].at = "Received" /\ Predecessors(c) = {}
      [] by[1] = "begin" -> handler[c].at = "Beginning"
      [] by[1] = "finish" -> handler[c].at = "Finishing"

(* flush_protocol takes what is pending and counts it until it is written; *)
(* a flush of an empty queue is no step of its own.                        *)
\* mutant of Uncounted: what is pending is forgotten with the batch
UncountedAll == [queue EXCEPT !.retained = 0]

Uncounted == [queue EXCEPT !.retained = @ - update.count]
Takes(by, phase, q) ==
    /\ update' = [by |-> by, phase |-> phase, batch |-> q.pending, count |-> Len(q.pending)]
    /\ queue' = [q EXCEPT !.pending = <<>>]

(* An update that fails disables the journal and then the queue.           *)
Fails(by, j, q) ==
    /\ journal' = j
    /\ queue' = Stopped(q, j.failure)
    /\ update' = NoUpdate
    /\ Returned(by, FALSE, handler)

(* What is left after the operation: a second flush, or nothing.           *)
Completes(by, j, q) ==
    IF j.failure # "None" THEN Fails(by, j, q)
    ELSE IF q.failure # "None" THEN Fails(by, [j EXCEPT !.failure = q.failure], q)
    ELSE /\ journal' = j
         /\ IF q.pending # <<>>
            THEN /\ Takes(by, "Second", q)
                 /\ handler' = Addressed(by)
                 /\ UNCHANGED <<drainer, closing>>
            ELSE /\ queue' = q /\ update' = NoUpdate
                 /\ Returned(by, TRUE, Addressed(by))
Operates(by, flushed, q) == Completes(by, RecordAll(flushed, Operation(by, flushed)), q)

MustPublish(by) == by[1] = "activate" /\ ~journal.published

(* update takes the journal.  What failed before stays failed.             *)
Lock(by) ==
    /\ update.phase = "Free" /\ Wants(by)
    /\ IF journal.failure # "None" \/ queue.failure # "None"
       THEN Fails(by, [journal EXCEPT !.failure = IF @ = "None" THEN queue.failure ELSE @], queue)
       ELSE IF queue.pending = <<>> /\ ~MustPublish(by)
       THEN Operates(by, journal, queue)
       ELSE Takes(by, "First", queue) /\ UNCHANGED <<journal, handler, drainer, closing>>
    /\ UNCHANGED <<files, source, transport, tape, output, worker, image, left>>
Operate ==
    /\ update.phase = "First" /\ ~MustPublish(update.by)
    /\ Operates(update.by, RecordAll(journal, update.batch), Uncounted)
    /\ UNCHANGED <<files, source, transport, tape, output, worker, image, left>>
Unlock ==
    /\ update.phase = "Second"
    /\ LET done == RecordAll(journal, update.batch) IN
       IF done.failure # "None" THEN Fails(update.by, done, Uncounted)
       ELSE /\ journal' = done
            /\ queue' = Uncounted
            /\ update' = NoUpdate
            /\ Returned(update.by, TRUE, handler)
    /\ UNCHANGED <<files, source, transport, tape, output, worker, image, left>>

(* The journal cannot be created, or a write fails after some events.      *)
Broken(j) == [j EXCEPT !.failure = IF @ = "None" THEN "Fault" ELSE @]
WriteFails ==
    /\ update.phase \in {"First", "Second"}
    /\ Fault("Append")
    /\ \E k \in 0..Len(update.batch) :
         Fails(update.by, Broken(RecordAll(journal, SubSeq(update.batch, 1, k))), Uncounted)
    /\ UNCHANGED <<files, source, transport, tape, output, worker, image>>
OperationFails(by) ==
    /\ update.phase = "Free" /\ Wants(by) /\ queue.pending = <<>>
    /\ journal.failure = "None" /\ queue.failure = "None"
    /\ Operation(by, journal) # <<>>
    /\ Fault("Append")
    /\ Fails(by, Broken(journal), queue)
    /\ UNCHANGED <<files, source, transport, tape, output, worker, image>>

-----------------------------------------------------------------------------
(* Publication and the raw files.                                          *)

(* publish relocates the open files one by one, each under its own lock.   *)
Publish ==
    /\ update.phase = "First" /\ MustPublish(update.by)
    /\ LET j == RecordAll(journal, update.batch) IN
       IF j.failure # "None" THEN Fails(update.by, j, Uncounted)
       ELSE /\ journal' = Created(j)
            /\ queue' = Uncounted
            /\ update' = [update EXCEPT !.phase = "Publishing", !.batch = <<>>, !.count = 0]
            /\ UNCHANGED <<handler, drainer, closing>>
    /\ UNCHANGED <<files, source, transport, tape, output, worker, image, left>>
Relocate(f) ==
    /\ update.phase = "Publishing"
    /\ files[f].open /\ files[f].at = "temporary"
    /\ files' = [files EXCEPT ![f].public = files[f].temporary, ![f].at = "public"]
    /\ UNCHANGED <<queue, update, journal, drainer, handler, source, transport, tape, output,
                   worker, image, closing, left>>

(* copy_capture takes every file that is not there yet.                    *)
\* mutant of Copied: files that were relocated are copied again
CopiedOver == [f \in DOMAIN files |->
                [files[f] EXCEPT !.public = files[f].temporary, !.at = "public"]]

Copied == [f \in DOMAIN files |->
            [files[f] EXCEPT !.public = IF @ = -1 THEN files[f].temporary ELSE @,
                             !.at = "public"]]
AllRelocated == \A f \in DOMAIN files : files[f].open => files[f].at = "public"
CopyRest ==
    /\ update.phase = "Publishing" /\ AllRelocated /\ journal.directory = "temporary"
    /\ files' = Copied
    /\ journal' = [journal EXCEPT !.directory = "public"]
    /\ UNCHANGED <<queue, update, drainer, handler, source, transport, tape, output, worker,
                   image, closing, left>>

(* The journal is reopened, and then the temporary directory is discarded. *)
FinishPublication ==
    /\ update.phase = "Publishing" /\ journal.directory = "public"
    /\ files' = [f \in DOMAIN files |-> [files[f] EXCEPT !.temporary = -1]]
    /\ Completes(update.by,
                 Record([journal EXCEPT !.published = TRUE], Plain("RecordingActivated", 0)),
                 queue)
    /\ UNCHANGED <<source, transport, tape, output, worker, image, left>>
PublishFails ==
    /\ update.phase = "Publishing"
    /\ Fault("Publish")
    /\ Fails(update.by, Broken(journal), queue)
    /\ UNCHANGED <<files, source, transport, tape, output, worker, image>>

(* create_file and copy_capture exclude each other.                        *)
RegistryFree == update.phase # "Publishing" \/ journal.directory = "public"
NewFile == [NoFile EXCEPT !.temporary = IF journal.directory = "temporary" THEN 0 ELSE -1,
                          !.public = IF journal.directory = "public" THEN 0 ELSE -1,
                          !.at = journal.directory, !.open = TRUE]
Create(f) == files' = [g \in DOMAIN files \cup {f} |-> IF g = f THEN NewFile ELSE files[g]]
Appended(f, n) ==
    [files EXCEPT ![f].temporary = IF files[f].at = "temporary" THEN @ + n ELSE @,
                  ![f].public = IF files[f].at = "public" THEN @ + n ELSE @,
                  ![f].retained = @ + n]
Closed(f) == [files EXCEPT ![f].open = FALSE]

-----------------------------------------------------------------------------
(* The output tape.  A holder of its lock has a script; each step of it is *)
(* one operation of the queue, with the file operations before it.         *)
Do(do, arg) == [do |-> do, arg |-> arg]
TapeFree == tape = <<>>
Script(steps) == tape' = steps
Next1 == tape' = Tail(tape)
Doing(do) == tape # <<>> /\ Head(tape).do = do
tapeRest == <<update, journal, handler, source, transport, worker, image, closing>>

Owned(interval) == queue.owner.interval = interval
Summary(f) == Event("OutputSummary", 0, f, 0, files[f].retained)

CloseIdle ==
    /\ Doing("CloseIdle") /\ Next1
    /\ files' = Closed(output.idle)
    /\ output' = [output EXCEPT !.idle = NoOwner]
    /\ Observe(queue, Summary(output.idle))
    /\ UNCHANGED <<tapeRest, left>>

(* The receipt of a cell is published with its response, or at the end of  *)
(* the worker.                                                             *)
CloseCell ==
    /\ Doing("CloseCell") /\ Next1
    /\ IF output.cell = NoOwner
       THEN UNCHANGED files /\ output' = [output EXCEPT !.active = FALSE]
       ELSE /\ files' = Closed(output.cell)
            /\ output' = [output EXCEPT !.cell = NoOwner, !.active = FALSE,
                                        !.receipts = @ \cup {output.cell}]
    /\ UNCHANGED <<queue, drainer, tapeRest, left>>
PublishesReceipt(f) ==
    /\ output' = [output EXCEPT !.receipts = @ \ {f}]
    /\ Observe(queue, Summary(f))
PublishCell ==
    /\ Doing("PublishCell") /\ Next1
    /\ IF Head(tape).arg \in output.receipts THEN PublishesReceipt(Head(tape).arg)
       ELSE UNCHANGED <<queue, drainer, output>>
    /\ UNCHANGED <<files, tapeRest, left>>
PublishReceipts ==
    /\ Doing("Receipts")
    /\ \/ output.receipts = {} /\ Next1 /\ UNCHANGED <<queue, drainer, output>>
       \/ \E f \in output.receipts : PublishesReceipt(f) /\ UNCHANGED tape
    /\ UNCHANGED <<files, tapeRest, left>>
DeliverReceipt(f) ==
    /\ f \in output.receipts
    /\ PublishesReceipt(f)
    /\ UNCHANGED <<files, tape, tapeRest, left>>

StartCell ==
    /\ Doing("StartCell") /\ Next1
    /\ LET c == Head(tape).arg
           owner == [session |-> queue.owner.session, cell |-> queue.owner.cell + 1,
                     interval |-> "Cell"]
           recorded == handler[c].id /\ queue.failure = "None" /\ queue.owner # NoOwner
           started == [queue EXCEPT !.owner = owner, !.cell = c, !.images = 0]
       IN IF recorded
          THEN Observe(started, Event("CellStarted", c, owner, 0, 0))
          ELSE UNCHANGED <<queue, drainer>>
    /\ output' = [output EXCEPT !.active = TRUE, !.entered = @ \cup {Head(tape).arg}]
    /\ UNCHANGED <<files, tapeRest, left>>
CreateFile(do, field) ==
    /\ Doing(do) /\ Next1 /\ RegistryFree
    /\ IF queue.failure = "None" /\ queue.owner # NoOwner /\ queue.owner \notin DOMAIN files
       THEN /\ Create(queue.owner)
            /\ output' = [output EXCEPT ![field] = queue.owner]
       ELSE UNCHANGED <<files, output>>
    /\ UNCHANGED <<queue, drainer, tapeRest, left>>

EndCell ==
    /\ Doing("EndCell") /\ Next1
    /\ IF Owned("Cell") /\ queue.cell # 0
       THEN LET ended == [queue EXCEPT !.owner.interval = "Post", !.cell = 0, !.images = 0] IN
            Observe(ended, Event("CellEnded", queue.cell, queue.owner, 0, 0))
       ELSE UNCHANGED <<queue, drainer>>
    /\ UNCHANGED <<files, output, tapeRest, left>>

(* One piece of output: to its file first, and then to the queue.  What    *)
(* has no owner is kept in the event itself.                               *)
OutputFile == IF output.active THEN output.cell ELSE output.idle
Write ==
    /\ Doing("Write")
    /\ LET f == OutputFile
           from == files[f].retained
           Text(to) == <<Do("Text", Event("OutputText", 0, f, from, to))>> IN
       \/ /\ IF f = NoOwner THEN TRUE ELSE files[f].failed
          /\ Next1 /\ UNCHANGED <<files, left>>
       \/ /\ f # NoOwner /\ ~files[f].failed
          /\ files' = Appended(f, 1) /\ Script(Text(from + 1))
          /\ UNCHANGED left
       \/ /\ f # NoOwner /\ ~files[f].failed
          /\ Fault("Output")
          /\ \E n \in 0..1 :
               /\ files' = [Appended(f, n) EXCEPT ![f].failed = TRUE]
               /\ Script(Text(from + n))
    /\ UNCHANGED <<queue, drainer, output, tapeRest>>
TextEvent ==
    /\ Doing("Text") /\ Next1
    /\ Observe(queue, Head(tape).arg)
    /\ UNCHANGED <<files, output, tapeRest, left>>
UnownedText ==
    /\ Doing("Unowned") /\ Next1
    /\ Observe(queue, Plain("ProcessOutput", 0))
    /\ UNCHANGED <<files, output, tapeRest, left>>

WorkerStarted ==
    /\ Doing("WorkerStarted") /\ Next1
    /\ LET session == queue.sessions + 1
           owner == [session |-> session, cell |-> 0, interval |-> "Startup"]
       IN Observe([queue EXCEPT !.sessions = session, !.owner = owner, !.images = 0,
                                !.starting = session],
                  Event("WorkerStarted", 0, owner, 0, 0))
    /\ UNCHANGED <<files, output, tapeRest, left>>
WorkerEnded ==
    /\ Doing("WorkerEnded") /\ Next1
    /\ IF queue.owner = NoOwner THEN UNCHANGED <<queue, drainer>>
       ELSE Observe([queue EXCEPT !.owner = NoOwner], Event("WorkerEnded", 0, queue.owner, 0, 0))
    /\ UNCHANGED <<files, output, tapeRest, left>>
WorkerRetired ==
    /\ Doing("WorkerRetired") /\ Next1
    /\ queue' = [queue EXCEPT !.owner = NoOwner, !.cell = 0]
    /\ UNCHANGED <<drainer, files, output, tapeRest, left>>

ScriptSteps ==
    \/ CloseIdle \/ CloseCell \/ PublishCell \/ PublishReceipts \/ StartCell
    \/ CreateFile("CreateCell", "cell") \/ CreateFile("CreateIdle", "idle")
    \/ EndCell \/ Write \/ TextEvent \/ UnownedText
    \/ WorkerStarted \/ WorkerEnded \/ WorkerRetired

-----------------------------------------------------------------------------
(* External: the worker, whose events the dispatcher and the readers bring *)
(* to the tape.                                                            *)
workerRest == <<update, journal, files, handler, source, transport, output, image, closing, left>>
ClosesIdle == IF output.idle = NoOwner THEN <<>> ELSE <<Do("CloseIdle", 0)>>
CloseIntervals ==
    (IF output.cell = NoOwner /\ ~output.active THEN <<>>
     ELSE <<Do("CloseCell", 0), Do("PublishCell", output.cell)>>)
    \o ClosesIdle \o (IF output.active THEN <<Do("EndCell", 0)>> ELSE <<>>)
Retirement == CloseIntervals \o <<Do("WorkerRetired", 0), Do("Receipts", 0)>>

WorkerStarting ==
    /\ worker = "None" /\ closing = "No"
    /\ Spend("workers")
    /\ worker' = "Starting"
    /\ Observe([queue EXCEPT !.starting = 0], Plain("WorkerStarting", 0))
    /\ UNCHANGED <<update, journal, files, handler, source, transport, tape, output, image, closing>>
Acquire ==
    /\ worker = "Starting" /\ TapeFree
    /\ worker' = "Acquired"
    /\ Script(ClosesIdle \o <<Do("WorkerStarted", 0)>>)
    /\ UNCHANGED <<queue, drainer, workerRest>>

(* A worker that is acquired takes the source that waits for one.          *)
Active(c) == source[c] \in {"Admitted", "Waiting", "Dispatched"}
Waiting(c) == Event("AssociateWaitingCall", c, queue.owner, 0, 0)
AssociateActive ==
    /\ worker = "Acquired" /\ TapeFree
    /\ worker' = "Startup"
    /\ \A c \in Calls : source[c] # "Admitted"
    /\ \/ /\ \E c \in Calls : Active(c) /\ handler[c].id /\ queue.owner # NoOwner
                              /\ Observe(queue, Waiting(c))
       \/ /\ \A c \in Calls : ~(Active(c) /\ handler[c].id /\ queue.owner # NoOwner)
          /\ UNCHANGED <<queue, drainer>>
    /\ UNCHANGED <<tape, workerRest>>
WorkerReady ==
    /\ worker = "Startup"
    /\ worker' = "Ready"
    /\ IF queue.starting = 0 THEN UNCHANGED <<queue, drainer>>
       ELSE Observe([queue EXCEPT !.starting = 0], Event("WorkerReady", 0, queue.owner, 0, 0))
    /\ UNCHANGED <<tape, workerRest>>
WorkerEnds ==
    /\ worker \in {"Startup", "Ready"} /\ TapeFree
    /\ worker' = "Ended"
    /\ Script(CloseIntervals \o <<Do("WorkerEnded", 0)>>)
    /\ UNCHANGED <<queue, drainer, workerRest>>

(* Retirement, with or without the outcome of the worker.                  *)
Retire ==
    /\ worker \in {"Starting", "Startup", "Ready", "Ended"} /\ TapeFree
    /\ worker' = IF worker = "Starting" \/ queue.starting # 0 THEN "Failed" ELSE "None"
    /\ Script(Retirement)
    /\ UNCHANGED <<queue, drainer, workerRest>>
StartupFailed ==
    /\ worker = "Failed" /\ TapeFree
    /\ worker' = "None"
    /\ Observe([queue EXCEPT !.starting = 0],
               Event("StartupFailed", 0, [NoOwner EXCEPT !.session = queue.starting], 0, 0))
    /\ UNCHANGED <<tape, workerRest>>

Text ==
    /\ TapeFree /\ closing # "Done"
    /\ Spend("outputs")
    /\ IF ~output.active /\ output.idle = NoOwner /\ queue.owner = NoOwner
       THEN Script(<<Do("Unowned", 0)>>)
       ELSE IF ~output.active /\ output.idle = NoOwner
       THEN Script(<<Do("CreateIdle", 0), Do("Write", 0)>>)
       ELSE Script(<<Do("Write", 0)>>)
    /\ UNCHANGED <<queue, drainer, update, journal, files, handler, source, transport, output,
                   worker, image, closing>>

(* An image belongs to the interval in which it was reserved.              *)
imageRest == <<update, journal, files, handler, source, transport, tape, output, worker, closing>>
ReserveImage ==
    /\ image.stage = "None" /\ worker \in {"Startup", "Ready"}
    /\ Spend("outputs")
    /\ \/ /\ queue.failure # "None" \/ queue.owner = NoOwner
          /\ UNCHANGED <<queue, drainer, image>>
       \/ /\ queue.failure = "None" /\ queue.owner # NoOwner
          /\ IF queue.images = MaxImages
             THEN /\ Observe(queue, Event("ImageOmitted", 0, queue.owner, 0, 0))
                  /\ UNCHANGED image
             ELSE /\ queue' = [queue EXCEPT !.images = @ + 1]
                  /\ image' = [stage |-> "Reserved", owner |-> queue.owner]
                  /\ UNCHANGED drainer
    /\ UNCHANGED imageRest
RetainImage ==
    /\ image.stage = "Reserved" /\ RegistryFree
    /\ image' = NoImage
    /\ Observe(queue, Event("ImageRetained", 0, image.owner, 0, 0))
    /\ UNCHANGED <<imageRest, left>>
ImageFails ==
    /\ image.stage = "Reserved"
    /\ Fault("Image")
    /\ image' = NoImage
    /\ Disable("Fault")
    /\ UNCHANGED imageRest

-----------------------------------------------------------------------------
(* The sends: receipt, capture in the order of receipt, the handler, and   *)
(* the blocking task that may admit its cell.                              *)
sendRest == <<update, journal, files, tape, output, worker, image, closing, left>>
Captured(c) == handler[c].at \notin {"Unsent", "Rejected", "Settled"}
Backlog == Cardinality({c \in Calls : Captured(c)})

Receive(c) ==
    /\ ~transport.closed /\ c = transport.received + 1
    /\ Spend("calls")
    /\ IF Backlog < MaxPendingCalls
       THEN /\ handler' = [handler EXCEPT ![c].at = "Received"]
            /\ transport' = [transport EXCEPT !.received = c]
       ELSE /\ handler' = [handler EXCEPT ![c].at = "Rejected"]
            /\ transport' = [closed |-> TRUE, received |-> c]
    /\ Observe(queue, Plain("Protocol", c))
    /\ UNCHANGED <<update, journal, files, source, tape, output, worker, image, closing>>

Submit(c) ==
    /\ handler[c].at = "Running" /\ source[c] = "None"
    /\ Spend("cells")
    /\ source' = [source EXCEPT ![c] = "Task"]
    /\ UNCHANGED <<queue, drainer, update, journal, files, handler, transport, tape, output, worker,
                   image, closing>>

(* The handler returns what it has, and a cancelled one does not wait for  *)
(* its task.  An unrecorded call has no result to write.                   *)
Return(c) ==
    /\ handler[c].at = "Running"
    /\ source[c] = "Task" => c \in Detached
    /\ handler' = [handler EXCEPT ![c].at = IF handler[c].id THEN "Finishing" ELSE "Settled"]
    /\ UNCHANGED <<queue, drainer, source, transport, sendRest>>

NoActiveCell == ~output.active /\ \A c \in Calls : ~Active(c)
AdmitSource(c) ==
    /\ source[c] = "Task" /\ NoActiveCell
    /\ source' = [source EXCEPT ![c] = "Admitted"]
    /\ IF handler[c].id THEN Observe(queue, Plain("SourceAdmitted", c))
       ELSE UNCHANGED <<queue, drainer>>
    /\ UNCHANGED <<handler, transport, sendRest>>
AssociateWaiting(c) ==
    /\ source[c] = "Admitted"
    /\ source' = [source EXCEPT ![c] = "Waiting"]
    /\ IF handler[c].id /\ queue.owner # NoOwner THEN Observe(queue, Waiting(c))
       ELSE UNCHANGED <<queue, drainer>>
    /\ UNCHANGED <<handler, transport, sendRest>>
RefuseSource(c) ==
    /\ source[c] = "Task"
    /\ source' = [source EXCEPT ![c] = "Done"]
    /\ UNCHANGED <<queue, drainer, handler, transport, sendRest>>
Dispatch(c) ==
    /\ source[c] = "Waiting" /\ worker = "Ready"
    /\ source' = [source EXCEPT ![c] = "Dispatched"]
    /\ IF handler[c].id /\ queue.owner # NoOwner
       THEN Observe(queue, Event("SourceAssociated", c, queue.owner, 0, 0))
       ELSE UNCHANGED <<queue, drainer>>
    /\ UNCHANGED <<handler, transport, sendRest>>

(* The first terminal outcome of an admission settles its source.          *)
SettleSource(c) ==
    /\ source[c] \in {"Waiting", "Dispatched"}
    /\ source' = [source EXCEPT ![c] = IF @ = "Waiting" THEN "Done" ELSE "Settled"]
    /\ IF handler[c].id THEN Observe(queue, Plain("SourceFinished", c))
       ELSE UNCHANGED <<queue, drainer>>
    /\ UNCHANGED <<handler, transport, sendRest>>

(* Cell entry may be observed after the admission settled.                 *)
EnterCell(c) ==
    /\ TapeFree /\ worker \in {"Ready"} /\ ~output.active
    /\ source[c] \in {"Dispatched", "Settled"} /\ c \notin output.entered
    /\ Script(ClosesIdle \o <<Do("StartCell", c), Do("CreateCell", c)>>)
    /\ UNCHANGED <<queue, drainer, worker, workerRest>>
CellEnds ==
    /\ TapeFree /\ output.active
    /\ Script(<<Do("CloseCell", 0), Do("EndCell", 0)>>)
    /\ UNCHANGED <<queue, drainer, worker, workerRest>>

-----------------------------------------------------------------------------
(* The drain thread and shutdown.                                          *)
DrainEnds ==
    /\ drainer = "Checking"
    /\ IF queue.pending = <<>>
       THEN queue' = [queue EXCEPT !.draining = FALSE] /\ drainer' = "Idle"
       ELSE drainer' = "Updating" /\ UNCHANGED queue
    /\ UNCHANGED <<update, journal, files, handler, source, transport, tape, output, worker,
                   image, closing, left>>

closingRest == <<queue, update, files, drainer, handler, source, output, worker, image, left>>
Close ==
    /\ closing = "No"
    /\ closing' = "Closing"
    /\ UNCHANGED <<journal, transport, tape, closingRest>>
CloseQueue ==
    /\ closing = "Closing" /\ worker = "None" /\ TapeFree
    /\ closing' = "Settling"
    /\ transport' = [transport EXCEPT !.closed = TRUE]
    /\ UNCHANGED <<journal, tape, closingRest>>
AllSettled == \A c \in Calls : ~Captured(c)
FinishRecording ==
    /\ closing = "Settling" /\ AllSettled /\ TapeFree
    /\ closing' = "Recording"
    /\ Script(Retirement)
    /\ UNCHANGED <<journal, transport, closingRest>>
FinalizeStorage ==
    /\ closing = "Finishing" /\ update.phase = "Free"
    /\ closing' = "Done"
    /\ journal' = [journal EXCEPT !.finished = journal.created]
    /\ files' = [f \in DOMAIN files |-> [files[f] EXCEPT !.open = FALSE]]
    /\ UNCHANGED <<queue, update, drainer, handler, source, transport, tape, output, worker,
                   image, left>>

Recorder ==
    \/ \E by \in Updaters : Lock(by)
    \/ Operate \/ Unlock \/ Publish \/ CopyRest \/ FinishPublication
    \/ \E f \in DOMAIN files : Relocate(f)
    \/ DrainEnds
Tape == ScriptSteps
Worker ==
    \/ WorkerStarting \/ Acquire \/ AssociateActive \/ WorkerReady \/ WorkerEnds \/ Retire
    \/ StartupFailed \/ Text \/ ReserveImage \/ CellEnds
    \/ \E c \in Calls : EnterCell(c)
Send ==
    \E c \in Calls :
      \/ Receive(c) \/ Submit(c) \/ AssociateWaiting(c) \/ AdmitSource(c) \/ Return(c)
      \/ RefuseSource(c) \/ Dispatch(c) \/ SettleSource(c)
Closing == CloseQueue \/ FinishRecording \/ FinalizeStorage
Failing ==
    \/ WriteFails \/ PublishFails \/ ImageFails
    \/ \E by \in Updaters : OperationFails(by)
Deliver == RetainImage \/ \E f \in DOMAIN files : DeliverReceipt(f)

Next == Recorder \/ Tape \/ Worker \/ Send \/ Close \/ Closing \/ Failing \/ Deliver

Spec == Init /\ [][Next]_vars

-----------------------------------------------------------------------------
(* What the recording has of the observed events, in the order of its      *)
(* journal, its batch and its queue; what a thread writes on its own       *)
(* account has no number.                                                  *)
Kept == journal.entries \o update.batch \o queue.pending
Failed == journal.failure # "None" \/ queue.failure # "None"

(* The queue counts exactly what it holds and what an update took from it  *)
(* and did not finish, within its limit, and what it holds has a thread    *)
(* that will drain it (the limit and the count of src/transcript/queue.rs  *)
(* are kept by three different functions).                                 *)
QueueAccounted ==
    /\ queue.retained = Len(queue.pending) + update.count
    /\ queue.retained \in 0..MaxEvents
    /\ queue.failure # "None" => queue.pending = <<>>
    /\ queue.pending # <<>> => queue.draining /\ drainer # "Idle"

(* The text events of a file tell of every byte that it retained, once and *)
(* in order, whatever was merged, published or flushed in between.         *)
Texts(kept, f) == {i \in DOMAIN kept : kept[i].kind = "OutputText" /\ kept[i].owner = f}
Tiles(kept, texts, n) ==
    /\ \A i \in texts : kept[i].from <= kept[i].to /\ kept[i].to <= n
    /\ \A i, k \in texts : i < k => kept[i].to <= kept[k].from
    /\ \A b \in 0..(n - 1) : \E i \in texts : kept[i].from <= b /\ b < kept[i].to
TextTold(kept) ==
    ~Failed /\ ~Doing("Text") =>
        \A f \in DOMAIN files : Tiles(kept, Texts(kept, f), files[f].retained)

(* The journal has the observed events in the order of their observation,  *)
(* and as long as nothing failed it misses none, the bytes of the output   *)
(* included, although every update flushes the queue, any thread may be    *)
(* the one that does, and the queue merges.                                *)
Ordered(kept) ==
    \A i \in DOMAIN kept : kept[i].at # 0 =>
        \A k \in 1..(i - 1) : kept[k].at < kept[i].at
NoneMissing(kept) ==
    ~Failed => 1..queue.observed \subseteq {kept[i].at : i \in DOMAIN kept} \cup journal.ignored
InOrder == LET kept == Kept IN Ordered(kept) /\ NoneMissing(kept) /\ TextTold(kept)

(* Only a failure of the file system or the limit of the queue disables a  *)
(* recording, never the order in which threads report to it; a cell that   *)
(* is admitted after its cancelled send returned is the known exception.   *)
RecordingSurvives ==
    /\ {journal.failure, queue.failure} \subseteq {"None", "Fault", "Backlog", "Admission"}
    /\ "Fault" \in {journal.failure, queue.failure} => \E b \in Budgets : b.faults > left.faults

(* No byte that was retained is lost by publication: the file is complete  *)
(* where its writer writes, and after publication that is the public one.  *)
(* A recording that says that it ended has the result of every send that   *)
(* it began, and its files have their summaries.                           *)
Ended == \E i \in DOMAIN journal.entries : journal.entries[i].kind = "RecordingEnded"
Has(kind, c) ==
    \E i \in DOMAIN journal.entries :
        journal.entries[i].kind = kind /\ journal.entries[i].call = c
FilesComplete ==
    /\ \A f \in DOMAIN files :
         /\ files[f][files[f].at] = files[f].retained
         /\ journal.published => files[f].at = "public"
    /\ Ended =>
         /\ \A c \in Calls : Has("ToolCall", c) => Has("ToolResult", c)
         /\ \A f \in DOMAIN files :
              \E i \in DOMAIN journal.entries :
                journal.entries[i].kind = "OutputSummary" /\ journal.entries[i].owner = f

(* docs/ARCHITECTURE.md: "Admitted source survives an initial response     *)
(* until association or evaluation settlement."                            *)
AdmittedSourceRecorded == journal.failure # "Admission"
=============================================================================
