-------------------------------- MODULE Relay --------------------------------
(***************************************************************************)
(* The worker relay (src/worker_relay): the process between the controller *)
(* and one worker.  Its threads are the command reader, the supervisor,    *)
(* the writers of the worker's standard input and sideband, one reader for *)
(* each stream of the worker, and the writer of the relay's own standard   *)
(* output, which takes encoded events from a bounded queue.                *)
(*                                                                         *)
(* One action is what a thread does between two points where it blocks or  *)
(* takes the lock of the event queue.  The controller, the worker and the  *)
(* processes that hold the worker's pipes are external.  An event stands   *)
(* for its frame: who produced it, its number there, and its size.         *)
(***************************************************************************)
EXTENDS Naturals, Sequences, FiniteSets, SequencesExt

CONSTANTS Raw,              \* the raw output streams
          MaxWritten,       \* bound on the frames that a stream of the worker carries
          Sizes,            \* sizes of the frames of the worker's streams
          OutputFrames,     \* the queue's limits: frames and bytes of output,
          OutputBytes,
          SupervisorFrames, \* and frames of the supervisor's own events
          Commands,         \* the commands that the controller sends
          MaxTurns,         \* bound on what the others do: commands, writes, faults
          Faults            \* what may go wrong

ASSUME RelayAssumption ==
    /\ MaxWritten \in Nat /\ Sizes \subseteq Nat /\ MaxTurns \in Nat
    /\ OutputFrames \in Nat \ {0} /\ OutputBytes \in Nat /\ SupervisorFrames \in Nat \ {0}
    /\ Raw \subseteq {"Stdout", "Stderr"}
    /\ Commands \subseteq {"Worker", "Stdin", "Interrupt"}
    /\ Faults \subseteq {"Spawn", "Setup", "Read", "Observe", "Reap", "Command"}

Sideband == "Sideband"
Streams == Raw \cup {Sideband}
Inputs == {"StdinWriter", "SidebandWriter"}

VARIABLES
    controls, \* the supervisor's channel
    sup,      \* the supervisor
    failure,  \* FirstFailure
    stopping, \* the flag that silences the writers of the worker's input
    command,  \* the command reader
    input,    \* the two writers of the worker's input: their channels
    reader,   \* the readers of the worker's streams
    queue,    \* QueuedEvents
    writer,   \* the event writer
    clock,    \* the deadlines of the drain and of the last flush
    wire,     \* what the controller has been sent
    consumer, \* external: how the controller reads
    worker,   \* external: the worker
    pipe,     \* external: the worker's streams
    turns     \* external: how many turns the others took

vars == <<controls, sup, failure, stopping, command, input, reader, queue, writer, clock, wire,
          consumer, worker, pipe, turns>>
external == <<consumer, worker, pipe, turns>>

Causes == {"None", "Spawn", "Setup", "Command", "Write", "Read", "Partial", "Transport",
           "Observe", "Reap"}
Frame ==
    {f \in [kind : Streams \cup {"WorkerStarted", "InterruptResult", "ShutdownStarted", "Closed",
                                 "Fatal", "Outcome"},
            of : Streams \cup Causes, n : Nat, size : Nat, supervisor : BOOLEAN] :
       (f.kind = "Closed" => f.of \in Streams) /\ (f.kind = "Fatal" => f.of \in Causes)}
NoFrame == [kind |-> "Outcome", of |-> "None", n |-> 0, size |-> 0, supervisor |-> FALSE]
Usage == [bytes : Nat, frames : Nat]

TypeOK ==
    /\ controls \in Seq([kind : Commands \cup {"Shutdown", "ControllerEof", "SidebandEof", "Stop",
                                               "WorkerExited"}, cause : Causes])
    /\ sup \in [at : {"start", "loop", "stop", "retire", "cancel", "join", "closing",
                      "join_writer", "ended"},
                retiring : {"No", "Running", "Late"}, prior : Causes, status : BOOLEAN,
                closings : Seq(Frame), sent : Nat]
    /\ failure \in Causes
    /\ stopping \in BOOLEAN
    /\ command \in {"unstarted", "reading", "done"}
    /\ input \in [Inputs -> [at : {"unstarted", "running", "done"},
                             queue : Seq({"Message", "Shutdown", "Close"})]]
    /\ reader \in [Streams -> [at : {"unstarted", "reading", "sending", "done", "failed"}, size : Sizes \cup {0}]]
    /\ queue \in [frames : Seq(Frame), output : Usage, supervisor : Usage,
                  status : {"Open", "Finishing", "Failed"}]
    /\ writer \in [at : {"next", "writing", "done"}, frame : Frame]
    /\ clock \in [drain : {"Unset", "Running", "Expired"}, flush : {"Unset", "Running", "Expired"}]
    /\ wire \in [told : [Streams \cup {"Lifetime", "Supervisor"} -> Nat], closed : SUBSET Streams,
                 fatal : Causes, outcome : BOOLEAN]
    /\ consumer \in {"Reading", "Stuck", "Gone"}
    /\ worker \in {"None", "Alive", "Dead"}
    /\ pipe \in [Streams -> [written : 0..MaxWritten, read : 0..MaxWritten,
                             partial : BOOLEAN, open : BOOLEAN]]
    /\ turns \in 0..MaxTurns

NoUsage == [bytes |-> 0, frames |-> 0]

Init ==
    /\ controls = <<>>
    /\ sup = [at |-> "start", retiring |-> "No", prior |-> "None", status |-> FALSE,
              closings |-> <<>>, sent |-> 0]
    /\ failure = "None"
    /\ stopping = FALSE
    /\ command = "unstarted"
    /\ input = [i \in Inputs |-> [at |-> "unstarted", queue |-> <<>>]]
    /\ reader = [s \in Streams |-> [at |-> "unstarted", size |-> 0]]
    /\ queue = [frames |-> <<>>, output |-> NoUsage, supervisor |-> NoUsage, status |-> "Open"]
    /\ writer = [at |-> "next", frame |-> NoFrame]
    /\ clock = [drain |-> "Unset", flush |-> "Unset"]
    /\ wire = [told |-> [p \in Streams \cup {"Lifetime", "Supervisor"} |-> 0], closed |-> {},
               fatal |-> "None", outcome |-> FALSE]
    /\ consumer = "Reading"
    /\ worker = "None"
    /\ pipe = [s \in Streams |-> [written |-> 0, read |-> 0, partial |-> FALSE, open |-> FALSE]]
    /\ turns = 0

-----------------------------------------------------------------------------
(* The event queue.                                                        *)
Failed == [queue EXCEPT !.status = "Failed"]
Charge(usage, size) == [bytes |-> usage.bytes + size, frames |-> usage.frames + 1]
Release(usage, size) == [bytes |-> usage.bytes - size, frames |-> usage.frames - 1]

Released(frame) ==
    [queue EXCEPT !.output = IF frame.supervisor THEN @ ELSE Release(@, frame.size),
                  !.supervisor = IF frame.supervisor THEN Release(@, frame.size) ELSE @]
Enqueued(frame) ==
    [queue EXCEPT !.frames = Append(@, frame),
                  !.output = IF frame.supervisor THEN @ ELSE Charge(@, frame.size),
                  !.supervisor = IF frame.supervisor THEN Charge(@, frame.size) ELSE @]

(* An output frame that is too large is admitted when it is alone.         *)
OutputAvailable(size) ==
    \/ queue.output.frames = 0
    \/ queue.output.frames < OutputFrames /\ queue.output.bytes + size <= OutputBytes

Accepting == queue.status = "Open" /\ clock.flush # "Expired"

(* send_supervisor does not wait: at its limit it fails the queue.         *)
Admitted == Accepting /\ queue.supervisor.frames < SupervisorFrames
SendSupervisor(frame) ==
    queue' = IF Admitted THEN Enqueued(frame)
             ELSE IF queue.status = "Open" THEN Failed ELSE queue

Event(kind, of, n, supervisor) ==
    [kind |-> kind, of |-> of, n |-> n, size |-> 1, supervisor |-> supervisor]

(* What the others do is bounded.                                         *)
Turn == turns < MaxTurns /\ turns' = turns + 1
Fault(kind) == kind \in Faults /\ Turn

(* The failure reporter: the first failure is kept and stops the loop.     *)
(* What is posted after the loop nobody reads.                             *)
Control(kind) == [kind |-> kind, cause |-> "None"]
Stop(cause) == [kind |-> "Stop", cause |-> cause]
Post(control) == controls' = IF sup.at \in {"start", "loop"} THEN Append(controls, control)
                                ELSE controls
Report(cause) ==
    IF failure = "None" THEN failure' = cause /\ Post(Stop(cause))
    ELSE UNCHANGED <<failure, controls>>

-----------------------------------------------------------------------------
(* The event writer.  A frame in flight is charged until it is written.    *)
others == <<sup, failure, stopping, command, input, reader, clock, external>>

\* mutant of PopFrame: the capacity is free while the frame is in flight
PopReleasing ==
    /\ writer.at = "next" /\ queue.status # "Failed" /\ queue.frames # <<>>
    /\ writer' = [at |-> "writing", frame |-> [Head(queue.frames) EXCEPT !.size = 0]]
    /\ queue' = [Released(Head(queue.frames)) EXCEPT !.frames = Tail(@)]
    /\ UNCHANGED <<controls, wire, others>>

PopFrame ==
    /\ writer.at = "next" /\ queue.status # "Failed" /\ queue.frames # <<>>
    /\ writer' = [at |-> "writing", frame |-> Head(queue.frames)]
    /\ queue' = [queue EXCEPT !.frames = Tail(@)]
    /\ UNCHANGED <<controls, wire, others>>

Told(frame) ==
    CASE frame.kind = "WorkerStarted" -> [wire EXCEPT !.told["Lifetime"] = frame.n]
      [] frame.kind \in {"InterruptResult", "ShutdownStarted"} ->
           [wire EXCEPT !.told["Supervisor"] = frame.n]
      [] frame.kind = "Closed" -> [wire EXCEPT !.closed = @ \cup {frame.of}]
      [] frame.kind = "Fatal" -> [wire EXCEPT !.fatal = frame.of]
      [] frame.kind = "Outcome" -> [wire EXCEPT !.outcome = TRUE]
      [] OTHER -> [wire EXCEPT !.told[frame.kind] = frame.n]

WriteFrame ==
    /\ writer.at = "writing" /\ consumer = "Reading" /\ clock.flush # "Expired"
    /\ wire' = Told(writer.frame)
    /\ queue' = Released(writer.frame)
    /\ writer' = [at |-> "next", frame |-> NoFrame]
    /\ UNCHANGED <<controls, others>>

(* A broken pipe, or the deadline of the last flush.                       *)
WriteFails ==
    /\ writer.at = "writing"
    /\ consumer = "Gone" \/ clock.flush = "Expired"
    /\ queue' = [Released(writer.frame) EXCEPT !.status = "Failed"]
    /\ writer' = [at |-> "next", frame |-> NoFrame]
    /\ UNCHANGED <<controls, wire, others>>

WriterEnds ==
    /\ writer.at = "next"
    /\ queue.status = "Failed" \/ (queue.status = "Finishing" /\ queue.frames = <<>>)
    /\ queue' = [queue EXCEPT !.frames = <<>>]
    /\ writer' = [writer EXCEPT !.at = "done"]
    /\ IF queue.status = "Failed" THEN Post(Stop("Transport")) ELSE UNCHANGED controls
    /\ UNCHANGED <<wire, others>>

-----------------------------------------------------------------------------
(* The readers of the worker's streams.                                    *)
Cancelled == clock.drain # "Unset"
ReaderAt(s, label) == reader' = [reader EXCEPT ![s].at = label]
restR == <<sup, stopping, command, input, writer, clock, wire, consumer, worker>>

Read(s) ==
    /\ reader[s].at = "reading" /\ clock.drain # "Expired"
    /\ pipe[s].read < pipe[s].written
    /\ pipe' = [pipe EXCEPT ![s].read = @ + 1]
    /\ \E size \in Sizes : reader' = [reader EXCEPT ![s] = [at |-> "sending", size |-> size]]
    /\ UNCHANGED <<controls, failure, queue, turns, restR>>

(* The reader waits while there is no room, or stops with the queue.       *)
Send(s) ==
    /\ reader[s].at = "sending"
    /\ IF ~Accepting
       THEN /\ ReaderAt(s, "done")
            /\ queue' = IF queue.status = "Open" THEN Failed ELSE queue
       ELSE /\ OutputAvailable(reader[s].size)
            /\ queue' = Enqueued([Event(s, "None", pipe[s].read, FALSE) EXCEPT !.size = reader[s].size])
            /\ ReaderAt(s, "reading")
    /\ UNCHANGED <<controls, failure, pipe, turns, restR>>

(* The end of a raw stream ends its reader.  The end of the sideband is    *)
(* an observation of its own, and a failure in the middle of a frame.      *)
ReadEof(s) ==
    /\ reader[s].at = "reading"
    /\ pipe[s].read = pipe[s].written /\ ~pipe[s].open
    /\ ReaderAt(s, "done")
    /\ IF s # Sideband THEN UNCHANGED <<failure, controls>>
       ELSE IF pipe[s].partial THEN Report("Partial")
       ELSE Post(Control("SidebandEof")) /\ UNCHANGED failure
    /\ UNCHANGED <<queue, pipe, turns, restR>>

ReadFails(s) ==
    /\ Fault("Read")
    /\ reader[s].at = "reading"
    /\ ReaderAt(s, "failed")
    /\ Report("Read")
    /\ UNCHANGED <<queue, pipe, restR>>

(* A cancelled reader drains: until nothing is there to read, whoever      *)
(* holds the stream, or until the deadline.                                *)
DrainEnds(s) ==
    /\ Cancelled /\ reader[s].at = "reading"
    /\ pipe[s].read = pipe[s].written \/ clock.drain = "Expired"
    /\ ReaderAt(s, "done")
    /\ UNCHANGED <<controls, failure, queue, pipe, turns, restR>>

Reader(s) == Read(s) \/ Send(s) \/ ReadEof(s) \/ DrainEnds(s)

-----------------------------------------------------------------------------
(* The writers of the worker's input.                                      *)
restI == <<sup, stopping, command, reader, queue, writer, clock, wire, consumer, pipe, turns>>
Running(i) == input[i].at = "running"
EndInput(i) == input' = [input EXCEPT ![i] = [at |-> "done", queue |-> <<>>]]

(* The worker takes what is written.                                       *)
WriteInput(i) ==
    /\ Running(i) /\ input[i].queue # <<>> /\ Head(input[i].queue) # "Close"
    /\ worker = "Alive"
    /\ input' = [input EXCEPT ![i].queue = Tail(@)]
    /\ UNCHANGED <<controls, failure, worker, restI>>

(* A write to a dead worker is a failure; a stopping relay does not care.  *)
InputFails(i) ==
    /\ Running(i) /\ input[i].queue # <<>> /\ Head(input[i].queue) # "Close"
    /\ worker = "Dead" /\ ~stopping
    /\ EndInput(i)
    /\ Report("Write")
    /\ UNCHANGED <<worker, restI>>

InputEnds(i) ==
    /\ Running(i) /\ input[i].queue # <<>> /\ Head(input[i].queue) = "Close"
    /\ EndInput(i)
    /\ UNCHANGED <<controls, failure, worker, restI>>

-----------------------------------------------------------------------------
(* The command reader.  The first shutdown ends it; what it reads after    *)
(* the loop nobody takes.                                                  *)
restC == <<sup, stopping, input, reader, queue, writer, clock, wire, consumer, worker, pipe>>

ReadCommand ==
    /\ command = "reading" /\ sup.at = "loop"
    /\ Turn
    /\ \E kind \in Commands \cup {"Shutdown"} :
          Post(Control(kind)) /\ command' = IF kind = "Shutdown" THEN "done" ELSE "reading"
    /\ UNCHANGED <<failure, restC>>

CommandsEnd ==
    /\ command = "reading"
    /\ Turn
    /\ command' = "done"
    /\ \/ sup.at = "loop" /\ Post(Control("ControllerEof")) /\ UNCHANGED failure
       \/ "Command" \in Faults /\ Report("Command")
    /\ UNCHANGED restC
-----------------------------------------------------------------------------
(* The supervisor.  It starts the worker, then its threads in this order;  *)
(* what is not started when one of them fails stays unstarted.             *)
Threads == <<"StdinWriter", "SidebandWriter", "Stdout", "Stderr", "CommandReader", Sideband,
             "ExitObserver">>
restS == <<writer, wire, consumer>>

SpawnFails ==
    /\ sup.at = "start" /\ Fault("Spawn")
    /\ queue' = [Enqueued(Event("Fatal", "Spawn", 0, TRUE)) EXCEPT !.status = "Finishing"]
    /\ clock' = [clock EXCEPT !.flush = "Running"]
    /\ sup' = [sup EXCEPT !.at = "join_writer"]
    /\ UNCHANGED <<controls, failure, stopping, command, input, reader, worker, pipe, restS>>

Spawn ==
    /\ sup.at = "start"
    /\ worker' = "Alive"
    /\ pipe' = [s \in Streams |-> [pipe[s] EXCEPT !.open = TRUE]]
    /\ queue' = Enqueued(Event("WorkerStarted", "None", 1, FALSE))
    /\ \E k \in 0..Len(Threads) :
          LET started == Range(SubSeq(Threads, 1, k)) IN
          /\ input' = [i \in Inputs |->
                          IF i \in started THEN [input[i] EXCEPT !.at = "running"] ELSE input[i]]
          /\ reader' = [s \in Streams |->
                           IF s \in started THEN [reader[s] EXCEPT !.at = "reading"] ELSE reader[s]]
          /\ command' = IF "CommandReader" \in started THEN "reading" ELSE command
          /\ IF k = Len(Threads)
             THEN sup' = [sup EXCEPT !.at = "loop"] /\ UNCHANGED <<failure, controls, stopping, turns>>
             ELSE /\ Fault("Setup")
                  /\ sup' = [sup EXCEPT !.at = "stop", !.prior = "Setup"]
                  /\ Report("Setup") /\ stopping' = TRUE
    /\ UNCHANGED <<clock, restS>>

(* The loop.  The first retirement fixes the worker's deadline; after it   *)
(* only what ends the worker counts.                                       *)
ForceStop(cause) == sup' = [sup EXCEPT !.at = "stop", !.prior = cause]
Take(kinds) ==
    /\ sup.at = "loop" /\ sup.retiring # "Late"
    /\ controls # <<>> /\ Head(controls).kind \in kinds
    /\ controls' = Tail(controls)
    /\ UNCHANGED <<failure, command, reader, clock, worker, pipe, restS>>
Reaps(reaped) == IF reaped THEN UNCHANGED turns ELSE Fault("Reap")
Give(i, message) == [input EXCEPT ![i].queue = IF Running(i) THEN Append(@, message) ELSE @]

Forward ==
    /\ Take({"Worker", "Stdin"}) /\ sup.retiring = "No"
    /\ LET i == IF Head(controls).kind = "Worker" THEN "SidebandWriter" ELSE "StdinWriter" IN
       IF Running(i) THEN input' = Give(i, "Message") /\ UNCHANGED sup
       ELSE ForceStop("Write") /\ UNCHANGED input
    /\ UNCHANGED <<stopping, queue, turns>>

Interrupt ==
    /\ Take({"Interrupt"}) /\ sup.retiring = "No"
    /\ SendSupervisor(Event("InterruptResult", "None", sup.sent + 1, TRUE))
    /\ IF Admitted THEN sup' = [sup EXCEPT !.sent = @ + 1] ELSE ForceStop("None")
    /\ UNCHANGED <<stopping, input, turns>>

ShutDown ==
    /\ Take({"Shutdown", "ControllerEof"}) /\ sup.retiring = "No"
    /\ LET accepted == Head(controls).kind = "Shutdown"
           asked == [sup EXCEPT !.retiring = "Running"]
       IN
       /\ IF accepted THEN SendSupervisor(Event("ShutdownStarted", "None", sup.sent + 1, TRUE))
          ELSE UNCHANGED queue
       /\ IF accepted /\ ~Admitted
          THEN sup' = [asked EXCEPT !.at = "stop", !.prior = "None"] /\ UNCHANGED <<stopping, input>>
          ELSE /\ sup' = [asked EXCEPT !.sent = IF accepted THEN @ + 1 ELSE @]
               /\ stopping' = TRUE
               /\ input' = [i \in Inputs |->
                     IF ~Running(i) THEN input[i]
                     ELSE [input[i] EXCEPT !.queue =
                              Append(@, IF i = "StdinWriter" THEN "Close" ELSE "Shutdown")]]
    /\ UNCHANGED turns

SidebandEof ==
    /\ Take({"SidebandEof"})
    /\ stopping' = TRUE
    /\ IF sup.retiring = "No"
       THEN sup' = [sup EXCEPT !.retiring = "Running"] /\ input' = Give("StdinWriter", "Close")
       ELSE UNCHANGED <<sup, input>>
    /\ UNCHANGED <<queue, turns>>

Ignore ==
    /\ Take(Commands \cup {"Shutdown", "ControllerEof"}) /\ sup.retiring # "No"
    /\ UNCHANGED <<sup, stopping, input, queue, turns>>

Stopped ==
    /\ Take({"Stop"})
    /\ stopping' = TRUE
    /\ ForceStop(Head(controls).cause)
    /\ UNCHANGED <<input, queue, turns>>

WorkerExited ==
    /\ Take({"WorkerExited"})
    /\ stopping' = TRUE
    /\ \/ \E reaped \in BOOLEAN :
             /\ Reaps(reaped)
             /\ sup' = [sup EXCEPT !.at = "retire", !.status = reaped,
                                   !.prior = IF reaped THEN "None" ELSE "Reap"]
       \/ Fault("Observe") /\ ForceStop("Observe")
    /\ UNCHANGED <<input, queue>>

OutOfTime ==
    /\ sup.at = "loop" /\ sup.retiring = "Late"
    /\ ForceStop("None")
    /\ UNCHANGED <<controls, failure, stopping, command, input, reader, queue, clock, worker, pipe,
                   turns, restS>>

Loop == Forward \/ Interrupt \/ ShutDown \/ SidebandEof \/ Ignore \/ Stopped \/ WorkerExited \/ OutOfTime

(* What a dead worker leaves open, its descendants hold.                   *)
Dies ==
    IF worker = "Dead" THEN UNCHANGED <<worker, pipe>>
    ELSE /\ worker' = "Dead"
         /\ \E held \in SUBSET Streams :
               pipe' = [s \in Streams |-> [pipe[s] EXCEPT !.open = @ /\ s \in held]]

(* force_stop_worker: the direct worker is killed, observed and reaped.    *)
Kill ==
    /\ sup.at = "stop"
    /\ Dies
    /\ \E reaped \in BOOLEAN :
          /\ Reaps(reaped)
          /\ sup' = [sup EXCEPT !.at = "retire", !.status = reaped,
                                !.prior = IF reaped \/ @ # "None" THEN @ ELSE "Reap"]
    /\ UNCHANGED <<controls, failure, stopping, command, input, reader, queue, clock, restS>>

\* mutant of Retire: the flush has no deadline
RetireUnbounded ==
    /\ sup.at = "retire"
    /\ failure' = IF failure = "None" THEN sup.prior ELSE failure
    /\ controls' = <<>>
    /\ stopping' = TRUE
    /\ sup' = [sup EXCEPT !.at = "cancel", !.prior = "None", !.retiring = "Running"]
    /\ UNCHANGED <<clock, command, input, reader, queue, worker, pipe, turns, restS>>

(* The last flush is bounded before any thread is joined.                  *)
Retire ==
    /\ sup.at = "retire"
    /\ failure' = IF failure = "None" THEN sup.prior ELSE failure
    /\ controls' = <<>>
    /\ stopping' = TRUE
    /\ clock' = [clock EXCEPT !.flush = "Running"]
    /\ sup' = [sup EXCEPT !.at = "cancel", !.prior = "None", !.retiring = "Running"]
    /\ UNCHANGED <<command, input, reader, queue, worker, pipe, turns, restS>>

InputsEnd == input' = [i \in Inputs |-> [at |-> "done", queue |-> <<>>]]

(* Every thread is woken before one is joined; raw output that has no      *)
(* reader is drained here, and an unstarted sideband is dropped.           *)
CancelThreads ==
    /\ sup.at = "cancel"
    /\ clock' = [clock EXCEPT !.drain = "Running"]
    /\ reader' = [s \in Streams |->
                     IF reader[s].at # "unstarted" THEN reader[s]
                     ELSE [reader[s] EXCEPT !.at = IF s \in Raw THEN "reading" ELSE "done"]]
    /\ InputsEnd
    /\ sup' = [sup EXCEPT !.at = "join"]
    /\ UNCHANGED <<controls, failure, stopping, command, queue, worker, pipe, turns, restS>>

(* The threads that only wait end at the cancellation.                     *)
Joined == \A s \in Streams : reader[s].at \in {"done", "failed"}

(* lifecycle::finish: the closing events, one by one.                      *)
Closings(reported) ==
    (IF "Stdout" \in Raw THEN <<Event("Closed", "Stdout", 0, TRUE)>> ELSE <<>>)
    \o (IF "Stderr" \in Raw THEN <<Event("Closed", "Stderr", 0, TRUE)>> ELSE <<>>)
    \o (IF reported # "None" THEN <<Event("Fatal", reported, 0, TRUE)>> ELSE <<>>)
    \o <<Event("Closed", Sideband, 0, TRUE)>>
    \o (IF sup.status THEN <<Event("Outcome", "None", 0, TRUE)>> ELSE <<>>)

\* mutant of Join: the closing events do not wait for the readers
JoinInputs ==
    /\ sup.at = "join" /\ command' = "done"
    /\ sup' = [sup EXCEPT !.at = "closing", !.closings = Closings(failure)]
    /\ UNCHANGED <<controls, failure, stopping, input, reader, queue, clock, worker, pipe,
                   turns, restS>>

Join ==
    /\ sup.at = "join" /\ Joined /\ command' = "done"
    /\ sup' = [sup EXCEPT !.at = "closing", !.closings = Closings(failure)]
    /\ UNCHANGED <<controls, failure, stopping, input, reader, queue, clock, worker, pipe,
                   turns, restS>>

Close ==
    /\ sup.at = "closing"
    /\ IF sup.closings # <<>>
       THEN /\ SendSupervisor(Head(sup.closings))
            /\ sup' = [sup EXCEPT !.closings = Tail(@)]
       ELSE /\ queue' = [queue EXCEPT !.status = IF @ = "Open" THEN "Finishing" ELSE @]
            /\ sup' = [sup EXCEPT !.at = "join_writer"]
    /\ UNCHANGED <<controls, failure, stopping, command, input, reader, clock, worker, pipe, turns, restS>>

End ==
    /\ sup.at = "join_writer" /\ writer.at = "done"
    /\ sup' = [sup EXCEPT !.at = "ended"]
    /\ UNCHANGED <<controls, failure, stopping, command, input, reader, queue, clock, worker, pipe,
                   turns, restS>>

Supervisor == Loop \/ Kill \/ Retire \/ CancelThreads \/ Join \/ Close \/ End

-----------------------------------------------------------------------------
(* Deadlines.  The last flush expires only while a write waits for the     *)
(* controller, and the drain while a reader waits for room: the relay's    *)
(* own steps take no time.                                                 *)
restT == <<controls, failure, stopping, command, input, reader, queue, writer, wire, external>>

Tick ==
    \/ /\ sup.at = "loop" /\ sup.retiring = "Running"
       /\ sup' = [sup EXCEPT !.retiring = "Late"]
       /\ UNCHANGED <<clock, restT>>
    \/ /\ clock.drain = "Running" /\ \E s \in Streams : reader[s].at = "sending"
       /\ clock' = [clock EXCEPT !.drain = "Expired"]
       /\ UNCHANGED <<sup, restT>>
    \/ /\ clock.flush = "Running" /\ writer.at = "writing" /\ consumer = "Stuck"
       /\ clock' = [clock EXCEPT !.flush = "Expired"]
       /\ UNCHANGED <<sup, restT>>

-----------------------------------------------------------------------------
(* External: the controller's reading, the worker, and those who hold the  *)
(* worker's streams.                                                       *)
restX == <<sup, failure, stopping, command, input, reader, queue, writer, clock, wire>>

ConsumerTurns ==
    /\ consumer # "Gone" /\ sup.at # "ended" /\ Turn
    /\ consumer' \in {"Reading", "Stuck", "Gone"} \ {consumer}
    /\ UNCHANGED <<controls, worker, pipe, restX>>

WorkerWrites ==
    /\ Turn
    /\ \E s \in Streams :
          /\ pipe[s].open /\ ~pipe[s].partial /\ pipe[s].written < MaxWritten
          /\ reader[s].at \notin {"done", "failed"}
          /\ worker = "Alive" \/ s # Sideband
          /\ \/ pipe' = [pipe EXCEPT ![s].written = @ + 1]
             \/ s = Sideband /\ pipe' = [pipe EXCEPT ![s].partial = TRUE]
    /\ UNCHANGED <<controls, consumer, worker, restX>>

WorkerCloses ==
    /\ Turn
    /\ \E s \in Streams :
          /\ pipe[s].open /\ reader[s].at \notin {"done", "failed"}
          /\ pipe' = [pipe EXCEPT ![s].open = FALSE]
    /\ UNCHANGED <<controls, consumer, worker, restX>>

(* The exit observer tells the supervisor.                                 *)
WorkerExits ==
    /\ worker = "Alive" /\ Turn
    /\ Dies
    /\ IF sup.at = "loop" THEN Post(Control("WorkerExited")) ELSE UNCHANGED controls
    /\ UNCHANGED <<consumer, restX>>

-----------------------------------------------------------------------------
Relayed ==
    \/ PopFrame \/ WriteFrame \/ WriteFails \/ WriterEnds
    \/ \E s \in Streams : Reader(s)
    \/ \E i \in Inputs : InputFails(i) \/ InputEnds(i)
    \/ Spawn \/ Supervisor \/ Tick

Next ==
    \/ Relayed
    \/ SpawnFails
    \/ \E s \in Streams : ReadFails(s)
    \/ \E i \in Inputs : WriteInput(i)
    \/ ReadCommand \/ CommandsEnd
    \/ ConsumerTurns \/ WorkerWrites \/ WorkerCloses \/ WorkerExits

(* The relay's threads run, its deadlines pass, and a controller that      *)
(* reads takes the next frame.  The steps of a relay run out, so that one  *)
(* of them is taken while there is one is all the fairness that is needed. *)
Spec == Init /\ [][Next]_vars /\ WF_vars(Relayed)

-----------------------------------------------------------------------------
(* Properties.                                                             *)

(* Every state is well typed, the queue holds what its limits allow (a     *)
(* single large frame excepted), and until its writer ends the frames that *)
(* it is charged with are those that are queued or in flight.              *)
FramesOf(supervisor) == {k \in DOMAIN queue.frames : queue.frames[k].supervisor = supervisor}
InFlight(supervisor) ==
    IF writer.at = "writing" /\ writer.frame.supervisor = supervisor THEN 1 ELSE 0
FramesCharged(supervisor) == Cardinality(FramesOf(supervisor)) + InFlight(supervisor)

QueueBounded ==
    /\ TypeOK
    /\ queue.output.frames <= OutputFrames
    /\ queue.output.bytes <= OutputBytes \/ queue.output.frames = 1
    /\ queue.supervisor.frames <= SupervisorFrames
    /\ writer.at # "done" =>
          queue.output.frames = FramesCharged(FALSE) /\ queue.supervisor.frames = FramesCharged(TRUE)

(* Nothing that was sent gets lost on the way: the bytes that the queue is *)
(* charged with are those of the frames queued or in flight, and a relay   *)
(* that flushed everything has told everything: the closures, the first    *)
(* failure, the outcome of a worker it reaped, and all that was written to *)
(* the worker's streams, unless the drain ran out of time.                 *)
BytesCharged(supervisor) ==
    LET bytes(f) == IF f.supervisor = supervisor THEN f.size ELSE 0
        from[k \in 1..(Len(queue.frames) + 1)] ==
            IF k > Len(queue.frames) THEN 0 ELSE bytes(queue.frames[k]) + from[k + 1]
    IN  from[1] + (IF writer.at = "writing" THEN bytes(writer.frame) ELSE 0)

FlushedIsComplete ==
    /\ writer.at # "done" =>
          queue.output.bytes = BytesCharged(FALSE) /\ queue.supervisor.bytes = BytesCharged(TRUE)
    /\ sup.at = "ended" /\ queue.status = "Finishing" /\ worker # "None" =>
         /\ wire.closed = Streams /\ wire.outcome = sup.status /\ wire.fatal = failure
         /\ clock.drain # "Expired" =>
              \A s \in Streams :
                 \/ reader[s].at = "failed" \/ wire.told[s] = pipe[s].written
                 \/ s = Sideband /\ failure = "Setup"

(* The relay keeps its contract, its liveness included.                    *)
Ending == {"Shutdown", "ControllerEof", "SidebandEof", "Stop", "WorkerExited"}
Contract == INSTANCE RelayContract WITH
    Producers <- Streams \cup {"Lifetime", "Supervisor"}, Raw <- Raw, Sideband <- Sideband,
    told <- wire.told, closed <- wire.closed, fatal <- wire.fatal # "None",
    outcome <- wire.outcome,
    retiring <- \/ sup.at \notin {"start", "loop"} \/ sup.retiring # "No"
                \/ \E k \in DOMAIN controls : controls[k].kind \in Ending,
    ended <- sup.at = "ended"
KeepsContract == Contract!Spec
==============================================================================
