# MCP Console in TLA+

MCP Console is an MCP server that keeps one language worker (Python, R, SQL)
per connection behind a single tool, `send`. A call may carry a cell, input for
the worker, changed requirements, and a control (`interrupt` or `restart`); it
returns when the evaluation completes, asks for input, or its deadline passes.
The worker runs in a sandboxed process behind a relay and may fail, hang, be
interrupted or be replaced at any time, while several calls, the connection's
startup task and connection shutdown contend for it. These modules model the
code that keeps that straight. Paths below are relative to `src/src/`.

## 1. Inventory

| Component | Code | State | Operations | Hard part |
|---|---|---|---|---|
| Lifecycle and admission | `worker_client/{lifecycle,execution,control,send,admission}.rs`, `worker_client.rs` | `LifecycleControl` (state, generation, processes, startup, controlled send), `WorkerState`, evaluation slot, admission and preparation locks, startup flags | ordinary sends, start and stop of workers, restart, interrupt, prelaunch, shutdown | four locks in one order or another, every wait followed by a recheck of the generation |
| Requirement preparation | `worker_client/environment/*.rs` | committed environment, candidate, reservation in the worker operation | resolve, activate in a live worker, replace an unused worker, commit | holds two locks over a resolver that may take minutes and may be stopped |
| Response ownership | `worker_client/evaluation.rs`, `worker_client/output.rs`, `worker_client/output/tape.rs` | phase, completion cut, delivery, reclaimed response, waiting claim, retired flag, output tape | claim, report, deliver, reclaim, reserve for restart, hand off | a response whose caller disappeared must be delivered once by someone else |
| Worker operation and dispatcher | `worker_client/events.rs`, `worker_client/events/operation.rs` | operation slot, bootstrap, first failure, callback | event dispatch, reservation, completion, failure | completion, failure and process exit in any order |
| Launch retirement | `worker_client/process.rs` | retirement budgets, requested and finishing flags, retained result | request, finish, observe | one operation shared by callers with different deadlines |
| Relay | `worker_relay.rs`, `worker_relay/*.rs` | event queue with limits, streams, child lifecycle | forward, supervise, retire | backpressure against a retirement deadline |
| Worker process | `worker.rs`, `worker/*.rs` | coordinator, input buffer, interrupt delivery | run cell, read input, interrupt | an interrupt that arrives between cells |
| Transport | `server_transport.rs`, `server.rs` | response reservations, gates, write in flight | admit, cancel, write, close | end of input with responses still owned |
| Connection startup | `server/startup.rs` | one task, its result | start, retry, cancel | result published once, retry after failure |
| Resolvers | `resolver/**` | preparation host, resolver child | prepare, cancel | child exit against its protocol |
| Transcript | `transcript/**` | bounded queue, on-demand drain | record, flush, disable | overflow must never block a call |
| Previews, configuration, language bridges, sandbox, packages | `worker_client/output/{preview,terminal}.rs`, `config.rs`, `settings.rs`, `cli.rs`, `python.rs`, `r_bridge.rs`, `sql.rs`, `sandbox.rs`, ... | none shared | pure functions, foreign calls, OS policy | none a model checker reaches |

How they interact: a tool call enters through the transport, is admitted by the
lifecycle, publishes an `Evaluation` in the slot, and a blocking evaluator
thread starts or finds the worker, dispatches the cell through the relay and
waits. The dispatcher thread of the launch completes the evaluation, answers
resolver callbacks and records the first failure; polls and controls claim the
evaluation's output. A control owns admission through a token. Restart and
shutdown reach processes only through the stop handles the lifecycle keeps,
because the worker mutex may be held by a call that waits for the worker.

What makes each correct is stated as properties below for what is modelled. For
the rest: a command that the worker defers keeps its place and an interrupt never
reaches the following cell (worker process); a prepared host acknowledges one
request at a time and its end leaves none waiting (resolvers); a retry of a
failed discovery is told to whoever waits (startup).

## 2. Plan

The modules were written in this order, the behaviour that everything else
relies on first; every one composes with the others only through an abstraction
it names, so that each can be checked and proved about alone.

1. `Lifecycle`: locks, generations, launching, stopping, closing.
2. `DeliveryContract` and `Deliveries`: the requests of a connection.
3. `OutputContract` and `Responses`: who owns a session's output.
4. `RetirementContract` and `Launch`: the operation of one launch, its dispatcher,
   and its retirement. `Lifecycle` takes both as one step with an outcome.
5. `RelayContract` and `Relay`: the process between controller and worker, whose
   contract is what `Launch` assumes of the order and end of relay events.
6. `Transcript`: the recording beside all of it.
7. Theorems: the safety of `Lifecycle`, of the deliveries with their refinement,
   of the responses, of a launch with its retirement, of the relay, and of the
   recording.
   **Done**; section 5 says which properties stay with TLC.

Left: the worker process, the resolvers' protocol, the retry of a failed
discovery, and a proof that `Responses` keeps `OutputContract`.

## 3. Modules

`Lifecycle.tla` models the component as interleaved calls. `op[o]` is the local
state of call `o`: its program counter, the generation it was admitted to, what
it is doing while it owns the worker (`mode`), and the launch or resolver it has
in hand. One action is what a thread does between two points where another
thread can take the lifecycle or worker mutex, or where it blocks. The lifecycle
mutex is never held across such a point, so it is not a variable; the worker
mutex is `worker_lock`; the admission and preparation `RwLock`s are records of
readers and writer; the environment mutex is held exactly at the labels of
`HoldsEnvironment`.

| Code | Model |
|---|---|
| `LifecycleControl::{state, generation, controlled_send, processes, startup}` | `state`, `generation`, `controlled_send`, `stop_handle`, `resolver_handle`, `startup_owner`, `startup_interrupted` |
| `WorkerState`, launches | `worker`, `running`, `launch`, `launched` |
| `ClientInner::evaluation`, `CellAdmission` | `active`, `op[o].phase`, `op[o].outcome` |
| `startup_permitted`, `r_startup_permitted`, `startup_failed`, `startup`, `startup_stdin`, `unused_default` | variables of the same names (`startup_done` is the published result) |
| `send_inner`, `evaluate_blocking`, `evaluate_with_worker` | `Admit`, `StartEvaluation`, `EvaluateBlocking`, `LockForCell`, `Dispatch`, `CellCompletes`, `CellFails`, `EvaluateReturns` |
| `start_worker`, `WorkerRuntime::spawn` | `ReserveWorkerStartup` ... `Spawn`, `RegisterStopHandle`, `AwaitReady`, `OnReady`, `ReadyCommit`, `RetireFailedStart`, `StartFailed` |
| `stop_failed_worker` | `StopFailedWorker`, `StopFailed`, `FailedWorkerStopped`, `StartReplacement` |
| `prelaunch` | `Prelaunch`, `ReservePreparation`, `LockForPrelaunch`, `PrelaunchReturns`, `FinishStartup` |
| `prepare_admitted` | `AdmitPreparation`, `CheckPreparation`, `PrepareAdmitted`, `PrepareResolve`, `PrepareResolved`, `CommitEnvironment` |
| `restart_blocking`, `replace_worker` | `BeginRestart`, `ResolveRestart`, `CommitRestart`, `RestartShutdown`, `RetireWorker`, `FailRestart`, `ReplaceWorker`, `RestartLaunch`, `RestartReturns`, `FollowUp` |
| `interrupt_blocking`, `continue_after_interrupt` | `InterruptBlocking`, `InterruptStandalone`, `InterruptStartup`, `SubmitControlledStdin`, `EnsureFollowupConnection`, `ContinueAfterInterrupt`, `ContinueWithCell` |
| `close_lifecycle`, `shutdown` | `CloseLifecycle`, `CloseProcesses`, `CloseWorker` |

Abstractions. A launch stands for the relay process and its threads: it may
become ready, fail, and begin and complete an R initialization, in any order its
protocol allows. Its shared retirement operation is one step whose outcome is
retained: clean, cleanup failed after the launcher was reaped, I/O not settled,
or launcher not reaped. A resolver is registered, may be stopped, and ends with
a result or without one. The environment is one bit, whether its R runtime is
still to be resolved. Which bytes a response carries is not modelled here.

`MCLifecycle.tla` names the retirement outcomes the configurations use, and
`Contending` lists the sets of calls of which a behaviour of `LifecycleStartup`
makes one (its constraint `Contention`).

Left out of `Lifecycle`: requirements attached to a cell that is admitted before
startup finished, requirements attached to an interrupt, the repetition of a
failed runtime discovery, and the effect of activating requirements in a live
worker (which does not touch the lifecycle). Each call happens once in a
behaviour. `ReplaceWorker` is one step: it holds the worker mutex throughout and
the lifecycle changes it could race with (a shutdown) are rechecked by the next
one. `PrepareAdmitted` takes the worker lock and the environment mutex at once,
where the code waits for the second while it holds the first: no call waits for
the worker lock with that mutex held. The early return of `evaluate_blocking` for
a cell whose outcome is already set belongs to the requirements left out.

### Deliveries

`Deliveries.tla` models one connection's `ResponseDeliveries`
(`server_transport.rs`) with the handlers of its `send` requests (`call_tool` in
`server.rs`). A request is known by its admission token, so requests are
numbered in receipt order; `pc[c]` says where request `c` is: waiting for its
predecessor (`queued`) or for the response gate (`gate`), running, answered, or
in its response write. One action is what happens under one lock of the shared
state.

| Code | Model |
|---|---|
| `active`, `pending`, `pending_writes`, `input_drained`, `closed` | variables of the same names (`closed_by` says what led to the close) |
| `admission_tail`, `ResponseDeliveryAdmissionNode::{state, predecessor}` | `tail`, `node`, `pred` |
| `ResponseDeliveryCallState` | `call[c]`: `live`, `finished`, and the acknowledgment `delivery` with its outcome |
| `reserve`, `cancel`, `admit`, drop of an admission | `Receive`, `Cancel`, `PredecessorSettled`, `Admit`, `DropAdmission` |
| `register`, `complete`, drop of an operation | `Register`, `CompleteOperation`, `DropOperation` |
| `ServerTransport::send`, `ResponseDeliveryWrite` | `Send`, `WriteSucceeds`, `WriteFails`, `AbandonWrite`, `TakeWriteDelivery`, `SettleWrite` |
| `settle_before_close`, `close` | `StartSettling`, `SettleBeforeClose`, `ShutdownEnds`, `CloseTransport` |

External are the service library, which knows the latest live request of each
ID (`pool`), drops the response of a request it forgot and cancels its handler,
and the client, which uses an ID again only after it saw the earlier response
(`IdIsFree`) and may stop reading (`reading`). `behind` is a history variable:
the requests that waited when this one was received.

`DeliveryContract.tla` is what the deliveries promise to the console: a call
starts after the calls it was received behind are over, and an acknowledgment is
settled once, as delivered only for an answered call. `Deliveries` implements it
under the mapping `status`, `receipt`, `behind`.

Left out of `Deliveries`: writes of messages other than `send` responses
(`pending_protocol_writes`), the start of a connection before the service
exists, and the capture of a request that its handler awaits before `admit`.
`DropAdmission` joins the two locks its destructor takes in turn, the node's and
the shared state's.

### Responses

`Responses.tla` models who owns the output of a session. The tape is a line of
numbered items: `produced` counts what was published, `drained` what left it,
and `recovered` is the one response it can take back. `ev[c]` is the
`EvaluationState` of the cell that call `c` admitted, with its evaluator task
(`task`); `call[c]` is what the task of call `c` holds: the response in hand,
what it will append to it, where the response goes when it is not delivered
(`target`), and its reservation of an evaluation. One action is what happens
under one lock of the slot, of an evaluation or of the tape, or under the slot
and the evaluation when the code holds both.

| Code | Model |
|---|---|
| `OutputTapeState::{sealed, recovered}`, cuts | `produced`, `drained`, `recovered`; a cut is a number of items |
| `EvaluationState` | `ev[c]`: `phase`, `cut`, `prelude` (control and idle prelude), `reclaimed`, `delivery` with `returned`, `collected`, `waiting`, `retired`, `handoff` |
| `ResponseAcknowledgment`, `ResponseDeliveryTarget` | `delivery`, `call[c].target` |
| `send_inner`, `claim_current_evaluation`, `take_idle_response` | `SendCell`, `SendPoll`, `ObserveSlot`, `ClaimAfterDelivery`, `IdleSlot`, `IdleSnapshot`, `IdleDrain` |
| `Evaluation::wait`, `reported_state`, drop of `WaitClaim` | `ReportReclaimed`, `ReportCompleted`, `ReportRunning`, `ReportHandoff`, `DropWait` |
| `complete`, `complete_cell_after_grace`, `start_replacement`, `finish_replacement` | `Refuse`, `FailCell`, `CompleteAfterGrace`, `FinishGrace`, `StartReplacement`, `FinishReplacement` |
| `ResponseDelivery`, drop of a response | `Deliver`, `Return` |
| `control_and_start_evaluation`, `continue_after_interrupt` | `BeginControl`, `RetryControl`, `InterruptSlot`, `InterruptClaim`, `FollowUpSlot`, `FollowUpClaim`, `StartFollowing` |
| `begin_restart`, `replace_worker`, `settle_reserved_evaluation` | `BeginRestart`, `RetireWorker`, `TakeOutput`, `HandOff`, `AwaitDelivery`, `FollowUpSettled`, `StartWorker` |

`OutputContract.tla` is what a session promises for its output: an item waits
for a response, is carried by one, and reaches the client or goes back with
everything else that response carried. An idle poll's response is the exception
the code makes: it gives nothing back. `Responses` implements the contract under
`place`, which calls an item found in two places, or in none, lost, and
`holder`. `ResponsesProofs.tla` also proves what follows from the contract.

An item stands for worker output, an image or the text of a failure; other
notices, previews and budgets are left out. `DropWait` is the cancellation that
`call_tool` allows a call which began before the configuration was accepted; the
model allows it to every waiting call. A return that finds `recovered` occupied
is the assertion of `OutputTape::recover`: `panicked` is set and the behaviour
ends. Left out: managed input, whose report is that of a running cell, the
responses of preparations and of startup, input that accompanies a control, and
a shutdown.

`MCResponses.tla` gives the sessions of the configurations, and how much the
worker says in each.

### Launch

`Launch.tla` models one launch as the controller sees it: the dispatcher thread
(`disp` holds the locals of `dispatch_worker_events`), the operation state it
shares with the thread that holds the worker mutex (`oper`, `owner`), the command
writer and the event reader, the interrupting calls, and the callers that retire
the launch. One action is what a thread does between two points where it blocks
or where another can take one of its mutexes. The relay and the worker are the
external process behind `events` and `commands`; it keeps the worker protocol but
for the faults of `Faults`.

| Code | Model |
|---|---|
| `OperationState`, `Operation`, `Bootstrap`, `RuntimeRCallbackPhase` | `oper` |
| `dispatch_worker_events`, `DeferredEvents` | `disp`; one action for each event (`CellStarted`, `InputEvent`, `BeginResolveR`, `Complete`, `Suspend`, `Fatal`, ...) and phase (`Defer`, `ReadyCommitted`, `AfterClose`, ...) |
| `RelayCommandThread`, `RelayCommandState`, reader thread | `commands`, `WriteCommand`, `WriteFails`, `reader`, `ReaderEnds`, `ReadFails` |
| `CellAdmission`, prepared input | `cell` |
| start of a worker, `evaluate`, `prepare_running`, replacement of an unused worker | `owner`, the actions of `OwnerStep`; `ReserveReplacement`, `DropReservation` |
| `InterruptRequests` | `interrupts`, `Interrupt`, `InterruptResult` |
| `RetirementState`, `WorkerShutdownHandle`, `RelayProcess` | `retirement`, `caller`, `child`, the actions of `RetireStep` |

`RetirementContract.tla` is what retirement promises to whoever asks: one
retirement, one outcome, everyone is told it, and only the outcome that says that
the child may still be there (`Stuck`) is published before everything of the
launch has ended. `Launch` implements it.

Left out of `Launch`: raw standard output and error, the attachment of standard
input, the diagnostics reader, the exit-status rules of a worker without sandbox,
the replacement of a worker that has Python only, and which environment a reply
carries. Some actions join mutexes that one thread takes in turn without a wait
between them: `FailDispatch` (the startup reply, the interrupts, the operation),
`RequestShutdown` (the requesting flag, the start of the shutdown, the ready
commit, the command) and `Resolve` (the last check of the generation, the
environment, the command, the reply); what another thread does between two of
them is not explored. A refused result is finer: its operation is taken at once,
its cell is finished by the thread that waits for it. `MCLaunch.UntilRetired` ends the instance that is about operations where
a retirement asks for the relay's shutdown; the other instance is about that.

### Relay

`Relay.tla` models the relay process (`worker_relay/`): the supervisor with its
control channel, the command reader, a reader for each stream of the worker, the
writers of its standard input and sideband, and the bounded event queue with the
thread that writes it to the controller. An event stands for its frame: its
producer, its number there and its size; a sideband frame may be cut off by the
worker's end (`partial`).

| Code | Model |
|---|---|
| `QueuedEvents`, `Usage`, `EventSender`, `EventWriter` | `queue`, `writer`; `Enqueued`, `PopFrame`, `WriteFrame`, `WriteFails`, `WriterEnds` |
| `supervise_worker`, `WorkerLifecycle`, `force_stop_worker` | `sup`; `Loop`, `WorkerExited`, `OutOfTime`, `Kill`, `Reaps`, `CancelThreads`, `Join`, `Closings`, `End` |
| `SidebandReader`, `OutputReader` | `reader[s]`; `Read`, `ReadEof`, `ReadFails`, `DrainEnds` |
| `StdinWriter`, `SidebandWriter`, `CommandReader` | `input`, `WriteInput`, `InputFails`, `InputEnds`, `ReadCommand`, `CommandsEnd` |
| drain and retirement deadlines, `EventOutput` deadline | `clock`, `Tick`; a deadline passes only while somebody waits for it |

`RelayContract.tla` is `docs/RELAY_PROTOCOL.md` for the order and the end of
events. External are the controller, which may stall or go away, and the worker
with the descendants that hold its streams. Left out: the relay of Windows, which
is another implementation, and the content of commands and frames.

### Transcript

`Transcript.tla` models the recording of a console process: the journal that one
thread at a time writes (`update` says who and how far it is), the queue of
observed events, the thread that drains it on demand, the raw output files with
their relocation when the recording is published, the output tape's part in it
(`tape` is the sequence of steps a tape operation makes while it is locked), the
sends, and shutdown.

| Code | Model |
|---|---|
| `ProtocolEvents`, `start_drain` | `queue`, `drainer`, `Pushed`, `Observe`, `DrainEnds` |
| `TranscriptState`, `Transcript::update`, `publish` | `journal`, `update`; `Lock`, `Operate`, `Unlock`, `Publish`, `CopyRest`, `FinishPublication` |
| `CaptureStorage`, `CaptureFile` | `files`; `Create`, `Relocate`, `FinalizeStorage` |
| `OutputRecord`, `CellOutput`, `OutputTapeState` | `output`, `tape`; `Text`, `CloseIdle`, `PublishReceipts`, `DeliverReceipt` |
| `Receiver::receive`, `call_tool`, `CellAdmission::new` | `Receive`, `Return`, `AdmitSource`, `AssociateWaiting`, `Dispatch` |
| `RecordingQueue::close_and_settle` | `CloseQueue`, `FinishRecording`, `FinalizeStorage` |

Byte limits stand for the event limit, and a failed update's release of the
journal and its stop of the queue are one step. So are an update's release of
its batch, its operation and its taking of the next batch (`Operate`), and the
published flag and the activation entry (`FinishPublication`; a failure between
the two is left out). `PublishReceipts` settles every undelivered receipt at the end of a session,
where the code settles those on the tape and leaves the rest to their rendering
or drop, which in the model comes before. `ReserveImage` may be overtaken although
the code keeps the tape locked until `RetainImage`. Left out: projections and
Markdown, which are derived from the journal after the fact, deliveries, and
events of the environment. `MCTranscript` gives the `Budgets` of its behaviours,
each a pair of things that meet, with one fault or without; `Meeting` keeps a
send that meets a worker to the orders in which they can affect one another.

### Proof modules

`LifecycleProofs` and `LifecycleFenceProofs` prove about `Lifecycle`,
`TranscriptProofs` and `TranscriptRecordProofs` about `Transcript`, the second
of each pair from the first; `DeliveryProofs`, `ResponsesProofs`, `LaunchProofs`
and `RelayProofs` about the modules they extend, the first two also about what
follows from a contract alone.

## 4. Runs

| Run | Instance | Question |
|---|---|---|
| `LifecycleClose` | one cell, one restart that changes requirements, one shutdown, all retirement outcomes, with fairness | do launches ever overlap, escape every handle, outlive shutdown, or reopen a closed session; does work stay in its generation; does every call return after a shutdown, and does the retired generation hold a restart up |
| `LifecycleStartup` | an R worker; of a cell with requirements, a plain cell, a poll, two interrupts and the prelaunch, three at a time | is a withheld cell ever sent, is startup code repeated, is a worker that was given something replaced as unused, is a failed prelaunch reported before a cell runs |
| `Deliveries` | three requests, the third with the ID of the first, queue bound 2, cancellations, failing writes, a client that may stop reading, shutdown | do the deliveries keep their contract, does a cancelled request ever start, is anything unanswered after a settled close, does everything waiting get on |
| `Responses` | a cell with a poll or an interrupt, and a rerun (a restart with a cell) or a follow-up (an interrupt with a cell) | does an item ever get lost or reported twice, is a lost response replayed before later output, can an evaluation have two responses under way, is everyone answered in the end |
| `LaunchOperations` | a bootstrapping worker with both callbacks, a cell with input, a preparation or a replacement, an interrupt, one fault | do its events take effect in order, is anyone who waits forgotten, can a callback meet a preparation, do the assertions of the code hold |
| `LaunchRetirement` | a cell on a plain worker, its holder and a lifecycle call that retire it, one fault, with fairness | is there one outcome for everyone, is anything left behind when a replacement is permitted, do causes keep their order |
| `Relay` | one raw stream and the sideband, a queue of two output frames, two commands, three turns of the others, one fault of each kind | does the queue keep its limits, is a flushed relay's story complete and ordered, does retirement end |
| `Transcript` | up to two sends, a cell, a worker, two pieces of output, one fault | is the queue accounted for, is anything lost or out of order, can an order of events disable the recording, are files complete |
| `FindPreparation`, `FindRecovery`, `FindRecoverTwice`, `FindCancelledSource` | see section 7 | four statements of the repository that the code does not keep |

Bounds. `MaxGeneration` 1 lets one restart separate an old from a new
generation, which is what every fence compares; the instance that is about
startup has one generation. `MaxLaunches` is as large as the calls of the
instance can cause: first launch, automatic replacement, restart's launch, and
one more for a call that finds the worker stopped; a spawn may also fail, so no
behaviour is cut short by the bound. Two calls contending for each lock, and one
that overtakes both, reach every recheck after a wait. Symmetry is not used,
since the calls of an instance have different roles. A deadlock of `Lifecycle`
is an error; behaviours end in `Terminated`, when no call is in progress. The
other runs do not check for deadlock: their calls end, or the client, the worker
or the controller at the other end may stop.
Three requests are enough for a chain of two queued ones behind a response, with
the first skipped, and for an ID in two responses at once; the overload close
needs a fourth. In `Responses` three calls give an evaluation a waiter, another
observer and the control that takes it over, and the control's own cell gives a
second evaluation. Two items are the least that can be reordered, or part of
which can be lost: everywhere the worker says one thing and a failure may be the
second, and where a poll meets a follow-up the worker says both (`SpokenOf3`).
In `LaunchOperations` `MaxPending` 2 lets the worker run two events ahead of the
dispatcher, which is what a spooled event needs to be overtaken; `MaxFaults` 1
in both instances tells what follows from a cause from the cause. In `Relay`
frames of size 1 and 3 against a byte limit of 2 are the frame that fits beside
another and the one that is admitted alone; `MaxTurns` 3 bounds what the outside
does. In `Transcript` `MaxEvents` 3 is small enough to overflow with one send.
The passing runs do not combine a restart that changes requirements with a cell
that changes them: that combination reaches the deadlock of `FindPreparation`.

Fairness. Server threads are scheduled; the mutexes are waited for by at most a
few calls that all give way once their generation is gone. Where the steps of an
instance run out, one `WF` of their disjunction (`Lifecycle`, `Launch`, `Relay`)
is weaker than fairness of each thread, and enough. A resolver that was stopped
or interrupted ends, because `ResolverShutdownHandle` kills it. Nothing is
assumed of clients, of workers, of running cells, or of resolvers nobody
stopped. In `Deliveries`, handlers and the service are scheduled, an operation
ends (each call has a deadline), a write succeeds or fails while the client
reads, and the shutdown task runs; a blocked write ends only when a close wakes
it. Nothing makes a client send, cancel or keep reading: `WaitingEnds` promises
nothing after it stopped. In `Responses` the task of each call runs (its waits
have deadlines, and the transport settles each response by its write or by
dropping it), and a cell that is refused, in its grace or retired comes to its
end; a running cell need not. In `Launch` the controller's threads run and
deadlines pass; in `Relay` its threads run, deadlines pass, and a controller
that reads takes the next frame. No property says that a follow-up ends: it
waits for the polls admitted before it, and an idle poll may wait for the worker
lock as long as a cell runs.

## 5. Proofs

The theorems hold for any sets of calls, jobs, streams and faults and any bounds.
They rest on the assumptions of the modules: `ConstantsAssumption` of `Lifecycle`
(the kinds of calls are disjoint, the bounds are naturals, a retirement can be
clean), that of `Deliveries` (the requests are
counted, each has an ID, and the queue admits one), that of `Responses` (calls and
items are counted, and a session says no more than there are items),
`LaunchAssumption` (the jobs, callbacks and faults
are of the kinds that the code knows), `RelayAssumption` (a queue admits at
least one frame of each class), and `TranscriptAssumption` (bounds and
budgets are naturals, and the queue of events and that of calls hold at least
one). Every proof is one lemma per action under one inductive invariant, and one
lemma for what several actions share.

**Lifecycle.** `TypeCorrect` comes first. `SkeletonHolds` says what a program
counter tells: the mode of a call, the locks it holds, the launch it has in hand;
`RestartOwned` that while the state is `Restarting` a restart of the current
generation owns the control token and stands at a label of `Settling`: only
`BeginRestart` and `CommitRestart` enter the state, no other call moves its owner
(the `Keeps` lemmas), and each action of the owner stays in `Settling` or leaves
`Restarting` (the `Settles` lemmas). `LaunchesHold` (`LaunchInv`) says that every
launch but the last is down, and the last one is held by a call, registered, or
cleared by whoever stopped it; `CallInv` says the same from the side of the call.
Most steps are quiet (they touch no launch) and share one lemma; the noisy ones
have their own. `ReplacementBarrier`, `NoOrphanLaunch` and `HandleMatchesWorker`
are its parts; `ClosedLeavesNothing` also needs `ClosedInv`: after a close passed
the worker lock nobody can register a launch that outlives it. `WorkHolds`
(`WorkInv`) says that what a call, a launch and the startup buffer hold belongs
to one generation: cells by where they are (`CellInv`), the target an interrupt
selected (`SelectInv`), input (`InputInv`), and the unused default worker
(`UnusedInv`); `GenerationFence`, `UnusedIsUntouched` and `WithheldNeverRuns`
follow. `InitializesOnce` needs `PermitInv` (who may still use a startup permit),
`FailureReportedFirst` needs `ReportInv` (who is about to report).

**Deliveries.** `IdsOwned` says who owns an ID: the pending reservation of an ID
belongs to a waiting request the service still knows; at most one request
between receipt and visible response carries an ID; a running request is the
active one, and so is an answered one whose response will be forwarded. No part
is inductive alone: `Admit` keeps `Registered` because the call it replaces under
the same ID is past its visible response (`OneBusy`), and `Cancel` keeps it
because a request the service forgot is not forwarded. `CancelledNeverStarts`
and `SettledMeansAnswered` follow, the second with `WritesCounted`.
`DeliveriesKeepContract` is the refinement: `QueueHolds` says of the chain of
admission nodes that what a waiting call can see behind its predecessors is
exactly who it was received behind and is not over. The walk along the chain is
a recursive function; that it finds the last waiting node is proved along the
predecessors, by the least counterexample of a well-founded order
(`NaturalsInduction` itself needs an operator parameter). With the refinement,
what follows from the contract is true of the transport: `OverSettled`, whose
proof needs `OwedWhileRun`, since a skipped call ends without settling anything,
and `OrderKept`, which is inductive because what is over stays over.

**Launch.** After `TypesHold`, five invariants, each about one concern.
`RetirementInv` says where the callers of a retirement are, which of them asks
and which finishes, and what is left of the child; with it every step is a step
of `RetirementContract` or leaves it alone (`RetirementKeepsItsContract`, the
safety part of `KeepsContract`). `EndInv` says what an end implies: a recorded
failure, the closing of the dispatcher, a lost interrupt, a poisoned holder; from
it `ReplaceableIsQuiet`. `EnvironmentInv` says who holds the prepared
environment, what is spooled or suspended, and which callback is open;
`EnvironmentExclusive` and `NobodyForgotten` follow. `CellInv` follows one cell
through admission, command queue, worker, event queue and dispatcher: it is at
one place, and its events follow it in order; hence `NoPanic`. `BarrierInv` says
what may stand ahead of the barrier of retirement in the queue, and gives
`OrderedBarrier`. In the course of it a definition turned out to be partial
(`JoinedResult` was a `CASE` with overlapping guards) and was corrected.

**Relay.** `QueueHolds` proves `QueueBounded`: the queue is charged with the
frames it holds and the one in flight, and admits only within its limits. The
bytes enter the invariant through a witness: each queued frame is given the sum
of the sizes after it. Such a function of suffixes is unique (where two of them
differ, the shortest suffix on which they do contradicts itself), so it is the sum
that `FlushedIsComplete` names (`BytesAreCharged`). What the controller is told
needs an invariant about the whole way of a frame, `Story`. Its first part,
`Flow`, says that the frames that are coming (the one in flight, those queued,
the closing events of the supervisor) can be told one after another, each as a
step that the contract allows, from what is on the wire, and, while the queue
has not failed, up to the `Promise`: what the readers have handed over, the
events the supervisor sent, and, once the threads have ended, every closure, the
failure and the outcome. The contract alone is not inductive, because what is
written was decided when it was queued; with `Flow` every write is the first
step of a story that was already there, and every send appends one. `Stages`
(what has ended when the supervisor is where it is) and `Drained` (what a reader
that has ended has read) make the promise say what it must at the end.
`FlushTellsAll` proves `FlushedIsComplete`, and `RelayKeepsItsContract` that every
step is a step of `RelayContract` or leaves it alone.

**Transcript.** `TypesHold` says more than types: every open interval and every
receipt has its file, and what the holder of the output tape still has to do fits
the intervals that are open (`Base`). `QueueIsAccounted` needs to know what an
update took and has not finished (`Account`). The other invariants are about the
journal together with `Way`, the events that are in the batch of an update or in
the queue. Since any thread may flush, every step of an updater is first shown to
be a `Turn`: it flushes the batch, publishes the files, or finishes one update and
begins another; the invariants are shown of turns once. What a flush does to a
batch is a recursive function, and what it keeps is shown by the least prefix at
which it would fail (`Flushing`). `RecordingInOrder` (`InOrder`) rests on
`InSequence`, that the journal, the batch and the queue are one line of rising
numbers, and on `Complete`, that until a failure they have every number observed
and every byte retained of each file. `RecordedFilesAreComplete` (`FilesComplete`)
needs `Published` (where each file is while another thread moves them), `Ending`
(after the close nothing opens an interval, and when the recording finishes
nothing is open), `Silent` (the last flush has all text and summaries) and
`Recorded` (calls that began are in the journal, and with their results when they
finished). `OnlyFaultsDisable` (`RecordingSurvives`) needs `Sources` and `Known`:
an event of a source is behind the admission of that source, in the journal or on
the way, and nothing of it is behind its end, so no flush meets an event whose
call it does not know. Then the causes of a failure are those of `Surviving`, and
a fault is one only if one was spent.

**Responses.** `OneResponseHolds` and `ReplaysFirst` need to know who may touch a
cell. `Inv` says in `Single` which parts of an evaluation may hold something
together (one that was not retired has a waiter, a response under way or one that
came back, and no hand-off; a retired one has nothing reclaimed), in `CutsFit`
that a cut lies in what was published, in `Joined` that a call which watches a
cell, answers for it or has reserved it finds it so, and in `Apart` that no two
calls do so for one cell. `Moves` is what a step may do to the cells of the
others; with it each action shows its own part only (`CallSteps`), and the steps
that touch no cell share `Quiet`. For `ReplaysFirst`, only a report turns a wait
into an answer (`ReportsAnswer`), and it takes what came back, or nothing did
(`HoldsNothing`). `TypesHold` adds `Counted`: a generation is begun by a call that
never begins another (`NeverBack`), so the calls bound it.

By `OutputContract` an item has a holder exactly while a response carries it
(`CarriedHeld`, inductive because a response leaves its call whole), and therefore
what the client received or an idle poll lost is in no later response
(`OnceReported`): both follow from `KeepsContract`, which TLC checks.

Only TLC checks: all liveness (`ClosedDrains`, `RestartNotBlocked`,
`WaitingEnds`, `SettlingEnds`, `AllAnswered`, and the fairness of the contracts
of retirement and relay), since liveness and `ENABLED` are out of the prover's
reach; and, for want of time rather than of means, the contract of `Responses`,
and `Launch.ConformingCells` and `SidebandInOrder`. Where a proof needs an induction over data (a chain of
nodes, a queue, a batch), it takes the least counterexample in a well-founded
order and unfolds the recursive function there, because the induction theorems of
the library need an operator parameter.

## 6. Properties and the code

- `ReplacementBarrier` (`stop_failed_worker`, `restart_blocking`): a launch is
  created only after every earlier one was retired, and after one that became a
  worker only if its launcher was reaped and its I/O settled.
- `NoOrphanLaunch` (`register_stop_handle`, `startup_failure`): a live launch is
  registered, or in the hands of an unfinished call that retires it.
- `HandleMatchesWorker` (`clear_worker_stop_handle`): when no call owns the
  worker or admission, the handle is exactly the running launch.
- `ClosedLeavesNothing`, `ClosedStaysClosed` (`close_lifecycle`, `shutdown`,
  `finish_restart`): shutdown is final.
- `RestartIsOwned` (`restart_blocking`): no exit abandons `Restarting`.
- `GenerationFence` (`ensure_generation` after every wait): cells and input run
  in the generation that admitted them.
- `WithheldNeverRuns` (`CellAdmission`), `InitializesOnce` (`start_worker`),
  `FailureReportedFirst` (`evaluate_blocking`, `take_idle_response`),
  `UnusedIsUntouched` (`prepare_admitted`).
- `ClosedDrains`, `RestartNotBlocked`: progress.

- `KeepsContract` (`admit`, `cancel`, `finish_operation`, `take_write_delivery`):
  receipt order among waiting calls, and acknowledgments settled once.
- `CancelledNeverStarts` (`cancel`): also when the cancelled ID is still active
  for an earlier response.
- `SettledMeansAnswered` (`settle_before_close`), `WaitingEnds`
  (`wait_for_predecessor`, `skip`), `SettlingEnds` (`wait_for_close`).

- `KeepsContract` of `Responses` (`drain`, `take_output`, `reported_state`,
  `return_unclaimed`): no output is lost or doubled, whoever takes it over.
- `OneResponse` (`track_delivery`, `settle_delivery`): their assertions hold.
- `ReplayedFirst` (`reported_state`): a response that came back precedes later
  output of its cell. Across cells there is no such order: a control's response
  that returns to the tape is reported by whoever drains it next.
- `AllAnswered` (`wait`, `deliver`, `settle_reserved_evaluation`, drop of
  `WaitClaim`): in the end no call waits on a cell and no restart is under way.

- `KeepsContract` of `Launch` (`retire`, `finish_retirement`): one retirement,
  shared by callers with different deadlines.
- `OrderedBarrier` (`retire_operation`, `fail_relay_exit`): a completion queued
  before the barrier counts; the first cause is the recorded one.
- `ReplaceableIsQuiet` (`retire`, `JoinTasks`), with the types.
- `NobodyForgotten` (`startup_failure`, `receive_operation`, `suspend_bootstrap`,
  `InterruptRequests::fail`): each kind of waiter has an answer or someone who
  will give it.
- `EnvironmentExclusive` (`reserve_environment_preparation`,
  `begin_runtime_r_callback`), which includes that nothing resolves before
  readiness was committed; `SidebandInOrder` (`deferred.rs`).
- `ConformingCells`, `NoPanic` (`begin_cell`, `dispatch_cell`,
  `abort_bootstrap_cell`): a worker that keeps its protocol is not failed by how
  its events meet the controller, and the assertions hold.

- `QueueBounded`, `FlushedIsComplete` (`enqueue`, `write`, `cancel_and_join`),
  `KeepsContract` of `Relay` (`finish`, `begin_retirement`).

- `QueueAccounted` (`retained` is kept by three functions), `InOrder` (flushes by
  any thread, merged text), `RecordingSurvives` (`record`, `disable`),
  `FilesComplete` (`publish`, `relocate`, `finalize`).

## 7. Where the code and its documentation differ

Shown by a run:

1. `FindRecovery`. `docs/ARCHITECTURE.md` line 215 requires reaping and settled
   I/O of the failure-recovery barrier. A launch that fails before readiness is
   retired, but what its retirement obtained is not consulted before the next
   launch.
2. `FindPreparation`. The comment at
   `worker_client/environment/preparation.rs` line 115 states that no evaluation
   is active. A restart that changes requirements can detach the evaluation
   while the environment mutex hides the change of generation from the
   preparation; evaluator and preparation then wait for each other, and the
   session no longer reaches its replacement.
3. `FindRecoverTwice`. `OutputTape::recover` asserts that one response can be
   recovered at a time, but two control responses can be on their way to the
   client at once. If neither arrives and nothing drains the tape in between,
   the second return fails the assertion.
4. `FindCancelledSource`. `docs/ARCHITECTURE.md` line 371 says that admitted
   source survives an initial response. A send that began before startup was
   over returns when its request is cancelled while its blocking task runs on;
   the cell it then admits has no recorded call, and the failure to append its
   source disables the whole recording.

Seen while modelling, without a run of their own:

- `docs/ARCHITECTURE.md` line 159 says that an interrupt's follow-up cannot
  silently migrate after a failure. `control.rs` lines 284-288 check the
  connection before the cell waits for admission, so a start that fails in
  between leaves the cell to a new launch of the same generation.
- The comment at `server_transport.rs` line 451 says that a call is registered
  when every earlier gated call has settled. Once an earlier gated call is
  admitted it is no longer the tail of the chain (`prune_admission_tail`,
  `waiting`), so a call queued behind another response does not wait for it.
- `docs/WORKER_PROTOCOL.md` line 166 says that preparations and the callbacks of
  an idle worker share ownership of environment changes. A callback that an idle
  worker sent while a preparation began fails the worker
  (`events/operation.rs` lines 523-531); `ConformingCells` leaves it out.
- A worker that is killed in the middle of a sideband frame can make the relay
  report `worker sideband read failed` as fatal, where `docs/RELAY_PROTOCOL.md`
  line 100 lets incomplete trailing frames be abandoned in a forced retirement.
- What an idle poll drained (`send.rs` lines 477-506) belongs to nobody while its
  response is delivered, and a response that is lost loses it.

## 8. Not modelled

Configuration, command line and client setup, language bridges, sandbox
policies, package wrappers and documentation tooling have no concurrent state of
the program's own; previews and Markdown rendering are layout. The worker
process is seen through its protocol (`Launch`, `Relay`), the resolvers through
their end (`Lifecycle`), and the retry of a failed runtime discovery is left out.
