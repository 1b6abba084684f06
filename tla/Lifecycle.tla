------------------------------ MODULE Lifecycle ------------------------------
(***************************************************************************)
(* Worker lifecycle of one Console session: the lifecycle mutex            *)
(* (LifecycleControl), the worker mutex (WorkerState), the launches that   *)
(* start_worker creates, and the calls that contend for them:              *)
(*   Cells        ordinary sends that run code                             *)
(*   Preparers    the cells and restarts that change requirements first    *)
(*   Polls        ordinary sends that write idle stdin or collect output   *)
(*   Restarters, Interrupters   sends with an inline control, and the cell *)
(*                or input that may follow it                              *)
(*   Prelaunchers the connection's startup task                            *)
(*   Closers      connection shutdown                                      *)
(* One action is what a thread does between two points where another       *)
(* thread can take one of the two mutexes, or where it blocks.             *)
(*                                                                         *)
(* A launch stands for one relay process with its I/O threads; its shared  *)
(* retirement operation is one step with a retained outcome.               *)
(*                                                                         *)
(* A definition that PROJECT.json names as a mutant stands just before the *)
(* one it takes the place of, and is used nowhere else.                    *)
(***************************************************************************)
EXTENDS Naturals, FiniteSets

CONSTANTS Cells, Preparers, Polls, Restarters, Interrupters, Prelaunchers, Closers,
          NoOp,          \* "no call": an absent token, lock owner or handle
          MaxLaunches,   \* bound on the launches of a behaviour
          MaxGeneration, \* bound on explicit restarts
          HasStartup,    \* is a session startup source configured
          UsesR,         \* an R worker, its runtime still to be resolved
          Retirements    \* the outcomes a retirement may have

Controls == Restarters \cup Interrupters
Ops == Cells \cup Polls \cup Controls \cup Prelaunchers \cup Closers
Evaluators == Cells \cup Controls
Launches == 1..MaxLaunches
Generations == 0..MaxGeneration
NoLaunch == 0

ASSUME ConstantsAssumption ==
    /\ NoOp \notin Ops
    /\ Preparers \subseteq Cells \cup Restarters
    /\ Cells \cap (Polls \cup Controls \cup Prelaunchers \cup Closers) = {}
    /\ Polls \cap (Controls \cup Prelaunchers \cup Closers) = {}
    /\ Restarters \cap (Interrupters \cup Prelaunchers \cup Closers) = {}
    /\ Interrupters \cap (Prelaunchers \cup Closers) = {}
    /\ Prelaunchers \cap Closers = {}
    /\ \A p, q \in Prelaunchers : p = q  \* one startup task per connection
    /\ MaxLaunches \in Nat
    /\ MaxGeneration \in Nat
    /\ HasStartup \in BOOLEAN
    /\ UsesR \in BOOLEAN
    /\ "Clean" \in Retirements /\ Retirements \subseteq {"Clean", "Unclean", "BadIO", "Stuck"}

VARIABLES
    state,            \* LifecycleState
    generation,       \* identity of the current generation
    controlled_send,  \* the control call that owns admission
    stop_handle,      \* processes.worker: launch it can retire
    resolver_handle,  \* processes.resolver: call whose resolver it can stop
    startup_owner,    \* calls keeping the startup admission alive
    startup_interrupted,
    startup_permitted,\* the startup source may run
    r_permitted,      \* per generation: no R initialization is unfinished
    startup_failed,   \* a failed prelaunch waits for its observer
    startup_done,     \* the connection's startup result is published
    startup_stdin,    \* generations of the input buffered before launch
    unused_default,   \* the launched default worker is still unused
    env_pending,      \* the R runtime of the environment is unresolved
    active,           \* evaluation slot
    admission,        \* admission lock: [readers, writer]
    preparation,      \* preparation lock: [readers, writer]
    worker_lock,      \* owner of the worker mutex
    worker,           \* WorkerState: "Initial", "Stopped" or "Running"
    running,          \* launch of a Running worker
    launch,           \* the launches
    launched,         \* how many launches exist
    cancelled,        \* calls whose resolver was stopped or interrupted
    op                \* control state of every call

lifecycle == <<state, generation, controlled_send, stop_handle, resolver_handle,
               startup_owner, startup_interrupted>>
startup == <<startup_permitted, r_permitted, startup_failed, startup_done,
             startup_stdin, unused_default, env_pending>>
locks == <<admission, preparation>>
session == <<active, locks>>
process == <<worker, running, launch, launched>>
vars == <<lifecycle, startup, session, worker_lock, process, cancelled, op>>

States == {"Ready", "Restarting", "ShuttingDown"}
Modes == {"None", "Cell", "Replacement", "Stdin", "Poll", "Prelaunch", "Restart",
          "Prepare", "Activate"}
Phases == {"None", "Pending", "Dispatched", "Withheld"}
CellOutcomes == {"None", "Completed", "Failed"}

(* Where a call is: sends and cells, start_worker, stop_failed_worker, the *)
(* startup task, requirements, restart, interrupt and shutdown.            *)
Labels ==
    {"idle", "admitted", "evaluate", "lock", "dispatch", "running", "completed", "lock_stdin",
     "write", "poll", "lock_poll", "return", "done"} \cup
    {"reserve", "environment", "resolve", "resolving", "spawn", "register", "await_ready",
     "on_ready", "ready_commit", "retire_start", "start_failed"} \cup
    {"stop_failed", "stopping", "stopped", "replace"} \cup
    {"prelaunch", "prelaunch_lock", "launched", "launch_failed", "finish_startup"} \cup
    {"check", "prepare", "prepare_resolve", "preparing", "prepared", "start"} \cup
    {"restart", "restart_resolving", "restart_commit", "restart_committed", "shutdown",
     "replace_worker", "settle", "retire_worker", "fail_restart", "finish_restart", "restarted",
     "follow_up"} \cup
    {"interrupt", "interrupted", "grace", "continue", "continue_cell", "standalone",
     "startup_stdin"} \cup
    {"close", "close_worker"}

LaunchRecord ==
    [gen : Generations, live : BOOLEAN, ready : BOOLEAN, committed : BOOLEAN,
     failed : BOOLEAN, cleanup : Retirements \cup {"None"}, r_init : {"No", "Begun", "Complete"},
     stdin : SUBSET Generations]

(* target, resolver: the processes a call is starting or retiring;         *)
(* selected: the connection an interrupt selected; ready: a restart        *)
(* produced a ready replacement.                                           *)
OpRecord ==
    [pc : Labels, mode : Modes, gen : Generations, target : Launches \cup {NoLaunch},
     resolver : Ops \cup {NoOp},
     selected : Launches \cup {NoLaunch}, ready : BOOLEAN,
     phase : Phases, outcome : CellOutcomes,
     ran_on : Launches \cup {NoLaunch}]

LifecycleTypes ==
    /\ state \in States
    /\ generation \in Generations
    /\ controlled_send \in Controls \cup {NoOp}
    /\ stop_handle \in Launches \cup {NoLaunch}
    /\ resolver_handle \in Ops \cup {NoOp}
    /\ startup_owner \subseteq Ops
    /\ startup_interrupted \in BOOLEAN
StartupTypes ==
    /\ startup_permitted \in BOOLEAN
    /\ r_permitted \in [Generations -> BOOLEAN]
    /\ startup_failed \in BOOLEAN
    /\ startup_done \in BOOLEAN
    /\ startup_stdin \subseteq Generations
    /\ unused_default \in BOOLEAN
    /\ env_pending \in BOOLEAN
SessionTypes ==
    /\ active \in Evaluators \cup {NoOp}
    /\ admission \in [readers : SUBSET Ops, writer : Controls \cup {NoOp}]
    /\ preparation \in [readers : SUBSET Ops, writer : Cells \cup {NoOp}]
    /\ worker_lock \in Ops \cup {NoOp}
ProcessTypes ==
    /\ worker \in {"Initial", "Stopped", "Running"}
    /\ running \in Launches \cup {NoLaunch}
    /\ launch \in [Launches -> LaunchRecord]
    /\ launched \in 0..MaxLaunches
OpTypes ==
    /\ cancelled \subseteq Ops
    /\ op \in [Ops -> OpRecord]
TypeOK == LifecycleTypes /\ StartupTypes /\ SessionTypes /\ ProcessTypes /\ OpTypes

Init ==
    /\ state = "Ready"
    /\ generation = 0
    /\ controlled_send = NoOp
    /\ stop_handle = NoLaunch
    /\ resolver_handle = NoOp
    /\ startup_owner = Prelaunchers
    /\ startup_interrupted = FALSE
    /\ startup_permitted = TRUE
    /\ r_permitted = [g \in Generations |-> TRUE]
    /\ startup_failed = FALSE
    /\ startup_done = (Prelaunchers = {})
    /\ startup_stdin = {}
    /\ unused_default = ~HasStartup
    /\ env_pending = UsesR
    /\ active = NoOp
    /\ admission = [readers |-> {}, writer |-> NoOp]
    /\ preparation = [readers |-> {}, writer |-> NoOp]
    /\ worker_lock = NoOp
    /\ worker = "Initial"
    /\ running = NoLaunch
    /\ launch = [l \in Launches |->
                   [gen |-> 0, live |-> FALSE, ready |-> FALSE, committed |-> FALSE,
                    failed |-> FALSE, cleanup |-> "None", r_init |-> "No", stdin |-> {}]]
    /\ launched = 0
    /\ cancelled = {}
    /\ op = [o \in Ops |->
               [pc |-> "idle", mode |-> "None", gen |-> 0, target |-> NoLaunch,
                resolver |-> NoOp, selected |-> NoLaunch, ready |-> FALSE, phase |-> "None",
                outcome |-> "None", ran_on |-> NoLaunch]]

-----------------------------------------------------------------------------
(* Guards of LifecycleControl.                                             *)

Current(o) == op[o].gen = generation
ReadyOfAnyGeneration(o) == state = "Ready"
ensure_generation(o) == state = "Ready" /\ Current(o)
ensure_ordinary_generation(o) == ensure_generation(o) /\ controlled_send = NoOp
ensure_controlled_generation(o) == ensure_generation(o) /\ controlled_send = o
ensure_startup(o) == Current(o) /\ state # "ShuttingDown" /\ ~startup_interrupted

At(o, label) == op[o].pc = label
Goto(o, label) == op' = [op EXCEPT ![o].pc = label]

(* Dropping the last Arc of a startup admission clears the startup.        *)
DropStartup(o) ==
    /\ startup_owner' = startup_owner \ {o}
    /\ startup_interrupted' = (startup_interrupted /\ startup_owner' # {})

(* reserve_worker_startup after ensure_startup: join or create the owner.  *)
ReserveStartup(o) ==
    /\ startup_owner' = IF stop_handle = NoLaunch THEN startup_owner \cup {o} ELSE startup_owner
    /\ UNCHANGED startup_interrupted

Release(lock, o) == [readers |-> lock.readers \ {o},
                     writer |-> IF lock.writer = o THEN NoOp ELSE lock.writer]

(* What a call gives back when it returns: lock guards and its token.      *)
ReleaseAdmission(o) ==
    /\ admission' = Release(admission, o)
    /\ preparation' = Release(preparation, o)
    /\ controlled_send' = IF controlled_send = o THEN NoOp ELSE controlled_send

\* mutant of Retired: a launch whose outcome was told is never marked retired
Signalled(l, outcome) == launch

(* The shared retirement operation of a launch: the first caller obtains   *)
(* the outcome, later callers observe it. "Clean" settles process and I/O; *)
(* "Unclean" fails cleanup of a reaped launcher; "BadIO" cleans up but     *)
(* does not settle the I/O; "Stuck" never reaps the launcher.              *)
Retired(l, outcome) ==
    IF l # NoLaunch /\ launch[l].live
    THEN [launch EXCEPT ![l].live = FALSE, ![l].cleanup = outcome]
    ELSE launch
Outcomes(l) ==
    IF l = NoLaunch THEN {"Clean"}
    ELSE IF launch[l].live THEN Retirements ELSE {launch[l].cleanup}
process_result(cleanup) == cleanup \in {"Clean", "BadIO"}
can_replace_reaped(cleanup) == cleanup # "Stuck"
can_replace(cleanup) == cleanup \in {"Clean", "Unclean"}
(* WorkerState::finish_retirement: only settled I/O makes it Stopped.      *)
IoResults(cleanup) == IF cleanup = "Stuck" THEN BOOLEAN ELSE {cleanup # "BadIO"}

-----------------------------------------------------------------------------
(* Admission of ordinary sends.                                            *)

WriteAdmission(o) == admission' = [admission EXCEPT !.writer = o]
ReadAdmission(o) == admission' = [admission EXCEPT !.readers = @ \cup {o}]

(* admit_operation and admit: read admission and the current generation.   *)
(* Requirements wait for startup; those of an earlier cell go with it.     *)
Admit(o) ==
    /\ o \in Cells \cup Polls
    /\ At(o, "idle")
    /\ o \in Preparers => startup_done
    /\ admission.writer = NoOp
    /\ state = "Ready" /\ controlled_send = NoOp
    /\ ReadAdmission(o)
    /\ op' = [op EXCEPT ![o].pc = "admitted", ![o].gen = generation]
    /\ UNCHANGED <<lifecycle, startup, active, preparation, worker_lock, process, cancelled>>

Unlock(o) == worker_lock' = IF worker_lock = o THEN NoOp ELSE worker_lock

(* A send returns: it drops every guard it holds and changes nothing else. *)
Refuse(o) ==
    /\ ReleaseAdmission(o)
    /\ DropStartup(o)
    /\ Unlock(o)
    /\ Goto(o, "done")
    /\ UNCHANGED <<state, generation, stop_handle, resolver_handle, startup, active,
                   process, cancelled>>

(* start_evaluation_admitted: publish the evaluation under its mutex, with *)
(* the startup admission of a worker that does not exist yet. The caller's *)
(* guards are released when it returns.                                    *)
PublishEvaluation(o) ==
    /\ active' = o
    /\ ReserveStartup(o)
    /\ ReleaseAdmission(o)
    /\ op' = [op EXCEPT ![o].pc = "evaluate", ![o].mode = "Cell", ![o].phase = "Pending"]
    /\ UNCHANGED <<state, generation, stop_handle, resolver_handle, startup, worker_lock,
                   process, cancelled>>

StartEvaluation(o) ==
    /\ o \in Cells \ Preparers
    /\ At(o, "admitted")
    /\ IF /\ preparation.writer = NoOp
          /\ ensure_ordinary_generation(o)
          /\ active = NoOp
          /\ ensure_startup(o)
       THEN PublishEvaluation(o)
       ELSE Refuse(o)

(* The active evaluation completed and its response was delivered:         *)
(* reap_delivered_completion empties the slot.                             *)
Reap ==
    /\ active # NoOp
    /\ op[active].pc \in {"completed", "done"}
    /\ active' = NoOp
    /\ UNCHANGED <<lifecycle, startup, locks, worker_lock, process, cancelled, op>>

-----------------------------------------------------------------------------
(* evaluate_blocking                                                       *)

(* complete_cell: the first outcome stays.                                 *)
CompleteCell(o, outcome, label) ==
    op' = [op EXCEPT ![o].outcome = IF @ = "None" THEN outcome ELSE @, ![o].pc = label]

StartupAwaited(o) == At(o, "evaluate") /\ startup_done

\* mutant of EvaluateBlocking: the failed prelaunch is not reported
EvaluateUnreported(o) ==
    /\ o \in Evaluators
    /\ StartupAwaited(o)
    /\ IF ~ensure_generation(o)
       THEN DropStartup(o) /\ CompleteCell(o, "Failed", "done")
       ELSE UNCHANGED <<startup_owner, startup_interrupted>> /\ Goto(o, "lock")
    /\ UNCHANGED <<state, generation, controlled_send, stop_handle, resolver_handle,
                   startup_permitted, r_permitted, startup_failed, startup_done,
                   startup_stdin, unused_default, env_pending, session, worker_lock, process,
                   cancelled>>

(* The evaluator waits for startup, then rechecks its generation and a     *)
(* prelaunch failure that this cell must report instead of running.        *)
EvaluateBlocking(o) ==
    /\ o \in Evaluators
    /\ StartupAwaited(o)
    /\ LET fails == ~ensure_generation(o)
           reports == ~fails /\ startup_failed
       IN /\ startup_failed' = (startup_failed /\ ~reports)
          /\ IF fails \/ reports
             THEN /\ DropStartup(o)
                  /\ CompleteCell(o, IF fails THEN "Failed" ELSE "Completed", "done")
             ELSE /\ UNCHANGED <<startup_owner, startup_interrupted>>
                  /\ Goto(o, "lock")
    /\ UNCHANGED <<state, generation, controlled_send, stop_handle, resolver_handle,
                   startup_permitted, r_permitted, startup_done, startup_stdin,
                   unused_default, env_pending, session, worker_lock, process, cancelled>>

(* evaluate_with_worker takes the worker and rechecks the generation.      *)
LockForCell(o) ==
    /\ o \in Evaluators
    /\ At(o, "lock")
    /\ worker_lock = NoOp
    /\ IF ensure_generation(o)
       THEN /\ worker_lock' = o
            /\ Goto(o, "reserve")
            /\ UNCHANGED <<startup_owner, startup_interrupted>>
       ELSE /\ CompleteCell(o, "Failed", "done")
            /\ DropStartup(o)
            /\ UNCHANGED worker_lock
    /\ UNCHANGED <<state, generation, controlled_send, stop_handle, resolver_handle,
                   startup, session, process, cancelled>>

Broken(l) == launch[l].failed \/ ~launch[l].live

(* Work given to the launched default worker makes it used.                *)
StillUnused(given) == UNCHANGED unused_default
UseDefault(given) == unused_default' = (unused_default /\ ~given)

Sendable(o) == op[o].phase # "Dispatched"
Pending(o) == op[o].phase = "Pending"

(* Worker::evaluate up to dispatch_cell: a broken connection fails the     *)
(* cell, a withheld cell completes without being sent, otherwise Evaluate  *)
(* is queued once.                                                         *)
Dispatch(o) ==
    /\ o \in Evaluators
    /\ At(o, "dispatch")
    /\ UseDefault(TRUE)
    /\ \/ /\ Broken(running)
          /\ CompleteCell(o, "Failed", "stop_failed")
       \/ /\ ~Broken(running)
          /\ ~Pending(o)
          /\ CompleteCell(o, "Completed", "completed")
       \/ /\ ~Broken(running)
          /\ Pending(o)
          /\ op' = [op EXCEPT ![o].pc = "running", ![o].phase = "Dispatched",
                             ![o].ran_on = running]
    /\ UNCHANGED <<lifecycle, startup_permitted, r_permitted, startup_failed, startup_done,
                   startup_stdin, env_pending, session, worker_lock, process, cancelled>>

(* The dispatcher completes the evaluation before its evaluator returns.   *)
CellCompletes(o) ==
    /\ o \in Evaluators
    /\ At(o, "running")
    /\ ~Broken(running)
    /\ CompleteCell(o, "Completed", "completed")
    /\ UNCHANGED <<lifecycle, startup, session, worker_lock, process, cancelled>>

CellFails(o) ==
    /\ o \in Evaluators
    /\ At(o, "running")
    /\ Broken(running)
    /\ CompleteCell(o, "Failed", "stop_failed")
    /\ UNCHANGED <<lifecycle, startup, session, worker_lock, process, cancelled>>

(* The evaluator returns and releases the worker.                          *)
EvaluateReturns(o) ==
    /\ o \in Evaluators
    /\ At(o, "completed")
    /\ worker_lock' = NoOp
    /\ DropStartup(o)
    /\ Goto(o, "done")
    /\ UNCHANGED <<state, generation, controlled_send, stop_handle, resolver_handle,
                   startup, session, process, cancelled>>

-----------------------------------------------------------------------------
(* start_worker, called with the worker mutex held.                        *)

(* Where a call continues once its worker runs.                            *)
AfterStart(mode) ==
    CASE mode = "Cell"        -> "dispatch"
      [] mode = "Replacement" -> "completed"
      [] mode = "Stdin"       -> "write"
      [] mode = "Prelaunch"   -> "launched"
      [] OTHER                -> "finish_restart"

Holds(o, label) == worker_lock = o /\ At(o, label)

(* The guards that go with start_worker's caller when it is done starting. *)
ReleaseStarter(o) ==
    /\ worker_lock' = IF op[o].mode \in {"Prelaunch", "Restart"} THEN NoOp ELSE worker_lock
    /\ preparation' = IF op[o].mode \in {"Prelaunch", "Replacement"}
                      THEN Release(preparation, o) ELSE preparation

(* The environment mutex is held while a call starts a worker, resolves a  *)
(* candidate or commits a restart with requirements.                       *)
HoldsEnvironment(o) ==
    \/ op[o].pc \in {"resolve", "resolving", "spawn", "register", "await_ready", "on_ready",
                     "ready_commit", "retire_start", "prepare_resolve", "preparing", "prepared",
                     "restart_resolving", "restart_commit", "restart_committed"}
    \/ op[o].pc \in {"stop_failed", "stopping", "stopped"} /\ op[o].mode = "Prepare"
EnvironmentFree == \A o \in Ops : ~HoldsEnvironment(o)

(* A Running worker is used as it is; otherwise reserve_worker_startup.    *)
ReserveWorkerStartup(o) ==
    /\ Holds(o, "reserve")
    /\ \/ /\ worker = "Running"
          /\ op' = [op EXCEPT ![o].pc = AfterStart(op[o].mode),
                             ![o].ready = (op[o].mode = "Restart")]
          /\ ReleaseStarter(o)
          /\ UNCHANGED <<startup_owner, startup_interrupted>>
       \/ /\ worker # "Running"
          /\ ~ensure_startup(o)
          /\ Goto(o, "start_failed")
          /\ UNCHANGED <<startup_owner, startup_interrupted, worker_lock, preparation>>
       \/ /\ worker # "Running"
          /\ ensure_startup(o)
          /\ ReserveStartup(o)
          /\ Goto(o, "environment")
          /\ UNCHANGED <<worker_lock, preparation>>
    /\ UNCHANGED <<state, generation, controlled_send, stop_handle, resolver_handle,
                   startup, active, admission, process, cancelled>>

LockEnvironment(o) ==
    /\ Holds(o, "environment")
    /\ EnvironmentFree
    /\ Goto(o, IF env_pending THEN "resolve" ELSE "spawn")
    /\ UNCHANGED <<lifecycle, startup, session, worker_lock, process, cancelled>>

(* register_resolver_stop_handle: a refused resolver is stopped.           *)
RegisterResolver(o, admitted, refused) ==
    IF ensure_startup(o)
    THEN resolver_handle' = o /\ cancelled' = cancelled \ {o} /\ Goto(o, admitted)
    ELSE UNCHANGED <<resolver_handle, cancelled>> /\ Goto(o, refused)

(* clear_resolver_stop_handle.                                             *)
ClearResolver(o) ==
    resolver_handle' = IF Current(o) \/ state = "ShuttingDown" THEN NoOp ELSE resolver_handle

ResolvePrestart(o) ==
    /\ Holds(o, "resolve")
    /\ RegisterResolver(o, "resolving", "start_failed")
    /\ UNCHANGED <<state, generation, controlled_send, stop_handle, startup_owner,
                   startup_interrupted, startup, session, worker_lock, process>>

(* The resolver ends; only an uncancelled result that still passes         *)
(* ensure_startup becomes the environment.                                 *)
ResolvedPrestart(o) ==
    /\ Holds(o, "resolving")
    /\ ClearResolver(o)
    /\ \E resolved \in {TRUE, FALSE} :
          /\ resolved => o \notin cancelled
          /\ IF resolved /\ ensure_startup(o)
             THEN env_pending' = FALSE /\ Goto(o, "spawn")
             ELSE UNCHANGED env_pending /\ Goto(o, "start_failed")
    /\ UNCHANGED <<state, generation, controlled_send, stop_handle, startup_owner,
                   startup_interrupted, startup_permitted, r_permitted, startup_failed,
                   startup_done, startup_stdin, unused_default, session, worker_lock,
                   process, cancelled>>

(* A launched initializer may already have had external effects: the       *)
(* startup source runs once per permit, R once per generation unless it    *)
(* completed.                                                              *)
RPermitted(o) == r_permitted[op[o].gen]
SourcePermitted(o) == HasStartup => startup_permitted
Permitted(o) == RPermitted(o) /\ SourcePermitted(o)

(* Then WorkerRuntime::spawn creates the launch, or fails.                 *)
Spawn(o) ==
    /\ Holds(o, "spawn")
    /\ startup_permitted' = (startup_permitted /\ ~HasStartup)
    /\ \/ /\ Permitted(o)
          /\ launched < MaxLaunches
          /\ launched' = launched + 1
          /\ launch' = [launch EXCEPT ![launched + 1].gen = op[o].gen,
                                      ![launched + 1].live = TRUE]
          /\ op' = [op EXCEPT ![o].pc = "register", ![o].target = launched + 1]
       \/ /\ Goto(o, "start_failed")
          /\ UNCHANGED <<launch, launched>>
    /\ UNCHANGED <<lifecycle, r_permitted, startup_failed, startup_done, startup_stdin,
                   unused_default, env_pending, session, worker_lock, worker, running,
                   cancelled>>

(* on_started: register_stop_handle or register_restart_stop_handle, which *)
(* hands interrupt ownership from the startup admission to the launch.     *)
CanRegister(o) ==
    /\ ~startup_interrupted
    /\ IF op[o].mode = "Restart" THEN state = "Restarting" ELSE ensure_generation(o)

RegisterStopHandle(o) ==
    /\ Holds(o, "register")
    /\ IF CanRegister(o)
       THEN /\ stop_handle' = op[o].target
            /\ startup_owner' = {}
            /\ startup_interrupted' = FALSE
            /\ Goto(o, "await_ready")
            /\ IF op[o].mode = "Restart"
               THEN UNCHANGED <<launch, startup_stdin, unused_default>>
               ELSE /\ launch' = [launch EXCEPT ![op[o].target].stdin = startup_stdin]
                    /\ UseDefault(startup_stdin # {})
                    /\ startup_stdin' = {}
       ELSE /\ Goto(o, "retire_start")
            /\ UNCHANGED <<stop_handle, startup_owner, startup_interrupted, launch,
                           startup_stdin, unused_default>>
    /\ UNCHANGED <<state, generation, controlled_send, resolver_handle, startup_permitted,
                   r_permitted, startup_failed, startup_done, env_pending, session,
                   worker_lock, worker, running, launched, cancelled>>

(* The launch's first startup result: its Ready, or its failure.           *)
AwaitReady(o) ==
    /\ Holds(o, "await_ready")
    /\ \/ launch[op[o].target].ready /\ Goto(o, "on_ready")
       \/ ~launch[op[o].target].ready /\ Broken(op[o].target) /\ Goto(o, "retire_start")
    /\ UNCHANGED <<lifecycle, startup, session, worker_lock, process, cancelled>>

(* finish_restart: Restarting becomes Ready for the restart's generation.  *)
FinishLateRestart(o) == state' = IF Current(o) THEN "Ready" ELSE state
FinishRestart(o) ==
    state' = IF Current(o) /\ state = "Restarting" THEN "Ready" ELSE state
RestartFinished(o) == ~Current(o) \/ state # "ShuttingDown"

(* on_ready commits a restart to the lifecycle before its launch runs.     *)
OnReady(o) ==
    /\ Holds(o, "on_ready")
    /\ IF op[o].mode = "Restart" THEN FinishRestart(o) ELSE UNCHANGED state
    /\ Goto(o, IF op[o].mode = "Restart" /\ ~RestartFinished(o)
               THEN "retire_start" ELSE "ready_commit")
    /\ UNCHANGED <<generation, controlled_send, stop_handle, resolver_handle, startup_owner,
                   startup_interrupted, startup, session, worker_lock, process, cancelled>>

(* ReadyCommit: the commit loses to a retirement that was requested first. *)
ReadyCommit(o) ==
    /\ Holds(o, "ready_commit")
    /\ \/ /\ launch[op[o].target].live
          /\ launch' = [launch EXCEPT ![op[o].target].committed = TRUE]
          /\ worker' = "Running"
          /\ running' = op[o].target
          /\ op' = [op EXCEPT ![o].pc = AfterStart(op[o].mode), ![o].target = NoLaunch,
                             ![o].ready = (op[o].mode = "Restart")]
          /\ ReleaseStarter(o)
       \/ /\ ~launch[op[o].target].live
          /\ Goto(o, "retire_start")
          /\ UNCHANGED <<launch, worker, running, worker_lock, preparation>>
    /\ UNCHANGED <<lifecycle, startup, active, admission, launched, cancelled>>

ForgetFailedStart(o) ==
    /\ Holds(o, "retire_start")
    /\ op' = [op EXCEPT ![o].pc = "start_failed", ![o].target = NoLaunch]
    /\ UNCHANGED <<lifecycle, startup, session, worker_lock, process, cancelled>>

(* startup_failure retires the launch before start_worker returns.         *)
RetireFailedStart(o) ==
    /\ Holds(o, "retire_start")
    /\ \E outcome \in Outcomes(op[o].target) : launch' = Retired(op[o].target, outcome)
    /\ op' = [op EXCEPT ![o].pc = "start_failed", ![o].target = NoLaunch]
    /\ UNCHANGED <<lifecycle, startup, session, worker_lock, worker, running, launched,
                   cancelled>>

(* A poll goes on to collect after its input; a control's input ends it,   *)
(* or is followed by the interrupt's grace.                                *)
AfterStdin(o) == CASE o \in Polls -> "poll"
                   [] o \in Interrupters -> "grace"
                   [] OTHER -> "return"
AfterStdinFailure(o) == IF o \in Polls /\ ensure_generation(o) THEN "poll" ELSE "return"

(* clear_worker_stop_handle for ordinary callers, clear_restart_stop_handle *)
(* for a restart.                                                          *)
KeepStopHandle(o) == UNCHANGED stop_handle
ClearStopHandle(o) ==
    LET ready == IF op[o].mode = "Restart" THEN state = "Restarting" ELSE ensure_generation(o)
    IN stop_handle' = IF ready THEN NoLaunch ELSE stop_handle

(* The caller of a failed start_worker clears the handle its registration  *)
(* left, and returns.                                                      *)
StartFailed(o) ==
    /\ Holds(o, "start_failed")
    /\ ClearStopHandle(o)
    /\ IF op[o].mode = "Prelaunch" THEN UNCHANGED <<startup_owner, startup_interrupted>>
                                  ELSE DropStartup(o)
    /\ worker_lock' = NoOp
    /\ preparation' = IF op[o].mode \in {"Prelaunch", "Replacement"}
                      THEN Release(preparation, o) ELSE preparation
    /\ CASE op[o].mode \in {"Cell", "Replacement"} -> CompleteCell(o, "Failed", "done")
         [] op[o].mode = "Stdin" -> Goto(o, AfterStdinFailure(o))
         [] op[o].mode = "Prelaunch" -> Goto(o, "launch_failed")
         [] OTHER ->
              op' = [op EXCEPT ![o].pc = "finish_restart", ![o].ready = FALSE]
    /\ UNCHANGED <<state, generation, controlled_send, resolver_handle, startup, active,
                   admission, process, cancelled>>

-----------------------------------------------------------------------------
(* stop_failed_worker, called with the worker mutex held. target keeps the *)
(* retired launch until the lifecycle is locked again.                     *)

(* The call gives the worker up: a cell is failed, other calls return.     *)
StopReturns(o) ==
    /\ worker_lock' = NoOp
    /\ DropStartup(o)
    /\ IF op[o].mode = "Cell"
       THEN op' = [op EXCEPT ![o].outcome = IF @ = "None" THEN "Failed" ELSE @,
                             ![o].pc = "done", ![o].target = NoLaunch]
       ELSE op' = [op EXCEPT ![o].pc = IF op[o].mode = "Stdin" THEN AfterStdinFailure(o)
                                                              ELSE "return",
                             ![o].target = NoLaunch]

(* A restart or shutdown that changed the lifecycle owns the worker.       *)
StopFailedWorker(o) ==
    /\ Holds(o, "stop_failed")
    /\ IF ensure_generation(o)
       THEN /\ op' = [op EXCEPT ![o].pc = "stopping", ![o].target = running,
                              ![o].resolver = resolver_handle]
            /\ UNCHANGED <<worker_lock, startup_owner, startup_interrupted>>
       ELSE StopReturns(o)
    /\ UNCHANGED <<state, generation, controlled_send, stop_handle, resolver_handle, startup,
                   session, process, cancelled>>

(* The stop handle of a resolver makes its call give up.                   *)
LeaveResolver(o) == UNCHANGED cancelled
StopResolver(o) == cancelled' = cancelled \cup ({op[o].resolver} \ {NoOp})

(* request_shutdown of the registered processes, then stop_failed.         *)
StopFailed(o) ==
    /\ Holds(o, "stopping")
    /\ \E outcome \in Outcomes(running) : launch' = Retired(running, outcome)
    /\ worker' = "Stopped"
    /\ running' = NoLaunch
    /\ StopResolver(o)
    /\ Goto(o, "stopped")
    /\ UNCHANGED <<lifecycle, startup, session, worker_lock, launched>>

(* Back under the lifecycle mutex. A reaped launch with settled I/O frees  *)
(* the handle; an unconfirmed one closes the session. Only an error-free   *)
(* stop goes on, to the automatic replacement or the preparation's commit; *)
(* a resolver that could not be stopped is an error.                       *)
FailedWorkerStopped(o) ==
    /\ Holds(o, "stopped")
    /\ LET cleanup == launch[op[o].target].cleanup
           current == ensure_generation(o)
       IN /\ stop_handle' = IF current /\ can_replace(cleanup) THEN NoLaunch ELSE stop_handle
          /\ state' = IF current /\ ~can_replace(cleanup) THEN "ShuttingDown" ELSE state
          /\ \E requested \in {TRUE} \cup {op[o].resolver = NoOp} :
             IF current /\ cleanup = "Clean" /\ requested /\ op[o].mode \in {"Cell", "Prepare"}
             THEN /\ op' = [op EXCEPT ![o].pc = IF op[o].mode = "Cell" THEN "replace"
                                                                     ELSE "prepared",
                                     ![o].target = NoLaunch]
                  /\ worker' = IF op[o].mode = "Prepare" THEN "Initial" ELSE worker
                  /\ UNCHANGED <<worker_lock, startup_owner, startup_interrupted>>
             ELSE /\ StopReturns(o)
                  /\ UNCHANGED worker
    /\ UNCHANGED <<generation, controlled_send, resolver_handle, startup, session, running,
                   launch, launched, cancelled>>

(* start_replacement, under a read reservation of preparation.             *)
StartReplacement(o) ==
    /\ Holds(o, "replace")
    /\ preparation.writer = NoOp
    /\ preparation' = [preparation EXCEPT !.readers = @ \cup {o}]
    /\ op' = [op EXCEPT ![o].pc = "reserve", ![o].mode = "Replacement"]
    /\ UNCHANGED <<lifecycle, startup, active, admission, worker_lock, process, cancelled>>

-----------------------------------------------------------------------------
(* Idle stdin and polls.                                                   *)

(* queue_startup_stdin: to the registered launch or the startup buffer.    *)
QueueStartupStdin(o, stdin) ==
    LET queue == stdin /\ ensure_startup(o)
        direct == queue /\ stop_handle # NoLaunch
    IN /\ startup_stdin' = IF queue /\ ~direct THEN startup_stdin \cup {op[o].gen}
                                              ELSE startup_stdin
       /\ launch' = IF direct /\ launch[stop_handle].live
                    THEN [launch EXCEPT ![stop_handle].stdin = @ \cup {op[o].gen}]
                    ELSE launch
       /\ UseDefault(direct)

(* send_inner without a cell: an active evaluation serves the call itself. *)
(* Before startup finished its input is queued, and it waits unreserved.   *)
StartPoll(o) ==
    /\ o \in Polls
    /\ At(o, "admitted")
    /\ IF active # NoOp \/ preparation.writer # NoOp \/ ~ensure_ordinary_generation(o)
       THEN Refuse(o)
       ELSE /\ \E stdin \in BOOLEAN :
                 IF startup_done
                 THEN /\ preparation' = [preparation EXCEPT !.readers = @ \cup {o}]
                      /\ op' = [op EXCEPT ![o].pc = IF stdin THEN "lock_stdin" ELSE "poll",
                                         ![o].mode = IF stdin THEN "Stdin" ELSE "Poll"]
                      /\ UNCHANGED <<admission, startup_stdin, launch, unused_default>>
                 ELSE /\ admission' = Release(admission, o)
                      /\ UNCHANGED preparation
                      /\ op' = [op EXCEPT ![o].pc = IF stdin /\ ~ensure_startup(o)
                                                    THEN "return" ELSE "poll",
                                         ![o].mode = "Poll"]
                      /\ QueueStartupStdin(o, stdin)
            /\ UNCHANGED <<lifecycle, startup_permitted, r_permitted, startup_failed,
                           startup_done, env_pending, active, worker_lock, worker, running,
                           launched, cancelled>>

(* with_worker: lock the worker, recheck the generation, start it.         *)
LockForStdin(o) ==
    /\ At(o, "lock_stdin")
    /\ worker_lock = NoOp
    /\ IF ensure_generation(o)
       THEN worker_lock' = o /\ Goto(o, "reserve")
       ELSE UNCHANGED worker_lock /\ Goto(o, "return")
    /\ UNCHANGED <<lifecycle, startup, session, process, cancelled>>

(* write_stdin: a broken connection stops the worker.                      *)
WriteStdin(o) ==
    /\ Holds(o, "write")
    /\ UseDefault(TRUE)
    /\ \/ /\ launch[running].live
          /\ launch' = [launch EXCEPT ![running].stdin = @ \cup {op[o].gen}]
          /\ worker_lock' = NoOp
          /\ Goto(o, AfterStdin(o))
       \/ /\ Broken(running)
          /\ Goto(o, "stop_failed")
          /\ UNCHANGED <<launch, worker_lock>>
    /\ UNCHANGED <<lifecycle, startup_permitted, r_permitted, startup_failed, startup_done,
                   startup_stdin, env_pending, session, worker, running, launched, cancelled>>

(* take_idle_response before it locks the worker.                          *)
TakeIdleResponse(o) ==
    /\ At(o, "poll")
    /\ o \in Polls => startup_done \/ active # NoOp
    /\ LET takes == active = NoOp /\ ensure_generation(o)
       IN /\ startup_failed' = (startup_failed /\ ~takes)
          /\ op' = [op EXCEPT ![o].pc = IF takes /\ ~startup_failed THEN "lock_poll"
                                                                   ELSE "return",
                             ![o].mode = "Poll"]
    /\ UNCHANGED <<lifecycle, startup_permitted, r_permitted, startup_done, startup_stdin,
                   unused_default, env_pending, session, worker_lock, process, cancelled>>

(* The idle snapshot of a failed worker stops it.                          *)
LockForPoll(o) ==
    /\ At(o, "lock_poll")
    /\ worker_lock = NoOp
    /\ IF ensure_generation(o) /\ worker = "Running" /\ launch[running].failed
       THEN worker_lock' = o /\ Goto(o, "stop_failed")
       ELSE UNCHANGED worker_lock /\ Goto(o, "return")
    /\ UNCHANGED <<lifecycle, startup, session, process, cancelled>>

(* The call returns and drops its guards.                                  *)
Return(o) ==
    /\ At(o, "return")
    /\ Refuse(o)

-----------------------------------------------------------------------------
(* The connection's startup task after discovery: prelaunch.               *)

Prelaunch(o) ==
    /\ o \in Prelaunchers
    /\ At(o, "idle")
    /\ \/ /\ ensure_startup(o)
          /\ op' = [op EXCEPT ![o].pc = "prelaunch", ![o].mode = "Prelaunch"]
       \/ /\ ~ensure_startup(o)
          /\ Goto(o, "launch_failed")
    /\ UNCHANGED <<lifecycle, startup, session, worker_lock, process, cancelled>>

(* Blocked first by a preparation, then by the worker mutex.               *)
ReservePreparation(o) ==
    /\ At(o, "prelaunch")
    /\ preparation.writer = NoOp
    /\ preparation' = [preparation EXCEPT !.readers = @ \cup {o}]
    /\ Goto(o, "prelaunch_lock")
    /\ UNCHANGED <<lifecycle, startup, active, admission, worker_lock, process, cancelled>>

LockForPrelaunch(o) ==
    /\ At(o, "prelaunch_lock")
    /\ worker_lock = NoOp
    /\ worker_lock' = o
    /\ Goto(o, "reserve")
    /\ UNCHANGED <<lifecycle, startup, session, process, cancelled>>

(* A failed prelaunch of the current generation is kept for its observer;  *)
(* then the task drops its startup admission.                              *)
PrelaunchReturns(o) ==
    /\ op[o].pc \in {"launched", "launch_failed"}
    /\ startup_failed' = (startup_failed \/ (At(o, "launch_failed") /\ ensure_generation(o)))
    /\ DropStartup(o)
    /\ Goto(o, "finish_startup")
    /\ UNCHANGED <<state, generation, controlled_send, stop_handle, resolver_handle,
                   startup_permitted, r_permitted, startup_done, startup_stdin,
                   unused_default, env_pending, session, worker_lock, process, cancelled>>

FinishStartup(o) ==
    /\ At(o, "finish_startup")
    /\ startup_done' = TRUE
    /\ Goto(o, "done")
    /\ UNCHANGED <<lifecycle, startup_permitted, r_permitted, startup_failed, startup_stdin,
                   unused_default, env_pending, session, worker_lock, process, cancelled>>
-----------------------------------------------------------------------------
(* A cell with requirements: prepare_and_start_evaluation.                 *)

(* admit_preparation excludes every reservation of preparation.            *)
AdmitPreparation(o) ==
    /\ o \in Cells \cap Preparers
    /\ At(o, "admitted")
    /\ IF preparation = [readers |-> {}, writer |-> NoOp]
       THEN /\ preparation' = [preparation EXCEPT !.writer = o]
            /\ Goto(o, "check")
            /\ UNCHANGED <<lifecycle, startup, active, admission, worker_lock, process,
                           cancelled>>
       ELSE Refuse(o)

(* prepare_admitted before it waits for the worker: an active evaluation   *)
(* rejects the change. An environment somebody holds is not waited for,    *)
(* and then the generation is not checked either.                          *)
CheckPreparation(o) ==
    /\ At(o, "check")
    /\ IF active # NoOp \/ (EnvironmentFree /\ ~ensure_generation(o))
       THEN Goto(o, "return")
       ELSE \/ Goto(o, "prepare")
            \/ EnvironmentFree /\ Goto(o, "start")
    /\ UNCHANGED <<lifecycle, startup, session, worker_lock, process, cancelled>>

(* Once it owns the worker and the environment: no change, or a change the *)
(* live worker activates, leaves the lifecycle alone; an unlaunched worker *)
(* or an unused default one (target) resolves the complete candidate; a    *)
(* worker that failed is stopped.                                          *)
PrepareAdmitted(o) ==
    /\ At(o, "prepare")
    /\ worker_lock = NoOp
    /\ EnvironmentFree
    /\ LET usable == worker = "Running" /\ ~Broken(running)
           replace_default == usable /\ unused_default /\ r_permitted[op[o].gen]
           To(label, mode, target) ==
               /\ worker_lock' = o
               /\ op' = [op EXCEPT ![o].pc = label, ![o].mode = mode, ![o].target = target]
       IN \/ UNCHANGED worker_lock /\ Goto(o, "return")
          \/ /\ ensure_generation(o)
             /\ \/ (worker # "Running" \/ usable) /\ UNCHANGED worker_lock /\ Goto(o, "start")
                \/ worker # "Running" /\ To("prepare_resolve", "Prepare", NoLaunch)
                \/ replace_default /\ To("prepare_resolve", "Prepare", running)
                \/ worker = "Running" /\ ~usable /\ To("stop_failed", "Activate", NoLaunch)
    /\ UNCHANGED <<lifecycle, startup, session, process, cancelled>>

PrepareResolve(o) ==
    /\ Holds(o, "prepare_resolve")
    /\ RegisterResolver(o, "preparing", "return")
    /\ UNCHANGED <<state, generation, controlled_send, stop_handle, startup_owner,
                   startup_interrupted, startup, session, worker_lock, process>>

(* Failed resolution preserves the prewarmed worker.                       *)
PrepareResolved(o) ==
    /\ Holds(o, "preparing")
    /\ ClearResolver(o)
    /\ \E resolved \in BOOLEAN :
          /\ resolved => o \notin cancelled
          /\ Goto(o, IF ~resolved THEN "return"
                     ELSE IF op[o].target = NoLaunch THEN "prepared" ELSE "stop_failed")
    /\ UNCHANGED <<state, generation, controlled_send, stop_handle, startup_owner,
                   startup_interrupted, startup, session, worker_lock, process, cancelled>>

CommitEnvironment(o) ==
    /\ Holds(o, "prepared")
    /\ IF ensure_generation(o)
       THEN resolver_handle' = NoOp /\ env_pending' = FALSE /\ Goto(o, "start")
       ELSE UNCHANGED <<resolver_handle, env_pending>> /\ Goto(o, "return")
    /\ worker_lock' = NoOp
    /\ UNCHANGED <<state, generation, controlled_send, stop_handle, startup_owner,
                   startup_interrupted, startup_permitted, r_permitted, startup_failed,
                   startup_done, startup_stdin, unused_default, session, process, cancelled>>

StartPreparedEvaluation(o) ==
    /\ o \in Cells
    /\ At(o, "start")
    /\ IF ensure_ordinary_generation(o) /\ active = NoOp /\ ensure_startup(o)
       THEN PublishEvaluation(o)
       ELSE Refuse(o)

-----------------------------------------------------------------------------
(* Restart.                                                                *)

(* begin_controlled_send: one control owns admission until it returns.     *)
BeginControlledSend(o) ==
    /\ o \in Controls
    /\ At(o, "idle")
    /\ o \in Interrupters => startup_done
    /\ state = "Ready" /\ controlled_send = NoOp
    /\ controlled_send' = o
    /\ op' = [op EXCEPT ![o].pc = IF o \in Restarters THEN "restart" ELSE "interrupt",
                       ![o].gen = generation]
    /\ UNCHANGED <<state, generation, stop_handle, resolver_handle, startup_owner,
                   startup_interrupted, startup, session, worker_lock, process, cancelled>>

(* start_restart: retire the evaluation, the generation and the startup in *)
(* one step, keeping the processes to stop.                                *)
StartRestart(o, resolver, label) ==
    /\ generation < MaxGeneration
    /\ generation' = generation + 1
    /\ state' = "Restarting"
    /\ active' = NoOp
    /\ resolver_handle' = NoOp
    /\ startup_owner' = {}
    /\ startup_interrupted' = FALSE
    /\ startup_stdin' = {}
    /\ op' = [op EXCEPT ![o].pc = label, ![o].mode = "Restart", ![o].gen = generation + 1,
                       ![o].target = stop_handle, ![o].resolver = resolver]
    /\ UNCHANGED <<controlled_send, stop_handle, startup_permitted, r_permitted, startup_failed,
                   startup_done, unused_default, locks, worker_lock, process, cancelled>>

BeginRestart(o) ==
    /\ o \in Restarters
    /\ At(o, "restart")
    /\ IF \/ ~ensure_controlled_generation(o)
          \/ stop_handle = NoLaunch /\ resolver_handle # NoOp /\ preparation.writer # NoOp
       THEN Refuse(o)
       ELSE StartRestart(o, resolver_handle, "shutdown") /\ UNCHANGED env_pending

(* resolve_and_begin_restart keeps the environment from its resolution to  *)
(* the end of commit_environment_and_begin_restart.                        *)
ResolveRestart(o) ==
    /\ o \in Preparers
    /\ At(o, "restart")
    /\ EnvironmentFree
    /\ \/ ensure_generation(o) /\ RegisterResolver(o, "restart_resolving", "return")
       \/ ensure_generation(o) /\ Goto(o, "restart_commit")
          /\ UNCHANGED <<resolver_handle, cancelled>>
       \/ ~ensure_generation(o) /\ Goto(o, "return") /\ UNCHANGED <<resolver_handle, cancelled>>
    /\ UNCHANGED <<state, generation, controlled_send, stop_handle, startup_owner,
                   startup_interrupted, startup, session, worker_lock, process>>

RestartResolved(o) ==
    /\ At(o, "restart_resolving")
    /\ ClearResolver(o)
    /\ \E resolved \in BOOLEAN :
          /\ resolved => o \notin cancelled
          /\ Goto(o, IF resolved THEN "restart_commit" ELSE "return")
    /\ UNCHANGED <<state, generation, controlled_send, stop_handle, startup_owner,
                   startup_interrupted, startup, session, worker_lock, process, cancelled>>

CommitRestart(o) ==
    /\ o \in Restarters
    /\ At(o, "restart_commit")
    /\ IF ensure_controlled_generation(o)
       THEN env_pending' = FALSE /\ StartRestart(o, NoOp, "restart_committed")
       ELSE Refuse(o)

RestartCommitted(o) ==
    /\ At(o, "restart_committed")
    /\ Goto(o, "shutdown")
    /\ UNCHANGED <<lifecycle, startup, session, worker_lock, process, cancelled>>

(* ProcessStopHandles::shutdown without any lock, for restart and close.   *)
ShutdownProcesses(o, stopped, failed) ==
    /\ \E outcome \in Outcomes(op[o].target) :
       \E requested \in {TRUE} \cup {op[o].resolver = NoOp} :
          /\ launch' = Retired(op[o].target, outcome)
          /\ Goto(o, IF process_result(outcome) /\ requested THEN stopped ELSE failed)
    /\ StopResolver(o)
    /\ UNCHANGED <<lifecycle, startup, session, worker_lock, worker, running, launched>>

RestartShutdown(o) ==
    /\ At(o, "shutdown")
    /\ ShutdownProcesses(o, "replace_worker", "retire_worker")

(* WorkerState::finish_retirement under the worker mutex.                  *)
FinishRetirement(io) ==
    IF worker = "Running"
    THEN \E outcome \in Outcomes(running) :
           /\ io \in IoResults(outcome)
           /\ launch' = Retired(running, outcome)
           /\ worker' = IF io THEN "Stopped" ELSE worker
           /\ running' = IF io THEN NoLaunch ELSE running
    ELSE io = TRUE /\ UNCHANGED <<launch, worker, running>>

(* Processes that could not be stopped end the restart and the session.    *)
RetireWorker(o) ==
    /\ At(o, "retire_worker")
    /\ worker_lock = NoOp
    /\ \E io \in BOOLEAN : FinishRetirement(io)
    /\ Goto(o, "fail_restart")
    /\ UNCHANGED <<lifecycle, startup, session, worker_lock, launched, cancelled>>

AbandonRestart(o) ==
    /\ At(o, "fail_restart")
    /\ Goto(o, "restarted")
    /\ UNCHANGED <<lifecycle, startup, session, worker_lock, process, cancelled>>

FailRestart(o) ==
    /\ At(o, "fail_restart")
    /\ state' = IF state = "Restarting" THEN "ShuttingDown" ELSE state
    /\ Goto(o, "restarted")
    /\ UNCHANGED <<generation, controlled_send, stop_handle, resolver_handle, startup_owner,
                   startup_interrupted, startup, session, worker_lock, process, cancelled>>

(* replace_worker crosses the physical boundary: the worker mutex waits    *)
(* for the old operation, the retirement for its I/O.                      *)
ReplaceWorker(o) ==
    /\ At(o, "replace_worker")
    /\ worker_lock = NoOp
    /\ IF state # "Restarting"
       THEN Goto(o, "fail_restart") /\ UNCHANGED <<stop_handle, launch, worker, running>>
       ELSE \E io \in BOOLEAN :
              /\ IF worker = "Running"
                 THEN FinishRetirement(io)
                 ELSE /\ \E outcome \in Outcomes(op[o].target) : io \in IoResults(outcome)
                      /\ worker' = IF io THEN "Stopped" ELSE worker
                      /\ UNCHANGED <<launch, running>>
              /\ IF io
                 THEN stop_handle' = NoLaunch /\ Goto(o, "settle")
                 ELSE UNCHANGED stop_handle /\ Goto(o, "fail_restart")
    /\ UNCHANGED <<state, generation, controlled_send, resolver_handle, startup_owner,
                   startup_interrupted, startup, session, worker_lock, launched, cancelled>>

(* After settling the old response: an explicit restart grants the startup *)
(* source another attempt.                                                 *)
RestartLaunch(o) ==
    /\ At(o, "settle")
    /\ worker_lock = NoOp
    /\ IF state = "Restarting"
       THEN worker_lock' = o /\ startup_permitted' = TRUE /\ Goto(o, "reserve")
       ELSE UNCHANGED <<worker_lock, startup_permitted>> /\ Goto(o, "fail_restart")
    /\ UNCHANGED <<lifecycle, r_permitted, startup_failed, startup_done, startup_stdin,
                   unused_default, env_pending, session, process, cancelled>>

RestartReturns(o) ==
    /\ At(o, "finish_restart")
    /\ FinishRestart(o)
    /\ op' = [op EXCEPT ![o].pc = "restarted", ![o].ready = (@ /\ RestartFinished(o))]
    /\ UNCHANGED <<generation, controlled_send, stop_handle, resolver_handle, startup_owner,
                   startup_interrupted, startup, session, worker_lock, process, cancelled>>

(* The restart takes write admission; a ready one clears startup failures. *)
AdmitControlledOperation(o) ==
    /\ o \in Restarters
    /\ At(o, "restarted")
    /\ admission = [readers |-> {}, writer |-> NoOp]
    /\ IF op[o].ready
       THEN /\ WriteAdmission(o)
            /\ startup_failed' = FALSE
            /\ startup_done' = TRUE
            /\ Goto(o, "follow_up")
       ELSE UNCHANGED <<admission, startup_failed, startup_done>> /\ Goto(o, "return")
    /\ UNCHANGED <<lifecycle, startup_permitted, r_permitted, startup_stdin, unused_default,
                   env_pending, active, preparation, worker_lock, process, cancelled>>

FollowUp(o) ==
    /\ o \in Restarters
    /\ At(o, "follow_up")
    /\ \/ Refuse(o)
       \/ /\ ensure_controlled_generation(o) /\ active = NoOp /\ ensure_startup(o)
          /\ PublishEvaluation(o)
       \/ /\ ensure_controlled_generation(o)
          /\ op' = [op EXCEPT ![o].pc = "lock_stdin", ![o].mode = "Stdin"]
          /\ UNCHANGED <<lifecycle, startup, session, worker_lock, process, cancelled>>

-----------------------------------------------------------------------------
(* Interrupt.                                                              *)

(* select_interrupt_target, then the interrupt itself, which may fail. The *)
(* startup comes with its cell, a resolver before a worker.                *)
SelectInterruptTarget(o, controlled, bootstrapping, next) ==
    LET evaluation == active # NoOp /\ op[active].gen = generation
        starting == startup_owner # {}
        resolver == resolver_handle # NoOp
        execution == evaluation /\ op[active].outcome = "None"
        allowed == \/ controlled \/ controlled_send = NoOp
                   \/ state = "Ready" /\ (execution \/ bootstrapping)
        signalled == ~starting /\ ~resolver /\ allowed /\ stop_handle # NoLaunch
        cells == IF evaluation /\ (starting \/ signalled) /\ op[active].phase = "Pending"
                 THEN [op EXCEPT ![active].phase = "Withheld"] ELSE op
    IN /\ startup_owner' = startup_owner \cup (IF starting /\ controlled THEN {o} ELSE {})
       /\ startup_interrupted' = (startup_interrupted \/ starting)
       /\ cancelled' = cancelled \cup ({resolver_handle} \ {NoOp})
       /\ \E ok \in BOOLEAN :
            op' = [cells EXCEPT
                     ![o].pc = IF ok /\ (starting \/ resolver \/ signalled)
                               THEN next ELSE "return",
                     ![o].gen = IF controlled THEN @ ELSE generation,
                     ![o].selected = IF resolver \/ signalled THEN stop_handle ELSE NoLaunch]
       /\ UNCHANGED <<state, generation, controlled_send, stop_handle, resolver_handle, startup,
                      session, worker_lock, process>>

InterruptBlocking(o) ==
    /\ At(o, "interrupt")
    /\ SelectInterruptTarget(o, TRUE, FALSE, "interrupted")

(* A standalone interrupt still signals while another control owns         *)
(* admission, then tries once more to become the control.                  *)
InterruptStandalone(o) ==
    /\ o \in Interrupters
    /\ At(o, "idle")
    /\ startup_done
    /\ state # "Ready" \/ controlled_send # NoOp
    /\ \E bootstrapping \in {FALSE, stop_handle # NoLaunch} :
          SelectInterruptTarget(o, FALSE, bootstrapping, "standalone")

(* Before startup finished, a code-free interrupt signals without becoming *)
(* the control; its input follows if it was admitted first.                *)
InterruptStartup(o) ==
    /\ o \in Interrupters
    /\ At(o, "idle")
    /\ ~startup_done
    /\ \E bootstrapping \in {FALSE, stop_handle # NoLaunch} :
          SelectInterruptTarget(o, FALSE, bootstrapping,
                                IF state = "Ready" /\ controlled_send = NoOp
                                THEN "startup_stdin" ELSE "return")

InterruptStdin(o) ==
    /\ At(o, "startup_stdin")
    /\ \E stdin \in BOOLEAN : QueueStartupStdin(o, stdin)
    /\ Goto(o, "return")
    /\ UNCHANGED <<lifecycle, startup_permitted, r_permitted, startup_failed, startup_done,
                   env_pending, session, worker_lock, worker, running, launched, cancelled>>

RetryControlledSend(o) ==
    /\ o \in Interrupters
    /\ At(o, "standalone")
    /\ IF state = "Ready" /\ controlled_send = NoOp
       THEN /\ controlled_send' = o
            /\ op' = [op EXCEPT ![o].pc = "continue", ![o].gen = generation]
       ELSE Goto(o, "return") /\ UNCHANGED controlled_send
    /\ UNCHANGED <<state, generation, stop_handle, resolver_handle, startup_owner,
                   startup_interrupted, startup, session, worker_lock, process, cancelled>>

(* submit_controlled_stdin to the selected connection, or through a lazy   *)
(* startup after a resolver that preceded it.                              *)
SubmitControlledStdin(o) ==
    /\ At(o, "interrupted")
    /\ \/ /\ ensure_controlled_generation(o)
          /\ Goto(o, "grace")
          /\ UNCHANGED <<launch, unused_default>>
       \/ /\ ensure_controlled_generation(o)
          /\ op[o].selected # NoLaunch
          /\ UseDefault(TRUE)
          /\ launch' = [launch EXCEPT ![op[o].selected].stdin =
                          IF launch[op[o].selected].live THEN @ \cup {op[o].gen} ELSE @]
          /\ Goto(o, IF launch[op[o].selected].live THEN "grace" ELSE "return")
       \/ /\ ensure_controlled_generation(o)
          /\ op[o].selected = NoLaunch /\ o \notin startup_owner
          /\ op' = [op EXCEPT ![o].pc = "lock_stdin", ![o].mode = "Stdin"]
          /\ UNCHANGED <<launch, unused_default>>
       \/ /\ ~ensure_controlled_generation(o)
          /\ Goto(o, "return")
          /\ UNCHANGED <<launch, unused_default>>
    /\ UNCHANGED <<lifecycle, startup_permitted, r_permitted, startup_failed, startup_done,
                   startup_stdin, env_pending, session, worker_lock, worker, running, launched,
                   cancelled>>

(* ensure_followup_connection: a following cell needs the selected worker. *)
EnsureFollowupConnection(o) ==
    /\ At(o, "grace")
    /\ \/ Goto(o, "continue")
       \/ op[o].selected \in {NoLaunch, stop_handle} /\ Goto(o, "continue_cell")
       \/ op[o].selected \notin {NoLaunch, stop_handle} /\ Goto(o, "return")
    /\ UNCHANGED <<lifecycle, startup, session, worker_lock, process, cancelled>>

(* continue_after_interrupt without a cell: never waits for admission.     *)
ContinueAfterInterrupt(o) ==
    /\ o \in Interrupters
    /\ At(o, "continue")
    /\ IF \/ ~ensure_controlled_generation(o)
          \/ admission # [readers |-> {}, writer |-> NoOp]
          \/ active # NoOp
       THEN Refuse(o)
       ELSE /\ WriteAdmission(o)
            /\ op' = [op EXCEPT ![o].pc = "poll", ![o].mode = "Poll"]
            /\ UNCHANGED <<lifecycle, startup, active, preparation, worker_lock, process,
                           cancelled>>

(* With a cell: wait for admission, then collect a completed evaluation    *)
(* and publish the cell in its place. An unsettled or failed evaluation,   *)
(* or an interrupted startup, leaves the cell unrun.                       *)
ContinueWithCell(o) ==
    /\ o \in Interrupters
    /\ At(o, "continue_cell")
    /\ \/ ~ensure_controlled_generation(o) /\ Refuse(o)
       \/ /\ admission = [readers |-> {}, writer |-> NoOp]
          /\ IF /\ ensure_controlled_generation(o)
                /\ \/ active = NoOp
                   \/ /\ op[active].pc \in {"completed", "done"}
                      /\ op[active].outcome = "Completed"
                      /\ op[active].gen = op[o].gen
                /\ ensure_startup(o)
             THEN PublishEvaluation(o)
             ELSE Refuse(o)

-----------------------------------------------------------------------------
(* Connection shutdown.                                                    *)

CloseLifecycle(o) ==
    /\ o \in Closers
    /\ At(o, "idle")
    /\ state' = "ShuttingDown"
    /\ op' = [op EXCEPT ![o].pc = "close", ![o].target = stop_handle,
                       ![o].resolver = resolver_handle]
    /\ UNCHANGED <<generation, controlled_send, stop_handle, resolver_handle, startup_owner,
                   startup_interrupted, startup, session, worker_lock, process, cancelled>>

CloseProcesses(o) ==
    /\ At(o, "close")
    /\ ShutdownProcesses(o, "close_worker", "close_worker")

CloseWithoutWaiting(o) ==
    /\ At(o, "close_worker")
    /\ Goto(o, "done")
    /\ UNCHANGED <<lifecycle, startup, session, worker_lock, process, cancelled>>

CloseWorker(o) ==
    /\ At(o, "close_worker")
    /\ worker_lock = NoOp
    /\ \E io \in BOOLEAN : FinishRetirement(io)
    /\ Goto(o, "done")
    /\ UNCHANGED <<lifecycle, startup, session, worker_lock, launched, cancelled>>

-----------------------------------------------------------------------------
(* What a launch does on its own: external to the server process.          *)

LaunchEvent(l) ==
    /\ launch[l].live
    /\ UNCHANGED <<lifecycle, startup_permitted, startup_failed, startup_done, startup_stdin,
                   unused_default, env_pending, session, worker_lock, worker, running,
                   launched, cancelled, op>>

LaunchReady(l) ==
    /\ ~launch[l].ready /\ ~launch[l].failed
    /\ launch' = [launch EXCEPT ![l].ready = TRUE]
    /\ UNCHANGED r_permitted
    /\ LaunchEvent(l)

LaunchFails(l) ==
    /\ ~launch[l].failed
    /\ launch' = [launch EXCEPT ![l].failed = TRUE]
    /\ UNCHANGED r_permitted
    /\ LaunchEvent(l)

(* r_initialization: an R initialization that begins forbids another       *)
(* launch of the generation until it completes.                            *)
RInitBegins(l) ==
    /\ UsesR /\ launch[l].r_init = "No"
    /\ launch' = [launch EXCEPT ![l].r_init = "Begun"]
    /\ r_permitted' = [r_permitted EXCEPT ![launch[l].gen] = FALSE]
    /\ LaunchEvent(l)

RInitCompletes(l) ==
    /\ launch[l].r_init = "Begun" /\ ~launch[l].failed
    /\ launch' = [launch EXCEPT ![l].r_init = "Complete"]
    /\ r_permitted' = [r_permitted EXCEPT ![launch[l].gen] = TRUE]
    /\ LaunchEvent(l)

-----------------------------------------------------------------------------
(* Steps the server's threads take by themselves, unless blocked ...       *)
Step(o) ==
    \/ StartEvaluation(o) \/ EvaluateBlocking(o) \/ LockForCell(o) \/ Dispatch(o)
    \/ CellFails(o) \/ EvaluateReturns(o)
    \/ ReserveWorkerStartup(o) \/ LockEnvironment(o) \/ ResolvePrestart(o) \/ Spawn(o)
    \/ RegisterStopHandle(o) \/ AwaitReady(o) \/ OnReady(o) \/ ReadyCommit(o)
    \/ RetireFailedStart(o) \/ StartFailed(o)
    \/ StopFailedWorker(o) \/ StopFailed(o) \/ FailedWorkerStopped(o) \/ StartReplacement(o)
    \/ StartPoll(o) \/ LockForStdin(o) \/ WriteStdin(o) \/ TakeIdleResponse(o)
    \/ LockForPoll(o) \/ Return(o)
    \/ Prelaunch(o) \/ ReservePreparation(o) \/ LockForPrelaunch(o) \/ PrelaunchReturns(o)
    \/ FinishStartup(o)
    \/ AdmitPreparation(o) \/ CheckPreparation(o) \/ PrepareAdmitted(o)
    \/ PrepareResolve(o) \/ CommitEnvironment(o) \/ StartPreparedEvaluation(o)
    \/ BeginRestart(o) \/ ResolveRestart(o) \/ CommitRestart(o) \/ RestartCommitted(o)
    \/ RestartShutdown(o) \/ RetireWorker(o) \/ FailRestart(o)
    \/ ReplaceWorker(o) \/ RestartLaunch(o) \/ RestartReturns(o)
    \/ AdmitControlledOperation(o) \/ FollowUp(o)
    \/ InterruptBlocking(o) \/ InterruptStdin(o) \/ RetryControlledSend(o)
    \/ SubmitControlledStdin(o)
    \/ EnsureFollowupConnection(o) \/ ContinueAfterInterrupt(o) \/ ContinueWithCell(o)
    \/ CloseProcesses(o) \/ CloseWorker(o)

(* ... those that wait for a process outside it ...                        *)
Settle(o) == ResolvedPrestart(o) \/ PrepareResolved(o) \/ RestartResolved(o)

(* ... and those a client or a worker decides on.                          *)
Arrive(o) ==
    \/ Admit(o) \/ BeginControlledSend(o) \/ CloseLifecycle(o)
    \/ InterruptStandalone(o) \/ InterruptStartup(o)
WorkerStep(l) == LaunchReady(l) \/ LaunchFails(l) \/ RInitBegins(l) \/ RInitCompletes(l)

Terminated ==
    /\ \A o \in Ops : op[o].pc \in {"idle", "done"}
    /\ UNCHANGED vars

Next ==
    \/ \E o \in Ops : Step(o) \/ Settle(o) \/ Arrive(o) \/ CellCompletes(o)
    \/ \E l \in Launches : WorkerStep(l)
    \/ Reap
    \/ Terminated

Spec == Init /\ [][Next]_vars
-----------------------------------------------------------------------------
(* Fairness. Threads run; a resolver that was stopped ends; nothing is     *)
(* assumed of clients, workers, or resolvers nobody stopped.               *)
Fairness ==
    WF_vars(\E o \in Ops : Step(o) \/ (o \in cancelled /\ Settle(o)))

LiveSpec == Spec /\ Fairness

-----------------------------------------------------------------------------
(* Safety.                                                                 *)

(* A launch is created only after every earlier one was retired, and after *)
(* a committed one only if its launcher was reaped and its I/O settled     *)
(* (stop_failed_worker, restart_blocking, replace_worker).                 *)
ReplacementBarrier ==
    \A l \in 1..launched, m \in 1..launched :
        l < m => /\ ~launch[l].live
                 /\ launch[l].committed => launch[l].cleanup \in {"Clean", "Unclean"}

(* Restart and close can always reach a live launch: it is registered as   *)
(* the stop handle, or some unfinished call has it in hand and retires it. *)
NoOrphanLaunch ==
    \A l \in 1..launched :
        launch[l].live => stop_handle = l \/ \E o \in Ops : op[o].target = l /\ ~At(o, "done")

(* Between calls that own the worker or admission, the stop handle is      *)
(* exactly the running launch: never stale, never missing.                 *)
HandleMatchesWorker ==
    state = "Ready" /\ worker_lock = NoOp /\ controlled_send = NoOp =>
        stop_handle = IF worker = "Running" THEN running ELSE NoLaunch

(* Once connection shutdown returned, no launch is or becomes live.        *)
ClosedLeavesNothing ==
    (\E x \in Closers : At(x, "done")) => \A l \in 1..launched : ~launch[l].live

(* Code and input run only in the generation that admitted them, however   *)
(* long their call was delayed by locks, startup or preparation.           *)
GenerationFence ==
    /\ \A o \in Ops : op[o].ran_on # NoLaunch => launch[op[o].ran_on].gen = op[o].gen
    /\ \A l \in 1..launched : launch[l].stdin \subseteq {launch[l].gen}

(* A cell that an interrupt withheld is never sent to a worker, not even   *)
(* when its startup still succeeds.                                        *)
WithheldNeverRuns ==
    [][\A o \in Ops : op[o].phase = "Withheld" =>
          op'[o].phase = "Withheld" /\ op'[o].ran_on = NoLaunch]_vars

(* Startup code with external effects is not repeated: one launch per      *)
(* generation runs the startup source, and no launch follows one whose R   *)
(* initialization began and did not complete.                              *)
InitializesOnce ==
    \A l \in 1..launched, m \in 1..launched :
        l < m /\ launch[l].gen = launch[m].gen => ~HasStartup /\ launch[l].r_init # "Begun"

(* The failure of a prelaunch is reported before another cell runs.        *)
FailureReportedFirst ==
    startup_failed =>
        \A o \in Evaluators : ~(op[o].pc \in {"dispatch", "running"} /\ Current(o))

(* A default worker that preparation may replace was given nothing.        *)
UnusedIsUntouched ==
    unused_default /\ worker = "Running" =>
        /\ launch[running].stdin = {}
        /\ \A o \in Ops : op[o].ran_on # running

(* A restarting session has a restart call that owns admission and has not *)
(* settled: its state cannot be abandoned.                                 *)
Settling == {"restart_committed", "shutdown", "retire_worker", "fail_restart",
             "replace_worker", "settle", "reserve", "environment", "resolve", "resolving",
             "spawn", "register", "await_ready", "on_ready", "retire_start", "start_failed",
             "finish_restart"}
RestartIsOwned ==
    state = "Restarting" =>
        \E r \in Restarters : /\ controlled_send = r
                              /\ Current(r)
                              /\ op[r].mode = "Restart"
                              /\ op[r].pc \in Settling

(* Neither a late restart nor a failed worker reopens a closed session.    *)
ClosedStaysClosed == [][state = "ShuttingDown" => state' = "ShuttingDown"]_vars

-----------------------------------------------------------------------------
(* Liveness.                                                               *)

(* After the session was told to close, the close itself and every call in *)
(* progress return, whatever they wait for.                                *)
ClosedDrains ==
    \A x \in Closers, o \in Ops : op[x].pc # "idle" ~> op[o].pc \in {"idle", "done"}

(* The generation a restart retires cannot hold the restart up.            *)
RestartNotBlocked ==
    \A r \in Restarters :
        At(r, "shutdown") ~> op[r].pc \notin {"shutdown", "retire_worker", "replace_worker",
                                              "settle"}

-----------------------------------------------------------------------------
(* Statements of the documentation the code does not keep.                 *)

(* docs/ARCHITECTURE.md: recovery from any failed launch requires its      *)
(* launcher to be reaped and its I/O to be settled.                        *)
RecoveryBarrier ==
    \A l \in 1..launched, m \in 1..launched :
        l < m => launch[l].cleanup \in {"Clean", "Unclean"}

(* prepare_admitted: "no evaluation is active" while a preparation waits   *)
(* for the worker, so it waits for no evaluator that needs preparation.    *)
PreparationWaitsForNoCell ==
    \A p \in Ops : At(p, "prepare") =>
        ~\E e \in Evaluators : worker_lock = e /\ At(e, "replace")
=============================================================================
