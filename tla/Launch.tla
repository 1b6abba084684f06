------------------------------- MODULE Launch -------------------------------
(***************************************************************************)
(* One launch of a worker, seen from the controller: the operation state   *)
(* (WorkerOperationState), the thread that dispatches the relay's events,  *)
(* the command writer, the event reader, the thread that holds the worker  *)
(* mutex (it starts the worker, then evaluates cells and prepares          *)
(* requirements one after another), interrupts, and the retirement that    *)
(* restart, shutdown and failure recovery share.                           *)
(*                                                                         *)
(* One action is what a thread does between two points where it blocks or  *)
(* where another thread can take one of its mutexes.  The relay and the    *)
(* worker behind the two pipes are an external process that keeps the      *)
(* worker protocol; Faults names the ways in which it may break.           *)
(*                                                                         *)
(* A definition that PROJECT.json names as a mutant stands just before the *)
(* one it takes the place of, and is used nowhere else.                    *)
(***************************************************************************)
EXTENDS Naturals, Sequences, FiniteSets

CONSTANTS Builtin,      \* the built-in worker, which bootstraps after readiness
          WithR,        \* may the worker have R (a worker that has none is Python-only)
          Jobs,         \* the jobs of the worker mutex's holder
          MaxJobs,      \* bound on the jobs of a behaviour
          Callbacks,    \* the resolver callbacks the worker may make
          MaxCallbacks, \* bound on callbacks
          MaxInputs,    \* bound on managed input requests
          MaxPending,   \* bound on the events that the worker runs ahead
          Interrupters, \* calls that interrupt the worker
          Retirers,     \* lifecycle calls that retire the launch
          Faults,       \* what may go wrong outside the controller
          MaxFaults     \* bound on faults

Owner == "Owner"
Callers == Retirers \cup {Owner}
JobKinds == {"Cell", "Prepare", "PrepareBoth", "Replace"}

ASSUME LaunchAssumption ==
    /\ Builtin \in BOOLEAN
    /\ Jobs \subseteq JobKinds
    /\ Callbacks \subseteq {"R", "Python"}
    /\ WithR \subseteq BOOLEAN
    /\ MaxJobs \in Nat /\ MaxCallbacks \in Nat /\ MaxInputs \in Nat /\ MaxPending \in Nat
    /\ MaxFaults \in Nat
    /\ Owner \notin Retirers
    /\ Faults \subseteq {"Exit", "Read", "Deaf", "Spool", "Host"}

VARIABLES
    events,     \* the dispatcher's queue
    disp,       \* locals of dispatch_worker_events
    oper,       \* OperationState
    startup,    \* what the startup receiver holds
    answer,     \* what the operation receiver holds
    cell,       \* admission, input request and output interval of the cell
    commands,   \* RelayCommandState and its queue
    interrupts, \* InterruptRequestState and the interrupting calls
    owner,      \* the holder of the worker mutex
    env,        \* owner of the environment lock
    retirement, \* RetirementState
    caller,     \* where each retirement caller is
    child,      \* RelayProcess
    clock,      \* deadlines of the retirement that have passed
    reader,     \* is the event reader running
    wk,         \* the relay and the worker (external)
    ghost       \* what the properties remember

vars == <<events, disp, oper, startup, answer, cell, commands, interrupts, owner, env,
          retirement, caller, child, clock, reader, wk, ghost>>

others == <<owner, env, retirement, caller, child, clock, reader, wk>>
outside == <<child, clock, reader, wk>>
operation == <<oper, startup, answer, cell, interrupts>>

(* The kinds of event, grouped as the dispatcher's match groups them. *)
Controls == {"Suspend", "Resume", "TransportFailure", "Retire", "RelayClosed"}
Lifetime == {"WorkerStarted", "SidebandClosed", "InterruptResult",
             "ShutdownStarted", "Outcome", "Fatal", "PartialFrame"}
RuntimeCallbacks == {"ResolveR", "RActivated", "RActivationFailed", "ResolvePython",
                     "PythonActivated"}
Initialized == {"RuntimeInitialized", "RuntimeInterrupted"}
Inputs == {"InputRequested", "InputReceived"}
Results == {"Completed", "Prepared", "PreparationFailed"}
Semantic == {"Ready", "CellStarted"} \cup RuntimeCallbacks \cup Initialized \cup Inputs \cup Results
IgnoredDuringRetirement == {"Ready"} \cup Initialized \cup Inputs \cup RuntimeCallbacks
BootstrapCallback == RuntimeCallbacks \cup Initialized

(* n numbers the events of the worker's sideband in the order it sent     *)
(* them; the other events have 0.  i is the interrupt that a result is of. *)
NoCall == "NoCall"
Event(kind) == [kind |-> kind, n |-> 0, i |-> NoCall]
EventRecord == [kind : Controls \cup Lifetime \cup Semantic, n : Nat, i : Interrupters \cup {NoCall}]

\* "Result" is a worker's result that was refused after it took the operation.
Causes == {"None", "Protocol", "Result", "Transport", "RelayExit", "Sideband", "Fatal", "Owner"}

OperRecord ==
    [bootstrap : {"Disabled", "Running", "Finished", "Interrupted"}, suspended : BOOLEAN,
     kind : {"None", "Cell", "Prepare"}, result : BOOLEAN, more : BOOLEAN,
     failure : Causes, relay_exit : BOOLEAN, idle_input : BOOLEAN,
     callback : {"None", "Resolving", "AwaitingActivation"},
     reserved : BOOLEAN, retiring : BOOLEAN]

DispRecord ==
    [at : {"loop", "ready", "env", "resolving", "abort", "done"}, event : EventRecord,
     startup : BOOLEAN, acquired : BOOLEAN, started : BOOLEAN, semantic : BOOLEAN,
     sideband : BOOLEAN, fatal : BOOLEAN, bad : BOOLEAN,
     intentional : BOOLEAN, retiring : BOOLEAN, outcome : BOOLEAN, closed : BOOLEAN,
     result : BOOLEAN, deferred : Seq(EventRecord)]

CellRecord ==
    [phase : {"Pending", "Dispatched", "Withheld"}, outcome : {"None", "Completed", "Failed"},
     entered : BOOLEAN, input : BOOLEAN, open : BOOLEAN]

OwnerLabels ==
    {"starting", "on_ready", "commit", "free", "begin", "bootstrap", "dispatch",
     "receive", "abort", "reserve", "suspending", "prepare_env", "resolve", "begin_prepare",
     "send", "mark", "failed", "retire", "ended"}
CallerLabels == {"idle", "request", "receipt", "retire", "reached", "stop", "relay_grace",
                 "grace", "kill", "join", "done"}

Outcomes == {"Clean", "Unclean", "BadIO", "Stuck"}

CommandRecord ==
    [queue : Seq([kind : {"Evaluate", "Prepare", "Reply", "Reject", "Interrupt", "Shutdown"},
                  i : Interrupters \cup {NoCall}]),
     failed : BOOLEAN]

InterruptRecord ==
    [failed : BOOLEAN, pending : SUBSET Interrupters,
     call : [Interrupters -> {"idle", "waiting", "ok", "error"}]]

OwnerRecord ==
    [at : OwnerLabels, job : JobKinds \cup {"Start"}, jobs : 0..MaxJobs,
     reservation : {"None", "Live", "Replacing"}, used : BOOLEAN, admitted : {"None", "Ok", "Err"}]

RetirementRecord ==
    [budget : {"None", "Timely", "Failure"}, lifecycle : BOOLEAN,
     ready_commit : {"Open", "Committed", "Failed", "Retiring"},
     requesting : BOOLEAN, requested : {"None", "Timely", "Always"},
     receipt : BOOLEAN, reached : {"None", "Ok", "Err"},
     observed : {"Unrequested", "Requested", "Timely", "Late"},
     finishing : BOOLEAN, tasks : BOOLEAN, cancelled : BOOLEAN,
     cleanup : BOOLEAN, result : Outcomes \cup {"None"}]

ChildRecord == [state : {"Live", "Exited", "Reaped"}, status : {"Ok", "Bad"},
                ready : BOOLEAN, output_stopped : BOOLEAN]

WorldRecord ==
    [r : BOOLEAN, at : {"Spawned", "Boot", "Idle", "Cell", "Prepare", "Closing", "Gone"},
     wait : {"No", "R", "RActivate", "Python", "PyActivate", "Input"},
     todo : {"None", "Cell", "Prepare"}, n : Nat, callbacks : 0..MaxCallbacks,
     inputs : 0..MaxInputs, interrupted : BOOLEAN, deaf : BOOLEAN, faults : 0..MaxFaults]

TypeOK ==
    /\ events \in Seq(EventRecord)
    /\ disp \in DispRecord
    /\ oper \in OperRecord
    /\ startup \in {"None", "Ready", "Failed"}
    /\ answer \in {"None", "Completed", "Prepared", "Rejected", "Failed"}
    /\ cell \in CellRecord
    /\ commands \in CommandRecord
    /\ interrupts \in InterruptRecord
    /\ owner \in OwnerRecord
    /\ env \in {"None", "Dispatcher", "Owner"}
    /\ retirement \in RetirementRecord
    /\ caller \in [Callers -> CallerLabels]
    /\ child \in ChildRecord
    /\ clock \in 0..4
    /\ reader \in BOOLEAN
    /\ wk \in WorldRecord
    /\ ghost \in [last : Nat, exit_first : BOOLEAN, ahead : BOOLEAN]

Init ==
    /\ events = <<>>
    /\ disp = [at |-> "loop", event |-> Event("Resume"), startup |-> TRUE, acquired |-> FALSE,
               started |-> FALSE, semantic |-> FALSE, sideband |-> FALSE,
               fatal |-> FALSE, bad |-> FALSE, intentional |-> FALSE, retiring |-> FALSE,
               outcome |-> FALSE, closed |-> FALSE, result |-> FALSE, deferred |-> <<>>]
    /\ oper = [bootstrap |-> IF Builtin THEN "Running" ELSE "Disabled", suspended |-> FALSE,
               kind |-> "None", result |-> FALSE, more |-> FALSE, failure |-> "None",
               relay_exit |-> FALSE, idle_input |-> FALSE, callback |-> "None",
               reserved |-> FALSE, retiring |-> FALSE]
    /\ startup = "None"
    /\ answer = "None"
    /\ cell = [phase |-> "Pending", outcome |-> "None", entered |-> FALSE, input |-> FALSE,
               open |-> FALSE]
    /\ commands = [queue |-> <<>>, failed |-> FALSE]
    /\ interrupts = [failed |-> FALSE, pending |-> {}, call |-> [i \in Interrupters |-> "idle"]]
    /\ owner = [at |-> "starting", job |-> "Start", jobs |-> 0, reservation |-> "None",
                used |-> FALSE, admitted |-> "None"]
    /\ env = "None"
    /\ retirement = [budget |-> "None", lifecycle |-> FALSE, ready_commit |-> "Open",
                     requesting |-> FALSE, requested |-> "None", receipt |-> FALSE,
                     reached |-> "None", observed |-> "Unrequested", finishing |-> FALSE,
                     tasks |-> TRUE, cancelled |-> FALSE, cleanup |-> TRUE, result |-> "None"]
    /\ caller = [c \in Callers |-> "idle"]
    /\ child = [state |-> "Live", status |-> "Ok", ready |-> FALSE, output_stopped |-> FALSE]
    /\ clock = 0
    /\ reader = TRUE
    /\ \E r \in WithR : wk = [r |-> r, at |-> "Spawned", wait |-> "No", todo |-> "None", n |-> 0, callbacks |-> 0,
             inputs |-> 0, interrupted |-> FALSE, deaf |-> FALSE, faults |-> 0]
    /\ ghost = [last |-> 0, exit_first |-> FALSE, ahead |-> FALSE]

-----------------------------------------------------------------------------
(* WorkerOperationState.                                                   *)
CellAdmitted == owner.job = "Cell" /\
    owner.at \in {"begin", "bootstrap", "dispatch", "abort", "receive"}
EnsureRunning == oper.failure = "None" /\ ~oper.retiring
EnsureAvailable == EnsureRunning /\ oper.kind = "None"

FinishCell(outcome) == IF cell.outcome = "None" THEN [cell EXCEPT !.outcome = outcome] ELSE cell

(* operation.fail: the first failure is kept, and the cause with it.  The  *)
(* cell of a refused result is left to the thread that waits for it.       *)
FailedOperation(cause) ==
    LET first == oper.failure = "None" IN
    [oper EXCEPT !.failure = IF first THEN cause ELSE @,
                 !.relay_exit = IF first THEN cause = "RelayExit" ELSE @,
                 !.callback = "None", !.reserved = FALSE, !.kind = "None", !.result = FALSE,
                 !.more = FALSE]
FailOperation(cause) ==
    /\ oper' = FailedOperation(cause)
    /\ cell' = IF oper.kind = "Cell" /\ cause # "Result" THEN FinishCell("Failed") ELSE cell
    /\ answer' = IF oper.result THEN "Failed" ELSE answer

(* retire_operation: the operation stays, but nobody waits for it.         *)
RetireOperation ==
    /\ oper' = [oper EXCEPT !.retiring = TRUE, !.suspended = FALSE, !.callback = "None",
                            !.reserved = FALSE, !.result = FALSE]
    /\ cell' = IF oper.kind = "Cell" THEN FinishCell("Failed") ELSE cell
    /\ answer' = IF oper.result THEN "Failed" ELSE answer

(* interrupts.fail answers every pending interrupt.                        *)
\* mutant of FailedInterrupts: the pending interrupts are dropped
DroppedInterrupts == [interrupts EXCEPT !.failed = TRUE, !.pending = {}]

FailedInterrupts ==
    [failed |-> TRUE, pending |-> {},
     call |-> [i \in Interrupters |->
                  IF i \in interrupts.pending THEN "error" ELSE interrupts.call[i]]]

(* RelayCommandSender: sending, and aborting with or without an event.     *)
Command(kind) == [kind |-> kind, i |-> NoCall]
Send(command) == commands' = [commands EXCEPT !.queue = Append(@, command)]
Aborted == [commands EXCEPT !.failed = TRUE]

(* fail_dispatch, with the dispatcher's next state.                        *)
FailDispatch(d, cause) ==
    /\ disp' = [d EXCEPT !.startup = FALSE, !.semantic = TRUE, !.at = "loop"]
    /\ startup' = IF disp.startup THEN "Failed" ELSE startup
    /\ interrupts' = FailedInterrupts
    /\ FailOperation(cause)

-----------------------------------------------------------------------------
(* The dispatcher.  It takes the spooled events of the worker first, once  *)
(* bootstrap is no longer suspended, and then its queue.                   *)
Faulty(fault) == fault \in Faults /\ wk.faults < MaxFaults
OneMoreFault == wk' = [wk EXCEPT !.faults = @ + 1]

FromSpool == ~oper.suspended /\ disp.deferred # <<>>
NextEvent == IF FromSpool THEN Head(disp.deferred) ELSE Head(events)
Popped == IF FromSpool THEN [disp EXCEPT !.deferred = Tail(@)] ELSE disp

TakeEvent(kinds) ==
    /\ disp.at = "loop"
    /\ FromSpool \/ events # <<>>
    /\ NextEvent.kind \in kinds
    /\ events' = IF FromSpool THEN events ELSE Tail(events)

\* mutant of Deferred: only callbacks wait, later events overtake them
DeferOnlyCallbacks(e) ==
    /\ ~disp.semantic /\ ~disp.retiring /\ oper.suspended
    /\ e.kind \in BootstrapCallback

Deferred(e) ==
    /\ ~disp.semantic /\ ~disp.retiring /\ oper.suspended
    /\ \/ e.kind \in BootstrapCallback
       \/ disp.deferred # <<>> /\ e.kind \in Semantic

TakeRelay(kinds) == TakeEvent(kinds) /\ ~Deferred(NextEvent)

Handled(e) == ghost' = [ghost EXCEPT !.last = IF e.n > 0 THEN e.n ELSE @]

Defer ==
    /\ TakeEvent(Semantic)
    /\ Deferred(NextEvent)
    /\ disp' = [disp EXCEPT !.deferred = Append(@, NextEvent)]
    /\ UNCHANGED <<oper, startup, answer, cell, commands, interrupts, ghost, others>>

(* The spool could not take the event, or give it back: what it held is    *)
(* dropped and the launch fails.                                           *)
DeferFails ==
    /\ Faulty("Spool") /\ OneMoreFault
    /\ TakeEvent(Semantic)
    /\ FromSpool \/ Deferred(NextEvent)
    /\ FailDispatch([disp EXCEPT !.deferred = <<>>], "Protocol")
    /\ UNCHANGED <<commands, ghost, owner, env, retirement, caller, child, clock, reader>>

(* What makes a handler return an error.                                   *)
ProtocolError(e) ==
    \/ disp.outcome
    \/ e.kind = "WorkerStarted" /\ disp.acquired
    \/ e.kind = "SidebandClosed" /\ disp.sideband
    \/ e.kind = "Fatal" /\ disp.fatal /\ ~disp.retiring
    \/ e.kind = "InterruptResult" /\ ~disp.semantic /\ ~disp.retiring /\ e.i \notin interrupts.pending
    \/ e.kind = "ShutdownStarted" /\ retirement.observed # "Requested"
    \/ e.kind \in Semantic /\ disp.sideband

Ignored(e) == disp.semantic \/ (disp.retiring /\ e.kind \in IgnoredDuringRetirement)

SemanticError(e) ==
    \/ e.kind = "Ready" /\ (~disp.acquired \/ disp.started \/ ~disp.startup)
    \/ e.kind # "Ready" /\ ~disp.started
    \/ e.kind = "CellStarted" /\ (oper.kind # "Cell" \/ cell.entered)
    \/ e.kind \in Inputs /\ oper.kind = "Prepare"
    \/ /\ e.kind \in Inputs
       /\ (IF oper.kind = "Cell" THEN cell.input ELSE oper.idle_input) = (e.kind = "InputRequested")
    \/ e.kind \in {"ResolveR", "RActivated", "RActivationFailed"} /\ oper.kind = "Prepare"
    \/ e.kind = "ResolveR" /\ (~EnsureRunning \/ oper.callback # "None")
    \/ e.kind \in {"RActivated", "RActivationFailed"} /\ oper.callback # "AwaitingActivation"
    \/ /\ e.kind \in Initialized
       /\ \/ oper.bootstrap # "Running" \/ oper.idle_input \/ oper.callback # "None"
          \/ oper.kind = "Cell" /\ cell.input
    \/ /\ e.kind \in Results
       /\ \/ oper.callback # "None"
          \/ oper.kind # (IF e.kind = "Completed" THEN "Cell" ELSE "Prepare")
          \/ oper.kind = "Cell" /\ (~cell.entered \/ (oper.result /\ cell.input))

\* complete takes the operation before it looks at the result.
TakesOperation(e) ==
    e.kind \in Results /\ disp.started /\ ~ProtocolError(e) /\ oper.callback = "None"

Acceptable(e) == ~ProtocolError(e) /\ (e.kind \in Semantic => ~Ignored(e) /\ ~SemanticError(e))

RelayError ==
    /\ TakeRelay(Lifetime \cup Semantic)
    /\ LET e == NextEvent IN
       \/ ProtocolError(e)
       \/ e.kind \in Semantic /\ ~Ignored(e) /\ SemanticError(e)
    /\ Handled(NextEvent)
    /\ \/ TakesOperation(NextEvent) /\ FailDispatch(Popped, "Result")
       \/ ~TakesOperation(NextEvent) /\ FailDispatch(Popped, "Protocol")
    /\ UNCHANGED <<commands, others>>

IgnoreSemantic ==
    /\ TakeRelay(Semantic)
    /\ ~ProtocolError(NextEvent) /\ Ignored(NextEvent)
    /\ Handled(NextEvent)
    /\ disp' = Popped
    /\ UNCHANGED <<operation, commands, others>>

(* Events of the relay's own: the acquired worker, its streams, its end.   *)
RelayLifetime ==
    /\ TakeRelay({"WorkerStarted", "Outcome"})
    /\ Acceptable(NextEvent)
    /\ disp' = CASE NextEvent.kind = "WorkerStarted" -> [Popped EXCEPT !.acquired = TRUE]
                 [] NextEvent.kind = "Outcome" -> [Popped EXCEPT !.outcome = TRUE]
    /\ UNCHANGED <<operation, commands, ghost, others>>

SidebandClosed ==
    /\ TakeRelay({"SidebandClosed"})
    /\ Acceptable(NextEvent)
    /\ LET d == [Popped EXCEPT !.sideband = TRUE] IN
       IF disp.intentional \/ disp.semantic \/ disp.retiring
       THEN disp' = d /\ UNCHANGED operation
       ELSE FailDispatch(d, "Sideband")
    /\ UNCHANGED <<commands, ghost, others>>

InterruptResult ==
    /\ TakeRelay({"InterruptResult"})
    /\ Acceptable(NextEvent)
    /\ disp' = Popped
    /\ interrupts' = IF disp.semantic \/ disp.retiring THEN interrupts
                     ELSE [interrupts EXCEPT !.pending = @ \ {NextEvent.i},
                                             !.call[NextEvent.i] = "ok"]
    /\ UNCHANGED <<oper, startup, answer, cell, commands, ghost, others>>

ShutdownStarted ==
    /\ TakeRelay({"ShutdownStarted"})
    /\ Acceptable(NextEvent)
    /\ disp' = [Popped EXCEPT !.intentional = TRUE]
    /\ retirement' = [retirement EXCEPT !.observed = IF clock = 0 THEN "Timely" ELSE "Late"]
    /\ UNCHANGED <<operation, commands, ghost, owner, env, caller, outside>>

(* A fatal message fails the launch; during retirement it is kept as the   *)
(* failure of the retirement, unless it is the end of a command frame that *)
(* the controller itself cut short.                                        *)
Fatal ==
    /\ TakeRelay({"Fatal", "PartialFrame"})
    /\ Acceptable(NextEvent)
    /\ LET d == [Popped EXCEPT !.fatal = TRUE] IN
       IF disp.retiring
       THEN /\ disp' = [d EXCEPT !.bad = @ \/ ~(NextEvent.kind = "PartialFrame" /\ commands.failed)]
            /\ UNCHANGED operation
       ELSE FailDispatch(d, "Fatal")
    /\ UNCHANGED <<commands, ghost, others>>

-----------------------------------------------------------------------------
(* Readiness: the dispatcher tells the starting thread, then waits until   *)
(* that thread has committed it, before it looks at later events.          *)
Ready ==
    /\ TakeRelay({"Ready"})
    /\ Acceptable(NextEvent)
    /\ Handled(NextEvent)
    /\ disp' = [Popped EXCEPT !.at = "ready", !.startup = FALSE]
    /\ startup' = "Ready"
    /\ UNCHANGED <<oper, answer, cell, commands, interrupts, others>>

ReadyCommitted ==
    /\ disp.at = "ready"
    /\ CASE retirement.ready_commit = "Committed" ->
              disp' = [disp EXCEPT !.at = "loop", !.started = TRUE] /\ UNCHANGED operation
         [] retirement.ready_commit = "Failed" -> FailDispatch(disp, "Protocol")
         [] retirement.ready_commit = "Retiring" ->
              /\ disp' = [disp EXCEPT !.at = "loop", !.started = TRUE, !.retiring = TRUE]
              /\ RetireOperation
              /\ UNCHANGED <<startup, interrupts>>
         [] OTHER -> FALSE
    /\ UNCHANGED <<events, commands, ghost, others>>

(* finish_bootstrap: an interrupted bootstrap withholds the admitted cell, *)
(* attached or not.                                                        *)
BootstrapFinished ==
    /\ TakeRelay(Initialized)
    /\ Acceptable(NextEvent)
    /\ Handled(NextEvent)
    /\ disp' = Popped
    /\ LET interrupted == NextEvent.kind = "RuntimeInterrupted" IN
       /\ oper' = [oper EXCEPT !.bootstrap = IF interrupted THEN "Interrupted" ELSE "Finished"]
       /\ cell' = IF interrupted /\ CellAdmitted /\ cell.phase = "Pending"
                  THEN [cell EXCEPT !.phase = "Withheld"] ELSE cell
    /\ UNCHANGED <<startup, answer, commands, interrupts, others>>

CellStarted ==
    /\ TakeRelay({"CellStarted"})
    /\ Acceptable(NextEvent)
    /\ Handled(NextEvent)
    /\ disp' = Popped
    /\ cell' = [cell EXCEPT !.entered = TRUE, !.open = TRUE]
    /\ UNCHANGED <<oper, startup, answer, commands, interrupts, others>>

InputEvent ==
    /\ TakeRelay(Inputs)
    /\ Acceptable(NextEvent)
    /\ Handled(NextEvent)
    /\ disp' = Popped
    /\ LET requested == NextEvent.kind = "InputRequested" IN
       IF oper.kind = "Cell"
       THEN cell' = [cell EXCEPT !.input = requested] /\ UNCHANGED oper
       ELSE oper' = [oper EXCEPT !.idle_input = requested] /\ UNCHANGED cell
    /\ UNCHANGED <<startup, answer, commands, interrupts, others>>

-----------------------------------------------------------------------------
(* Callbacks.  All of them take the environment lock; resolution keeps it  *)
(* while the host resolver runs.                                           *)
CallbackEvents == RuntimeCallbacks \ {"ResolveR"}

(* A request of a closing session is refused before the lock is taken.     *)
InCallback ==
    [Popped EXCEPT !.event = NextEvent,
                   !.at = IF retirement.lifecycle /\ NextEvent.kind \in {"ResolveR", "ResolvePython"}
                          THEN "resolving" ELSE "env"]

\* mutant of BeginResolveR: a reserved environment does not reject it
BeginResolveRUnreserved ==
    /\ TakeRelay({"ResolveR"})
    /\ Acceptable(NextEvent)
    /\ Handled(NextEvent)
    /\ disp' = InCallback
    /\ oper' = [oper EXCEPT !.callback = "Resolving"]
    /\ UNCHANGED <<startup, answer, cell, interrupts, commands, others>>

BeginResolveR ==
    /\ TakeRelay({"ResolveR"})
    /\ Acceptable(NextEvent)
    /\ Handled(NextEvent)
    /\ IF oper.reserved
       THEN IF commands.failed
            THEN FailDispatch(Popped, "Transport") /\ UNCHANGED commands
            ELSE Send(Command("Reject")) /\ disp' = Popped /\ UNCHANGED operation
       ELSE /\ disp' = InCallback
            /\ oper' = [oper EXCEPT !.callback = "Resolving"]
            /\ UNCHANGED <<startup, answer, cell, interrupts, commands>>
    /\ UNCHANGED others

BeginCallback ==
    /\ TakeRelay(CallbackEvents)
    /\ Acceptable(NextEvent)
    /\ Handled(NextEvent)
    /\ disp' = InCallback
    /\ UNCHANGED <<operation, commands, others>>

TakeEnvironment ==
    /\ disp.at = "env" /\ disp.event.kind \in {"ResolveR", "ResolvePython"}
    /\ env = "None"
    /\ env' = "Dispatcher"
    /\ disp' = [disp EXCEPT !.at = "resolving"]
    /\ UNCHANGED <<events, operation, commands, ghost, owner, retirement, caller, outside>>

(* The reply is sent after the lock is free; resolved says whether the     *)
(* worker will report an activation.  A reply that cannot be sent, or a    *)
(* callback that a failure already forgot, is an error of the handler.     *)
ReplyTo(resolved) ==
    LET r == disp.event.kind = "ResolveR" IN
    IF commands.failed \/ (r /\ oper.callback # "Resolving")
    THEN /\ FailDispatch(disp, "Transport")
         /\ IF commands.failed THEN UNCHANGED commands
            ELSE Send(Command(IF resolved THEN "Reply" ELSE "Reject"))
    ELSE /\ Send(Command(IF resolved THEN "Reply" ELSE "Reject"))
         /\ disp' = [disp EXCEPT !.at = "loop"]
         /\ oper' = IF r THEN [oper EXCEPT !.callback = IF resolved THEN "AwaitingActivation"
                                                         ELSE "None"]
                    ELSE oper
         /\ UNCHANGED <<startup, answer, cell, interrupts>>

Resolve ==
    /\ disp.at = "resolving"
    /\ env' = IF env = "Dispatcher" THEN "None" ELSE env
    /\ \/ ReplyTo(FALSE) /\ UNCHANGED wk
       \/ ~retirement.lifecycle /\ ReplyTo(TRUE) /\ UNCHANGED wk
       \/ /\ Faulty("Host") /\ OneMoreFault /\ disp.event.kind = "ResolveR"
          /\ FailDispatch(disp, "Protocol") /\ UNCHANGED commands
    /\ UNCHANGED <<events, ghost, owner, retirement, caller, child, clock, reader>>

(* Activation: commits, or discards for a replacement.                     *)
Activate ==
    /\ disp.at = "env" /\ disp.event.kind \in {"RActivated", "RActivationFailed", "PythonActivated"}
    /\ env = "None"
    /\ IF disp.event.kind = "PythonActivated"
       THEN disp' = [disp EXCEPT !.at = "loop"] /\ UNCHANGED operation
       ELSE IF oper.callback # "AwaitingActivation"
       THEN FailDispatch(disp, "Protocol")
       ELSE /\ disp' = [disp EXCEPT !.at = "loop"]
            /\ oper' = [oper EXCEPT !.callback = "None"]
            /\ UNCHANGED <<startup, answer, cell, interrupts>>
    /\ UNCHANGED <<events, commands, ghost, others>>

-----------------------------------------------------------------------------
(* complete.  After retirement nobody waits for the result; a completion   *)
(* still closes the output interval of its cell.                           *)
Complete ==
    /\ TakeRelay(Results)
    /\ Acceptable(NextEvent)
    /\ Handled(NextEvent)
    /\ disp' = Popped
    /\ LET e == NextEvent
           prepared == e.kind = "Prepared" /\ ~retirement.lifecycle
       IN
       /\ oper' = [oper EXCEPT !.kind = "None", !.result = FALSE, !.more = FALSE,
                               !.reserved = @ /\ ~(oper.more /\ oper.result /\ ~prepared)]
       /\ answer' = IF ~oper.result THEN answer
                    ELSE IF e.kind = "Completed" THEN "Completed"
                    ELSE IF prepared THEN "Prepared" ELSE "Rejected"
       /\ cell' = IF e.kind # "Completed" THEN cell
                  ELSE IF oper.result THEN [FinishCell("Completed") EXCEPT !.open = FALSE]
                  ELSE [cell EXCEPT !.open = FALSE]
    /\ UNCHANGED <<startup, commands, interrupts, others>>

-----------------------------------------------------------------------------
(* Events of the controller's own threads.                                 *)
Suspend ==
    /\ TakeEvent({"Suspend"})
    /\ disp' = Popped
    /\ LET admitted == EnsureAvailable /\ oper.bootstrap # "Disabled" /\ ~oper.reserved IN
       /\ oper' = IF admitted THEN [oper EXCEPT !.reserved = TRUE, !.suspended = TRUE] ELSE oper
       /\ owner' = [owner EXCEPT !.admitted = IF admitted THEN "Ok" ELSE "Err"]
    /\ UNCHANGED <<startup, answer, cell, interrupts, commands, env, retirement, caller, outside,
                   ghost>>

Resume ==
    /\ TakeEvent({"Resume"})
    /\ disp' = Popped
    /\ oper' = [oper EXCEPT !.suspended = FALSE]
    /\ UNCHANGED <<startup, answer, cell, interrupts, commands, ghost, others>>

TransportFailure ==
    /\ TakeEvent({"TransportFailure"})
    /\ commands' = Aborted
    /\ IF disp.retiring THEN disp' = Popped /\ UNCHANGED operation
       ELSE FailDispatch(Popped, "Transport")
    /\ UNCHANGED <<ghost, others>>

(* The ordered barrier of retirement.                                      *)
Retire ==
    /\ TakeEvent({"Retire"})
    /\ disp' = [disp EXCEPT !.deferred = <<>>, !.startup = FALSE, !.retiring = TRUE,
                            !.at = IF disp.closed THEN "done" ELSE "loop"]
    /\ startup' = IF disp.startup THEN "Failed" ELSE startup
    /\ interrupts' = FailedInterrupts
    /\ RetireOperation
    /\ retirement' = [retirement EXCEPT !.reached = "Ok"]
    /\ UNCHANGED <<commands, ghost, owner, env, caller, outside>>

(* The end of the relay's output is a failure unless the launch retires or *)
(* the relay said everything.  Command admission closes after the failure  *)
(* is recorded.                                                            *)
RelayEnded == disp.retiring \/ (disp.sideband /\ disp.outcome)

RecordExit(d) ==
    IF RelayEnded THEN disp' = d /\ UNCHANGED operation
    ELSE /\ disp' = [d EXCEPT !.startup = FALSE, !.semantic = TRUE]
         /\ startup' = IF disp.startup THEN "Failed" ELSE startup
         /\ interrupts' = FailedInterrupts
         /\ FailOperation("RelayExit")

AfterClose == IF disp.retiring \/ disp.semantic \/ ~disp.intentional THEN "done" ELSE "loop"

RelayClosed ==
    \/ /\ TakeEvent({"RelayClosed"})
       /\ RecordExit([Popped EXCEPT !.closed = TRUE, !.at = "abort"])
       /\ ghost' = [ghost EXCEPT !.exit_first = ~RelayEnded /\ oper.failure = "None"]
       /\ UNCHANGED <<commands, others>>
    \/ /\ disp.at = "abort"
       /\ commands' = Aborted
       /\ disp' = [disp EXCEPT !.at = AfterClose]
       /\ interrupts' = IF AfterClose = "done" THEN FailedInterrupts ELSE interrupts
       /\ UNCHANGED <<events, oper, startup, answer, cell, ghost, others>>

Dispatch ==
    \/ Defer \/ DeferFails \/ RelayError \/ IgnoreSemantic \/ RelayLifetime \/ SidebandClosed
    \/ InterruptResult \/ ShutdownStarted \/ Fatal \/ Ready \/ ReadyCommitted
    \/ BootstrapFinished \/ CellStarted \/ InputEvent \/ BeginResolveR \/ BeginCallback
    \/ TakeEnvironment \/ Activate \/ Complete
    \/ Suspend \/ Resume \/ TransportFailure \/ Retire \/ RelayClosed

-----------------------------------------------------------------------------
(* The command writer.                                                     *)
Reading == wk.at \notin {"Closing", "Gone"} /\ ~wk.deaf
Post(kind, i) == IF reader THEN Append(events, [kind |-> kind, n |-> 0, i |-> i]) ELSE events

WriteCommand ==
    /\ ~commands.failed /\ commands.queue # <<>>
    /\ Reading
    /\ LET c == Head(commands.queue) IN
       /\ commands' = [commands EXCEPT !.queue = Tail(@)]
       /\ events' = CASE c.kind = "Interrupt" -> Post("InterruptResult", c.i)
                      [] c.kind = "Shutdown" -> Post("ShutdownStarted", NoCall)
                      [] OTHER -> events
       /\ retirement' = IF c.kind = "Shutdown" THEN [retirement EXCEPT !.receipt = TRUE] ELSE retirement
       /\ wk' = CASE c.kind = "Evaluate" -> [wk EXCEPT !.todo = "Cell"]
                  [] c.kind = "Prepare" -> [wk EXCEPT !.todo = "Prepare"]
                  [] c.kind = "Reply" -> [wk EXCEPT !.wait = IF @ = "R" THEN "RActivate" ELSE "PyActivate"]
                  [] c.kind = "Reject" -> [wk EXCEPT !.wait = "No"]
                  [] c.kind = "Interrupt" -> [wk EXCEPT !.interrupted = wk.at = "Boot"]
                  [] c.kind = "Shutdown" -> [wk EXCEPT !.at = "Closing"]
                  [] OTHER -> wk
    /\ UNCHANGED <<disp, operation, owner, env, caller, child, clock, reader, ghost>>

(* A write to a relay that is gone fails the transport.  A writer whose    *)
(* transport has failed ends: it holds nothing that somebody waits for.    *)
WriteFails ==
    /\ ~commands.failed /\ commands.queue # <<>>
    /\ wk.at = "Gone"
    /\ commands' = Aborted
    /\ events' = Append(events, Event("TransportFailure"))
    /\ UNCHANGED <<disp, operation, others, ghost>>

(* report_command_transport_failure *)
ReportTransportFailure ==
    /\ commands' = Aborted
    /\ events' = IF commands.failed THEN events ELSE Append(events, Event("TransportFailure"))

(* The event reader: end of file, or a frame it cannot read.               *)
ReaderEnds ==
    /\ reader
    /\ child.state # "Live" \/ child.output_stopped
    /\ reader' = FALSE
    /\ events' = Append(events, Event("RelayClosed"))
    /\ UNCHANGED <<disp, operation, commands, owner, env, retirement, caller, child, clock, wk, ghost>>

ReadFails ==
    /\ Faulty("Read") /\ OneMoreFault /\ reader
    /\ reader' = FALSE
    /\ events' = events \o <<Event("TransportFailure"), Event("RelayClosed")>>
    /\ UNCHANGED <<disp, operation, commands, owner, env, retirement, caller, child, clock, ghost>>

-----------------------------------------------------------------------------
(* The holder of the worker mutex.  First it starts the worker.            *)
Move(label) == owner' = [owner EXCEPT !.at = label]
DispatcherDone == disp.at = "done"

(* startup_failure: the dispatcher is told before the launch is retired.   *)
FailStartup ==
    /\ retirement' = [retirement EXCEPT !.ready_commit = IF @ = "Open" THEN "Failed" ELSE @]
    /\ Move("retire")

ReceiveStartup ==
    /\ owner.at = "starting"
    /\ \/ startup = "Ready" /\ Move("on_ready") /\ UNCHANGED retirement
       \/ (startup = "Failed" \/ (startup = "None" /\ DispatcherDone)) /\ FailStartup
    /\ startup' = "None"
    /\ UNCHANGED <<events, disp, oper, answer, cell, interrupts, commands, env, caller, outside,
                   ghost>>

OnReady ==
    /\ owner.at = "on_ready"
    /\ IF retirement.lifecycle THEN FailStartup ELSE Move("commit") /\ UNCHANGED retirement
    /\ UNCHANGED <<events, disp, operation, commands, env, caller, outside, ghost>>

CommitReady ==
    /\ owner.at = "commit"
    /\ IF retirement.ready_commit = "Open"
       THEN retirement' = [retirement EXCEPT !.ready_commit = "Committed"] /\ Move("mark")
       ELSE FailStartup
    /\ UNCHANGED <<events, disp, operation, commands, env, caller, outside, ghost>>

(* The child's mutex is held by the caller that stops the relay.           *)
ChildLocked == \E c \in Callers : caller[c] \in {"stop", "relay_grace", "grace", "kill"}

MarkReady ==
    /\ owner.at = "mark" /\ ~ChildLocked
    /\ child' = [child EXCEPT !.ready = TRUE]
    /\ Move("free")
    /\ UNCHANGED <<events, disp, operation, commands, env, retirement, caller, clock, reader, wk,
                   ghost>>

(* Admission of a job, refused by a closing session.                       *)
Admit(job) ==
    /\ owner.at = "free" /\ owner.jobs < MaxJobs /\ ~retirement.lifecycle
    /\ job = "Replace" => ~owner.used /\ Builtin /\ ~wk.r
    /\ owner' = [owner EXCEPT !.at = IF job = "Cell" THEN "begin" ELSE "reserve", !.job = job,
                              !.jobs = @ + 1, !.used = @ \/ job # "Replace", !.admitted = "None"]
    /\ cell' = IF job = "Cell" THEN [cell EXCEPT !.phase = "Pending", !.outcome = "None",
                                                 !.entered = FALSE, !.input = FALSE]
               ELSE cell
    /\ answer' = "None"
    /\ UNCHANGED <<events, disp, oper, startup, interrupts, commands, env, retirement, caller,
                   outside, ghost>>

\* mutant of BeginCell: the input request of the idle worker is forgotten
BeginCellWithoutInput ==
    /\ owner.at = "begin"
    /\ IF ~EnsureAvailable THEN Move("failed") /\ UNCHANGED <<oper, cell>>
       ELSE /\ oper.callback # "Resolving"
            /\ oper' = [oper EXCEPT !.kind = "Cell", !.result = TRUE, !.idle_input = FALSE]
            /\ Move("bootstrap") /\ UNCHANGED cell
    /\ UNCHANGED <<events, disp, startup, answer, interrupts, commands, env, retirement, caller,
                   outside, ghost>>

(* Worker::evaluate. *)
BeginCell ==
    /\ owner.at = "begin"
    /\ IF ~EnsureAvailable THEN Move("failed") /\ UNCHANGED <<oper, cell>>
       ELSE /\ oper.callback # "Resolving"
            /\ oper' = [oper EXCEPT !.kind = "Cell", !.result = TRUE, !.idle_input = FALSE]
            /\ cell' = [cell EXCEPT !.input = oper.idle_input]
            /\ Move("bootstrap")
    /\ UNCHANGED <<events, disp, startup, answer, interrupts, commands, env, retirement, caller,
                   outside, ghost>>

\* mutant of WaitForBootstrap: the cell does not wait
WaitForNoBootstrap ==
    /\ owner.at = "bootstrap"
    /\ Move(IF EnsureRunning THEN "dispatch" ELSE "failed")
    /\ UNCHANGED <<events, disp, operation, commands, env, retirement, caller, outside, ghost>>

WaitForBootstrap ==
    /\ owner.at = "bootstrap"
    /\ oper.bootstrap # "Running" \/ ~EnsureRunning
    /\ Move(IF EnsureRunning THEN "dispatch" ELSE "failed")
    /\ UNCHANGED <<events, disp, operation, commands, env, retirement, caller, outside, ghost>>

DispatchCell ==
    /\ owner.at = "dispatch"
    /\ IF EnsureRunning /\ cell.phase = "Withheld"
       THEN Move("abort") /\ UNCHANGED <<oper, answer, cell, commands>>
       ELSE IF EnsureRunning /\ ~commands.failed
       THEN /\ Send(Command("Evaluate"))
            /\ cell' = [cell EXCEPT !.phase = "Dispatched"]
            /\ Move("receive")
            /\ UNCHANGED <<oper, answer>>
       ELSE FailOperation("Owner") /\ Move("failed") /\ UNCHANGED commands
    /\ UNCHANGED <<events, disp, startup, interrupts, env, retirement, caller, outside, ghost>>

(* A withheld cell never ran; its input goes back to the idle callback.    *)
AbortBootstrapCell ==
    /\ owner.at = "abort"
    /\ IF oper.kind # "Cell" THEN Move("failed") /\ UNCHANGED <<oper, cell>>
       ELSE /\ oper' = [oper EXCEPT !.kind = "None", !.result = FALSE, !.idle_input = cell.input]
            /\ cell' = [FinishCell("Completed") EXCEPT !.input = FALSE]
            /\ Move("free")
    /\ UNCHANGED <<events, disp, startup, answer, interrupts, commands, env, retirement, caller,
                   outside, ghost>>

(* A preparation first reserves the environment.  A used worker waits for  *)
(* its bootstrap; an unused one is suspended by a barrier in the queue.    *)
ReserveEnvironment ==
    /\ owner.at = "reserve" /\ owner.job # "Replace"
    /\ IF ~EnsureAvailable
       THEN owner' = [owner EXCEPT !.at = "prepare_env", !.admitted = "Err"] /\ UNCHANGED oper
       ELSE \/ /\ oper.bootstrap = "Running" /\ oper.idle_input
               /\ Move("free") /\ UNCHANGED oper
            \/ /\ oper.bootstrap # "Running" /\ oper.callback # "None"
               /\ Move("free") /\ UNCHANGED oper
            \/ /\ oper.bootstrap # "Running" /\ oper.callback = "None"
               /\ oper' = [oper EXCEPT !.reserved = TRUE]
               /\ owner' = [owner EXCEPT !.at = "prepare_env", !.admitted = "Ok",
                                         !.reservation = "Live"]
    /\ UNCHANGED <<events, disp, startup, answer, cell, interrupts, commands, env, retirement,
                   caller, outside, ghost>>

ReserveReplacement ==
    /\ owner.at = "reserve" /\ owner.job = "Replace"
    /\ IF DispatcherDone
       THEN owner' = [owner EXCEPT !.at = "prepare_env", !.admitted = "Err"] /\ UNCHANGED events
       ELSE events' = Append(events, Event("Suspend")) /\ Move("suspending")
    /\ UNCHANGED <<disp, operation, commands, env, retirement, caller, outside, ghost>>

ReplacementReserved ==
    /\ owner.at = "suspending"
    /\ owner.admitted # "None" \/ DispatcherDone
    /\ owner' = [owner EXCEPT !.at = "prepare_env",
                              !.admitted = IF @ = "Ok" THEN "Ok" ELSE "Err",
                              !.reservation = IF owner.admitted = "Ok" THEN "Replacing" ELSE "None"]
    /\ UNCHANGED <<events, disp, operation, commands, env, retirement, caller, outside, ghost>>

(* The reservation is dropped with the preparation; a suspended bootstrap  *)
(* resumes behind what is queued.                                          *)
DropReservation(label) ==
    /\ oper' = IF owner.reservation = "None" THEN oper ELSE [oper EXCEPT !.reserved = FALSE]
    /\ events' = IF owner.reservation = "Replacing" /\ ~DispatcherDone
                 THEN Append(events, Event("Resume")) ELSE events
    /\ owner' = [owner EXCEPT !.at = label, !.reservation = "None"]

LockEnvironment ==
    /\ owner.at = "prepare_env" /\ env = "None"
    /\ IF owner.admitted = "Err" THEN Move("failed") /\ UNCHANGED <<events, oper, env>>
       ELSE IF retirement.lifecycle THEN DropReservation("free") /\ UNCHANGED env
       ELSE Move("resolve") /\ env' = "Owner" /\ UNCHANGED <<events, oper>>
    /\ UNCHANGED <<disp, startup, answer, cell, interrupts, commands, retirement, caller, outside,
                   ghost>>

(* The host resolves the declaration under the environment lock.           *)
ResolveDeclaration ==
    /\ owner.at = "resolve"
    /\ \/ DropReservation("free") /\ env' = "None"
       \/ /\ ~retirement.lifecycle
          /\ IF owner.job = "Replace" THEN Move("retire") /\ UNCHANGED env
             ELSE Move("begin_prepare") /\ env' = "None"
          /\ UNCHANGED <<events, oper>>
    /\ UNCHANGED <<disp, startup, answer, cell, interrupts, commands, retirement, caller, outside,
                   ghost>>

(* begin_preparation; the first of two keeps the environment reserved.     *)
BeginPreparation ==
    /\ owner.at = "begin_prepare"
    /\ IF ~EnsureAvailable \/ oper.idle_input \/ ~oper.reserved
       THEN Move("failed") /\ UNCHANGED <<oper, answer>>
       ELSE LET more == owner.job = "PrepareBoth" IN
            /\ oper' = [oper EXCEPT !.kind = "Prepare", !.result = TRUE, !.more = more,
                                    !.reserved = more]
            /\ answer' = "None"
            /\ Move("send")
    /\ UNCHANGED <<events, disp, startup, cell, interrupts, commands, env, retirement, caller,
                   outside, ghost>>

SendPreparation ==
    /\ owner.at = "send"
    /\ IF commands.failed THEN Move("failed") /\ UNCHANGED commands
       ELSE Send(Command("Prepare")) /\ Move("receive")
    /\ UNCHANGED <<events, disp, operation, env, retirement, caller, outside, ghost>>

(* receive_operation, and what evaluate or prepare_running does with it.   *)
ReceiveResult ==
    /\ owner.at = "receive"
    /\ \/ /\ answer \in {"Completed", "Prepared", "Rejected"}
          /\ IF answer = "Prepared" /\ owner.job = "PrepareBoth"
             THEN /\ owner' = [owner EXCEPT !.at = "begin_prepare", !.job = "Prepare"]
                  /\ UNCHANGED <<events, oper>>
             ELSE DropReservation("free")
       \/ /\ answer = "Failed" \/ (answer = "None" /\ DispatcherDone)
          /\ Move("failed") /\ UNCHANGED <<events, oper>>
    /\ answer' = "None"
    /\ UNCHANGED <<disp, startup, cell, interrupts, commands, env, retirement, caller,
                   outside, ghost>>

(* stop_failed_worker and startup_failure retire the launch with a worker  *)
(* deadline that has passed; a restart that owns the worker does it alone. *)
OwnerRetires ==
    /\ owner.at \in {"failed", "retire"} /\ caller[Owner] = "idle"
    /\ cell' = IF owner.job = "Cell" THEN FinishCell("Failed") ELSE cell
    /\ IF retirement.lifecycle /\ owner.job # "Start"
       THEN /\ DropReservation("ended")
            /\ env' = IF env = "Owner" THEN "None" ELSE env
            /\ UNCHANGED <<retirement, caller, clock>>
       ELSE /\ Move("retire")
            /\ caller' = [caller EXCEPT ![Owner] = "request"]
            /\ retirement' = [retirement EXCEPT !.budget = IF @ = "None" THEN "Failure" ELSE @]
            /\ clock' = IF retirement.budget = "None" THEN 1 ELSE clock
            /\ UNCHANGED <<events, oper, env>>
    /\ UNCHANGED <<disp, startup, answer, interrupts, commands, child, reader, wk, ghost>>

OwnerRetired ==
    /\ owner.at = "retire" /\ caller[Owner] = "done"
    /\ DropReservation("ended")
    /\ env' = IF env = "Owner" THEN "None" ELSE env
    /\ UNCHANGED <<disp, startup, answer, cell, interrupts, commands, retirement, caller, outside,
                   ghost>>

OwnerStep ==
    \/ ReceiveStartup \/ OnReady \/ CommitReady \/ MarkReady
    \/ BeginCell \/ WaitForBootstrap \/ DispatchCell \/ AbortBootstrapCell
    \/ ReserveEnvironment \/ ReserveReplacement \/ ReplacementReserved \/ LockEnvironment
    \/ BeginPreparation \/ SendPreparation \/ ReceiveResult \/ OwnerRetires \/ OwnerRetired

(* An interrupt withholds a cell that is not dispatched, and is queued     *)
(* under the locks that dispatch takes.                                    *)
Interrupt(i) ==
    /\ interrupts.call[i] = "idle" /\ owner.at # "ended"
    /\ cell' = IF CellAdmitted /\ cell.phase = "Pending" THEN [cell EXCEPT !.phase = "Withheld"]
               ELSE cell
    /\ IF interrupts.failed \/ commands.failed
       THEN interrupts' = [interrupts EXCEPT !.call[i] = "error"] /\ UNCHANGED commands
       ELSE /\ interrupts' = [interrupts EXCEPT !.pending = @ \cup {i}, !.call[i] = "waiting"]
            /\ Send([kind |-> "Interrupt", i |-> i])
    /\ UNCHANGED <<events, disp, oper, startup, answer, others, ghost>>

-----------------------------------------------------------------------------
(* Retirement.  Its callers reserve a budget, one of them requests the     *)
(* relay's shutdown, and one of them finishes; the others wait for it.     *)
Goto(c, label) == caller' = [caller EXCEPT ![c] = label]

LifecycleRetire(c) ==
    /\ caller[c] = "idle"
    /\ retirement' = [retirement EXCEPT !.lifecycle = TRUE,
                                        !.budget = IF @ = "None" THEN "Timely" ELSE @]
    /\ Goto(c, "request")
    /\ UNCHANGED <<events, disp, operation, commands, owner, env, outside, ghost>>

(* A lifecycle caller stops the resolver before it waits for the rest.     *)
Requested(c, r) ==
    /\ Goto(c, "retire")
    /\ retirement' = [r EXCEPT !.cancelled = @ \/ c # Owner]

RequestShutdown(c) ==
    /\ caller[c] = "request" /\ ~retirement.requesting
    /\ LET r == [retirement EXCEPT !.requesting = TRUE, !.observed = "Requested",
                                   !.ready_commit = IF @ = "Open" THEN "Retiring" ELSE @]
       IN
       IF retirement.requested # "None" THEN Requested(c, retirement) /\ UNCHANGED commands
       ELSE IF commands.failed
       THEN /\ Requested(c, [r EXCEPT !.requesting = FALSE, !.requested = "Always"])
            /\ UNCHANGED commands
       ELSE Goto(c, "receipt") /\ retirement' = r /\ Send(Command("Shutdown"))
    /\ UNCHANGED <<events, disp, operation, owner, env, outside, ghost>>

(* The writer answers: the command is written, or the writer ended before  *)
(* it.  Without an answer the completion deadline fails the transport.     *)
ShutdownReceipt(c) ==
    /\ caller[c] = "receipt"
    /\ LET settled(allowance) ==
               Requested(c, [retirement EXCEPT !.requesting = FALSE, !.requested = allowance]) IN
       \/ /\ retirement.receipt
          /\ settled(IF retirement.budget = "Timely" THEN "Timely" ELSE "Always")
          /\ UNCHANGED <<events, commands>>
       \/ /\ ~retirement.receipt /\ commands.failed
          /\ settled("Always")
          /\ UNCHANGED <<events, commands>>
       \/ /\ ~retirement.receipt
          /\ clock >= IF retirement.budget = "Timely" THEN 1 ELSE 2
          /\ ReportTransportFailure
          /\ settled("Always")
    /\ UNCHANGED <<disp, operation, owner, env, outside, ghost>>

(* retire: the first takes the tasks and queues the barrier.               *)
CompletionAhead ==
    /\ oper.kind = "Cell" /\ oper.result /\ oper.failure = "None"
    /\ \E k \in DOMAIN events : events[k].kind = "Completed"

\* mutant of StartRetire: the caller retires the operation itself
StartRetireAtOnce(c) ==
    /\ caller[c] = "retire" /\ ~retirement.requesting /\ ~retirement.finishing
    /\ IF retirement.result # "None"
       THEN Goto(c, "done") /\ UNCHANGED <<events, retirement, ghost, oper, cell, answer>>
       ELSE /\ retirement' = [retirement EXCEPT !.finishing = TRUE, !.tasks = FALSE]
            /\ ghost' = [ghost EXCEPT !.ahead = ~DispatcherDone /\ CompletionAhead]
            /\ IF DispatcherDone THEN Goto(c, "stop") /\ UNCHANGED events
               ELSE Goto(c, "reached") /\ events' = Append(events, Event("Retire"))
            /\ RetireOperation
    /\ UNCHANGED <<disp, startup, interrupts, commands, owner, env, outside>>

StartRetire(c) ==
    /\ caller[c] = "retire" /\ ~retirement.requesting /\ ~retirement.finishing
    /\ IF retirement.result # "None" THEN Goto(c, "done") /\ UNCHANGED <<events, retirement, ghost>>
       ELSE /\ retirement' = [retirement EXCEPT !.finishing = TRUE, !.tasks = FALSE]
            /\ ghost' = [ghost EXCEPT !.ahead = ~DispatcherDone /\ CompletionAhead]
            /\ IF DispatcherDone THEN Goto(c, "stop") /\ UNCHANGED events
               ELSE Goto(c, "reached") /\ events' = Append(events, Event("Retire"))
    /\ UNCHANGED <<disp, operation, commands, owner, env, outside>>

BarrierReached(c) ==
    /\ caller[c] = "reached"
    /\ \/ retirement.reached = "Ok" \/ DispatcherDone
       \/ clock >= IF retirement.requested = "Always" THEN 2 ELSE 1
    /\ Goto(c, "stop")
    /\ UNCHANGED <<events, disp, operation, commands, owner, env, retirement, outside, ghost>>

(* stop_relay, and then the ends of the command and output streams, which  *)
(* are closed whatever became of the relay.  The status of a relay that    *)
(* was ready counts, unless its exit is what failed the launch.            *)
Reap(c, failed) ==
    /\ child.state = "Exited"
    /\ child' = [child EXCEPT !.state = "Reaped", !.output_stopped = TRUE]
    /\ retirement' = [retirement EXCEPT !.cleanup =
           ~failed /\ ~(child.status = "Bad" /\ child.ready /\ ~oper.relay_exit)]
    /\ commands' = Aborted
    /\ Goto(c, "join")
    /\ UNCHANGED events

Terminate(c) ==
    /\ ReportTransportFailure
    /\ Goto(c, "grace")
    /\ UNCHANGED <<retirement, child>>

RelayMayFinish == \/ retirement.requested = "Always" \/ oper.failure # "None"
                  \/ retirement.observed = "Timely"

StopRelay(c) ==
    /\ \/ caller[c] \in {"stop", "relay_grace", "grace"} /\ Reap(c, FALSE)
       \/ caller[c] = "kill" /\ Reap(c, TRUE)
       \/ /\ caller[c] = "stop" /\ child.state = "Live" /\ clock >= 1
          /\ IF RelayMayFinish
             THEN Goto(c, "relay_grace") /\ UNCHANGED <<events, commands, retirement, child>>
             ELSE Terminate(c)
       \/ caller[c] = "relay_grace" /\ child.state = "Live" /\ clock >= 2 /\ Terminate(c)
       \/ /\ caller[c] = "grace" /\ child.state = "Live" /\ clock >= 3
          /\ Goto(c, "kill") /\ UNCHANGED <<events, commands, retirement, child>>
       \/ /\ caller[c] = "kill" /\ child.state = "Live" /\ clock = 4
          /\ retirement' = [retirement EXCEPT !.cleanup = FALSE]
          /\ child' = [child EXCEPT !.output_stopped = TRUE]
          /\ commands' = Aborted
          /\ Goto(c, "join") /\ UNCHANGED events
    /\ UNCHANGED <<disp, operation, owner, env, clock, reader, wk, ghost>>

(* The child's cleanup and the threads' outcome.                           *)
JoinedResult ==
    IF child.state # "Reaped" THEN "Stuck"
    ELSE IF disp.bad THEN "BadIO"
    ELSE IF ~retirement.cleanup THEN "Unclean"
    ELSE "Clean"

\* mutant of JoinTasks: the dispatcher is not joined
JoinTasksEarly(c) ==
    /\ caller[c] = "join" /\ commands.failed /\ ~reader
    /\ retirement' = [retirement EXCEPT !.finishing = FALSE, !.result = JoinedResult]
    /\ cell' = IF child.state = "Reaped" THEN [cell EXCEPT !.open = FALSE] ELSE cell
    /\ Goto(c, "done")
    /\ UNCHANGED <<events, disp, oper, startup, answer, interrupts, commands, owner, env, outside,
                   ghost>>

(* Every thread of the launch has ended before the result is published.    *)
JoinTasks(c) ==
    /\ caller[c] = "join"
    /\ commands.failed /\ ~reader /\ DispatcherDone
    /\ retirement' = [retirement EXCEPT !.finishing = FALSE, !.result = JoinedResult]
    /\ cell' = IF child.state = "Reaped" THEN [cell EXCEPT !.open = FALSE] ELSE cell
    /\ Goto(c, "done")
    /\ UNCHANGED <<events, disp, oper, startup, answer, interrupts, commands, owner, env, outside,
                   ghost>>

(* The deadlines: 1 the worker's, 2 the relay's grace, 3 the launcher's,   *)
(* 4 the kill's.  A deadline passes while somebody waits for it: earlier    *)
(* it would be noticed no sooner.                                          *)
Tick ==
    /\ \E c \in Callers :
          CASE clock = 0 -> caller[c] \in {"receipt", "reached", "stop"}
            [] clock = 1 -> caller[c] \in {"receipt", "reached", "relay_grace", "grace"}
            [] clock = 2 -> caller[c] = "grace"
            [] clock = 3 -> caller[c] = "kill"
            [] OTHER -> FALSE
    /\ clock' = clock + 1
    /\ UNCHANGED <<events, disp, operation, commands, owner, env, retirement, caller, child, reader,
                   wk, ghost>>

RetireStep(c) ==
    \/ RequestShutdown(c) \/ ShutdownReceipt(c) \/ StartRetire(c)
    \/ BarrierReached(c) \/ StopRelay(c) \/ JoinTasks(c)

-----------------------------------------------------------------------------
(* External: the relay and the worker behind the pipes.                    *)
Emit(seq) == events' = IF reader THEN events \o seq ELSE events
Said(kind) == /\ Len(events) < MaxPending
              /\ Emit(<<[kind |-> kind, n |-> wk.n + 1, i |-> NoCall]>>)
Controller == <<disp, operation, commands, owner, env, retirement, caller, clock, reader, ghost>>

WorkerStarts ==
    /\ wk.at = "Spawned"
    /\ Emit(<<Event("WorkerStarted"), [Event("Ready") EXCEPT !.n = 1]>>)
    /\ wk' = [wk EXCEPT !.at = IF Builtin THEN "Boot" ELSE "Idle", !.n = 1]
    /\ UNCHANGED <<child, Controller>>

Initializes ==
    /\ wk.at = "Boot" /\ wk.wait = "No"
    /\ Said(IF wk.interrupted THEN "RuntimeInterrupted" ELSE "RuntimeInitialized")
    /\ wk' = [wk EXCEPT !.at = "Idle", !.n = @ + 1]
    /\ UNCHANGED <<child, Controller>>

(* The main thread takes its next command between callbacks.               *)
StartsTodo ==
    /\ wk.at = "Idle" /\ wk.wait = "No" /\ wk.todo # "None"
    /\ IF wk.todo = "Cell" THEN Said("CellStarted") ELSE UNCHANGED events
    /\ wk' = [wk EXCEPT !.at = wk.todo, !.todo = "None", !.n = IF wk.todo = "Cell" THEN @ + 1 ELSE @]
    /\ UNCHANGED <<child, Controller>>

FinishesTodo ==
    /\ wk.at \in {"Cell", "Prepare"} /\ wk.wait = "No"
    /\ \E k \in IF wk.at = "Cell" THEN {"Completed"} ELSE {"Prepared", "PreparationFailed"} : Said(k)
    /\ wk' = [wk EXCEPT !.at = "Idle", !.n = @ + 1]
    /\ UNCHANGED <<child, Controller>>

Working == {"Boot", "Idle", "Cell", "Prepare"}

CallsBack ==
    /\ \/ /\ wk.at \in Working /\ wk.wait = "No" /\ wk.callbacks < MaxCallbacks
          /\ \E r \in Callbacks :
                /\ r = "R" => wk.r /\ wk.at # "Prepare"
                /\ Said(IF r = "R" THEN "ResolveR" ELSE "ResolvePython")
                /\ wk' = [wk EXCEPT !.wait = r, !.n = @ + 1, !.callbacks = @ + 1]
       \/ /\ wk.at \in Working /\ wk.wait = "RActivate"
          /\ \E k \in {"RActivated", "RActivationFailed"} : Said(k)
          /\ wk' = [wk EXCEPT !.wait = "No", !.n = @ + 1]
       \/ /\ wk.at \in Working /\ wk.wait = "PyActivate"
          /\ Said("PythonActivated")
          /\ wk' = [wk EXCEPT !.wait = "No", !.n = @ + 1]
    /\ UNCHANGED <<child, Controller>>

AsksInput ==
    /\ \/ /\ wk.at \in Working \ {"Prepare"} /\ wk.wait = "No" /\ wk.inputs < MaxInputs
          /\ Said("InputRequested")
          /\ wk' = [wk EXCEPT !.wait = "Input", !.n = @ + 1, !.inputs = @ + 1]
       \/ /\ wk.at \in Working /\ wk.wait = "Input"
          /\ Said("InputReceived")
          /\ wk' = [wk EXCEPT !.wait = "No", !.n = @ + 1]
    /\ UNCHANGED <<child, Controller>>

(* The end of the relay: all of its closing events, or what a termination  *)
(* left of them (the raw streams, which close before these, are left out). *)
(* The end of its commands makes it close the worker.       *)
ClosingEvents == <<Event("SidebandClosed"), Event("Outcome")>>

CommandsEnd ==
    /\ commands.failed /\ wk.at \notin {"Closing", "Gone"}
    /\ wk' = [wk EXCEPT !.at = "Closing"]
    /\ Emit(<<Event("PartialFrame")>>) \/ UNCHANGED events
    /\ UNCHANGED <<child, Controller>>

Terminated == \E c \in Callers : caller[c] \in {"grace", "kill"}

Exits(statuses, faults) ==
    /\ wk' = [wk EXCEPT !.at = "Gone", !.faults = @ + faults]
    /\ \E s \in statuses : child' = [child EXCEPT !.state = "Exited", !.status = s]
    /\ UNCHANGED Controller

RelayFinishes ==
    /\ wk.at # "Gone"
    /\ \/ wk.at = "Closing" /\ Emit(ClosingEvents) /\ Exits({"Ok"}, 0)
       \/ /\ wk.at # "Closing" /\ Faulty("Exit")
          /\ \E fatal \in {<<>>, <<Event("Fatal")>>} : Emit(fatal \o ClosingEvents)
          /\ Exits({"Ok"}, 1)

RelayDies ==
    /\ wk.at # "Gone"
    /\ \E k \in 0..1 : Emit(SubSeq(ClosingEvents, 1, k))
    /\ \/ Terminated /\ Exits({"Ok"}, 0)
       \/ ~Terminated /\ Faulty("Exit") /\ Exits({"Bad"}, 1)

(* The relay no longer reads its commands.                                 *)
TurnsDeaf ==
    /\ Faulty("Deaf") /\ ~wk.deaf /\ wk.at # "Gone"
    /\ wk' = [wk EXCEPT !.deaf = TRUE, !.faults = @ + 1]
    /\ UNCHANGED <<events, child, Controller>>

World == \/ WorkerStarts \/ Initializes \/ StartsTodo \/ FinishesTodo \/ CallsBack \/ AsksInput
         \/ CommandsEnd \/ RelayFinishes \/ RelayDies \/ TurnsDeaf

-----------------------------------------------------------------------------
Writer == WriteCommand \/ WriteFails
Reader == ReaderEnds \/ ReadFails

Next ==
    \/ Dispatch \/ Resolve \/ Writer \/ Reader
    \/ OwnerStep \/ ResolveDeclaration
    \/ \E job \in Jobs : Admit(job)
    \/ \E i \in Interrupters : Interrupt(i)
    \/ \E c \in Retirers : LifecycleRetire(c)
    \/ \E c \in Callers : RetireStep(c)
    \/ Tick
    \/ World

Spec == Init /\ [][Next]_vars

(* The controller's threads run, deadlines pass, and the resolver ends     *)
(* once it is stopped; nothing is assumed of the relay and the worker.     *)
(* That one of these steps happens while one is possible is less than      *)
(* fairness of each thread, and enough: the steps of a launch run out.     *)
ControllerStep ==
    \/ Dispatch \/ Writer \/ ReaderEnds \/ OwnerStep \/ Tick
    \/ \E c \in Callers : RetireStep(c)
    \/ retirement.cancelled /\ (Resolve \/ ResolveDeclaration)

LiveSpec == Spec /\ WF_vars(ControllerStep)

-----------------------------------------------------------------------------
(* Properties.                                                             *)

(* The worker's events take effect in the order it sent them and none is   *)
(* left out, until the launch fails or retires, although some of them wait *)
(* in the spool for a suspended bootstrap (deferred.rs).                   *)
SidebandInOrder ==
    [][ghost'.last # ghost.last =>
         \/ ghost'.last = ghost.last + 1
         \/ ghost'.last > ghost.last /\ disp.retiring
         \/ disp.semantic]_vars

(* Who waits for the dispatcher is known to it or has its answer, or the   *)
(* dispatcher's end wakes him: the starting thread, the holder of the      *)
(* worker mutex, each interrupt, and the dispatcher itself at the gate of  *)
(* readiness.                                                              *)
NobodyForgotten ==
    /\ owner.at = "starting" /\ startup = "None" => disp.startup \/ DispatcherDone
    /\ owner.at = "receive" /\ answer = "None" => oper.result \/ DispatcherDone
    /\ owner.at = "suspending" /\ owner.admitted = "None" =>
         DispatcherDone \/ \E k \in DOMAIN events : events[k].kind = "Suspend"
    /\ \A i \in Interrupters : interrupts.call[i] = "waiting" => i \in interrupts.pending
    /\ disp.at = "ready" /\ retirement.ready_commit = "Open" =>
         owner.at \in {"starting", "on_ready", "commit"}

(* Causes keep their order at the end of a launch.  A completion that was  *)
(* queued before the barrier of retirement completes its cell, unless the  *)
(* launch fails first; and a relay that ended before anything else went    *)
(* wrong is recorded as the cause, whatever the evaluator does at that     *)
(* moment: the status of the launcher is judged by it.                     *)
OrderedBarrier ==
    /\ ghost.ahead /\ cell.outcome = "Failed" => oper.failure # "None"
    /\ ghost.exit_first /\ disp.at # "abort" => oper.relay_exit
    /\ oper.relay_exit => oper.failure = "RelayExit"

(* A launch that may be replaced has left nothing behind: its child is     *)
(* reaped, its threads ended, nobody waits for it and the output interval  *)
(* of its last cell is closed.  Every state is well typed.                 *)
ReplaceableIsQuiet ==
    /\ TypeOK
    /\ retirement.result \in {"Clean", "Unclean"} =>
      /\ child.state = "Reaped" /\ DispatcherDone /\ ~reader /\ commands.failed
      /\ ~cell.open /\ interrupts.pending = {} /\ ~oper.result
      /\ oper.callback = "None" /\ ~oper.reserved /\ env # "Dispatcher"

(* The assertions and expectations of the code: an Evaluate is enqueued    *)
(* for a pending cell after bootstrap, a withheld cell leaves no idle      *)
(* input behind, and retirement finds its budget and its tasks.            *)
NoPanic ==
    /\ owner.at = "dispatch" /\ EnsureRunning =>
         /\ oper.bootstrap # "Running"
         /\ cell.phase # "Dispatched"
         /\ cell.phase = "Pending" => cell.outcome = "None"
    /\ owner.at = "abort" /\ oper.kind = "Cell" => ~oper.idle_input
    /\ \A c \in Callers :
         /\ caller[c] # "idle" => retirement.budget # "None"
         /\ caller[c] = "retire" /\ ~retirement.requesting => retirement.requested # "None"
         /\ caller[c] = "retire" /\ ~retirement.requesting /\ ~retirement.finishing =>
              (retirement.tasks <=> retirement.result = "None")

(* Changes of the environment have one owner: no runtime R callback runs   *)
(* while a preparation has reserved or changes it, the holder of the       *)
(* environment lock never waits for a dispatcher that waits for the lock,  *)
(* and no callback takes effect for a worker that is not admitted yet.     *)
EnvironmentExclusive ==
    /\ oper.reserved \/ oper.kind = "Prepare" => oper.callback = "None"
    /\ owner.at = "retire" /\ env = "Owner" => disp.at # "env"
    /\ disp.at \in {"env", "resolving"} => retirement.ready_commit = "Committed"

(* A worker that keeps its protocol is never failed by the interleaving of *)
(* its events with cells, callbacks, input, interrupts and replacement,    *)
(* outside live preparations.                                              *)
ConformingCells ==
    \/ oper.failure = "None" \/ wk.faults > 0
    \/ owner.job \in {"Prepare", "PrepareBoth"} \/ \E c \in Callers : caller[c] # "idle"

(* Retirement keeps its contract, and its liveness: whoever asks returns.  *)
Contract == INSTANCE RetirementContract WITH
    Callers <- Callers, Outcomes <- Outcomes, Abandoned <- "Stuck",
    asked <- {c \in Callers : caller[c] # "idle"},
    quiet <- child.state = "Reaped" /\ ~reader /\ DispatcherDone,
    result <- retirement.result,
    told <- {c \in Callers : caller[c] = "done"}
KeepsContract == Contract!Spec
=============================================================================
