---------------------------- MODULE LaunchProofs ----------------------------
(***************************************************************************)
(* What one launch of a worker keeps, for every set of jobs, interrupters, *)
(* retirers and bounds: its types, the contract of its retirement, the     *)
(* quiet end a replacement relies on, the exclusion of preparations and    *)
(* runtime callbacks, the consistency of a cell's places that keeps the    *)
(* dispatcher from a panic, and the order in which a retirement's barrier, *)
(* the completions ahead of it and the failures behind it are seen.        *)
(***************************************************************************)
EXTENDS Launch, SequenceTheorems, TLAPS

-----------------------------------------------------------------------------
(* Events and the dispatcher's queues.                                     *)
Kinds == Controls \cup Lifetime \cup Semantic

LEMMA EventTyped ==
    ASSUME NEW kind \in Kinds, NEW n \in Nat, NEW i \in Interrupters \cup {NoCall}
    PROVE  [kind |-> kind, n |-> n, i |-> i] \in EventRecord
  BY DEF EventRecord, Kinds

(* One event leaves one of the two queues; the rest moves up.              *)
LEMMA Taken ==
    ASSUME TypeOK, NEW kinds, TakeEvent(kinds)
    PROVE  /\ disp.at = "loop"
           /\ NextEvent \in EventRecord /\ NextEvent.kind \in kinds
           /\ events' \in Seq(EventRecord) /\ Popped \in DispRecord
           /\ Popped = [disp EXCEPT !.deferred = Popped.deferred]
           /\ FromSpool =>
                /\ ~oper.suspended /\ events' = events
                /\ disp.deferred # <<>> /\ NextEvent = disp.deferred[1]
                /\ Len(Popped.deferred) = Len(disp.deferred) - 1
                /\ \A k \in 1..Len(Popped.deferred) : Popped.deferred[k] = disp.deferred[k + 1]
           /\ ~FromSpool =>
                /\ Popped = disp
                /\ events # <<>> /\ NextEvent = events[1]
                /\ Len(events') = Len(events) - 1
                /\ \A k \in 1..Len(events') : events'[k] = events[k + 1]
  <1>1. events \in Seq(EventRecord) /\ disp \in DispRecord /\ disp.deferred \in Seq(EventRecord)
    BY DEF TypeOK, DispRecord
  <1>2. CASE FromSpool
    <2>1. disp.deferred # <<>> BY <1>2 DEF FromSpool
    <2>2. /\ Head(disp.deferred) = disp.deferred[1] /\ Head(disp.deferred) \in EventRecord
          /\ Tail(disp.deferred) \in Seq(EventRecord)
          /\ Len(Tail(disp.deferred)) = Len(disp.deferred) - 1
          /\ \A k \in 1..Len(Tail(disp.deferred)) : Tail(disp.deferred)[k] = disp.deferred[k + 1]
      BY <1>1, <2>1, HeadTailProperties
    <2>3. /\ Popped = [disp EXCEPT !.deferred = Tail(disp.deferred)]
          /\ Popped.deferred = Tail(disp.deferred) /\ Popped \in DispRecord
      BY <1>1, <1>2, <2>2 DEF Popped, DispRecord
    <2> QED BY <1>1, <1>2, <2>1, <2>2, <2>3 DEF TakeEvent, NextEvent, FromSpool
  <1>3. CASE ~FromSpool
    <2>1. events # <<>> BY <1>3 DEF TakeEvent
    <2>2. /\ Head(events) = events[1] /\ Head(events) \in EventRecord
          /\ Tail(events) \in Seq(EventRecord)
          /\ Len(Tail(events)) = Len(events) - 1
          /\ \A k \in 1..Len(Tail(events)) : Tail(events)[k] = events[k + 1]
      BY <1>1, <2>1, HeadTailProperties
    <2>3. Popped = disp /\ disp = [disp EXCEPT !.deferred = disp.deferred]
      BY <1>1, <1>3 DEF Popped, DispRecord
    <2> QED BY <1>1, <1>3, <2>1, <2>2, <2>3 DEF TakeEvent, NextEvent
  <1> QED BY <1>2, <1>3

LEMMA Appended ==
    ASSUME NEW S, NEW q \in Seq(S), NEW e \in S
    PROVE  /\ Append(q, e) \in Seq(S) /\ Len(Append(q, e)) = Len(q) + 1
           /\ Append(q, e)[Len(q) + 1] = e
           /\ \A k \in 1..Len(q) : Append(q, e)[k] = q[k]
  BY AppendProperties

-----------------------------------------------------------------------------
(* Types.                                                                  *)
LEMMA FailTyped ==
    ASSUME TypeOK, NEW cause \in Causes, FailOperation(cause)
    PROVE  /\ oper' \in OperRecord
           /\ cell' \in CellRecord
           /\ answer' \in {"None", "Completed", "Prepared", "Rejected", "Failed"}
  <1> DEFINE first == IF oper.failure = "None" THEN cause ELSE oper.failure
             exit == IF oper.failure = "None" THEN cause = "RelayExit" ELSE oper.relay_exit
  <1>0. oper \in OperRecord /\ first \in Causes /\ exit \in BOOLEAN BY DEF TypeOK, OperRecord
  <1>1. oper' \in OperRecord
    <2>1. oper' = [oper EXCEPT !.failure = first, !.relay_exit = exit, !.callback = "None",
                               !.reserved = FALSE, !.kind = "None", !.result = FALSE,
                               !.more = FALSE]
      BY DEF FailOperation, FailedOperation
    <2> HIDE DEF first, exit
    <2> QED BY <1>0, <2>1 DEF OperRecord
  <1>2. cell' \in CellRecord BY DEF TypeOK, FailOperation, FinishCell, CellRecord
  <1> QED BY <1>1, <1>2 DEF TypeOK, FailOperation

LEMMA RetireTyped ==
    ASSUME TypeOK, RetireOperation
    PROVE  /\ oper' \in OperRecord
           /\ cell' \in CellRecord
           /\ answer' \in {"None", "Completed", "Prepared", "Rejected", "Failed"}
  <1>1. oper' \in OperRecord BY DEF TypeOK, RetireOperation, OperRecord
  <1>2. cell' \in CellRecord BY DEF TypeOK, RetireOperation, FinishCell, CellRecord
  <1> QED BY <1>1, <1>2 DEF TypeOK, RetireOperation

LEMMA InterruptsTyped ==
    ASSUME TypeOK
    PROVE  FailedInterrupts \in InterruptRecord
  BY DEF TypeOK, FailedInterrupts, InterruptRecord

LEMMA DispatchTyped ==
    ASSUME TypeOK, NEW d \in DispRecord, NEW cause \in Causes, FailDispatch(d, cause)
    PROVE  /\ disp' \in DispRecord
           /\ oper' \in OperRecord
           /\ startup' \in {"None", "Ready", "Failed"}
           /\ answer' \in {"None", "Completed", "Prepared", "Rejected", "Failed"}
           /\ cell' \in CellRecord
           /\ interrupts' \in InterruptRecord
  <1>1. disp' \in DispRecord BY DEF FailDispatch, DispRecord
  <1>2. startup' \in {"None", "Ready", "Failed"} BY DEF FailDispatch, TypeOK
  <1> QED BY <1>1, <1>2, FailTyped, InterruptsTyped DEF FailDispatch

LEMMA SendTyped ==
    ASSUME TypeOK,
           NEW command \in [kind : {"Evaluate", "Prepare", "Reply", "Reject", "Interrupt", "Shutdown"},
                            i : Interrupters \cup {NoCall}],
           Send(command)
    PROVE  commands' \in CommandRecord
  <1>1. Append(commands.queue, command)
          \in Seq([kind : {"Evaluate", "Prepare", "Reply", "Reject", "Interrupt", "Shutdown"},
                   i : Interrupters \cup {NoCall}])
    BY DEF TypeOK, CommandRecord
  <1>2. commands \in CommandRecord /\ commands' = [commands EXCEPT !.queue = Append(commands.queue, command)]
    BY DEF TypeOK, Send
  <1> QED BY <1>1, <1>2 DEF CommandRecord

LEMMA AbortTyped ==
    ASSUME TypeOK
    PROVE  Aborted \in CommandRecord
  BY DEF TypeOK, Aborted, CommandRecord
LEMMA EmptyQueue == <<>> \in Seq(EventRecord)
  BY EmptySeq

LEMMA FaultTyped ==
    ASSUME TypeOK, NEW fault, Faulty(fault), OneMoreFault
    PROVE  wk' \in WorldRecord
  <1>1. MaxFaults \in Nat BY LaunchAssumption DEF LaunchAssumption
  <1>2. wk \in WorldRecord /\ wk.faults \in 0..MaxFaults /\ wk.faults < MaxFaults
    BY DEF TypeOK, Faulty, WorldRecord
  <1>3. wk.faults + 1 \in 0..MaxFaults BY <1>1, <1>2
  <1>4. wk' = [wk EXCEPT !.faults = wk.faults + 1] BY DEF OneMoreFault
  <1> QED BY <1>2, <1>3, <1>4 DEF WorldRecord

LEMMA DeferTypes ==
    ASSUME TypeOK, Defer
    PROVE  TypeOK'
  <1>1. /\ NextEvent \in EventRecord /\ Popped \in DispRecord /\ events' \in Seq(EventRecord)
        /\ NextEvent.n \in Nat /\ Popped.deferred \in Seq(EventRecord)
    BY Taken DEF Defer, TakeRelay, EventRecord, DispRecord
  <1>2. disp.deferred \in Seq(EventRecord) /\ Append(disp.deferred, NextEvent) \in Seq(EventRecord)
    BY <1>1, Appended DEF TypeOK, DispRecord
  <1>3. disp' \in DispRecord BY <1>2 DEF Defer, TypeOK, DispRecord
  <1> QED BY <1>1, <1>2, <1>3 DEF Defer, TypeOK, others, outside

LEMMA DeferFailsTypes ==
    ASSUME TypeOK, DeferFails
    PROVE  TypeOK'
  <1>1. /\ NextEvent \in EventRecord /\ Popped \in DispRecord /\ events' \in Seq(EventRecord)
        /\ NextEvent.n \in Nat /\ Popped.deferred \in Seq(EventRecord)
    BY Taken DEF DeferFails, TakeRelay, EventRecord, DispRecord
  <1>2. [disp EXCEPT !.deferred = <<>>] \in DispRecord BY EmptyQueue DEF TypeOK, DispRecord
  <1>3. /\ disp' \in DispRecord /\ oper' \in OperRecord /\ startup' \in {"None", "Ready", "Failed"}
        /\ cell' \in CellRecord
        /\ interrupts' \in InterruptRecord
        /\ answer' \in {"None", "Completed", "Prepared", "Rejected", "Failed"}
    BY <1>2, DispatchTyped DEF DeferFails, Causes
  <1>4. wk' \in WorldRecord BY FaultTyped DEF DeferFails
  <1> QED BY <1>1, <1>2, <1>3, <1>4 DEF DeferFails, TypeOK, others, outside

LEMMA RelayErrorTypes ==
    ASSUME TypeOK, RelayError
    PROVE  TypeOK'
  <1>1. /\ NextEvent \in EventRecord /\ Popped \in DispRecord /\ events' \in Seq(EventRecord)
        /\ NextEvent.n \in Nat /\ Popped.deferred \in Seq(EventRecord)
    BY Taken DEF RelayError, TakeRelay, EventRecord, DispRecord
  <1>2. /\ disp' \in DispRecord /\ oper' \in OperRecord /\ startup' \in {"None", "Ready", "Failed"}
        /\ cell' \in CellRecord
        /\ interrupts' \in InterruptRecord
        /\ answer' \in {"None", "Completed", "Prepared", "Rejected", "Failed"}
    BY <1>1, DispatchTyped DEF RelayError, Causes
  <1>3. ghost' \in [last : Nat, exit_first : BOOLEAN, ahead : BOOLEAN]
    BY <1>1 DEF RelayError, Handled, TypeOK
  <1> QED BY <1>1, <1>2, <1>3 DEF RelayError, TypeOK, others, outside

LEMMA IgnoreSemanticTypes ==
    ASSUME TypeOK, IgnoreSemantic
    PROVE  TypeOK'
  <1>1. /\ NextEvent \in EventRecord /\ Popped \in DispRecord /\ events' \in Seq(EventRecord)
        /\ NextEvent.n \in Nat /\ Popped.deferred \in Seq(EventRecord)
    BY Taken DEF IgnoreSemantic, TakeRelay, EventRecord, DispRecord
  <1>2. ghost' \in [last : Nat, exit_first : BOOLEAN, ahead : BOOLEAN]
    BY <1>1 DEF IgnoreSemantic, Handled, TypeOK
  <1> QED BY <1>1, <1>2 DEF IgnoreSemantic, TypeOK, operation, others, outside

LEMMA RelayLifetimeTypes ==
    ASSUME TypeOK, RelayLifetime
    PROVE  TypeOK'
  <1>1. /\ NextEvent \in EventRecord /\ Popped \in DispRecord /\ events' \in Seq(EventRecord)
        /\ NextEvent.n \in Nat /\ Popped.deferred \in Seq(EventRecord)
    BY Taken DEF RelayLifetime, TakeRelay, EventRecord, DispRecord
  <1>2. NextEvent.kind \in {"WorkerStarted", "Outcome"} BY Taken DEF RelayLifetime, TakeRelay
  <1>3. disp' \in DispRecord BY <1>1, <1>2 DEF RelayLifetime, DispRecord
  <1> QED BY <1>1, <1>2, <1>3 DEF RelayLifetime, TypeOK, operation, others, outside

LEMMA SidebandClosedTypes ==
    ASSUME TypeOK, SidebandClosed
    PROVE  TypeOK'
  <1>1. /\ NextEvent \in EventRecord /\ Popped \in DispRecord /\ events' \in Seq(EventRecord)
        /\ NextEvent.n \in Nat /\ Popped.deferred \in Seq(EventRecord)
    BY Taken DEF SidebandClosed, TakeRelay, EventRecord, DispRecord
  <1>2. [Popped EXCEPT !.sideband = TRUE] \in DispRecord BY <1>1 DEF DispRecord
  <1>3. /\ disp' \in DispRecord /\ oper' \in OperRecord /\ startup' \in {"None", "Ready", "Failed"}
        /\ cell' \in CellRecord
        /\ interrupts' \in InterruptRecord
        /\ answer' \in {"None", "Completed", "Prepared", "Rejected", "Failed"}
    BY <1>2, DispatchTyped DEF SidebandClosed, Causes, operation, TypeOK
  <1> QED BY <1>1, <1>2, <1>3 DEF SidebandClosed, TypeOK, others, outside

LEMMA InterruptResultTypes ==
    ASSUME TypeOK, InterruptResult
    PROVE  TypeOK'
  <1>1. /\ NextEvent \in EventRecord /\ Popped \in DispRecord /\ events' \in Seq(EventRecord)
        /\ NextEvent.n \in Nat /\ Popped.deferred \in Seq(EventRecord)
    BY Taken DEF InterruptResult, TakeRelay, EventRecord, DispRecord
  <1>2. interrupts' \in InterruptRecord BY <1>1 DEF InterruptResult, TypeOK, InterruptRecord
  <1> QED BY <1>1, <1>2 DEF InterruptResult, TypeOK, others, outside

LEMMA ShutdownStartedTypes ==
    ASSUME TypeOK, ShutdownStarted
    PROVE  TypeOK'
  <1>1. /\ NextEvent \in EventRecord /\ Popped \in DispRecord /\ events' \in Seq(EventRecord)
        /\ NextEvent.n \in Nat /\ Popped.deferred \in Seq(EventRecord)
    BY Taken DEF ShutdownStarted, TakeRelay, EventRecord, DispRecord
  <1>2. disp' \in DispRecord BY <1>1 DEF ShutdownStarted, DispRecord
  <1>3. retirement' \in RetirementRecord BY DEF ShutdownStarted, TypeOK, RetirementRecord
  <1> QED BY <1>1, <1>2, <1>3 DEF ShutdownStarted, TypeOK, operation, outside

LEMMA FatalTypes ==
    ASSUME TypeOK, Fatal
    PROVE  TypeOK'
  <1>1. /\ NextEvent \in EventRecord /\ Popped \in DispRecord /\ events' \in Seq(EventRecord)
        /\ NextEvent.n \in Nat /\ Popped.deferred \in Seq(EventRecord)
    BY Taken DEF Fatal, TakeRelay, EventRecord, DispRecord
  <1>2. [Popped EXCEPT !.fatal = TRUE] \in DispRecord BY <1>1 DEF DispRecord
  <1>3. /\ disp' \in DispRecord /\ oper' \in OperRecord /\ startup' \in {"None", "Ready", "Failed"}
        /\ cell' \in CellRecord
        /\ interrupts' \in InterruptRecord
        /\ answer' \in {"None", "Completed", "Prepared", "Rejected", "Failed"}
    <2>1. CASE disp.retiring
      <3> DEFINE bad == Popped.bad \/ ~(NextEvent.kind = "PartialFrame" /\ commands.failed)
      <3>1. bad \in BOOLEAN OBVIOUS
      <3>2. disp' = [[Popped EXCEPT !.fatal = TRUE] EXCEPT !.bad = bad] BY <1>1, <2>1 DEF Fatal, DispRecord
      <3> HIDE DEF bad
      <3>3. disp' \in DispRecord BY <1>2, <3>1, <3>2 DEF DispRecord
      <3> QED BY <2>1, <3>3 DEF Fatal, operation, TypeOK
    <2>2. CASE ~disp.retiring BY <1>2, <2>2, DispatchTyped DEF Fatal, Causes
    <2> QED BY <2>1, <2>2
  <1> QED BY <1>1, <1>2, <1>3 DEF Fatal, TypeOK, others, outside

LEMMA ReadyTypes ==
    ASSUME TypeOK, Ready
    PROVE  TypeOK'
  <1>1. /\ NextEvent \in EventRecord /\ Popped \in DispRecord /\ events' \in Seq(EventRecord)
        /\ NextEvent.n \in Nat /\ Popped.deferred \in Seq(EventRecord)
    BY Taken DEF Ready, TakeRelay, EventRecord, DispRecord
  <1>2. disp' \in DispRecord BY <1>1 DEF Ready, DispRecord
  <1>3. ghost' \in [last : Nat, exit_first : BOOLEAN, ahead : BOOLEAN]
    BY <1>1 DEF Ready, Handled, TypeOK
  <1> QED BY <1>1, <1>2, <1>3 DEF Ready, TypeOK, others, outside

LEMMA ReadyCommittedTypes ==
    ASSUME TypeOK, ReadyCommitted
    PROVE  TypeOK'
  <1>1. disp \in DispRecord BY DEF TypeOK
  <1>2. /\ disp' \in DispRecord /\ oper' \in OperRecord /\ startup' \in {"None", "Ready", "Failed"}
        /\ cell' \in CellRecord
        /\ interrupts' \in InterruptRecord
        /\ answer' \in {"None", "Completed", "Prepared", "Rejected", "Failed"}
    <2>1. CASE retirement.ready_commit = "Committed"
      <3>1. disp' = [disp EXCEPT !.at = "loop", !.started = TRUE] /\ UNCHANGED operation
        BY <2>1 DEF ReadyCommitted
      <3>2. disp' \in DispRecord BY <1>1, <3>1 DEF DispRecord
      <3> QED BY <3>1, <3>2 DEF operation, TypeOK
    <2>2. CASE retirement.ready_commit = "Failed"
      BY <1>1, <2>2, DispatchTyped DEF ReadyCommitted, Causes
    <2>3. CASE retirement.ready_commit = "Retiring"
      <3>0. disp' = [disp EXCEPT !.at = "loop", !.started = TRUE, !.retiring = TRUE]
        BY <2>3 DEF ReadyCommitted
      <3>1. disp' \in DispRecord BY <1>1, <3>0 DEF DispRecord
      <3> QED BY <2>3, <3>1, RetireTyped DEF ReadyCommitted, TypeOK
    <2> QED BY <2>1, <2>2, <2>3 DEF ReadyCommitted
  <1> QED BY <1>1, <1>2 DEF ReadyCommitted, TypeOK, others, outside

LEMMA BootstrapFinishedTypes ==
    ASSUME TypeOK, BootstrapFinished
    PROVE  TypeOK'
  <1>1. /\ NextEvent \in EventRecord /\ Popped \in DispRecord /\ events' \in Seq(EventRecord)
        /\ NextEvent.n \in Nat /\ Popped.deferred \in Seq(EventRecord)
    BY Taken DEF BootstrapFinished, TakeRelay, EventRecord, DispRecord
  <1>2. oper' \in OperRecord BY DEF BootstrapFinished, TypeOK, OperRecord
  <1>3. cell' \in CellRecord BY DEF BootstrapFinished, TypeOK, CellRecord
  <1>4. ghost' \in [last : Nat, exit_first : BOOLEAN, ahead : BOOLEAN]
    BY <1>1 DEF BootstrapFinished, Handled, TypeOK
  <1> QED BY <1>1, <1>2, <1>3, <1>4 DEF BootstrapFinished, TypeOK, others, outside

LEMMA CellStartedTypes ==
    ASSUME TypeOK, CellStarted
    PROVE  TypeOK'
  <1>1. /\ NextEvent \in EventRecord /\ Popped \in DispRecord /\ events' \in Seq(EventRecord)
        /\ NextEvent.n \in Nat /\ Popped.deferred \in Seq(EventRecord)
    BY Taken DEF CellStarted, TakeRelay, EventRecord, DispRecord
  <1>2. cell' \in CellRecord BY DEF CellStarted, TypeOK, CellRecord
  <1>3. ghost' \in [last : Nat, exit_first : BOOLEAN, ahead : BOOLEAN]
    BY <1>1 DEF CellStarted, Handled, TypeOK
  <1> QED BY <1>1, <1>2, <1>3 DEF CellStarted, TypeOK, others, outside

LEMMA InputEventTypes ==
    ASSUME TypeOK, InputEvent
    PROVE  TypeOK'
  <1>1. /\ NextEvent \in EventRecord /\ Popped \in DispRecord /\ events' \in Seq(EventRecord)
        /\ NextEvent.n \in Nat /\ Popped.deferred \in Seq(EventRecord)
    BY Taken DEF InputEvent, TakeRelay, EventRecord, DispRecord
  <1>2. /\ oper' \in OperRecord /\ cell' \in CellRecord
    <2> DEFINE requested == NextEvent.kind = "InputRequested"
    <2>1. requested \in BOOLEAN /\ oper \in OperRecord /\ cell \in CellRecord BY DEF TypeOK
    <2>2. \/ oper' = oper /\ cell' = [cell EXCEPT !.input = requested]
          \/ cell' = cell /\ oper' = [oper EXCEPT !.idle_input = requested]
      BY DEF InputEvent
    <2> HIDE DEF requested
    <2> QED BY <2>1, <2>2 DEF OperRecord, CellRecord
  <1>3. ghost' \in [last : Nat, exit_first : BOOLEAN, ahead : BOOLEAN]
    BY <1>1 DEF InputEvent, Handled, TypeOK
  <1> QED BY <1>1, <1>2, <1>3 DEF InputEvent, TypeOK, others, outside

LEMMA BeginResolveRTypes ==
    ASSUME TypeOK, BeginResolveR
    PROVE  TypeOK'
  <1>1. /\ NextEvent \in EventRecord /\ Popped \in DispRecord /\ events' \in Seq(EventRecord)
        /\ NextEvent.n \in Nat /\ Popped.deferred \in Seq(EventRecord)
    BY Taken DEF BeginResolveR, TakeRelay, EventRecord, DispRecord
  <1>2. InCallback \in DispRecord BY <1>1 DEF InCallback, DispRecord
  <1>3. ghost' \in [last : Nat, exit_first : BOOLEAN, ahead : BOOLEAN]
    BY <1>1 DEF BeginResolveR, Handled, TypeOK
  <1>4. /\ disp' \in DispRecord /\ oper' \in OperRecord /\ startup' \in {"None", "Ready", "Failed"}
        /\ cell' \in CellRecord
        /\ interrupts' \in InterruptRecord
        /\ answer' \in {"None", "Completed", "Prepared", "Rejected", "Failed"}
        /\ commands' \in CommandRecord
    <2>1. CASE oper.reserved /\ commands.failed
      BY <1>1, <2>1, DispatchTyped DEF BeginResolveR, Causes, TypeOK
    <2>2. CASE oper.reserved /\ ~commands.failed
      <3>1. commands' \in CommandRecord BY <2>2, SendTyped DEF BeginResolveR, Command
      <3> QED BY <1>1, <2>2, <3>1 DEF BeginResolveR, operation, TypeOK
    <2>3. CASE ~oper.reserved
      <3>1. oper' \in OperRecord BY <2>3 DEF BeginResolveR, TypeOK, OperRecord
      <3> QED BY <1>2, <2>3, <3>1 DEF BeginResolveR, TypeOK
    <2> QED BY <2>1, <2>2, <2>3
  <1> QED BY <1>1, <1>2, <1>3, <1>4 DEF BeginResolveR, TypeOK, others, outside

LEMMA BeginCallbackTypes ==
    ASSUME TypeOK, BeginCallback
    PROVE  TypeOK'
  <1>1. /\ NextEvent \in EventRecord /\ Popped \in DispRecord /\ events' \in Seq(EventRecord)
        /\ NextEvent.n \in Nat /\ Popped.deferred \in Seq(EventRecord)
    BY Taken DEF BeginCallback, TakeRelay, EventRecord, DispRecord
  <1>2. InCallback \in DispRecord BY <1>1 DEF InCallback, DispRecord
  <1>3. ghost' \in [last : Nat, exit_first : BOOLEAN, ahead : BOOLEAN]
    BY <1>1 DEF BeginCallback, Handled, TypeOK
  <1> QED BY <1>1, <1>2, <1>3 DEF BeginCallback, TypeOK, operation, others, outside

LEMMA TakeEnvironmentTypes ==
    ASSUME TypeOK, TakeEnvironment
    PROVE  TypeOK'
  <1>1. disp' \in DispRecord BY DEF TakeEnvironment, TypeOK, DispRecord
  <1> QED BY <1>1 DEF TakeEnvironment, TypeOK, operation, outside

LEMMA ReplyTyped ==
    ASSUME TypeOK, NEW resolved \in BOOLEAN, ReplyTo(resolved)
    PROVE  /\ disp' \in DispRecord /\ oper' \in OperRecord /\ startup' \in {"None", "Ready", "Failed"}
           /\ cell' \in CellRecord
           /\ interrupts' \in InterruptRecord
           /\ answer' \in {"None", "Completed", "Prepared", "Rejected", "Failed"}
           /\ commands' \in CommandRecord
  <1> DEFINE r == disp.event.kind = "ResolveR"
             kind == IF resolved THEN "Reply" ELSE "Reject"
  <1>1. disp \in DispRecord BY DEF TypeOK
  <1>2. Send(Command(kind)) => commands' \in CommandRecord
    BY SendTyped DEF Command
  <1>3. CASE commands.failed \/ (r /\ oper.callback # "Resolving")
    <2>1. FailDispatch(disp, "Transport") BY <1>3 DEF ReplyTo
    <2>2. commands' = commands \/ Send(Command(kind)) BY <1>3 DEF ReplyTo
    <2> QED BY <1>1, <1>2, <2>1, <2>2, DispatchTyped DEF Causes, TypeOK
  <1>4. CASE ~(commands.failed \/ (r /\ oper.callback # "Resolving"))
    <2>1. disp' \in DispRecord BY <1>1, <1>4 DEF ReplyTo, DispRecord
    <2>2. oper' \in OperRecord BY <1>4 DEF ReplyTo, TypeOK, OperRecord
    <2> QED BY <1>2, <1>4, <2>1, <2>2 DEF ReplyTo, TypeOK
  <1> QED BY <1>3, <1>4

LEMMA ResolveTypes ==
    ASSUME TypeOK, Resolve
    PROVE  TypeOK'
  <1>1. /\ disp' \in DispRecord /\ oper' \in OperRecord /\ startup' \in {"None", "Ready", "Failed"}
        /\ cell' \in CellRecord
        /\ interrupts' \in InterruptRecord
        /\ answer' \in {"None", "Completed", "Prepared", "Rejected", "Failed"}
        /\ commands' \in CommandRecord /\ wk' \in WorldRecord
    <2>1. CASE (ReplyTo(TRUE) \/ ReplyTo(FALSE)) /\ UNCHANGED wk
      BY <2>1, ReplyTyped DEF TypeOK
    <2>2. CASE Faulty("Host") /\ OneMoreFault /\ FailDispatch(disp, "Protocol") /\ UNCHANGED commands
      <3>1. wk' \in WorldRecord
        BY <2>2, FaultTyped
      <3> QED BY <2>2, <3>1, DispatchTyped DEF Causes, TypeOK
    <2> QED BY <2>1, <2>2 DEF Resolve
  <1> QED BY <1>1 DEF Resolve, TypeOK

LEMMA ActivateTypes ==
    ASSUME TypeOK, Activate
    PROVE  TypeOK'
  <1>1. /\ disp' \in DispRecord /\ oper' \in OperRecord /\ startup' \in {"None", "Ready", "Failed"}
        /\ cell' \in CellRecord
        /\ interrupts' \in InterruptRecord
        /\ answer' \in {"None", "Completed", "Prepared", "Rejected", "Failed"}
    <2>1. CASE FailDispatch(disp, "Protocol") BY <2>1, DispatchTyped DEF Causes, TypeOK
    <2>2. CASE ~FailDispatch(disp, "Protocol")
      <3>1. disp' = [disp EXCEPT !.at = "loop"] BY <2>2 DEF Activate
      <3>2. oper' = oper \/ oper' = [oper EXCEPT !.callback = "None"]
        BY <2>2 DEF Activate, operation
      <3>3. disp' \in DispRecord /\ oper' \in OperRecord
        <4>1. disp \in DispRecord /\ oper \in OperRecord BY DEF TypeOK
        <4>2. disp' \in DispRecord BY <3>1, <4>1 DEF DispRecord
        <4>3. oper' \in OperRecord BY <3>2, <4>1 DEF OperRecord
        <4> QED BY <4>2, <4>3
      <3> QED BY <2>2, <3>3 DEF Activate, operation, TypeOK
    <2> QED BY <2>1, <2>2
  <1> QED BY <1>1 DEF Activate, TypeOK, others, outside

LEMMA CompleteTypes ==
    ASSUME TypeOK, Complete
    PROVE  TypeOK'
  <1>1. /\ NextEvent \in EventRecord /\ Popped \in DispRecord /\ events' \in Seq(EventRecord)
        /\ NextEvent.n \in Nat /\ Popped.deferred \in Seq(EventRecord)
    BY Taken DEF Complete, TakeRelay, EventRecord, DispRecord
  <1>2. oper' \in OperRecord
    <2> DEFINE prepared == NextEvent.kind = "Prepared" /\ ~retirement.lifecycle
               reserved == oper.reserved /\ ~(oper.more /\ oper.result /\ ~prepared)
    <2>1. reserved \in BOOLEAN BY DEF TypeOK, OperRecord
    <2>2. oper' = [oper EXCEPT !.kind = "None", !.result = FALSE, !.more = FALSE, !.reserved = reserved]
      BY DEF Complete
    <2> HIDE DEF reserved
    <2> QED BY <2>1, <2>2 DEF TypeOK, OperRecord
  <1>3. cell' \in CellRecord BY DEF Complete, TypeOK, CellRecord, FinishCell
  <1>4. answer' \in {"None", "Completed", "Prepared", "Rejected", "Failed"}
    BY DEF Complete, TypeOK
  <1>5. ghost' \in [last : Nat, exit_first : BOOLEAN, ahead : BOOLEAN]
    BY <1>1 DEF Complete, Handled, TypeOK
  <1> QED BY <1>1, <1>2, <1>3, <1>4, <1>5 DEF Complete, TypeOK, others, outside

LEMMA SuspendTypes ==
    ASSUME TypeOK, Suspend
    PROVE  TypeOK'
  <1>1. /\ NextEvent \in EventRecord /\ Popped \in DispRecord /\ events' \in Seq(EventRecord)
        /\ NextEvent.n \in Nat /\ Popped.deferred \in Seq(EventRecord)
    BY Taken DEF Suspend, TakeRelay, EventRecord, DispRecord
  <1>2. oper' \in OperRecord BY DEF Suspend, TypeOK, OperRecord
  <1>3. owner' \in OwnerRecord BY DEF Suspend, TypeOK, OwnerRecord
  <1> QED BY <1>1, <1>2, <1>3 DEF Suspend, TypeOK, others, outside

LEMMA ResumeTypes ==
    ASSUME TypeOK, Resume
    PROVE  TypeOK'
  <1>1. /\ NextEvent \in EventRecord /\ Popped \in DispRecord /\ events' \in Seq(EventRecord)
        /\ NextEvent.n \in Nat /\ Popped.deferred \in Seq(EventRecord)
    BY Taken DEF Resume, TakeRelay, EventRecord, DispRecord
  <1>2. oper' \in OperRecord BY DEF Resume, TypeOK, OperRecord
  <1> QED BY <1>1, <1>2 DEF Resume, TypeOK, others, outside

LEMMA TransportFailureTypes ==
    ASSUME TypeOK, TransportFailure
    PROVE  TypeOK'
  <1>1. /\ NextEvent \in EventRecord /\ Popped \in DispRecord /\ events' \in Seq(EventRecord)
        /\ NextEvent.n \in Nat /\ Popped.deferred \in Seq(EventRecord)
    BY Taken DEF TransportFailure, TakeRelay, EventRecord, DispRecord
  <1>2. /\ disp' \in DispRecord /\ oper' \in OperRecord /\ startup' \in {"None", "Ready", "Failed"}
        /\ cell' \in CellRecord
        /\ interrupts' \in InterruptRecord
        /\ answer' \in {"None", "Completed", "Prepared", "Rejected", "Failed"}
    BY <1>1, DispatchTyped DEF TransportFailure, Causes, operation, TypeOK
  <1>3. commands' \in CommandRecord BY AbortTyped DEF TransportFailure
  <1> QED BY <1>1, <1>2, <1>3 DEF TransportFailure, TypeOK, others, outside

LEMMA RetireTypes ==
    ASSUME TypeOK, Retire
    PROVE  TypeOK'
  <1>1. /\ NextEvent \in EventRecord /\ Popped \in DispRecord /\ events' \in Seq(EventRecord)
        /\ NextEvent.n \in Nat /\ Popped.deferred \in Seq(EventRecord)
    BY Taken DEF Retire, TakeRelay, EventRecord, DispRecord
  <1>2. disp' \in DispRecord
    <2>1. disp \in DispRecord BY DEF TypeOK
    <2>2. disp' = [disp EXCEPT !.deferred = <<>>, !.startup = FALSE, !.retiring = TRUE,
                               !.at = IF disp.closed THEN "done" ELSE "loop"]
      BY DEF Retire
    <2> QED BY <2>1, <2>2, EmptyQueue DEF DispRecord
  <1>3. /\ oper' \in OperRecord /\ cell' \in CellRecord
        /\ answer' \in {"None", "Completed", "Prepared", "Rejected", "Failed"}
    BY RetireTyped DEF Retire
  <1>4. interrupts' \in InterruptRecord BY InterruptsTyped DEF Retire
  <1>5. retirement' \in RetirementRecord BY DEF Retire, TypeOK, RetirementRecord
  <1> QED BY <1>1, <1>2, <1>3, <1>4, <1>5 DEF Retire, TypeOK, outside

LEMMA RelayClosedTypes ==
    ASSUME TypeOK, RelayClosed
    PROVE  TypeOK'
  <1>1. CASE TakeEvent({"RelayClosed"})
    <2>1. events' \in Seq(EventRecord) /\ Popped \in DispRecord /\ disp.at = "loop"
      BY <1>1, Taken
    <2> DEFINE d == [Popped EXCEPT !.closed = TRUE, !.at = "abort"]
               first == ~RelayEnded /\ oper.failure = "None"
    <2>2. d \in DispRecord BY <2>1 DEF DispRecord
    <2>3. /\ RecordExit(d)
          /\ ghost' = [ghost EXCEPT !.exit_first = first]
          /\ UNCHANGED <<commands, others>>
      BY <2>1 DEF RelayClosed
    <2>4. first \in BOOLEAN OBVIOUS
    <2> HIDE DEF d, first
    <2>5. ghost' \in [last : Nat, exit_first : BOOLEAN, ahead : BOOLEAN] BY <2>3, <2>4 DEF TypeOK
    <2>6. /\ disp' \in DispRecord /\ oper' \in OperRecord /\ startup' \in {"None", "Ready", "Failed"}
          /\ cell' \in CellRecord
          /\ interrupts' \in InterruptRecord
          /\ answer' \in {"None", "Completed", "Prepared", "Rejected", "Failed"}
      <3>1. CASE RelayEnded BY <2>2, <2>3, <3>1 DEF RecordExit, operation, TypeOK
      <3>2. CASE ~RelayEnded
        <4>1. disp' \in DispRecord BY <2>2, <2>3, <3>2 DEF RecordExit, DispRecord
        <4> QED BY <2>3, <3>2, <4>1, FailTyped, InterruptsTyped DEF RecordExit, Causes, TypeOK
      <3> QED BY <3>1, <3>2
    <2> QED BY <2>1, <2>3, <2>5, <2>6 DEF TypeOK, others
  <1>2. CASE disp.at = "abort"
    <2>1. /\ commands' = Aborted
          /\ disp' = [disp EXCEPT !.at = AfterClose]
          /\ interrupts' = FailedInterrupts \/ interrupts' = interrupts
          /\ UNCHANGED <<events, oper, startup, answer, cell, ghost, others>>
      BY <1>2 DEF RelayClosed, TakeEvent
    <2>2. AfterClose \in {"done", "loop"} BY DEF AfterClose
    <2>3. disp' \in DispRecord BY <2>1, <2>2 DEF TypeOK, DispRecord
    <2>4. interrupts' \in InterruptRecord BY <2>1, InterruptsTyped DEF TypeOK
    <2> QED BY <2>1, <2>3, <2>4, AbortTyped DEF TypeOK, others
  <1> QED BY <1>1, <1>2 DEF RelayClosed
LEMMA PostTyped ==
    ASSUME TypeOK, NEW kind \in Kinds, NEW i \in Interrupters \cup {NoCall}
    PROVE  Post(kind, i) \in Seq(EventRecord)
  <1>1. [kind |-> kind, n |-> 0, i |-> i] \in EventRecord BY EventTyped
  <1> QED BY <1>1, Appended DEF Post, TypeOK

LEMMA EventTypes ==
    /\ Event("TransportFailure") \in EventRecord /\ Event("RelayClosed") \in EventRecord
    /\ Event("Retire") \in EventRecord /\ Event("Suspend") \in EventRecord
    /\ Event("Resume") \in EventRecord
  BY EventTyped DEF Event, Kinds, Controls

LEMMA CommandTaken ==
    ASSUME TypeOK, commands.queue # <<>>
    PROVE  /\ Head(commands.queue).kind \in {"Evaluate", "Prepare", "Reply", "Reject", "Interrupt", "Shutdown"}
           /\ Head(commands.queue).i \in Interrupters \cup {NoCall}
           /\ [commands EXCEPT !.queue = Tail(@)] \in CommandRecord
  <1> DEFINE C == [kind : {"Evaluate", "Prepare", "Reply", "Reject", "Interrupt", "Shutdown"},
                   i : Interrupters \cup {NoCall}]
  <1>1. commands \in CommandRecord /\ commands.queue \in Seq(C) BY DEF TypeOK, CommandRecord
  <1>2. Head(commands.queue) \in C /\ Tail(commands.queue) \in Seq(C) BY <1>1, HeadTailProperties
  <1> QED BY <1>1, <1>2 DEF CommandRecord

LEMMA WriteCommandTypes ==
    ASSUME TypeOK, WriteCommand
    PROVE  TypeOK'
  <1>1. commands.queue # <<>> /\ commands' = [commands EXCEPT !.queue = Tail(@)]
    BY DEF WriteCommand
  <1>2. commands' \in CommandRecord BY <1>1, CommandTaken
  <1>3. events' \in Seq(EventRecord)
    <2>1. Post("InterruptResult", Head(commands.queue).i) \in Seq(EventRecord)
      BY <1>1, CommandTaken, PostTyped DEF Kinds, Lifetime
    <2>2. Post("ShutdownStarted", NoCall) \in Seq(EventRecord) BY PostTyped DEF Kinds, Lifetime
    <2> QED BY <2>1, <2>2 DEF WriteCommand, TypeOK
  <1>4. retirement' \in RetirementRecord BY DEF WriteCommand, TypeOK, RetirementRecord
  <1>5. wk' \in WorldRecord
    <2> DEFINE boot == wk.at = "Boot"
    <2>1. wk \in WorldRecord /\ boot \in BOOLEAN BY DEF TypeOK
    <2>2. \/ wk' = wk \/ wk' = [wk EXCEPT !.todo = "Cell"] \/ wk' = [wk EXCEPT !.todo = "Prepare"]
          \/ wk' = [wk EXCEPT !.wait = "RActivate"] \/ wk' = [wk EXCEPT !.wait = "PyActivate"]
          \/ wk' = [wk EXCEPT !.wait = "No"] \/ wk' = [wk EXCEPT !.interrupted = boot]
          \/ wk' = [wk EXCEPT !.at = "Closing"]
      BY <2>1 DEF WriteCommand, WorldRecord
    <2> HIDE DEF boot
    <2> QED BY <2>1, <2>2 DEF WorldRecord
  <1> QED BY <1>1, <1>2, <1>3, <1>4, <1>5 DEF WriteCommand, TypeOK, operation

LEMMA WriteFailsTypes ==
    ASSUME TypeOK, WriteFails
    PROVE  TypeOK'
  <1>1. events' \in Seq(EventRecord) BY EventTypes, Appended DEF WriteFails, TypeOK
  <1>2. commands' \in CommandRecord BY AbortTyped DEF WriteFails
  <1> QED BY <1>1, <1>2 DEF WriteFails, TypeOK, operation, others, outside

LEMMA ReportTyped ==
    ASSUME TypeOK, ReportTransportFailure
    PROVE  events' \in Seq(EventRecord) /\ commands' \in CommandRecord
  BY AbortTyped, EventTypes, Appended DEF ReportTransportFailure, TypeOK

LEMMA ReaderEndsTypes ==
    ASSUME TypeOK, ReaderEnds
    PROVE  TypeOK'
  <1>1. events' \in Seq(EventRecord) BY EventTypes, Appended DEF ReaderEnds, TypeOK
  <1> QED BY <1>1 DEF ReaderEnds, TypeOK, operation

LEMMA ReadFailsTypes ==
    ASSUME TypeOK, ReadFails
    PROVE  TypeOK'
  <1>1. events' \in Seq(EventRecord) BY EventTypes, ConcatProperties DEF ReadFails, TypeOK
  <1>2. wk' \in WorldRecord BY FaultTyped DEF ReadFails
  <1> QED BY <1>1, <1>2 DEF ReadFails, TypeOK, operation

LEMMA MoveTyped ==
    ASSUME TypeOK, NEW label \in OwnerLabels, Move(label)
    PROVE  owner' \in OwnerRecord
  BY DEF TypeOK, Move, OwnerRecord

LEMMA DropTyped ==
    ASSUME TypeOK, NEW label \in OwnerLabels, DropReservation(label)
    PROVE  owner' \in OwnerRecord /\ oper' \in OperRecord /\ events' \in Seq(EventRecord)
  <1>1. owner' \in OwnerRecord BY DEF TypeOK, DropReservation, OwnerRecord
  <1>2. oper' \in OperRecord BY DEF TypeOK, DropReservation, OperRecord
  <1>3. events' \in Seq(EventRecord) BY EventTypes, Appended DEF TypeOK, DropReservation
  <1> QED BY <1>1, <1>2, <1>3

LEMMA FailStartupTyped ==
    ASSUME TypeOK, FailStartup
    PROVE  owner' \in OwnerRecord /\ retirement' \in RetirementRecord
  BY MoveTyped DEF TypeOK, FailStartup, OwnerLabels, RetirementRecord

LEMMA ReceiveStartupTypes ==
    ASSUME TypeOK, ReceiveStartup
    PROVE  TypeOK'
  <1>1. owner' \in OwnerRecord /\ retirement' \in RetirementRecord
    BY MoveTyped, FailStartupTyped DEF ReceiveStartup, OwnerLabels, TypeOK
  <1> QED BY <1>1 DEF ReceiveStartup, TypeOK, outside

LEMMA OnReadyTypes ==
    ASSUME TypeOK, OnReady
    PROVE  TypeOK'
  <1>1. owner' \in OwnerRecord /\ retirement' \in RetirementRecord
    BY MoveTyped, FailStartupTyped DEF OnReady, OwnerLabels, TypeOK
  <1> QED BY <1>1 DEF OnReady, TypeOK, operation, outside

LEMMA CommitReadyTypes ==
    ASSUME TypeOK, CommitReady
    PROVE  TypeOK'
  <1>1. owner' \in OwnerRecord /\ retirement' \in RetirementRecord
    <2>1. CASE retirement.ready_commit = "Open"
      BY <2>1, MoveTyped DEF CommitReady, OwnerLabels, TypeOK, RetirementRecord
    <2>2. CASE retirement.ready_commit # "Open" BY <2>2, FailStartupTyped DEF CommitReady
    <2> QED BY <2>1, <2>2
  <1> QED BY <1>1 DEF CommitReady, TypeOK, operation, outside

LEMMA MarkReadyTypes ==
    ASSUME TypeOK, MarkReady
    PROVE  TypeOK'
  <1>1. owner' \in OwnerRecord BY MoveTyped DEF MarkReady, OwnerLabels
  <1>2. child' \in ChildRecord BY DEF MarkReady, TypeOK, ChildRecord
  <1> QED BY <1>1, <1>2 DEF MarkReady, TypeOK, operation

LEMMA AdmitTypes ==
    ASSUME TypeOK, NEW job \in Jobs, Admit(job)
    PROVE  TypeOK'
  <1>1. job \in JobKinds BY LaunchAssumption
  <1>2. owner.jobs + 1 \in 0..MaxJobs BY LaunchAssumption DEF Admit, TypeOK, OwnerRecord
  <1>3. owner' \in OwnerRecord
    <2> DEFINE used == owner.used \/ job # "Replace"
    <2>1. used \in BOOLEAN BY DEF TypeOK, OwnerRecord
    <2>2. owner' = [owner EXCEPT !.at = IF job = "Cell" THEN "begin" ELSE "reserve", !.job = job,
                                 !.jobs = owner.jobs + 1, !.used = used, !.admitted = "None"]
      BY DEF Admit
    <2> HIDE DEF used
    <2> QED BY <1>1, <1>2, <2>1, <2>2 DEF TypeOK, OwnerRecord, OwnerLabels
  <1>4. cell' \in CellRecord BY DEF Admit, TypeOK, CellRecord
  <1> QED BY <1>1, <1>2, <1>3, <1>4 DEF Admit, TypeOK, outside

LEMMA BeginCellTypes ==
    ASSUME TypeOK, BeginCell
    PROVE  TypeOK'
  <1>1. owner' \in OwnerRecord BY MoveTyped DEF BeginCell, OwnerLabels
  <1>2. oper' \in OperRecord
    <2>1. oper \in OperRecord BY DEF TypeOK
    <2>2. UNCHANGED oper \/ oper' = [oper EXCEPT !.kind = "Cell", !.result = TRUE, !.idle_input = FALSE]
      BY DEF BeginCell
    <2> QED BY <2>1, <2>2 DEF OperRecord
  <1>3. cell' \in CellRecord BY DEF BeginCell, TypeOK, CellRecord, OperRecord
  <1> QED BY <1>1, <1>2, <1>3 DEF BeginCell, TypeOK, outside

LEMMA WaitForBootstrapTypes ==
    ASSUME TypeOK, WaitForBootstrap
    PROVE  TypeOK'
  <1>1. owner' \in OwnerRecord BY MoveTyped DEF WaitForBootstrap, OwnerLabels
  <1> QED BY <1>1 DEF WaitForBootstrap, TypeOK, operation, outside

LEMMA DispatchCellTypes ==
    ASSUME TypeOK, DispatchCell
    PROVE  TypeOK'
  <1>1. owner' \in OwnerRecord BY MoveTyped DEF DispatchCell, OwnerLabels
  <1>2. Command("Evaluate") \in [kind : {"Evaluate", "Prepare", "Reply", "Reject", "Interrupt", "Shutdown"},
                            i : Interrupters \cup {NoCall}]
    BY DEF Command
  <1>3. /\ oper' \in OperRecord /\ cell' \in CellRecord /\ commands' \in CommandRecord
        /\ answer' \in {"None", "Completed", "Prepared", "Rejected", "Failed"}
    <2>1. CASE FailOperation("Owner") /\ UNCHANGED commands BY <2>1, FailTyped DEF Causes, TypeOK
    <2>2. CASE Send(Command("Evaluate")) /\ cell' = [cell EXCEPT !.phase = "Dispatched"]
               /\ UNCHANGED <<oper, answer>>
      BY <1>2, <2>2, SendTyped DEF TypeOK, CellRecord
    <2>3. CASE UNCHANGED <<oper, answer, cell, commands>> BY <2>3 DEF TypeOK
    <2> QED BY <2>1, <2>2, <2>3 DEF DispatchCell
  <1> QED BY <1>1, <1>2, <1>3 DEF DispatchCell, TypeOK, outside

LEMMA AbortBootstrapCellTypes ==
    ASSUME TypeOK, AbortBootstrapCell
    PROVE  TypeOK'
  <1>1. owner' \in OwnerRecord BY MoveTyped DEF AbortBootstrapCell, OwnerLabels
  <1>2. oper' \in OperRecord
    <2>1. oper \in OperRecord /\ cell.input \in BOOLEAN BY DEF TypeOK, CellRecord
    <2>2. CASE UNCHANGED oper BY <2>1, <2>2
    <2>3. CASE oper' = [oper EXCEPT !.kind = "None", !.result = FALSE, !.idle_input = cell.input]
      BY <2>1, <2>3 DEF OperRecord
    <2> QED BY <2>2, <2>3 DEF AbortBootstrapCell
  <1>3. FinishCell("Completed") \in CellRecord BY DEF TypeOK, FinishCell, CellRecord
  <1>4. cell' \in CellRecord BY <1>3 DEF AbortBootstrapCell, TypeOK, CellRecord
  <1> QED BY <1>1, <1>2, <1>3, <1>4 DEF AbortBootstrapCell, TypeOK, outside

LEMMA ReserveEnvironmentTypes ==
    ASSUME TypeOK, ReserveEnvironment
    PROVE  TypeOK'
  <1>1. owner' \in OwnerRecord
    <2>1. owner \in OwnerRecord BY DEF TypeOK
    <2>2. CASE owner' = [owner EXCEPT !.at = "prepare_env", !.admitted = "Err"]
      BY <2>1, <2>2 DEF OwnerRecord, OwnerLabels
    <2>3. CASE Move("free") BY <2>3, MoveTyped DEF OwnerLabels
    <2>4. CASE owner' = [owner EXCEPT !.at = "prepare_env", !.admitted = "Ok",
                                      !.reservation = "Live"]
      BY <2>1, <2>4 DEF OwnerRecord, OwnerLabels
    <2> QED BY <2>2, <2>3, <2>4 DEF ReserveEnvironment
  <1>2. oper' \in OperRecord
    <2>1. oper \in OperRecord BY DEF TypeOK
    <2>2. CASE UNCHANGED oper BY <2>1, <2>2
    <2>3. CASE oper' = [oper EXCEPT !.reserved = TRUE] BY <2>1, <2>3 DEF OperRecord
    <2> QED BY <2>2, <2>3 DEF ReserveEnvironment
  <1> QED BY <1>1, <1>2 DEF ReserveEnvironment, TypeOK, outside

LEMMA ReserveReplacementTypes ==
    ASSUME TypeOK, ReserveReplacement
    PROVE  TypeOK'
  <1>1. owner' \in OwnerRecord
    <2>1. owner \in OwnerRecord BY DEF TypeOK
    <2>2. CASE owner' = [owner EXCEPT !.at = "prepare_env", !.admitted = "Err"]
      BY <2>1, <2>2 DEF OwnerRecord, OwnerLabels
    <2>3. CASE Move("suspending") BY <2>3, MoveTyped DEF OwnerLabels
    <2> QED BY <2>2, <2>3 DEF ReserveReplacement
  <1>2. events' \in Seq(EventRecord) BY EventTypes, Appended DEF ReserveReplacement, TypeOK
  <1> QED BY <1>1, <1>2 DEF ReserveReplacement, TypeOK, operation, outside

LEMMA ReplacementReservedTypes ==
    ASSUME TypeOK, ReplacementReserved
    PROVE  TypeOK'
  <1>1. owner' \in OwnerRecord BY DEF ReplacementReserved, TypeOK, OwnerRecord, OwnerLabels
  <1> QED BY <1>1 DEF ReplacementReserved, TypeOK, operation, outside

LEMMA LockEnvironmentTypes ==
    ASSUME TypeOK, LockEnvironment
    PROVE  TypeOK'
  <1>1. /\ owner' \in OwnerRecord /\ oper' \in OperRecord /\ events' \in Seq(EventRecord)
        /\ env' \in {"None", "Dispatcher", "Owner"}
    BY MoveTyped, DropTyped DEF LockEnvironment, TypeOK, OwnerLabels
  <1> QED BY <1>1 DEF LockEnvironment, TypeOK, outside

LEMMA ResolveDeclarationTypes ==
    ASSUME TypeOK, ResolveDeclaration
    PROVE  TypeOK'
  <1>1. /\ owner' \in OwnerRecord /\ oper' \in OperRecord /\ events' \in Seq(EventRecord)
        /\ env' \in {"None", "Dispatcher", "Owner"}
    BY MoveTyped, DropTyped DEF ResolveDeclaration, TypeOK, OwnerLabels
  <1> QED BY <1>1 DEF ResolveDeclaration, TypeOK, outside

LEMMA BeginPreparationTypes ==
    ASSUME TypeOK, BeginPreparation
    PROVE  TypeOK'
  <1>1. owner' \in OwnerRecord BY MoveTyped DEF BeginPreparation, OwnerLabels
  <1>2. oper' \in OperRecord
    <2> DEFINE more == owner.job = "PrepareBoth"
    <2>1. more \in BOOLEAN /\ oper \in OperRecord BY DEF TypeOK
    <2>2. oper' = oper \/ oper' = [oper EXCEPT !.kind = "Prepare", !.result = TRUE, !.more = more,
                                              !.reserved = more]
      BY DEF BeginPreparation
    <2> HIDE DEF more
    <2> QED BY <2>1, <2>2 DEF OperRecord
  <1>3. answer' \in {"None", "Completed", "Prepared", "Rejected", "Failed"}
    BY DEF BeginPreparation, TypeOK
  <1> QED BY <1>1, <1>2, <1>3 DEF BeginPreparation, TypeOK, outside

LEMMA SendPreparationTypes ==
    ASSUME TypeOK, SendPreparation
    PROVE  TypeOK'
  <1>1. owner' \in OwnerRecord BY MoveTyped DEF SendPreparation, OwnerLabels
  <1>2. Command("Prepare") \in [kind : {"Evaluate", "Prepare", "Reply", "Reject", "Interrupt", "Shutdown"},
                            i : Interrupters \cup {NoCall}]
    BY DEF Command
  <1>3. commands' \in CommandRecord BY <1>2, SendTyped DEF SendPreparation, TypeOK
  <1> QED BY <1>1, <1>2, <1>3 DEF SendPreparation, TypeOK, operation, outside

LEMMA ReceiveResultTypes ==
    ASSUME TypeOK, ReceiveResult
    PROVE  TypeOK'
  <1>1. owner' \in OwnerRecord /\ oper' \in OperRecord /\ events' \in Seq(EventRecord)
    <2>1. CASE DropReservation("free") BY <2>1, DropTyped DEF OwnerLabels
    <2>2. CASE Move("failed") /\ UNCHANGED <<events, oper>> BY <2>2, MoveTyped DEF OwnerLabels, TypeOK
    <2>3. CASE answer = "Prepared" /\ owner.job = "PrepareBoth" /\ UNCHANGED <<events, oper>>
               /\ owner' = [owner EXCEPT !.at = "begin_prepare", !.job = "Prepare"]
      BY <2>3 DEF OwnerLabels, TypeOK, OwnerRecord, JobKinds
    <2> QED BY <2>1, <2>2, <2>3 DEF ReceiveResult
  <1> QED BY <1>1 DEF ReceiveResult, TypeOK, outside

LEMMA OwnerRetiresTypes ==
    ASSUME TypeOK, OwnerRetires
    PROVE  TypeOK'
  <1>1. cell' \in CellRecord BY DEF OwnerRetires, TypeOK, CellRecord, FinishCell
  <1>2. /\ owner' \in OwnerRecord /\ oper' \in OperRecord /\ events' \in Seq(EventRecord)
    BY MoveTyped, DropTyped DEF OwnerRetires, OwnerLabels, TypeOK
  <1>3. retirement' \in RetirementRecord BY DEF OwnerRetires, TypeOK, RetirementRecord
  <1>4. caller' \in [Callers -> CallerLabels] BY DEF OwnerRetires, TypeOK, CallerLabels
  <1>5. env' \in {"None", "Dispatcher", "Owner"} BY DEF OwnerRetires, TypeOK
  <1>6. clock' \in 0..4 BY DEF OwnerRetires, TypeOK
  <1> QED BY <1>1, <1>2, <1>3, <1>4, <1>5, <1>6 DEF OwnerRetires, TypeOK

LEMMA OwnerRetiredTypes ==
    ASSUME TypeOK, OwnerRetired
    PROVE  TypeOK'
  <1>1. /\ owner' \in OwnerRecord /\ oper' \in OperRecord /\ events' \in Seq(EventRecord)
    BY DropTyped DEF OwnerRetired, OwnerLabels
  <1> QED BY <1>1 DEF OwnerRetired, TypeOK, outside

LEMMA InterruptTypes ==
    ASSUME TypeOK, NEW i \in Interrupters, Interrupt(i)
    PROVE  TypeOK'
  <1>1. cell' \in CellRecord BY DEF Interrupt, TypeOK, CellRecord
  <1>2. [kind |-> "Interrupt", i |-> i] \in [kind : {"Evaluate", "Prepare", "Reply", "Reject", "Interrupt", "Shutdown"},
                            i : Interrupters \cup {NoCall}]
    OBVIOUS
  <1>3. commands' \in CommandRecord BY <1>2, SendTyped DEF Interrupt, TypeOK
  <1>4. interrupts' \in InterruptRecord
    <2>1. CASE interrupts' = [interrupts EXCEPT !.call[i] = "error"]
      BY <2>1 DEF TypeOK, InterruptRecord
    <2>2. CASE interrupts' = [interrupts EXCEPT !.pending = @ \cup {i}, !.call[i] = "waiting"]
      BY <2>2 DEF TypeOK, InterruptRecord
    <2> QED BY <2>1, <2>2 DEF Interrupt
  <1> QED BY <1>1, <1>2, <1>3, <1>4 DEF Interrupt, TypeOK, others, outside

LEMMA GotoTyped ==
    ASSUME TypeOK, NEW c \in Callers, NEW label \in CallerLabels, Goto(c, label)
    PROVE  caller' \in [Callers -> CallerLabels]
  BY DEF TypeOK, Goto

LEMMA RequestedTyped ==
    ASSUME TypeOK, NEW c \in Callers, NEW r \in RetirementRecord, Requested(c, r)
    PROVE  caller' \in [Callers -> CallerLabels] /\ retirement' \in RetirementRecord
  <1> DEFINE cancelled == r.cancelled \/ c # Owner
  <1>1. cancelled \in BOOLEAN /\ retirement' = [r EXCEPT !.cancelled = cancelled]
    BY DEF Requested, RetirementRecord
  <1> HIDE DEF cancelled
  <1>2. retirement' \in RetirementRecord BY <1>1 DEF RetirementRecord
  <1> QED BY <1>2, GotoTyped DEF Requested, CallerLabels

LEMMA LifecycleRetireTypes ==
    ASSUME TypeOK, NEW c \in Retirers, LifecycleRetire(c)
    PROVE  TypeOK'
  <1>1. c \in Callers BY DEF Callers
  <1>2. caller' \in [Callers -> CallerLabels]
    BY <1>1, GotoTyped DEF LifecycleRetire, CallerLabels
  <1>3. retirement' \in RetirementRecord BY DEF LifecycleRetire, TypeOK, RetirementRecord
  <1> QED BY <1>1, <1>2, <1>3 DEF LifecycleRetire, TypeOK, operation, outside

LEMMA RequestShutdownTypes ==
    ASSUME TypeOK, NEW c \in Callers, RequestShutdown(c)
    PROVE  TypeOK'
  <1>1. retirement \in RetirementRecord BY DEF TypeOK
  <1>2. /\ caller' \in [Callers -> CallerLabels] /\ retirement' \in RetirementRecord
        /\ commands' \in CommandRecord
    <2> DEFINE r == [retirement EXCEPT !.requesting = TRUE, !.observed = "Requested",
                                       !.ready_commit = IF @ = "Open" THEN "Retiring" ELSE @]
    <2>0. (IF retirement.ready_commit = "Open" THEN "Retiring" ELSE retirement.ready_commit)
          \in {"Open", "Committed", "Failed", "Retiring"}
      BY <1>1 DEF RetirementRecord
    <2>1. r \in RetirementRecord /\ [r EXCEPT !.requesting = FALSE, !.requested = "Always"] \in RetirementRecord
      <3>1. r \in RetirementRecord BY <1>1, <2>0 DEF RetirementRecord
      <3> HIDE DEF r
      <3>2. [r EXCEPT !.requesting = FALSE, !.requested = "Always"] \in RetirementRecord
        BY <3>1 DEF RetirementRecord
      <3> QED BY <3>1, <3>2
    <2>2. CASE Requested(c, retirement) /\ UNCHANGED commands BY <1>1, <2>2, RequestedTyped DEF TypeOK
    <2>3. CASE Requested(c, [r EXCEPT !.requesting = FALSE, !.requested = "Always"]) /\ UNCHANGED commands
      BY <2>1, <2>3, RequestedTyped DEF TypeOK
    <2>4. CASE Goto(c, "receipt") /\ retirement' = r /\ Send(Command("Shutdown"))
      <3>1. commands' \in CommandRecord BY <2>4, SendTyped DEF Command
      <3> QED BY <2>1, <2>4, <3>1, GotoTyped DEF CallerLabels
    <2> QED BY <2>2, <2>3, <2>4 DEF RequestShutdown
  <1> QED BY <1>1, <1>2 DEF RequestShutdown, TypeOK, operation, outside

LEMMA ShutdownReceiptTypes ==
    ASSUME TypeOK, NEW c \in Callers, ShutdownReceipt(c)
    PROVE  TypeOK'
  <1>1. /\ [retirement EXCEPT !.requesting = FALSE, !.requested = "Timely"] \in RetirementRecord
        /\ [retirement EXCEPT !.requesting = FALSE, !.requested = "Always"] \in RetirementRecord
    BY DEF TypeOK, RetirementRecord
  <1>2. caller' \in [Callers -> CallerLabels] /\ retirement' \in RetirementRecord
    BY <1>1, RequestedTyped DEF ShutdownReceipt
  <1>3. events' \in Seq(EventRecord) /\ commands' \in CommandRecord
    BY ReportTyped DEF ShutdownReceipt, TypeOK
  <1> QED BY <1>1, <1>2, <1>3 DEF ShutdownReceipt, TypeOK, operation, outside

LEMMA StartRetireTypes ==
    ASSUME TypeOK, NEW c \in Callers, StartRetire(c)
    PROVE  TypeOK'
  <1>1. caller' \in [Callers -> CallerLabels] BY GotoTyped DEF StartRetire, CallerLabels
  <1>2. events' \in Seq(EventRecord) BY EventTypes, Appended DEF StartRetire, TypeOK
  <1>3. retirement' \in RetirementRecord
    <2>1. retirement \in RetirementRecord BY DEF TypeOK
    <2>2. CASE UNCHANGED retirement BY <2>1, <2>2
    <2>3. CASE retirement' = [retirement EXCEPT !.finishing = TRUE, !.tasks = FALSE]
      BY <2>1, <2>3 DEF RetirementRecord
    <2> QED BY <2>2, <2>3 DEF StartRetire
  <1>4. ghost' \in [last : Nat, exit_first : BOOLEAN, ahead : BOOLEAN]
    <2> DEFINE ahead == ~DispatcherDone /\ CompletionAhead
    <2>1. ahead \in BOOLEAN OBVIOUS
    <2>2. ghost' = ghost \/ ghost' = [ghost EXCEPT !.ahead = ahead] BY DEF StartRetire
    <2> HIDE DEF ahead
    <2> QED BY <2>1, <2>2 DEF TypeOK
  <1> QED BY <1>1, <1>2, <1>3, <1>4 DEF StartRetire, TypeOK, operation, outside

LEMMA BarrierReachedTypes ==
    ASSUME TypeOK, NEW c \in Callers, BarrierReached(c)
    PROVE  TypeOK'
  <1>1. caller' \in [Callers -> CallerLabels] BY GotoTyped DEF BarrierReached, CallerLabels
  <1> QED BY <1>1 DEF BarrierReached, TypeOK, operation, outside

LEMMA ReapTyped ==
    ASSUME TypeOK, NEW c \in Callers, NEW failed \in BOOLEAN, Reap(c, failed)
    PROVE  events' \in Seq(EventRecord) /\ retirement' \in RetirementRecord /\ caller' \in [Callers -> CallerLabels]
           /\ child' \in ChildRecord /\ commands' \in CommandRecord
  <1> DEFINE cleanup == ~failed /\ ~(child.status = "Bad" /\ child.ready /\ ~oper.relay_exit)
  <1>1. cleanup \in BOOLEAN /\ retirement' = [retirement EXCEPT !.cleanup = cleanup] BY DEF Reap
  <1> HIDE DEF cleanup
  <1>2. retirement' \in RetirementRecord BY <1>1 DEF TypeOK, RetirementRecord
  <1>3. child' \in ChildRecord BY DEF Reap, TypeOK, ChildRecord
  <1> QED BY <1>2, <1>3, AbortTyped, GotoTyped DEF Reap, TypeOK, CallerLabels

LEMMA StopRelayTypes ==
    ASSUME TypeOK, NEW c \in Callers, StopRelay(c)
    PROVE  TypeOK'
  <1>1. /\ events' \in Seq(EventRecord) /\ retirement' \in RetirementRecord /\ caller' \in [Callers -> CallerLabels]
        /\ child' \in ChildRecord /\ commands' \in CommandRecord
    <2>1. CASE Reap(c, TRUE) \/ Reap(c, FALSE) BY <2>1, ReapTyped
    <2>2. CASE Terminate(c)
      BY <2>2, ReportTyped, GotoTyped DEF Terminate, TypeOK, CallerLabels
    <2>3. CASE (Goto(c, "relay_grace") \/ Goto(c, "kill")) /\ UNCHANGED <<events, commands, retirement, child>>
      BY <2>3, GotoTyped DEF TypeOK, CallerLabels
    <2>4. CASE /\ retirement' = [retirement EXCEPT !.cleanup = FALSE]
               /\ child' = [child EXCEPT !.output_stopped = TRUE]
               /\ commands' = Aborted
               /\ Goto(c, "join") /\ UNCHANGED events
      <3>1. retirement' \in RetirementRecord BY <2>4 DEF TypeOK, RetirementRecord
      <3>2. child' \in ChildRecord BY <2>4 DEF TypeOK, ChildRecord
      <3> QED BY <2>4, <3>1, <3>2, AbortTyped, GotoTyped DEF TypeOK, CallerLabels
    <2> QED BY <2>1, <2>2, <2>3, <2>4 DEF StopRelay
  <1> QED BY <1>1 DEF StopRelay, TypeOK, operation

LEMMA JoinTasksTypes ==
    ASSUME TypeOK, NEW c \in Callers, JoinTasks(c)
    PROVE  TypeOK'
  <1>1. caller' \in [Callers -> CallerLabels] BY GotoTyped DEF JoinTasks, CallerLabels
  <1>2. JoinedResult \in Outcomes BY DEF JoinedResult, Outcomes
  <1>3. retirement' \in RetirementRecord BY <1>2 DEF JoinTasks, TypeOK, RetirementRecord
  <1>4. cell' \in CellRecord BY DEF JoinTasks, TypeOK, CellRecord
  <1> QED BY <1>1, <1>2, <1>3, <1>4 DEF JoinTasks, TypeOK, outside

LEMMA TickTypes ==
    ASSUME TypeOK, Tick
    PROVE  TypeOK'
  <1>1. clock' \in 0..4 BY DEF Tick, TypeOK
  <1> QED BY <1>1 DEF Tick, TypeOK, operation

LEMMA EmitTyped ==
    ASSUME TypeOK, NEW seq \in Seq(EventRecord), Emit(seq)
    PROVE  events' \in Seq(EventRecord)
  BY ConcatProperties DEF Emit, TypeOK

LEMMA SaidTyped ==
    ASSUME TypeOK, NEW kind \in Kinds, Said(kind)
    PROVE  events' \in Seq(EventRecord)
  <1>1. [kind |-> kind, n |-> wk.n + 1, i |-> NoCall] \in EventRecord
    BY EventTyped DEF TypeOK, WorldRecord
  <1>2. <<[kind |-> kind, n |-> wk.n + 1, i |-> NoCall]>> \in Seq(EventRecord) BY <1>1
  <1> QED BY <1>2, EmitTyped DEF Said

LEMMA WorkerStartsTypes ==
    ASSUME TypeOK, WorkerStarts
    PROVE  TypeOK'
  <1>1. /\ Event("WorkerStarted") \in EventRecord
        /\ [Event("Ready") EXCEPT !.n = 1] = [kind |-> "Ready", n |-> 1, i |-> NoCall]
    BY EventTyped DEF Event, Kinds, Lifetime
  <1>2. <<Event("WorkerStarted"), [Event("Ready") EXCEPT !.n = 1]>> \in Seq(EventRecord)
    BY <1>1, EventTyped DEF Kinds, Semantic
  <1>3. events' \in Seq(EventRecord) BY <1>2, EmitTyped DEF WorkerStarts
  <1>4. wk' \in WorldRecord BY DEF WorkerStarts, TypeOK, WorldRecord
  <1> QED BY <1>1, <1>2, <1>3, <1>4 DEF WorkerStarts, TypeOK, Controller, operation

LEMMA InitializesTypes ==
    ASSUME TypeOK, Initializes
    PROVE  TypeOK'
  <1>1. events' \in Seq(EventRecord)
    BY SaidTyped DEF Initializes, Kinds, Semantic, RuntimeCallbacks, Initialized, Inputs, Results
  <1>2. wk \in WorldRecord /\ wk.n + 1 \in Nat BY DEF TypeOK, WorldRecord
  <1>3. wk' \in WorldRecord BY <1>2 DEF Initializes, WorldRecord
  <1> QED BY <1>1, <1>2, <1>3 DEF Initializes, TypeOK, Controller, operation

LEMMA StartsTodoTypes ==
    ASSUME TypeOK, StartsTodo
    PROVE  TypeOK'
  <1>1. events' \in Seq(EventRecord)
    BY SaidTyped DEF StartsTodo, TypeOK, Kinds, Semantic, RuntimeCallbacks, Initialized, Inputs, Results
  <1>2. wk \in WorldRecord /\ wk.n + 1 \in Nat BY DEF TypeOK, WorldRecord
  <1>3. wk' \in WorldRecord BY <1>2 DEF StartsTodo, WorldRecord
  <1> QED BY <1>1, <1>2, <1>3 DEF StartsTodo, TypeOK, Controller, operation

LEMMA FinishesTodoTypes ==
    ASSUME TypeOK, FinishesTodo
    PROVE  TypeOK'
  <1>1. events' \in Seq(EventRecord)
    BY SaidTyped DEF FinishesTodo, Kinds, Semantic, RuntimeCallbacks, Initialized, Inputs, Results
  <1>2. wk \in WorldRecord /\ wk.n + 1 \in Nat BY DEF TypeOK, WorldRecord
  <1>3. wk' \in WorldRecord BY <1>2 DEF FinishesTodo, WorldRecord
  <1> QED BY <1>1, <1>2, <1>3 DEF FinishesTodo, TypeOK, Controller, operation

LEMMA CallsBackTypes ==
    ASSUME TypeOK, CallsBack
    PROVE  TypeOK'
  <1>1. events' \in Seq(EventRecord)
    BY SaidTyped DEF CallsBack, Kinds, Semantic, RuntimeCallbacks, Initialized, Inputs, Results
  <1>2. wk.callbacks < MaxCallbacks => wk.callbacks + 1 \in 0..MaxCallbacks
    BY LaunchAssumption DEF TypeOK, WorldRecord
  <1>3. wk \in WorldRecord /\ wk.n + 1 \in Nat BY DEF TypeOK, WorldRecord
  <1>4. wk' \in WorldRecord
    <2>1. CASE wk.callbacks < MaxCallbacks /\ \E r \in Callbacks : wk' = [wk EXCEPT !.wait = r, !.n = @ + 1, !.callbacks = @ + 1]
      <3>1. PICK r \in Callbacks : wk' = [wk EXCEPT !.wait = r, !.n = wk.n + 1, !.callbacks = wk.callbacks + 1]
        BY <2>1
      <3>2. r \in {"R", "Python"} BY LaunchAssumption
      <3> QED BY <1>2, <1>3, <2>1, <3>1, <3>2 DEF WorldRecord
    <2>2. CASE wk' = [wk EXCEPT !.wait = "No", !.n = @ + 1] BY <1>3, <2>2 DEF WorldRecord
    <2> QED BY <2>1, <2>2 DEF CallsBack
  <1> QED BY <1>1, <1>2, <1>3, <1>4 DEF CallsBack, TypeOK, Controller, operation

LEMMA AsksInputTypes ==
    ASSUME TypeOK, AsksInput
    PROVE  TypeOK'
  <1>1. events' \in Seq(EventRecord)
    BY SaidTyped DEF AsksInput, Kinds, Semantic, RuntimeCallbacks, Initialized, Inputs, Results
  <1>2. wk.inputs < MaxInputs => wk.inputs + 1 \in 0..MaxInputs
    BY LaunchAssumption DEF TypeOK, WorldRecord
  <1>3. wk \in WorldRecord /\ wk.n + 1 \in Nat BY DEF TypeOK, WorldRecord
  <1>4. wk' \in WorldRecord
    <2>1. \/ wk.inputs < MaxInputs
             /\ wk' = [wk EXCEPT !.wait = "Input", !.n = @ + 1, !.inputs = @ + 1]
          \/ wk' = [wk EXCEPT !.wait = "No", !.n = @ + 1]
      BY DEF AsksInput
    <2> QED BY <1>2, <1>3, <2>1 DEF WorldRecord
  <1> QED BY <1>1, <1>2, <1>3, <1>4 DEF AsksInput, TypeOK, Controller, operation

LEMMA ClosingTyped ==
    /\ Event("SidebandClosed") \in EventRecord /\ Event("Outcome") \in EventRecord
    /\ Event("Fatal") \in EventRecord /\ Event("PartialFrame") \in EventRecord
    /\ ClosingEvents \in Seq(EventRecord)
    /\ \A k \in 0..1 : SubSeq(ClosingEvents, 1, k) \in Seq(EventRecord)
    /\ \A fatal \in {<<>>, <<Event("Fatal")>>} : fatal \o ClosingEvents \in Seq(EventRecord)
  <1>1. /\ Event("SidebandClosed") \in EventRecord /\ Event("Outcome") \in EventRecord
        /\ Event("Fatal") \in EventRecord /\ Event("PartialFrame") \in EventRecord
    BY EventTyped DEF Event, Kinds, Lifetime
  <1>2. ClosingEvents \in Seq(EventRecord) BY <1>1 DEF ClosingEvents
  <1>3. \A k \in 0..1 : SubSeq(ClosingEvents, 1, k) \in Seq(EventRecord)
    BY <1>2, SubSeqProperties DEF ClosingEvents
  <1>4. \A fatal \in {<<>>, <<Event("Fatal")>>} : fatal \o ClosingEvents \in Seq(EventRecord)
    <2>1. <<Event("Fatal")>> \in Seq(EventRecord) BY <1>1
    <2> QED BY <1>2, <2>1, EmptyQueue, ConcatProperties
  <1> QED BY <1>1, <1>2, <1>3, <1>4

LEMMA ExitTyped ==
    ASSUME TypeOK, NEW statuses \in SUBSET {"Ok", "Bad"}, NEW faults \in 0..1,
           faults = 1 => wk.faults < MaxFaults, Exits(statuses, faults)
    PROVE  wk' \in WorldRecord /\ child' \in ChildRecord
  <1>1. wk.faults + faults \in 0..MaxFaults BY LaunchAssumption DEF TypeOK, WorldRecord
  <1>2. wk' \in WorldRecord BY <1>1 DEF Exits, TypeOK, WorldRecord
  <1>3. child' \in ChildRecord BY DEF Exits, TypeOK, ChildRecord
  <1> QED BY <1>2, <1>3

LEMMA CommandsEndTypes ==
    ASSUME TypeOK, CommandsEnd
    PROVE  TypeOK'
  <1>1. <<Event("PartialFrame")>> \in Seq(EventRecord) BY ClosingTyped
  <1>2. events' \in Seq(EventRecord) BY <1>1, EmitTyped DEF CommandsEnd, TypeOK
  <1>3. wk' \in WorldRecord BY DEF CommandsEnd, TypeOK, WorldRecord
  <1> QED BY <1>1, <1>2, <1>3 DEF CommandsEnd, TypeOK, Controller, operation

LEMMA RelayFinishesTypes ==
    ASSUME TypeOK, RelayFinishes
    PROVE  TypeOK'
  <1>1. events' \in Seq(EventRecord) BY ClosingTyped, EmitTyped DEF RelayFinishes
  <1>2. wk' \in WorldRecord /\ child' \in ChildRecord BY ExitTyped DEF RelayFinishes, Faulty
  <1>3. UNCHANGED Controller BY DEF RelayFinishes, Exits
  <1> QED BY <1>1, <1>2, <1>3 DEF TypeOK, Controller, operation

LEMMA RelayDiesTypes ==
    ASSUME TypeOK, RelayDies
    PROVE  TypeOK'
  <1>1. events' \in Seq(EventRecord) BY ClosingTyped, EmitTyped DEF RelayDies
  <1>2. wk' \in WorldRecord /\ child' \in ChildRecord BY ExitTyped DEF RelayDies, Faulty
  <1>3. UNCHANGED Controller BY DEF RelayDies, Exits
  <1> QED BY <1>1, <1>2, <1>3 DEF TypeOK, Controller, operation

LEMMA TurnsDeafTypes ==
    ASSUME TypeOK, TurnsDeaf
    PROVE  TypeOK'
  <1>1. wk.faults + 1 \in 0..MaxFaults
    BY LaunchAssumption DEF TurnsDeaf, Faulty, TypeOK, WorldRecord
  <1>2. wk' \in WorldRecord BY <1>1 DEF TurnsDeaf, TypeOK, WorldRecord
  <1> QED BY <1>1, <1>2 DEF TurnsDeaf, TypeOK, Controller, operation

LEMMA TypesInit == Init => TypeOK
  <1> SUFFICES ASSUME Init PROVE TypeOK OBVIOUS
  <1>1. events \in Seq(EventRecord) BY EmptyQueue DEF Init
  <1>2. disp \in DispRecord
    <2>1. Event("Resume") \in EventRecord BY EventTypes
    <2> QED BY <2>1, EmptyQueue DEF Init, DispRecord
  <1>3. oper \in OperRecord /\ cell \in CellRecord BY DEF Init, OperRecord, CellRecord, Causes
  <1>4. commands \in CommandRecord BY EmptySeq DEF Init, CommandRecord
  <1>5. interrupts \in InterruptRecord BY DEF Init, InterruptRecord
  <1>6. owner \in OwnerRecord BY LaunchAssumption DEF Init, OwnerRecord, OwnerLabels
  <1>7. retirement \in RetirementRecord /\ child \in ChildRecord
    BY DEF Init, RetirementRecord, ChildRecord
  <1>8. caller \in [Callers -> CallerLabels] BY DEF Init, CallerLabels
  <1>9. wk \in WorldRecord
    <2>1. PICK r \in WithR : wk = [r |-> r, at |-> "Spawned", wait |-> "No", todo |-> "None", n |-> 0,
                                    callbacks |-> 0, inputs |-> 0, interrupted |-> FALSE,
                                    deaf |-> FALSE, faults |-> 0]
      BY DEF Init
    <2>2. r \in BOOLEAN BY LaunchAssumption
    <2> QED BY <2>1, <2>2, LaunchAssumption DEF WorldRecord
  <1> QED BY <1>1, <1>2, <1>3, <1>4, <1>5, <1>6, <1>7, <1>8, <1>9 DEF Init, TypeOK

LEMMA TypesStep == ASSUME TypeOK, [Next]_vars PROVE TypeOK'
  <1>1. CASE Dispatch
    BY <1>1, DeferTypes, DeferFailsTypes, RelayErrorTypes, IgnoreSemanticTypes, RelayLifetimeTypes,
       SidebandClosedTypes, InterruptResultTypes, ShutdownStartedTypes, FatalTypes, ReadyTypes,
       ReadyCommittedTypes, BootstrapFinishedTypes, CellStartedTypes, InputEventTypes,
       BeginResolveRTypes, BeginCallbackTypes, TakeEnvironmentTypes, ActivateTypes, CompleteTypes,
       SuspendTypes, ResumeTypes, TransportFailureTypes, RetireTypes, RelayClosedTypes
    DEF Dispatch
  <1>2. CASE Resolve \/ Writer \/ Reader \/ ResolveDeclaration \/ Tick
    BY <1>2, ResolveTypes, WriteCommandTypes, WriteFailsTypes, ReaderEndsTypes, ReadFailsTypes,
       ResolveDeclarationTypes, TickTypes
    DEF Writer, Reader
  <1>3. CASE OwnerStep
    BY <1>3, ReceiveStartupTypes, OnReadyTypes, CommitReadyTypes, MarkReadyTypes, BeginCellTypes,
       WaitForBootstrapTypes, DispatchCellTypes, AbortBootstrapCellTypes, ReserveEnvironmentTypes,
       ReserveReplacementTypes, ReplacementReservedTypes, LockEnvironmentTypes,
       BeginPreparationTypes, SendPreparationTypes, ReceiveResultTypes, OwnerRetiresTypes,
       OwnerRetiredTypes
    DEF OwnerStep
  <1>4. CASE \E job \in Jobs : Admit(job) BY <1>4, AdmitTypes
  <1>5. CASE \E i \in Interrupters : Interrupt(i) BY <1>5, InterruptTypes
  <1>6. CASE \E c \in Retirers : LifecycleRetire(c) BY <1>6, LifecycleRetireTypes
  <1>7. CASE \E c \in Callers : RetireStep(c)
    BY <1>7, RequestShutdownTypes, ShutdownReceiptTypes, StartRetireTypes, BarrierReachedTypes,
       StopRelayTypes, JoinTasksTypes
    DEF RetireStep
  <1>8. CASE World
    BY <1>8, WorkerStartsTypes, InitializesTypes, StartsTodoTypes, FinishesTodoTypes, CallsBackTypes,
       AsksInputTypes, CommandsEndTypes, RelayFinishesTypes, RelayDiesTypes, TurnsDeafTypes
    DEF World
  <1>9. CASE UNCHANGED vars BY <1>9 DEF vars, TypeOK
  <1> QED BY <1>1, <1>2, <1>3, <1>4, <1>5, <1>6, <1>7, <1>8, <1>9 DEF Next

-----------------------------------------------------------------------------
(* Frames: what the steps of each thread leave alone.                      *)
Asking == <<caller, retirement.budget, retirement.lifecycle, retirement.requesting,
            retirement.requested, retirement.finishing, retirement.tasks, retirement.result>>
Holding == <<owner.at, owner.job, owner.reservation, owner.jobs, owner.used>>

LEMMA DispatchFrame ==
    ASSUME TypeOK, Dispatch
    PROVE  /\ UNCHANGED <<caller, child, clock, reader, Asking, Holding>>
           /\ UNCHANGED <<retirement.ready_commit, retirement.receipt, wk.at, wk.r, wk.todo, wk.n>>
  <1>1. CASE ShutdownStarted \/ Retire
    BY <1>1 DEF TypeOK, RetirementRecord, ShutdownStarted, Retire, others, outside, Asking, Holding
  <1>2. CASE Suspend
    BY <1>2 DEF TypeOK, OwnerRecord, Suspend, others, outside, Asking, Holding
  <1>3. CASE DeferFails
    BY <1>3 DEF TypeOK, WorldRecord, DeferFails, OneMoreFault, others, outside, Asking, Holding
  <1>4. CASE ~(ShutdownStarted \/ Retire \/ Suspend \/ DeferFails)
    BY <1>4
    DEF Dispatch, Defer, RelayError, IgnoreSemantic, RelayLifetime, SidebandClosed, InterruptResult,
        Fatal, Ready, ReadyCommitted, BootstrapFinished, CellStarted, InputEvent, BeginResolveR,
        BeginCallback, TakeEnvironment, Activate, Complete, Resume, TransportFailure, RelayClosed,
        others, outside, Asking, Holding
  <1> QED BY <1>1, <1>2, <1>3, <1>4

LEMMA ResolveFrame ==
    ASSUME TypeOK, Resolve
    PROVE  /\ UNCHANGED <<events, ghost, owner, retirement, caller, child, clock, reader, Asking, Holding>>
           /\ UNCHANGED <<wk.at, wk.r, wk.todo, wk.n>>
  BY DEF TypeOK, WorldRecord, Resolve, OneMoreFault, Asking, Holding

LEMMA WorldWritten ==
    ASSUME TypeOK, WriteCommand
    PROVE  \/ wk' = wk \/ wk' = [wk EXCEPT !.todo = "Cell"] \/ wk' = [wk EXCEPT !.todo = "Prepare"]
           \/ wk' = [wk EXCEPT !.wait = "RActivate"] \/ wk' = [wk EXCEPT !.wait = "PyActivate"]
           \/ wk' = [wk EXCEPT !.wait = "No"] \/ wk' = [wk EXCEPT !.at = "Closing"]
           \/ \E boot \in BOOLEAN : wk' = [wk EXCEPT !.interrupted = boot]
  <1> DEFINE boot == wk.at = "Boot"
  <1>1. wk \in WorldRecord /\ boot \in BOOLEAN BY DEF TypeOK
  <1> QED BY <1>1 DEF WriteCommand, WorldRecord

LEMMA WriterFrame ==
    ASSUME TypeOK, Writer
    PROVE  /\ UNCHANGED <<disp, operation, owner, env, caller, child, clock, reader, ghost, Asking,
                          Holding, retirement.ready_commit>>
           /\ wk'.at = wk.at \/ (wk.at \notin {"Closing", "Gone"} /\ wk'.at = "Closing")
           /\ UNCHANGED <<wk.r, wk.n>>
  <1>1. CASE WriteFails
    <2>1. UNCHANGED <<disp, operation, owner, env, retirement, caller, child, clock, reader, wk, ghost>>
      BY <1>1 DEF WriteFails, others, outside
    <2>2. UNCHANGED <<Asking, Holding, retirement.ready_commit>> BY <2>1 DEF Asking, Holding
    <2>3. UNCHANGED <<wk.at, wk.r, wk.n>> BY <2>1
    <2> QED BY <2>1, <2>2, <2>3
  <1>2. CASE WriteCommand
    <2>1. /\ UNCHANGED <<disp, operation, owner, env, caller, child, clock, reader, ghost, Holding>>
          /\ UNCHANGED <<Asking, retirement.ready_commit>>
      BY <1>2 DEF WriteCommand, TypeOK, RetirementRecord, Asking, Holding
    <2>2. wk'.at = wk.at \/ (wk.at \notin {"Closing", "Gone"} /\ wk'.at = "Closing")
      BY <1>2, WorldWritten DEF WriteCommand, Reading, TypeOK, WorldRecord
    <2>3. UNCHANGED <<wk.r, wk.n>> BY <1>2, WorldWritten DEF TypeOK, WorldRecord
    <2> QED BY <2>1, <2>2, <2>3
  <1> QED BY <1>1, <1>2 DEF Writer

LEMMA ReaderFrame ==
    ASSUME TypeOK, Reader
    PROVE  /\ UNCHANGED <<disp, operation, commands, owner, env, retirement, caller, child, clock,
                          ghost, Asking, Holding>>
           /\ UNCHANGED <<wk.at, wk.r, wk.todo, wk.n>>
           /\ reader /\ ~reader'
  BY DEF Reader, ReaderEnds, ReadFails, OneMoreFault, TypeOK, WorldRecord, Asking, Holding

HolderStep == OwnerStep \/ ResolveDeclaration \/ \E job \in Jobs : Admit(job)

LEMMA HolderFrame ==
    ASSUME TypeOK, HolderStep
    PROVE  /\ UNCHANGED <<disp, interrupts, wk, reader, ghost>>
           /\ UNCHANGED <<child.state, child.output_stopped>>
           /\ ~OwnerRetires => UNCHANGED <<Asking, clock>>
  <1>1. CASE MarkReady
    BY <1>1 DEF MarkReady, TypeOK, ChildRecord, operation, Asking, OwnerRetires
  <1>2. CASE ReceiveStartup \/ OnReady \/ CommitReady
    BY <1>2 DEF ReceiveStartup, OnReady, CommitReady, FailStartup, TypeOK, RetirementRecord,
       operation, outside, Asking
  <1>3. CASE ~(MarkReady \/ ReceiveStartup \/ OnReady \/ CommitReady)
    BY <1>3
    DEF HolderStep, OwnerStep, BeginCell, WaitForBootstrap, DispatchCell, AbortBootstrapCell,
        ReserveEnvironment, ReserveReplacement, ReplacementReserved, LockEnvironment,
        BeginPreparation, SendPreparation, ReceiveResult, OwnerRetires, OwnerRetired,
        ResolveDeclaration, Admit, operation, outside, Asking
  <1> QED BY <1>1, <1>2, <1>3

LEMMA InterruptFrame ==
    ASSUME NEW i \in Interrupters, Interrupt(i)
    PROVE  UNCHANGED <<events, disp, oper, startup, answer, others, ghost, Asking, Holding>>
  BY DEF Interrupt, others, outside, Asking, Holding

AskStep == (\E c \in Retirers : LifecycleRetire(c)) \/ \E c \in Callers : RetireStep(c)

LEMMA AskFrame ==
    ASSUME TypeOK, AskStep
    PROVE  UNCHANGED <<disp, oper, startup, answer, interrupts, owner, env, clock, reader, wk, Holding>>
  BY DEF AskStep, LifecycleRetire, RetireStep, RequestShutdown, ShutdownReceipt, StartRetire,
     BarrierReached, StopRelay, JoinTasks, operation, outside, Holding

LEMMA TickFrame ==
    ASSUME Tick
    PROVE  /\ UNCHANGED <<events, disp, operation, commands, owner, env, retirement, caller, child,
                          reader, wk, ghost, Asking, Holding>>
           /\ clock' = clock + 1
  BY DEF Tick, Asking, Holding

LEMMA WorldFrame ==
    ASSUME TypeOK, World
    PROVE  /\ UNCHANGED <<disp, operation, commands, owner, env, retirement, caller, clock, reader,
                          ghost, Asking, Holding>>
           /\ wk'.r = wk.r
  BY DEF World, WorkerStarts, Initializes, StartsTodo, FinishesTodo, CallsBack, AsksInput, CommandsEnd,
     RelayFinishes, RelayDies, TurnsDeaf, Exits, Controller, TypeOK, WorldRecord, Asking, Holding

(* The steps of a launch, by thread.                                       *)
LEMMA StepCases ==
    ASSUME [Next]_vars
    PROVE  \/ Dispatch \/ Resolve \/ Writer \/ Reader \/ HolderStep
           \/ \E i \in Interrupters : Interrupt(i)
           \/ AskStep \/ Tick \/ World \/ UNCHANGED vars
  BY DEF Next, HolderStep, AskStep

-----------------------------------------------------------------------------
(* The retirement and those who ask for it: its budget is reserved before  *)
(* anything else, one caller at a time waits for the receipt, one finishes,*)
(* and the tasks are gone exactly while it finishes or has finished.       *)
FinishLabels == {"reached", "stop", "relay_grace", "grace", "kill", "join"}

AskingInv ==
    /\ \A c \in Callers : caller[c] # "idle" => retirement.budget # "None"
    /\ \A c \in Callers : caller[c] = "receipt" => retirement.requesting /\ retirement.requested = "None"
    /\ \A c, d \in Callers : caller[c] = "receipt" /\ caller[d] = "receipt" => c = d
    /\ retirement.requesting => \E c \in Callers : caller[c] = "receipt"
    /\ \A c \in Callers : caller[c] \in FinishLabels \cup {"retire", "done"} => retirement.requested # "None"
    /\ \A c \in Callers : caller[c] \in FinishLabels => retirement.finishing
    /\ \A c, d \in Callers : caller[c] \in FinishLabels /\ caller[d] \in FinishLabels => c = d
    /\ retirement.finishing => retirement.result = "None"
    /\ retirement.tasks <=> ~retirement.finishing /\ retirement.result = "None"
    /\ \A c \in Callers : caller[c] = "done" => retirement.result # "None"
    /\ \A c \in Callers \ {Owner} : caller[c] # "idle" => retirement.lifecycle
    /\ ~retirement.tasks => \E c \in Callers : caller[c] # "idle"

OwnerAsks == caller[Owner] # "idle" => owner.at \in {"retire", "ended"}

ChildInv ==
    /\ child.state = "Live" <=> wk.at # "Gone"
    /\ child.state = "Reaped" => \E c \in Callers : caller[c] # "idle"

RetirementInv == AskingInv /\ OwnerAsks /\ ChildInv

LEMMA AskingKept ==
    ASSUME AskingInv, UNCHANGED Asking
    PROVE  AskingInv'
  BY DEF AskingInv, Asking

LEMMA LifecycleAsks ==
    ASSUME TypeOK, AskingInv, NEW c \in Retirers, LifecycleRetire(c)
    PROVE  AskingInv'
  <1>1. /\ c \in Callers /\ c # Owner /\ caller \in [Callers -> CallerLabels]
        /\ caller[c] = "idle" /\ caller' = [caller EXCEPT ![c] = "request"]
    BY LaunchAssumption DEF LifecycleRetire, Goto, TypeOK, Callers
  <1>2. /\ retirement'.lifecycle /\ retirement'.budget # "None"
        /\ UNCHANGED <<retirement.requesting, retirement.requested, retirement.finishing,
                       retirement.tasks, retirement.result>>
    BY DEF LifecycleRetire, TypeOK, RetirementRecord
  <1>3. \A d \in Callers : caller'[d] = (IF d = c THEN "request" ELSE caller[d]) BY <1>1
  <1> QED BY <1>1, <1>2, <1>3 DEF AskingInv, FinishLabels

LEMMA OwnerAsking ==
    ASSUME TypeOK, AskingInv, OwnerRetires
    PROVE  AskingInv'
  <1>1. Owner \in Callers /\ caller \in [Callers -> CallerLabels] BY DEF Callers, TypeOK
  <1>2. CASE UNCHANGED <<retirement, caller>> BY <1>2, AskingKept DEF Asking
  <1>3. CASE ~UNCHANGED <<retirement, caller>>
    <2>1. caller' = [caller EXCEPT ![Owner] = "request"] BY <1>3 DEF OwnerRetires
    <2>2. /\ retirement'.budget # "None"
          /\ UNCHANGED <<retirement.requesting, retirement.requested, retirement.finishing,
                         retirement.tasks, retirement.result, retirement.lifecycle>>
      BY <1>3 DEF OwnerRetires, TypeOK, RetirementRecord
    <2>3. \A d \in Callers : caller'[d] = (IF d = Owner THEN "request" ELSE caller[d]) BY <1>1, <2>1
    <2>4. caller[Owner] = "idle" BY DEF OwnerRetires
    <2> QED BY <1>1, <2>2, <2>3, <2>4 DEF AskingInv, FinishLabels
  <1> QED BY <1>2, <1>3

LEMMA RequestedFields ==
    ASSUME NEW r \in RetirementRecord, NEW c \in Callers, Requested(c, r)
    PROVE  /\ caller' = [caller EXCEPT ![c] = "retire"]
           /\ retirement'.budget = r.budget /\ retirement'.lifecycle = r.lifecycle
           /\ retirement'.ready_commit = r.ready_commit /\ retirement'.requesting = r.requesting
           /\ retirement'.requested = r.requested /\ retirement'.finishing = r.finishing
           /\ retirement'.tasks = r.tasks /\ retirement'.result = r.result
  BY DEF Requested, Goto, RetirementRecord

(* A request is sent once, and only it closes the commit of readiness.     *)
LEMMA RequestFields ==
    ASSUME TypeOK, NEW c \in Callers, RequestShutdown(c)
    PROVE  /\ UNCHANGED <<retirement.budget, retirement.finishing, retirement.tasks, retirement.result,
                          retirement.lifecycle>>
           /\ \/ UNCHANGED retirement.ready_commit
              \/ retirement.ready_commit = "Open" /\ retirement'.ready_commit = "Retiring"
           /\ \/ /\ retirement.requested # "None" /\ caller' = [caller EXCEPT ![c] = "retire"]
                 /\ UNCHANGED <<retirement.requesting, retirement.requested>>
              \/ /\ retirement'.requested # "None" /\ caller' = [caller EXCEPT ![c] = "retire"]
                 /\ ~retirement'.requesting
              \/ /\ retirement.requested = "None" /\ caller' = [caller EXCEPT ![c] = "receipt"]
                 /\ retirement'.requesting /\ retirement'.requested = "None"
  <1>1. retirement \in RetirementRecord BY DEF TypeOK
  <1>2. PICK r : r = [retirement EXCEPT !.requesting = TRUE, !.observed = "Requested",
                                        !.ready_commit = IF @ = "Open" THEN "Retiring" ELSE @]
    OBVIOUS
  <1>3. PICK q : q = [r EXCEPT !.requesting = FALSE, !.requested = "Always"]
    OBVIOUS
  <1>4. /\ r \in RetirementRecord /\ r.requesting /\ r.requested = retirement.requested
        /\ r.budget = retirement.budget /\ r.finishing = retirement.finishing
        /\ r.tasks = retirement.tasks /\ r.result = retirement.result
        /\ r.lifecycle = retirement.lifecycle
        /\ r.ready_commit = (IF retirement.ready_commit = "Open" THEN "Retiring"
                             ELSE retirement.ready_commit)
    <2>1. (IF retirement.ready_commit = "Open" THEN "Retiring" ELSE retirement.ready_commit)
          \in {"Open", "Committed", "Failed", "Retiring"}
      BY <1>1 DEF RetirementRecord
    <2> QED BY <1>1, <1>2, <2>1 DEF RetirementRecord
  <1>5. /\ q \in RetirementRecord /\ ~q.requesting /\ q.requested = "Always"
        /\ q.budget = r.budget /\ q.finishing = r.finishing /\ q.tasks = r.tasks
        /\ q.result = r.result /\ q.lifecycle = r.lifecycle /\ q.ready_commit = r.ready_commit
    BY <1>3, <1>4 DEF RetirementRecord
  <1>6. \/ retirement.requested # "None" /\ Requested(c, retirement)
        \/ Requested(c, q)
        \/ retirement.requested = "None" /\ Goto(c, "receipt") /\ retirement' = r
    BY <1>2, <1>3 DEF RequestShutdown
  <1>7. CASE retirement.requested # "None" /\ Requested(c, retirement)
    BY <1>1, <1>7, RequestedFields
  <1>8. CASE Requested(c, q)
    BY <1>4, <1>5, <1>8, RequestedFields
  <1>9. CASE retirement.requested = "None" /\ Goto(c, "receipt") /\ retirement' = r
    BY <1>4, <1>9 DEF Goto
  <1> QED BY <1>6, <1>7, <1>8, <1>9

LEMMA ReceiptFields ==
    ASSUME TypeOK, NEW c \in Callers, ShutdownReceipt(c)
    PROVE  /\ UNCHANGED <<retirement.budget, retirement.finishing, retirement.tasks, retirement.result,
                          retirement.lifecycle, retirement.ready_commit>>
           /\ retirement'.requested # "None" /\ caller' = [caller EXCEPT ![c] = "retire"]
           /\ ~retirement'.requesting
  <1>1. retirement \in RetirementRecord BY DEF TypeOK
  <1>2. PICK allowance \in {"Timely", "Always"} :
            Requested(c, [retirement EXCEPT !.requesting = FALSE, !.requested = allowance])
    BY DEF ShutdownReceipt
  <1>3. PICK q : q = [retirement EXCEPT !.requesting = FALSE, !.requested = allowance]
    OBVIOUS
  <1>4. /\ q \in RetirementRecord /\ ~q.requesting /\ q.requested = allowance
        /\ q.budget = retirement.budget /\ q.finishing = retirement.finishing
        /\ q.tasks = retirement.tasks /\ q.result = retirement.result
        /\ q.lifecycle = retirement.lifecycle /\ q.ready_commit = retirement.ready_commit
    BY <1>1, <1>3 DEF RetirementRecord
  <1>5. Requested(c, q) BY <1>2, <1>3
  <1> QED BY <1>4, <1>5, RequestedFields

LEMMA RequestAsking ==
    ASSUME TypeOK, AskingInv, NEW c \in Callers, RequestShutdown(c)
    PROVE  AskingInv'
  <1>1. caller \in [Callers -> CallerLabels] /\ caller[c] = "request" /\ ~retirement.requesting
    BY DEF RequestShutdown, TypeOK
  <1> QED BY <1>1, RequestFields DEF AskingInv, FinishLabels

LEMMA ReceiptAsking ==
    ASSUME TypeOK, AskingInv, NEW c \in Callers, ShutdownReceipt(c)
    PROVE  AskingInv'
  <1>1. caller \in [Callers -> CallerLabels] /\ caller[c] = "receipt"
    BY DEF ShutdownReceipt, TypeOK
  <1> QED BY <1>1, ReceiptFields DEF AskingInv, FinishLabels

LEMMA RetireAsking ==
    ASSUME TypeOK, AskingInv, NEW c \in Callers, StartRetire(c)
    PROVE  AskingInv'
  <1>1. /\ caller \in [Callers -> CallerLabels] /\ caller[c] = "retire"
        /\ ~retirement.requesting /\ ~retirement.finishing
    BY DEF StartRetire, TypeOK
  <1>2. CASE retirement.result # "None"
    BY <1>1, <1>2 DEF StartRetire, Goto, AskingInv, FinishLabels
  <1>3. CASE retirement.result = "None"
    <2>1. /\ UNCHANGED <<retirement.budget, retirement.requesting, retirement.requested,
                         retirement.result, retirement.lifecycle>>
          /\ retirement'.finishing /\ ~retirement'.tasks
      <3>1. retirement \in RetirementRecord BY DEF TypeOK
      <3>2. retirement' = [retirement EXCEPT !.finishing = TRUE, !.tasks = FALSE]
        BY <1>3 DEF StartRetire
      <3> QED BY <3>1, <3>2 DEF RetirementRecord
    <2>2. \E label \in FinishLabels : caller' = [caller EXCEPT ![c] = label]
      BY <1>3 DEF StartRetire, Goto, FinishLabels
    <2> QED BY <1>1, <1>3, <2>1, <2>2 DEF AskingInv, FinishLabels
  <1> QED BY <1>2, <1>3

(* A caller that finishes goes on finishing.                               *)
LEMMA FinishAsking ==
    ASSUME TypeOK, AskingInv, NEW c \in Callers, NEW label \in FinishLabels,
           caller[c] \in FinishLabels, caller' = [caller EXCEPT ![c] = label],
           UNCHANGED <<retirement.budget, retirement.requesting, retirement.requested,
                       retirement.result, retirement.lifecycle, retirement.finishing, retirement.tasks>>
    PROVE  AskingInv'
  <1>1. caller \in [Callers -> CallerLabels] BY DEF TypeOK
  <1> QED BY <1>1 DEF AskingInv, FinishLabels

LEMMA StopFrame ==
    ASSUME TypeOK, NEW c \in Callers, StopRelay(c)
    PROVE  /\ UNCHANGED <<retirement.budget, retirement.requesting, retirement.requested, retirement.ready_commit,
                          retirement.result, retirement.lifecycle, retirement.finishing, retirement.tasks>>
           /\ caller[c] \in FinishLabels
           /\ \E label \in FinishLabels : caller' = [caller EXCEPT ![c] = label]
  BY DEF StopRelay, Reap, Terminate, Goto, FinishLabels, TypeOK, RetirementRecord

LEMMA JoinAsking ==
    ASSUME TypeOK, AskingInv, NEW c \in Callers, JoinTasks(c)
    PROVE  AskingInv'
  <1>1. /\ caller \in [Callers -> CallerLabels] /\ caller[c] = "join"
        /\ caller' = [caller EXCEPT ![c] = "done"]
    BY DEF JoinTasks, Goto, TypeOK
  <1>2. /\ UNCHANGED <<retirement.budget, retirement.requesting, retirement.requested,
                       retirement.lifecycle, retirement.tasks>>
        /\ ~retirement'.finishing /\ retirement'.result \in Outcomes
    BY DEF JoinTasks, JoinedResult, Outcomes, TypeOK, RetirementRecord
  <1>3. "None" \notin Outcomes BY DEF Outcomes
  <1> QED BY <1>1, <1>2, <1>3 DEF AskingInv, FinishLabels

LEMMA AskingStep ==
    ASSUME TypeOK, AskingInv, [Next]_vars
    PROVE  AskingInv'
  <1>1. CASE AskStep
    <2>1. CASE \E c \in Retirers : LifecycleRetire(c) BY <2>1, LifecycleAsks
    <2>2. CASE \E c \in Callers : RequestShutdown(c) \/ ShutdownReceipt(c) \/ StartRetire(c) \/ JoinTasks(c)
      BY <2>2, RequestAsking, ReceiptAsking, RetireAsking, JoinAsking
    <2>3. CASE \E c \in Callers : StopRelay(c) BY <2>3, StopFrame, FinishAsking
    <2>4. CASE \E c \in Callers : BarrierReached(c)
      <3>1. PICK c \in Callers : BarrierReached(c) BY <2>4
      <3>2. /\ caller[c] \in FinishLabels /\ caller' = [caller EXCEPT ![c] = "stop"]
            /\ "stop" \in FinishLabels /\ UNCHANGED retirement
        BY <3>1 DEF BarrierReached, Goto, FinishLabels
      <3> QED BY <3>2, FinishAsking
    <2> QED BY <1>1, <2>1, <2>2, <2>3, <2>4 DEF AskStep, RetireStep
  <1>2. CASE OwnerRetires BY <1>2, OwnerAsking
  <1>3. CASE ~AskStep /\ ~OwnerRetires
    <2>1. UNCHANGED Asking
      BY <1>3, StepCases, DispatchFrame, ResolveFrame, WriterFrame, ReaderFrame, HolderFrame,
         InterruptFrame, TickFrame, WorldFrame
      DEF vars, Asking
    <2> QED BY <2>1, AskingKept
  <1> QED BY <1>1, <1>2, <1>3

LEMMA OwnerAsksStep ==
    ASSUME TypeOK, OwnerAsks, [Next]_vars
    PROVE  OwnerAsks'
  <1>0. Owner \in Callers /\ caller \in [Callers -> CallerLabels] BY DEF TypeOK, Callers
  <1>1. CASE HolderStep
    <2>1. CASE OwnerRetires
      BY <1>0, <2>1 DEF OwnerRetires, DropReservation, Move, OwnerAsks, TypeOK, OwnerRecord
    <2>2. CASE OwnerRetired
      BY <2>2, <1>0 DEF OwnerRetired, DropReservation, OwnerAsks, TypeOK, OwnerRecord
    <2>3. CASE ~OwnerRetires /\ ~OwnerRetired
      <3>1. owner.at \notin {"retire", "ended"}
        BY <1>1, <2>3
        DEF HolderStep, OwnerStep, ReceiveStartup, OnReady, CommitReady, MarkReady, BeginCell,
            WaitForBootstrap, DispatchCell, AbortBootstrapCell, ReserveEnvironment,
            ReserveReplacement, ReplacementReserved, LockEnvironment, BeginPreparation,
            SendPreparation, ReceiveResult, ResolveDeclaration, Admit
      <3>2. UNCHANGED caller BY <1>1, <2>3, HolderFrame DEF Asking
      <3> QED BY <3>1, <3>2 DEF OwnerAsks
    <2> QED BY <2>1, <2>2, <2>3
  <1>2. CASE AskStep
    <2>1. UNCHANGED owner.at BY <1>2, AskFrame DEF Holding
    <2>2. caller[Owner] = "idle" => caller'[Owner] = "idle"
      <3>1. CASE \E c \in Retirers : LifecycleRetire(c)
        BY <1>0, <3>1, LaunchAssumption DEF LifecycleRetire, Goto
      <3>2. CASE \E c \in Callers : RetireStep(c)
        BY <1>0, <3>2
        DEF RetireStep, RequestShutdown, Requested, ShutdownReceipt, StartRetire, BarrierReached,
            StopRelay, Reap, Terminate, JoinTasks, Goto
      <3> QED BY <1>2, <3>1, <3>2 DEF AskStep
    <2> QED BY <2>1, <2>2 DEF OwnerAsks
  <1>3. CASE ~HolderStep /\ ~AskStep
    <2>1. UNCHANGED <<caller, owner.at>>
      BY <1>3, StepCases, DispatchFrame, ResolveFrame, WriterFrame, ReaderFrame, InterruptFrame,
         TickFrame, WorldFrame
      DEF vars, Asking, Holding
    <2> QED BY <2>1 DEF OwnerAsks
  <1> QED BY <1>1, <1>2, <1>3

LEMMA ChildStep ==
    ASSUME TypeOK, ChildInv, AskingInv, [Next]_vars
    PROVE  ChildInv' /\ ((\E c \in Callers : caller[c] # "idle") => \E c \in Callers : caller'[c] # "idle")
  <1>0. caller \in [Callers -> CallerLabels] BY DEF TypeOK
  <1>1. CASE AskStep
    <2>1. UNCHANGED wk BY <1>1, AskFrame
    <2>2. CASE \E c \in Retirers : LifecycleRetire(c)
      BY <1>0, <2>1, <2>2 DEF LifecycleRetire, Goto, ChildInv, outside, Callers
    <2>3. CASE \E c \in Callers : StopRelay(c)
      <3>1. PICK c \in Callers : StopRelay(c) BY <2>3
      <3>2. caller'[c] # "idle" BY <1>0, <3>1, StopFrame DEF FinishLabels
      <3>3. child'.state = child.state \/ (child.state = "Exited" /\ child'.state = "Reaped")
        BY <3>1 DEF StopRelay, Reap, Terminate, TypeOK, ChildRecord
      <3> QED BY <2>1, <3>2, <3>3 DEF ChildInv
    <2>4. CASE \E c \in Callers : RetireStep(c) /\ ~StopRelay(c)
      <3>1. UNCHANGED child
        BY <2>4 DEF RetireStep, RequestShutdown, ShutdownReceipt, StartRetire, BarrierReached,
           JoinTasks, outside
      <3>2. \E c \in Callers : caller'[c] # "idle"
        BY <1>0, <2>4 DEF RetireStep, RequestShutdown, Requested, ShutdownReceipt, StartRetire,
           BarrierReached, JoinTasks, Goto
      <3> QED BY <2>1, <3>1, <3>2 DEF ChildInv
    <2> QED BY <1>1, <2>2, <2>3, <2>4 DEF AskStep
  <1>2. CASE OwnerRetires
    <2>1. UNCHANGED <<wk, child.state>> BY <1>2, HolderFrame DEF HolderStep, OwnerStep
    <2>2. \A c \in Callers : caller[c] # "idle" => caller'[c] # "idle"
      BY <1>0, <1>2 DEF OwnerRetires
    <2> QED BY <2>1, <2>2 DEF ChildInv
  <1>3. CASE World
    <2>1. UNCHANGED caller BY <1>3, WorldFrame
    <2>2. \/ UNCHANGED <<child.state, wk.at>>
          \/ UNCHANGED child.state /\ wk.at # "Gone" /\ wk'.at # "Gone"
          \/ child'.state = "Exited" /\ wk'.at = "Gone"
      <3>1. wk \in WorldRecord /\ child \in ChildRecord BY DEF TypeOK
      <3>2. CASE WorkerStarts \/ Initializes \/ StartsTodo \/ FinishesTodo
        BY <3>1, <3>2 DEF WorkerStarts, Initializes, StartsTodo, FinishesTodo, WorldRecord
      <3>3. CASE CallsBack \/ AsksInput \/ CommandsEnd \/ TurnsDeaf
        BY <3>1, <3>3 DEF CallsBack, AsksInput, CommandsEnd, TurnsDeaf, Working, WorldRecord
      <3>4. CASE RelayFinishes \/ RelayDies
        BY <3>1, <3>4 DEF RelayFinishes, RelayDies, Exits, WorldRecord, ChildRecord
      <3> QED BY <1>3, <3>2, <3>3, <3>4 DEF World
    <2> QED BY <2>1, <2>2 DEF ChildInv
  <1>4. CASE Writer
    BY <1>4, WriterFrame DEF ChildInv
  <1>5. CASE ~(AskStep \/ OwnerRetires \/ World \/ Writer)
    <2>1. UNCHANGED <<caller, child.state, wk.at>>
      BY <1>5, StepCases, DispatchFrame, ResolveFrame, ReaderFrame, HolderFrame, InterruptFrame,
         TickFrame
      DEF vars, Asking, others, outside
    <2> QED BY <2>1 DEF ChildInv
  <1> QED BY <1>1, <1>2, <1>3, <1>4, <1>5

LEMMA RetirementStep ==
    ASSUME TypeOK, RetirementInv, [Next]_vars
    PROVE  RetirementInv'
  BY AskingStep, OwnerAsksStep, ChildStep DEF RetirementInv

LEMMA RetirementInit == ASSUME Init PROVE RetirementInv
  BY DEF Init, RetirementInv, AskingInv, OwnerAsks, ChildInv, Callers, FinishLabels

-----------------------------------------------------------------------------
(* The contract of retirement.                                             *)
Asked == {c \in Callers : caller[c] # "idle"}
Told == {c \in Callers : caller[c] = "done"}
Quiet == child.state = "Reaped" /\ ~reader /\ DispatcherDone

(* What has ended does not come back.                                      *)
LEMMA DoneStays ==
    ASSUME TypeOK, disp.at = "done", [Next]_vars
    PROVE  disp'.at = "done"
  <1>1. ~Resolve BY DEF Resolve
  <1>2. ~Dispatch
    BY DEF Dispatch, Defer, DeferFails, RelayError, IgnoreSemantic, RelayLifetime, SidebandClosed,
       InterruptResult, ShutdownStarted, Fatal, Ready, ReadyCommitted, BootstrapFinished, CellStarted,
       InputEvent, BeginResolveR, BeginCallback, TakeEnvironment, Activate, Complete, Suspend, Resume,
       TransportFailure, Retire, RelayClosed, TakeRelay, TakeEvent
  <1>3. UNCHANGED disp
    BY <1>1, <1>2, StepCases, WriterFrame, ReaderFrame, HolderFrame, InterruptFrame, AskFrame,
       TickFrame, WorldFrame
    DEF vars
  <1> QED BY <1>3

LEMMA QuietStays ==
    ASSUME TypeOK, RetirementInv, [Next]_vars, Quiet
    PROVE  Quiet'
  <1>1. disp'.at = "done" BY DoneStays DEF Quiet, DispatcherDone
  <1>2. ~reader'
    BY StepCases, DispatchFrame, ResolveFrame, WriterFrame, ReaderFrame, HolderFrame, InterruptFrame,
       AskFrame, TickFrame, WorldFrame DEF vars, others, outside, Quiet
  <1>3. wk.at = "Gone" BY DEF Quiet, RetirementInv, ChildInv
  <1>4. child'.state = "Reaped"
    <2>1. CASE AskStep
      <3>1. CASE \E c \in Callers : StopRelay(c)
        BY <3>1 DEF StopRelay, Reap, Terminate, TypeOK, ChildRecord, Quiet
      <3>2. CASE ~\E c \in Callers : StopRelay(c)
        BY <2>1, <3>2 DEF AskStep, LifecycleRetire, RetireStep, RequestShutdown, ShutdownReceipt,
           StartRetire, BarrierReached, JoinTasks, outside, Quiet
      <3> QED BY <3>1, <3>2
    <2>2. CASE World
      BY <1>3, <2>2 DEF World, WorkerStarts, Initializes, StartsTodo, FinishesTodo, CallsBack,
         AsksInput, CommandsEnd, RelayFinishes, RelayDies, TurnsDeaf, Quiet, Working
    <2>3. CASE ~AskStep /\ ~World
      BY <2>3, StepCases, DispatchFrame, ResolveFrame, WriterFrame, ReaderFrame, HolderFrame,
         InterruptFrame, TickFrame DEF vars, others, outside, Quiet
    <2> QED BY <2>1, <2>2, <2>3
  <1> QED BY <1>1, <1>2, <1>4 DEF Quiet, DispatcherDone

LEMMA ContractAsk ==
    ASSUME NEW c \in Callers, caller \in [Callers -> CallerLabels], caller[c] = "idle",
           caller' = [caller EXCEPT ![c] = "request"],
           UNCHANGED <<Quiet, retirement.result>>
    PROVE  Contract!Next
  <1>1. /\ c \notin Asked /\ Asked' = Asked \cup {c} /\ Told' = Told
    BY DEF Asked, Told
  <1>2. Contract!Ask(c)
    BY <1>1 DEF Contract!Ask, Asked, Told, Quiet, DispatcherDone
  <1> QED BY <1>2 DEF Contract!Next

(* A step that asks for nothing and answers nobody.                        *)
LEMMA ContractQuiet ==
    ASSUME TypeOK, RetirementInv, [Next]_vars,
           UNCHANGED <<Asked, Told, retirement.result>>
    PROVE  [Contract!Next]_(Contract!vars)
  <1>1. CASE Quiet' = Quiet
    BY <1>1 DEF Contract!vars, Asked, Told, Quiet, DispatcherDone
  <1>2. CASE Quiet' # Quiet
    <2>1. Quiet \in BOOLEAN /\ Quiet' \in BOOLEAN BY DEF Quiet
    <2>2. ~Quiet /\ Quiet' BY <1>2, <2>1, QuietStays
    <2>3. Asked # {}
      <3>1. ChildInv' /\ child'.state = "Reaped" BY <2>2, ChildStep DEF Quiet, RetirementInv
      <3>2. Asked' # {} BY <3>1 DEF ChildInv, Asked
      <3> QED BY <3>2
    <2>4. Contract!Quieten
      BY <2>1, <2>2, <2>3 DEF Contract!Quieten, Asked, Told, Quiet, DispatcherDone
    <2> QED BY <2>4 DEF Contract!Next
  <1> QED BY <1>1, <1>2

LEMMA ContractPublish ==
    ASSUME TypeOK, RetirementInv, NEW c \in Callers, JoinTasks(c)
    PROVE  Contract!Next
  <1>1. /\ caller \in [Callers -> CallerLabels] /\ caller[c] = "join"
        /\ caller' = [caller EXCEPT ![c] = "done"]
    BY DEF JoinTasks, Goto, TypeOK
  <1>2. /\ Asked' = Asked /\ c \in Asked /\ Asked # {} /\ Told' = Told \cup {c}
    BY <1>1 DEF Asked, Told
  <1>3. retirement.result = "None"
    BY <1>1 DEF RetirementInv, AskingInv, FinishLabels
  <1>4. /\ JoinedResult \in Outcomes /\ retirement'.result = JoinedResult
        /\ JoinedResult # "Stuck" => child.state = "Reaped"
    <2>1. JoinedResult \in Outcomes BY DEF JoinedResult, Outcomes
    <2>2. JoinedResult # "Stuck" => child.state = "Reaped" BY DEF JoinedResult
    <2>3. retirement'.result = JoinedResult BY DEF JoinTasks, TypeOK, RetirementRecord
    <2> QED BY <2>1, <2>2, <2>3
  <1>5. /\ ~reader /\ disp.at = "done" /\ UNCHANGED <<disp, child, reader>>
    BY DEF JoinTasks, DispatcherDone, outside
  <1>7. PICK o \in Outcomes : o = JoinedResult BY <1>4
  <1>6. Contract!Publish(o)
    <2>1. UNCHANGED Quiet BY <1>5 DEF Quiet, DispatcherDone
    <2>2. JoinedResult # "Stuck" => Quiet BY <1>4, <1>5 DEF Quiet, DispatcherDone
    <2>3. Told' \in {Told} \cup {Told \cup {d} : d \in Asked} BY <1>2
    <2>4. UNCHANGED <<Asked, Quiet>> BY <1>2, <2>1
    <2> QED BY <1>2, <1>3, <1>4, <1>7, <2>2, <2>3, <2>4
        DEF Contract!Publish, Asked, Told, Quiet, DispatcherDone
  <1> QED BY <1>6 DEF Contract!Next

LEMMA ContractTell ==
    ASSUME TypeOK, RetirementInv, NEW c \in Callers, StartRetire(c), retirement.result # "None"
    PROVE  Contract!Next
  <1>1. /\ caller \in [Callers -> CallerLabels] /\ caller[c] = "retire"
        /\ caller' = [caller EXCEPT ![c] = "done"] /\ UNCHANGED <<retirement, disp, child, reader>>
    BY DEF StartRetire, Goto, TypeOK, outside
  <1>2. /\ Asked' = Asked /\ c \in Asked \ Told /\ Told' = Told \cup {c}
    BY <1>1 DEF Asked, Told
  <1>3. UNCHANGED Quiet BY <1>1 DEF Quiet, DispatcherDone
  <1>4. Contract!Tell(c)
    BY <1>1, <1>2, <1>3 DEF Contract!Tell, Asked, Told, Quiet, DispatcherDone
  <1> QED BY <1>4 DEF Contract!Next

LEMMA ContractStep ==
    ASSUME TypeOK, RetirementInv, [Next]_vars
    PROVE  [Contract!Next]_(Contract!vars)
  <1>0. caller \in [Callers -> CallerLabels] /\ Owner \in Callers BY DEF TypeOK, Callers
  <1>1. CASE \E c \in Retirers : LifecycleRetire(c)
    <2>1. PICK c \in Retirers : LifecycleRetire(c) BY <1>1
    <2>2. /\ c \in Callers /\ caller[c] = "idle" /\ caller' = [caller EXCEPT ![c] = "request"]
          /\ UNCHANGED <<child, reader, disp, retirement.result>>
      BY <2>1 DEF LifecycleRetire, Goto, Callers, TypeOK, RetirementRecord, outside
    <2>3. UNCHANGED Quiet BY <2>2 DEF Quiet, DispatcherDone
    <2> QED BY <1>0, <2>2, <2>3, ContractAsk
  <1>2. CASE OwnerRetires
    <2>1. UNCHANGED <<reader, disp, child.state, Quiet>>
      BY <1>2, HolderFrame DEF HolderStep, OwnerStep, Quiet, DispatcherDone
    <2>2. CASE UNCHANGED <<retirement, caller>>
      <3>1. UNCHANGED <<Asked, Told, retirement.result>> BY <2>2 DEF Asked, Told
      <3> QED BY <3>1, ContractQuiet
    <2>3. CASE ~UNCHANGED <<retirement, caller>>
      <3>1. /\ caller[Owner] = "idle" /\ caller' = [caller EXCEPT ![Owner] = "request"]
            /\ UNCHANGED retirement.result
        BY <1>2, <2>3 DEF OwnerRetires, TypeOK, RetirementRecord
      <3> QED BY <1>0, <2>1, <3>1, ContractAsk
    <2> QED BY <2>2, <2>3
  <1>3. CASE \E c \in Callers : JoinTasks(c) BY <1>3, ContractPublish
  <1>4. CASE \E c \in Callers : StartRetire(c) /\ retirement.result # "None" BY <1>4, ContractTell
  <1>5. CASE \E c \in Callers : RetireStep(c) /\ ~JoinTasks(c) /\ ~(StartRetire(c) /\ retirement.result # "None")
    <2>1. PICK c \in Callers : /\ RetireStep(c) /\ ~JoinTasks(c)
                               /\ ~(StartRetire(c) /\ retirement.result # "None")
      BY <1>5
    <2>2. /\ caller[c] \notin {"idle", "done"} /\ UNCHANGED retirement.result
          /\ \E label \in CallerLabels \ {"idle", "done"} : caller' = [caller EXCEPT ![c] = label]
      <3>1. CASE RequestShutdown(c) \/ ShutdownReceipt(c)
        <4>1. caller[c] \notin {"idle", "done"} /\ UNCHANGED retirement.result
          BY <3>1 DEF RequestShutdown, ShutdownReceipt, Requested, TypeOK, RetirementRecord
        <4>2. \E label \in {"retire", "receipt"} : caller' = [caller EXCEPT ![c] = label]
          BY <3>1 DEF RequestShutdown, ShutdownReceipt, Requested, Goto
        <4> QED BY <4>1, <4>2 DEF CallerLabels
      <3>2. CASE StartRetire(c) /\ retirement.result = "None"
        <4>1. caller[c] \notin {"idle", "done"} /\ UNCHANGED retirement.result
          BY <3>2 DEF StartRetire, TypeOK, RetirementRecord
        <4>2. \E label \in {"reached", "stop"} : caller' = [caller EXCEPT ![c] = label]
          BY <3>2 DEF StartRetire, Goto
        <4> QED BY <4>1, <4>2 DEF CallerLabels
      <3>3. CASE BarrierReached(c) BY <3>3 DEF BarrierReached, Goto, CallerLabels
      <3>4. CASE StopRelay(c) BY <3>4, StopFrame DEF FinishLabels, CallerLabels
      <3> QED BY <2>1, <3>1, <3>2, <3>3, <3>4 DEF RetireStep
    <2>3. UNCHANGED <<Asked, Told>> BY <1>0, <2>2 DEF Asked, Told
    <2> QED BY <2>2, <2>3, ContractQuiet
  <1>6. CASE ~AskStep /\ ~OwnerRetires
    <2>1. UNCHANGED Asking
      BY <1>6, StepCases, DispatchFrame, ResolveFrame, WriterFrame, ReaderFrame, HolderFrame,
         InterruptFrame, TickFrame, WorldFrame
      DEF vars, Asking
    <2>2. UNCHANGED <<Asked, Told, retirement.result>> BY <2>1 DEF Asking, Asked, Told
    <2> QED BY <2>2, ContractQuiet
  <1> QED BY <1>1, <1>2, <1>3, <1>4, <1>5, <1>6 DEF AskStep

LEMMA ContractInit == ASSUME Init PROVE Contract!Init
  BY DEF Init, Contract!Init, DispatcherDone

(* Every variable of a launch keeps its type, whatever the jobs, callers,  *)
(* faults and bounds.                                                      *)
THEOREM TypesHold == Spec => []TypeOK
  <1>1. Init => TypeOK BY TypesInit
  <1>2. TypeOK /\ [Next]_vars => TypeOK' BY TypesStep
  <1> QED BY <1>1, <1>2, PTL DEF Spec

(* Retirement's calls stay in their places: the budget precedes everything *)
(* else, one caller waits for the receipt of the shutdown command, one     *)
(* finishes, and the tasks and the outcome are never both there.           *)
THEOREM RetirementHolds == Spec => []RetirementInv
  <1>1. Init => RetirementInv BY RetirementInit
  <1>2. TypeOK /\ RetirementInv /\ [Next]_vars => RetirementInv' BY RetirementStep
  <1> QED BY <1>1, <1>2, TypesHold, PTL DEF Spec

(* The safety part of KeepsContract: the retirement of a launch implements *)
(* RetirementContract.  Its outcome is published once, only when the       *)
(* launch is quiet unless the relay could not be reaped, and every caller  *)
(* is told that outcome and nothing else.                                  *)
THEOREM RetirementKeepsItsContract == Spec => Contract!Init /\ [][Contract!Next]_(Contract!vars)
  <1>1. Init => Contract!Init BY ContractInit
  <1>2. TypeOK /\ RetirementInv /\ [Next]_vars => [Contract!Next]_(Contract!vars) BY ContractStep
  <1> QED BY <1>1, <1>2, TypesHold, RetirementHolds, PTL DEF Spec

-----------------------------------------------------------------------------
(* The operation state: what its steps do to it.                           *)
LEMMA FailedFields ==
    ASSUME TypeOK, NEW cause \in Causes, FailOperation(cause)
    PROVE  /\ oper'.failure = (IF oper.failure = "None" THEN cause ELSE oper.failure)
           /\ oper.failure = "None" => (oper'.relay_exit <=> cause = "RelayExit")
           /\ oper.failure # "None" => oper'.relay_exit = oper.relay_exit
           /\ oper'.callback = "None" /\ ~oper'.reserved /\ oper'.kind = "None" /\ ~oper'.result
           /\ UNCHANGED <<oper.bootstrap, oper.suspended, oper.idle_input, oper.retiring>>
  <1> DEFINE first == IF oper.failure = "None" THEN cause ELSE oper.failure
             exit == IF oper.failure = "None" THEN cause = "RelayExit" ELSE oper.relay_exit
  <1>0. oper \in OperRecord BY DEF TypeOK
  <1>1. /\ oper.failure = "None" => (exit <=> cause = "RelayExit")
        /\ oper.failure # "None" => exit = oper.relay_exit
        /\ first = (IF oper.failure = "None" THEN cause ELSE oper.failure)
    OBVIOUS
  <1>2. oper' = [oper EXCEPT !.failure = first, !.relay_exit = exit, !.callback = "None",
                             !.reserved = FALSE, !.kind = "None", !.result = FALSE,
                             !.more = FALSE]
    BY DEF FailOperation, FailedOperation
  <1>3. /\ oper'.failure = first /\ oper'.relay_exit = exit
        /\ oper'.callback = "None" /\ ~oper'.reserved /\ oper'.kind = "None" /\ ~oper'.result
        /\ UNCHANGED <<oper.bootstrap, oper.suspended, oper.idle_input, oper.retiring>>
    <2> HIDE DEF first, exit
    <2> QED BY <1>0, <1>2 DEF OperRecord
  <1> HIDE DEF first, exit
  <1> QED BY <1>1, <1>3

LEMMA RetiredFields ==
    ASSUME TypeOK, RetireOperation
    PROVE  /\ oper'.retiring /\ ~oper'.suspended /\ oper'.callback = "None"
           /\ ~oper'.reserved /\ ~oper'.result
           /\ UNCHANGED <<oper.bootstrap, oper.idle_input, oper.kind, oper.failure, oper.relay_exit>>
  BY DEF TypeOK, RetireOperation, OperRecord

LEMMA CompletedFields ==
    ASSUME TypeOK, Complete
    PROVE  /\ oper'.kind = "None" /\ ~oper'.result /\ (oper'.reserved => oper.reserved)
           /\ UNCHANGED <<oper.bootstrap, oper.suspended, oper.idle_input, oper.failure,
                          oper.relay_exit, oper.callback, oper.retiring>>
           /\ cell'.input = cell.input /\ cell'.phase = cell.phase /\ cell'.entered = cell.entered
           /\ cell'.outcome = (IF NextEvent.kind = "Completed" /\ oper.result /\ cell.outcome = "None"
                               THEN "Completed" ELSE cell.outcome)
  <1> DEFINE reserved == oper.reserved /\ ~(oper.more /\ oper.result
                            /\ ~(NextEvent.kind = "Prepared" /\ ~retirement.lifecycle))
  <1>0. oper \in OperRecord /\ cell \in CellRecord /\ (reserved => oper.reserved) BY DEF TypeOK
  <1>1. oper' = [oper EXCEPT !.kind = "None", !.result = FALSE, !.more = FALSE, !.reserved = reserved]
    BY DEF Complete
  <1>2. /\ cell'.input = cell.input /\ cell'.phase = cell.phase /\ cell'.entered = cell.entered
        /\ cell'.outcome = (IF NextEvent.kind = "Completed" /\ oper.result /\ cell.outcome = "None"
                            THEN "Completed" ELSE cell.outcome)
    BY <1>0 DEF Complete, FinishCell, CellRecord
  <1> HIDE DEF reserved
  <1> QED BY <1>0, <1>1, <1>2 DEF OperRecord

LEMMA PreparingFields ==
    ASSUME TypeOK, BeginPreparation
    PROVE  \/ UNCHANGED oper
           \/ /\ EnsureAvailable /\ ~oper.idle_input /\ oper.reserved
              /\ oper'.kind = "Prepare" /\ oper'.result
              /\ UNCHANGED <<oper.bootstrap, oper.suspended, oper.idle_input, oper.failure,
                             oper.relay_exit, oper.callback, oper.retiring>>
  <1> DEFINE more == owner.job = "PrepareBoth"
  <1>0. oper \in OperRecord /\ more \in BOOLEAN BY DEF TypeOK
  <1>1. \/ UNCHANGED oper
        \/ /\ EnsureAvailable /\ ~oper.idle_input /\ oper.reserved
           /\ oper' = [oper EXCEPT !.kind = "Prepare", !.result = TRUE, !.more = more,
                                   !.reserved = more]
    BY DEF BeginPreparation
  <1> HIDE DEF more
  <1> QED BY <1>0, <1>1 DEF OperRecord

LEMMA InputFields ==
    ASSUME TypeOK, InputEvent
    PROVE  /\ oper.kind = "Cell" => UNCHANGED oper /\ UNCHANGED <<cell.phase, cell.outcome, cell.entered>>
           /\ oper.kind # "Cell" => UNCHANGED cell
           /\ UNCHANGED <<oper.bootstrap, oper.suspended, oper.kind, oper.result, oper.failure,
                          oper.relay_exit, oper.callback, oper.reserved, oper.retiring>>
  <1> DEFINE requested == NextEvent.kind = "InputRequested"
  <1>0. oper \in OperRecord /\ cell \in CellRecord /\ requested \in BOOLEAN BY DEF TypeOK
  <1>1. \/ oper.kind = "Cell" /\ UNCHANGED oper /\ cell' = [cell EXCEPT !.input = requested]
        \/ oper.kind # "Cell" /\ UNCHANGED cell /\ oper' = [oper EXCEPT !.idle_input = requested]
    BY DEF InputEvent
  <1> HIDE DEF requested
  <1> QED BY <1>0, <1>1 DEF OperRecord, CellRecord

(* Who is refused by a failed or retiring launch has nothing of it, a cell *)
(* took over the input request of the idle worker, and the cause of a      *)
(* failure is kept.                                                        *)
OperInv ==
    /\ ~EnsureRunning => ~oper.result /\ oper.callback = "None" /\ ~oper.reserved
    /\ oper.kind = "Cell" => ~oper.idle_input
    /\ oper.relay_exit => oper.failure = "RelayExit"

(* What a launch recorded against itself it does not forget.               *)
Remembers ==
    /\ oper.failure # "None" => UNCHANGED <<oper.failure, oper.relay_exit>>
    /\ oper.retiring => oper'.retiring

LEMMA OperKept ==
    ASSUME OperInv, UNCHANGED oper
    PROVE  OperInv' /\ Remembers
  BY DEF OperInv, Remembers, EnsureRunning

LEMMA OperFails ==
    ASSUME TypeOK, OperInv, NEW cause \in Causes \ {"None"}, FailOperation(cause)
    PROVE  OperInv' /\ Remembers
  BY FailedFields DEF OperInv, Remembers, EnsureRunning, TypeOK, OperRecord

LEMMA OperRetires ==
    ASSUME TypeOK, OperInv, RetireOperation
    PROVE  OperInv' /\ Remembers
  BY RetiredFields DEF OperInv, Remembers, EnsureRunning

(* The reservation of a preparation is dropped with it.                    *)
LEMMA DropFields ==
    ASSUME TypeOK, NEW label, DropReservation(label)
    PROVE  /\ UNCHANGED <<oper.bootstrap, oper.suspended, oper.kind, oper.result, oper.idle_input,
                          oper.failure, oper.relay_exit, oper.callback, oper.retiring>>
           /\ oper'.reserved => oper.reserved
           /\ owner.reservation # "None" => ~oper'.reserved
           /\ owner'.at = label /\ owner'.reservation = "None" /\ UNCHANGED <<owner.job, owner.admitted>>
  BY DEF DropReservation, TypeOK, OperRecord, OwnerRecord

LEMMA OperDrops ==
    ASSUME TypeOK, OperInv, NEW label, DropReservation(label)
    PROVE  OperInv' /\ Remembers
  BY DropFields DEF OperInv, Remembers, EnsureRunning

LEMMA OperDispatch ==
    ASSUME TypeOK, OperInv, Dispatch
    PROVE  OperInv' /\ Remembers
  <1>0. {"Protocol", "Result", "Transport", "Sideband", "Fatal", "RelayExit"} \subseteq Causes \ {"None"}
    BY DEF Causes
  <1>1. CASE DeferFails \/ RelayError
    BY <1>0, <1>1, OperFails DEF DeferFails, RelayError, FailDispatch
  <1>2. CASE SidebandClosed \/ Fatal \/ TransportFailure
    BY <1>0, <1>2, OperFails, OperKept
    DEF SidebandClosed, Fatal, TransportFailure, FailDispatch, operation
  <1>3. CASE ReadyCommitted
    BY <1>0, <1>3, OperFails, OperRetires, OperKept DEF ReadyCommitted, FailDispatch, operation
  <1>4. CASE BootstrapFinished
    BY <1>4 DEF BootstrapFinished, OperInv, Remembers, EnsureRunning, TypeOK, OperRecord
  <1>5. CASE InputEvent BY <1>5, InputFields DEF OperInv, Remembers, EnsureRunning
  <1>6. CASE BeginResolveR
    <2>1. CASE oper.reserved
      BY <1>0, <1>6, <2>1, OperFails, OperKept DEF BeginResolveR, FailDispatch, operation
    <2>2. CASE ~oper.reserved
      <3>1. EnsureRunning
        BY <1>6, Taken DEF BeginResolveR, TakeRelay, Acceptable, SemanticError, Semantic, RuntimeCallbacks
      <3> QED BY <1>6, <2>2, <3>1 DEF BeginResolveR, OperInv, Remembers, EnsureRunning, TypeOK, OperRecord
    <2> QED BY <2>1, <2>2
  <1>7. CASE Activate
    <2>1. CASE disp.event.kind # "PythonActivated" /\ oper.callback # "AwaitingActivation"
      BY <1>0, <1>7, <2>1, OperFails DEF Activate, FailDispatch
    <2>2. CASE ~(disp.event.kind # "PythonActivated" /\ oper.callback # "AwaitingActivation")
      BY <1>7, <2>2 DEF Activate, OperInv, Remembers, EnsureRunning, TypeOK, OperRecord, operation
    <2> QED BY <2>1, <2>2
  <1>8. CASE Complete BY <1>8, CompletedFields DEF OperInv, Remembers, EnsureRunning
  <1>9. CASE Suspend
    BY <1>9 DEF Suspend, OperInv, Remembers, EnsureRunning, EnsureAvailable, TypeOK, OperRecord
  <1>10. CASE Resume BY <1>10 DEF Resume, OperInv, Remembers, EnsureRunning, TypeOK, OperRecord
  <1>11. CASE Retire BY <1>11, OperRetires DEF Retire
  <1>12. CASE RelayClosed
    BY <1>0, <1>12, OperFails, OperKept DEF RelayClosed, RecordExit, operation
  <1>13. CASE Defer \/ IgnoreSemantic \/ RelayLifetime \/ InterruptResult \/ ShutdownStarted \/ Ready
              \/ CellStarted \/ BeginCallback \/ TakeEnvironment
    BY <1>13, OperKept DEF Defer, IgnoreSemantic, RelayLifetime, InterruptResult, ShutdownStarted,
       Ready, CellStarted, BeginCallback, TakeEnvironment, operation
  <1> QED BY <1>1, <1>2, <1>3, <1>4, <1>5, <1>6, <1>7, <1>8, <1>9, <1>10, <1>11, <1>12, <1>13
          DEF Dispatch

LEMMA OperResolve ==
    ASSUME TypeOK, OperInv, Resolve
    PROVE  OperInv' /\ Remembers
  <1>0. {"Protocol", "Transport"} \subseteq Causes \ {"None"} BY DEF Causes
  <1>1. CASE FailDispatch(disp, "Protocol") \/ FailDispatch(disp, "Transport")
    BY <1>0, <1>1, OperFails DEF FailDispatch
  <1>2. CASE UNCHANGED oper BY <1>2, OperKept
  <1>3. CASE /\ oper.callback = "Resolving"
             /\ \E callback \in {"AwaitingActivation", "None"} :
                   oper' = [oper EXCEPT !.callback = callback]
    BY <1>3 DEF OperInv, Remembers, EnsureRunning, TypeOK, OperRecord
  <1> QED BY <1>1, <1>2, <1>3 DEF Resolve, ReplyTo

LEMMA OperHolder ==
    ASSUME TypeOK, OperInv, HolderStep
    PROVE  OperInv' /\ Remembers
  <1>1. CASE DispatchCell
    <2>1. "Owner" \in Causes \ {"None"} BY DEF Causes
    <2> QED BY <1>1, <2>1, OperFails, OperKept DEF DispatchCell
  <1>2. CASE BeginCell
    <2>1. oper \in OperRecord BY DEF TypeOK
    <2>2. CASE /\ EnsureAvailable
               /\ oper' = [oper EXCEPT !.kind = "Cell", !.result = TRUE, !.idle_input = FALSE]
      BY <2>1, <2>2 DEF OperInv, Remembers, EnsureRunning, EnsureAvailable, OperRecord
    <2> QED BY <1>2, <2>2, OperKept DEF BeginCell
  <1>3. CASE AbortBootstrapCell
    <2>1. oper \in OperRecord /\ cell.input \in BOOLEAN BY DEF TypeOK, CellRecord
    <2>2. CASE oper' = [oper EXCEPT !.kind = "None", !.result = FALSE, !.idle_input = cell.input]
      BY <2>1, <2>2 DEF OperInv, Remembers, EnsureRunning, OperRecord
    <2> QED BY <1>3, <2>2, OperKept DEF AbortBootstrapCell
  <1>4. CASE ReserveEnvironment
    BY <1>4 DEF ReserveEnvironment, OperInv, Remembers, EnsureRunning, EnsureAvailable, TypeOK, OperRecord
  <1>5. CASE BeginPreparation
    BY <1>5, PreparingFields DEF OperInv, Remembers, EnsureRunning, EnsureAvailable
  <1>6. CASE LockEnvironment \/ ResolveDeclaration \/ ReceiveResult \/ OwnerRetires \/ OwnerRetired
    BY <1>6, OperDrops, OperKept
    DEF LockEnvironment, ResolveDeclaration, ReceiveResult, OwnerRetires, OwnerRetired
  <1>7. CASE UNCHANGED oper BY <1>7, OperKept
  <1> QED BY <1>1, <1>2, <1>3, <1>4, <1>5, <1>6, <1>7
          DEF HolderStep, OwnerStep, ReceiveStartup, OnReady, CommitReady, MarkReady, WaitForBootstrap,
              ReserveReplacement, ReplacementReserved, SendPreparation, Admit, operation

LEMMA OperStep ==
    ASSUME TypeOK, OperInv, [Next]_vars
    PROVE  OperInv' /\ Remembers
  <1>1. CASE ~(Dispatch \/ Resolve \/ HolderStep)
    <2>1. UNCHANGED oper
      BY <1>1, StepCases, WriterFrame, ReaderFrame, InterruptFrame, AskFrame, TickFrame, WorldFrame
      DEF vars, operation
    <2> QED BY <2>1, OperKept
  <1> QED BY <1>1, OperDispatch, OperResolve, OperHolder

(* A launch that cannot run says why: the dispatcher stops looking at the  *)
(* worker's events only after a failure was recorded or the launch retires,*)
(* and it ends only then.                                                  *)
FailureInv ==
    /\ ghost.exit_first => oper.relay_exit
    /\ disp.semantic => oper.failure # "None"
    /\ disp.retiring => oper.retiring
    /\ disp.sideband /\ ~disp.semantic /\ ~disp.retiring => disp.intentional
    /\ disp.at = "abort" => disp.closed /\ (disp.semantic \/ disp.retiring \/ disp.sideband)
    /\ disp.at = "done" => ~EnsureRunning

LEMMA FailureKept ==
    ASSUME FailureInv, OperInv, Remembers, UNCHANGED ghost.exit_first,
           UNCHANGED <<disp.semantic, disp.retiring, disp.sideband, disp.intentional, disp.closed>>,
           disp'.at = disp.at \/ disp'.at \notin {"abort", "done"}
    PROVE  FailureInv'
  BY DEF FailureInv, OperInv, Remembers, EnsureRunning

(* A failure of the dispatcher, at whatever it was.                        *)
LEMMA FailureFails ==
    ASSUME TypeOK, FailureInv, OperInv, Remembers, NEW d \in DispRecord, d.retiring = disp.retiring,
           NEW cause \in Causes \ {"None"}, FailDispatch(d, cause), UNCHANGED ghost.exit_first
    PROVE  FailureInv'
  <1>1. disp'.semantic /\ disp'.at = "loop" /\ disp'.retiring = disp.retiring
    BY DEF FailDispatch, DispRecord
  <1>2. oper'.failure # "None" /\ oper'.retiring = oper.retiring
    BY FailedFields DEF FailDispatch, TypeOK, OperRecord
  <1> QED BY <1>1, <1>2 DEF FailureInv, OperInv, Remembers

LEMMA PoppedFields ==
    ASSUME TypeOK, NEW kinds, TakeEvent(kinds)
    PROVE  /\ Popped \in DispRecord /\ Popped.at = "loop" /\ disp.at = "loop"
           /\ Popped.semantic = disp.semantic /\ Popped.retiring = disp.retiring
           /\ Popped.sideband = disp.sideband /\ Popped.intentional = disp.intentional
           /\ Popped.closed = disp.closed /\ Popped.started = disp.started
           /\ Popped.startup = disp.startup /\ Popped.outcome = disp.outcome
           /\ Popped.acquired = disp.acquired /\ Popped.bad = disp.bad
  BY Taken DEF TypeOK, DispRecord

(* The end of the relay's output goes on to abort the commands.             *)
LEMMA ClosedFields ==
    ASSUME TypeOK, RelayClosed, disp.at # "abort"
    PROVE  /\ disp'.at = "abort" /\ disp'.closed /\ disp'.retiring = disp.retiring
           /\ disp'.sideband = disp.sideband /\ disp'.intentional = disp.intentional
           /\ disp'.started = disp.started
           /\ disp'.semantic = (IF RelayEnded THEN disp.semantic ELSE TRUE)
           /\ disp.semantic => disp'.semantic
  <1>1. TakeEvent({"RelayClosed"}) /\ RecordExit([Popped EXCEPT !.closed = TRUE, !.at = "abort"])
    BY DEF RelayClosed
  <1>2. PICK d : d = [Popped EXCEPT !.closed = TRUE, !.at = "abort"] OBVIOUS
  <1>3. /\ d \in DispRecord /\ d.at = "abort" /\ d.closed /\ d.retiring = disp.retiring
        /\ d.sideband = disp.sideband /\ d.intentional = disp.intentional
        /\ d.started = disp.started /\ d.semantic = disp.semantic
    BY <1>1, <1>2, PoppedFields DEF DispRecord
  <1>4. disp' = IF RelayEnded THEN d ELSE [d EXCEPT !.startup = FALSE, !.semantic = TRUE]
    BY <1>1, <1>2 DEF RecordExit
  <1> QED BY <1>3, <1>4 DEF DispRecord

LEMMA FailureDispatch ==
    ASSUME TypeOK, FailureInv, OperInv, Remembers, Dispatch
    PROVE  FailureInv'
  <1>0. {"Protocol", "Result", "Transport", "Sideband", "Fatal", "RelayExit"} \subseteq Causes \ {"None"}
    BY DEF Causes
  <1>d. disp \in DispRecord BY DEF TypeOK
  <1>1. CASE DeferFails
    <2>1. [disp EXCEPT !.deferred = <<>>] \in DispRecord BY <1>d, EmptyQueue DEF DispRecord
    <2>2. [disp EXCEPT !.deferred = <<>>].retiring = disp.retiring BY <1>d DEF DispRecord
    <2> QED BY <1>0, <1>1, <2>1, <2>2, FailureFails DEF DeferFails
  <1>2. CASE RelayError
    BY <1>0, <1>2, PoppedFields, FailureFails DEF RelayError, TakeRelay, Handled, TypeOK
  <1>3. CASE SidebandClosed
    <2>1. /\ [Popped EXCEPT !.sideband = TRUE] \in DispRecord
          /\ [Popped EXCEPT !.sideband = TRUE].retiring = disp.retiring
      BY <1>3, PoppedFields DEF SidebandClosed, TakeRelay, DispRecord
    <2>2. CASE disp.intentional \/ disp.semantic \/ disp.retiring
      BY <1>3, <2>2, PoppedFields
      DEF SidebandClosed, TakeRelay, FailureInv, Remembers, EnsureRunning, operation, DispRecord
    <2> QED BY <1>0, <1>3, <2>1, <2>2, FailureFails DEF SidebandClosed
  <1>4. CASE Fatal
    <2>1. /\ [Popped EXCEPT !.fatal = TRUE] \in DispRecord
          /\ [Popped EXCEPT !.fatal = TRUE].retiring = disp.retiring
      BY <1>4, PoppedFields DEF Fatal, TakeRelay, DispRecord
    <2>2. CASE disp.retiring
      <3> DEFINE bad == Popped.bad \/ ~(NextEvent.kind = "PartialFrame" /\ commands.failed)
      <3>1. disp' = [[Popped EXCEPT !.fatal = TRUE] EXCEPT !.bad = bad] /\ UNCHANGED ghost
        BY <1>4, <2>2, <2>1 DEF Fatal, DispRecord
      <3> HIDE DEF bad
      <3>2. UNCHANGED <<disp.at, disp.semantic, disp.retiring, disp.sideband, disp.intentional, disp.closed>>
        BY <1>4, <3>1, PoppedFields DEF Fatal, TakeRelay, DispRecord
      <3> QED BY <3>1, <3>2, FailureKept
    <2> QED BY <1>0, <1>4, <2>1, <2>2, FailureFails DEF Fatal
  <1>5. CASE TransportFailure
    <2>1. CASE disp.retiring
      BY <1>5, <2>1, PoppedFields, FailureKept DEF TransportFailure, operation
    <2> QED BY <1>0, <1>5, <2>1, PoppedFields, FailureFails DEF TransportFailure
  <1>6. CASE ReadyCommitted
    <2>1. CASE FailDispatch(disp, "Protocol") /\ UNCHANGED ghost
      BY <1>0, <1>d, <2>1, FailureFails
    <2>2. CASE disp' = [disp EXCEPT !.at = "loop", !.started = TRUE] /\ UNCHANGED ghost
      BY <1>d, <2>2, FailureKept DEF DispRecord
    <2>3. CASE /\ disp' = [disp EXCEPT !.at = "loop", !.started = TRUE, !.retiring = TRUE]
               /\ RetireOperation /\ UNCHANGED ghost
      BY <1>d, <2>3, RetiredFields DEF FailureInv, OperInv, Remembers, DispRecord
    <2> QED BY <1>6, <2>1, <2>2, <2>3 DEF ReadyCommitted
  <1>7. CASE BeginResolveR
    <2>1. CASE oper.reserved /\ commands.failed
      BY <1>0, <1>7, <2>1, PoppedFields, FailureFails DEF BeginResolveR, TakeRelay, Handled, TypeOK
    <2>2. CASE ~(oper.reserved /\ commands.failed)
      <3>1. UNCHANGED <<disp.semantic, disp.retiring, disp.sideband, disp.intentional, disp.closed>>
        BY <1>7, <2>2, PoppedFields, Taken
        DEF BeginResolveR, InCallback, TakeRelay, DispRecord
      <3>2. disp'.at \in {"loop", "env", "resolving"}
        BY <1>7, <2>2, PoppedFields, Taken
        DEF BeginResolveR, InCallback, TakeRelay, DispRecord
      <3>3. UNCHANGED ghost.exit_first BY <1>7 DEF BeginResolveR, Handled, TypeOK
      <3> QED BY <3>1, <3>2, <3>3, FailureKept
    <2> QED BY <2>1, <2>2
  <1>8. CASE BeginCallback
    <2>1. UNCHANGED <<disp.semantic, disp.retiring, disp.sideband, disp.intentional, disp.closed>>
      BY <1>8, PoppedFields, Taken DEF BeginCallback, InCallback, TakeRelay, DispRecord
    <2>2. disp'.at \in {"loop", "env", "resolving"}
      BY <1>8, PoppedFields, Taken DEF BeginCallback, InCallback, TakeRelay, DispRecord
    <2>3. UNCHANGED ghost.exit_first BY <1>8 DEF BeginCallback, Handled, TypeOK
    <2> QED BY <2>1, <2>2, <2>3, FailureKept
  <1>9. CASE Activate
    <2>1. CASE FailDispatch(disp, "Protocol") /\ UNCHANGED ghost
      BY <1>0, <1>d, <2>1, FailureFails
    <2>2. CASE disp' = [disp EXCEPT !.at = "loop"] /\ UNCHANGED ghost
      BY <1>d, <2>2, FailureKept DEF DispRecord
    <2> QED BY <1>9, <2>1, <2>2 DEF Activate
  <1>10. CASE RelayClosed
    <2>1. CASE TakeEvent({"RelayClosed"})
      <3>1. /\ RecordExit([Popped EXCEPT !.closed = TRUE, !.at = "abort"])
            /\ ghost' = [ghost EXCEPT !.exit_first = ~RelayEnded /\ oper.failure = "None"]
        BY <1>10, <2>1 DEF RelayClosed, TakeEvent
      <3>2. /\ disp'.at = "abort" /\ disp'.closed /\ disp'.retiring = disp.retiring
            /\ disp'.sideband = disp.sideband /\ disp'.intentional = disp.intentional
            /\ disp'.semantic = (IF RelayEnded THEN disp.semantic ELSE TRUE)
        <4>1. disp.at # "abort" BY <2>1, PoppedFields
        <4> QED BY <1>10, <4>1, ClosedFields
      <3>3. CASE RelayEnded
        <4>1. ~ghost'.exit_first BY <3>1, <3>3 DEF TypeOK
        <4> QED BY <3>2, <3>3, <4>1 DEF RelayEnded, FailureInv, Remembers, EnsureRunning
      <3>4. CASE ~RelayEnded
        <4>1. FailOperation("RelayExit") BY <3>1, <3>4 DEF RecordExit
        <4>2. ghost'.exit_first => oper.failure = "None" BY <3>1 DEF TypeOK
        <4> QED BY <1>0, <3>2, <3>4, <4>1, <4>2, FailedFields DEF FailureInv, OperInv, Remembers
      <3> QED BY <3>3, <3>4
    <2>2. CASE disp.at = "abort" /\ disp' = [disp EXCEPT !.at = AfterClose] /\ UNCHANGED <<oper, ghost>>
      <3>1. /\ disp'.at = AfterClose
            /\ UNCHANGED <<disp.semantic, disp.retiring, disp.sideband, disp.intentional, disp.closed>>
        BY <1>d, <2>2 DEF DispRecord
      <3>2. AfterClose = "loop" \/ (AfterClose = "done" /\ ~EnsureRunning)
        BY <2>2 DEF AfterClose, FailureInv, EnsureRunning
      <3> QED BY <2>2, <3>1, <3>2 DEF FailureInv, EnsureRunning
    <2> QED BY <1>10, <2>1, <2>2 DEF RelayClosed
  <1>11. CASE Retire
    <2>1. disp'.retiring /\ disp'.semantic = disp.semantic /\ disp'.at # "abort"
      BY <1>d, <1>11 DEF Retire, DispRecord
    <2>2. oper'.retiring /\ UNCHANGED ghost BY <1>11, RetiredFields DEF Retire
    <2> QED BY <2>1, <2>2 DEF FailureInv, OperInv, Remembers, EnsureRunning
  <1>12. CASE ShutdownStarted
    <2>1. /\ UNCHANGED <<disp.at, disp.semantic, disp.retiring, disp.sideband, disp.closed, ghost>>
          /\ disp'.intentional
      BY <1>12, PoppedFields DEF ShutdownStarted, TakeRelay, DispRecord
    <2> QED BY <2>1 DEF FailureInv, OperInv, Remembers, EnsureRunning
  <1>13. CASE Defer \/ IgnoreSemantic \/ RelayLifetime \/ InterruptResult \/ Ready
              \/ CellStarted \/ TakeEnvironment \/ BootstrapFinished \/ InputEvent \/ Complete
              \/ Suspend \/ Resume
    <2>1. /\ UNCHANGED <<disp.semantic, disp.retiring, disp.sideband, disp.intentional, disp.closed>>
          /\ disp'.at = disp.at \/ disp'.at \notin {"abort", "done"}
      <3>1. CASE Defer \/ TakeEnvironment
        BY <1>d, <3>1 DEF Defer, TakeEnvironment, DispRecord
      <3>2. CASE RelayLifetime
        BY <3>2, PoppedFields, Taken DEF RelayLifetime, TakeRelay, DispRecord
      <3>3. CASE Ready
        BY <3>3, PoppedFields DEF Ready, TakeRelay, DispRecord
      <3>4. CASE IgnoreSemantic \/ InterruptResult \/ CellStarted \/ BootstrapFinished
                 \/ InputEvent \/ Complete \/ Suspend \/ Resume
        BY <3>4, PoppedFields
        DEF IgnoreSemantic, InterruptResult, CellStarted, BootstrapFinished, InputEvent, Complete,
            Suspend, Resume, TakeRelay
      <3> QED BY <1>13, <3>1, <3>2, <3>3, <3>4
    <2>2. UNCHANGED ghost.exit_first
      BY <1>13
      DEF Defer, IgnoreSemantic, RelayLifetime, InterruptResult, Ready, CellStarted, TakeEnvironment,
          BootstrapFinished, InputEvent, Complete, Suspend, Resume, Handled, TypeOK
    <2> QED BY <2>1, <2>2, FailureKept
  <1> QED BY <1>1, <1>2, <1>3, <1>4, <1>5, <1>6, <1>7, <1>8, <1>9, <1>10, <1>11, <1>12, <1>13
          DEF Dispatch

LEMMA FailureResolve ==
    ASSUME TypeOK, FailureInv, OperInv, Remembers, Resolve
    PROVE  FailureInv'
  <1>0. {"Protocol", "Transport"} \subseteq Causes \ {"None"} /\ disp \in DispRecord BY DEF Causes, TypeOK
  <1>1. UNCHANGED ghost BY DEF Resolve
  <1>2. CASE FailDispatch(disp, "Protocol") \/ FailDispatch(disp, "Transport")
    BY <1>0, <1>1, <1>2, FailureFails
  <1>3. CASE disp' = [disp EXCEPT !.at = "loop"] BY <1>0, <1>1, <1>3, FailureKept DEF DispRecord
  <1> QED BY <1>2, <1>3 DEF Resolve, ReplyTo

LEMMA FailureStep ==
    ASSUME TypeOK, FailureInv, OperInv, [Next]_vars
    PROVE  FailureInv'
  <1>1. Remembers BY OperStep
  <1>2. CASE ~(Dispatch \/ Resolve)
    <2>1. UNCHANGED <<disp, ghost.exit_first>>
      <3>1. CASE AskStep
        BY <3>1, AskFrame DEF AskStep, LifecycleRetire, RetireStep, RequestShutdown, ShutdownReceipt,
           StartRetire, BarrierReached, StopRelay, JoinTasks, TypeOK
      <3>2. CASE ~AskStep
        BY <1>2, <3>2, StepCases, WriterFrame, ReaderFrame, HolderFrame, InterruptFrame, TickFrame,
           WorldFrame DEF vars
      <3> QED BY <3>1, <3>2
    <2> QED BY <1>1, <2>1, FailureKept
  <1> QED BY <1>1, <1>2, FailureDispatch, FailureResolve

LEMMA RunningInit == ASSUME Init PROVE OperInv /\ FailureInv
  BY DEF Init, OperInv, FailureInv, EnsureRunning

-----------------------------------------------------------------------------
(* Interrupts: a waiting call is pending until the dispatcher answers it,  *)
(* and after the dispatcher's end none is.                                 *)
InterruptInv ==
    /\ interrupts.failed => interrupts.pending = {}
    /\ disp.at = "done" => interrupts.failed
    /\ \A i \in Interrupters : interrupts.call[i] = "waiting" => i \in interrupts.pending

LEMMA InterruptKept ==
    ASSUME InterruptInv, UNCHANGED interrupts, disp'.at = "done" => disp.at = "done"
    PROVE  InterruptInv'
  BY DEF InterruptInv

LEMMA InterruptFails ==
    ASSUME TypeOK, InterruptInv, interrupts' = FailedInterrupts
    PROVE  InterruptInv'
  BY DEF InterruptInv, FailedInterrupts, TypeOK, InterruptRecord

LEMMA FatalFields ==
    ASSUME TypeOK, Fatal, disp.retiring
    PROVE  /\ UNCHANGED operation
           /\ UNCHANGED <<disp.at, disp.semantic, disp.retiring, disp.sideband, disp.intentional,
                          disp.closed, disp.started, disp.startup, disp.outcome>>
           /\ disp'.deferred = Popped.deferred /\ disp.at = "loop"
  <1> DEFINE bad == Popped.bad \/ ~(NextEvent.kind = "PartialFrame" /\ commands.failed)
  <1>1. /\ disp' = [[Popped EXCEPT !.fatal = TRUE] EXCEPT !.bad = bad] /\ UNCHANGED operation
        /\ Popped \in DispRecord
    BY PoppedFields DEF Fatal, TakeRelay, DispRecord
  <1> HIDE DEF bad
  <1> QED BY <1>1, PoppedFields DEF Fatal, TakeRelay, DispRecord

LEMMA InterruptDispatch ==
    ASSUME TypeOK, InterruptInv, Dispatch \/ Resolve
    PROVE  InterruptInv'
  <1>d. disp \in DispRecord /\ interrupts \in InterruptRecord BY DEF TypeOK
  <1>1. CASE interrupts' = FailedInterrupts BY <1>1, InterruptFails
  <1>2. CASE InterruptResult
    <2>1. disp'.at # "done" BY <1>2, PoppedFields DEF InterruptResult, TakeRelay
    <2>2. CASE UNCHANGED interrupts BY <2>1, <2>2, InterruptKept
    <2>3. CASE ~UNCHANGED interrupts
      <3>1. /\ ~disp.semantic /\ ~disp.retiring /\ NextEvent.kind = "InterruptResult"
            /\ interrupts' = [interrupts EXCEPT !.pending = @ \ {NextEvent.i}, !.call[NextEvent.i] = "ok"]
        BY <1>2, <2>3, Taken DEF InterruptResult, TakeRelay
      <3>2. NextEvent.i \in interrupts.pending
        BY <1>2, <3>1 DEF InterruptResult, Acceptable, ProtocolError
      <3> QED BY <1>d, <2>1, <3>1, <3>2 DEF InterruptInv, InterruptRecord
    <2> QED BY <2>2, <2>3
  <1>3. CASE interrupts' # FailedInterrupts /\ ~InterruptResult
    <2>1. UNCHANGED interrupts
      BY <1>3
      DEF Dispatch, Defer, DeferFails, RelayError, IgnoreSemantic, RelayLifetime, SidebandClosed,
          ShutdownStarted, Fatal, Ready, ReadyCommitted, BootstrapFinished, CellStarted, InputEvent,
          BeginResolveR, BeginCallback, TakeEnvironment, Activate, Complete, Suspend, Resume,
          TransportFailure, Retire, RelayClosed, RecordExit, Resolve, ReplyTo, FailDispatch, operation
    <2>2. disp'.at = "done" => disp.at = "done"
      <3>1. CASE RelayClosed
        <4>1. CASE disp.at # "abort" BY <3>1, <4>1, ClosedFields
        <4>2. CASE disp.at = "abort"
          BY <1>d, <1>3, <3>1, <4>2 DEF RelayClosed, TakeEvent, DispRecord
        <4> QED BY <4>1, <4>2
      <3>2. CASE Retire BY <1>3, <3>2 DEF Retire
      <3>3. CASE BeginResolveR \/ BeginCallback
        BY <3>3, PoppedFields, Taken
        DEF BeginResolveR, BeginCallback, InCallback, FailDispatch, TakeRelay, DispRecord
      <3>4. CASE TransportFailure \/ ShutdownStarted \/ Ready
        BY <3>4, PoppedFields
        DEF TransportFailure, ShutdownStarted, Ready, FailDispatch, TakeRelay, DispRecord
      <3>5. CASE SidebandClosed
        BY <3>5, PoppedFields DEF SidebandClosed, FailDispatch, TakeRelay, DispRecord
      <3>10. CASE RelayLifetime
        BY <3>10, PoppedFields, Taken DEF RelayLifetime, TakeRelay, DispRecord
      <3>11. CASE Fatal
        <4>1. CASE disp.retiring BY <3>11, <4>1, FatalFields
        <4>2. CASE ~disp.retiring BY <1>3, <3>11, <4>2 DEF Fatal, FailDispatch
        <4> QED BY <4>1, <4>2
      <3>6. CASE IgnoreSemantic \/ BootstrapFinished \/ CellStarted \/ InputEvent \/ Complete
                 \/ Suspend \/ Resume
        BY <3>6, PoppedFields
        DEF IgnoreSemantic, BootstrapFinished, CellStarted, InputEvent, Complete, Suspend, Resume,
            TakeRelay
      <3>7. CASE Defer \/ ReadyCommitted \/ TakeEnvironment \/ Activate
        BY <1>d, <3>7 DEF Defer, ReadyCommitted, TakeEnvironment, Activate, FailDispatch, DispRecord
      <3>8. CASE Resolve BY <1>d, <3>8 DEF Resolve, ReplyTo, FailDispatch, DispRecord
      <3>9. CASE DeferFails \/ RelayError
        BY <1>3, <3>9 DEF DeferFails, RelayError, FailDispatch
      <3> QED BY <1>3, <3>1, <3>2, <3>3, <3>4, <3>5, <3>6, <3>7, <3>8, <3>9, <3>10, <3>11 DEF Dispatch
    <2> QED BY <2>1, <2>2, InterruptKept
  <1> QED BY <1>1, <1>2, <1>3

LEMMA InterruptStep ==
    ASSUME TypeOK, InterruptInv, [Next]_vars
    PROVE  InterruptInv'
  <1>1. CASE Dispatch \/ Resolve BY <1>1, InterruptDispatch
  <1>2. CASE \E i \in Interrupters : Interrupt(i)
    <2>1. PICK i \in Interrupters : Interrupt(i) BY <1>2
    <2>2. UNCHANGED disp BY <2>1 DEF Interrupt
    <2>3. \/ interrupts' = [interrupts EXCEPT !.call[i] = "error"]
          \/ /\ ~interrupts.failed
             /\ interrupts' = [interrupts EXCEPT !.pending = @ \cup {i}, !.call[i] = "waiting"]
      BY <2>1 DEF Interrupt
    <2>4. interrupts \in InterruptRecord BY DEF TypeOK
    <2>5. CASE interrupts' = [interrupts EXCEPT !.call[i] = "error"]
      <3>1. /\ UNCHANGED <<interrupts.failed, interrupts.pending>>
            /\ interrupts'.call = [interrupts.call EXCEPT ![i] = "error"]
        BY <2>4, <2>5 DEF InterruptRecord
      <3> QED BY <2>2, <2>4, <3>1 DEF InterruptInv, InterruptRecord
    <2>6. CASE /\ ~interrupts.failed
               /\ interrupts' = [interrupts EXCEPT !.pending = @ \cup {i}, !.call[i] = "waiting"]
      <3>1. /\ UNCHANGED interrupts.failed /\ interrupts'.pending = interrupts.pending \cup {i}
            /\ interrupts'.call = [interrupts.call EXCEPT ![i] = "waiting"]
        BY <2>4, <2>6 DEF InterruptRecord
      <3> QED BY <2>2, <2>4, <2>6, <3>1 DEF InterruptInv, InterruptRecord
    <2> QED BY <2>3, <2>5, <2>6
  <1>3. CASE ~(Dispatch \/ Resolve \/ \E i \in Interrupters : Interrupt(i))
    <2>1. UNCHANGED <<interrupts, disp>>
      BY <1>3, StepCases, WriterFrame, ReaderFrame, HolderFrame, AskFrame, TickFrame, WorldFrame
      DEF vars, operation
    <2> QED BY <2>1, InterruptKept
  <1> QED BY <1>1, <1>2, <1>3

-----------------------------------------------------------------------------
(* The gate of readiness.  The dispatcher looks at the worker's events only*)
(* once the starting thread committed the launch; a thread that waits for  *)
(* its start is known to the dispatcher.                                   *)
StartLabels == {"starting", "on_ready", "commit"}
GateInv ==
    /\ disp.started /\ ~disp.retiring => retirement.ready_commit = "Committed"
    /\ disp.at \in {"env", "resolving"} => retirement.ready_commit = "Committed"
CommitInv ==
    /\ retirement.ready_commit = "Open" => owner.at \in StartLabels
    /\ owner.at \notin StartLabels \cup {"retire", "ended"} => retirement.ready_commit = "Committed"
StartInv ==
    owner.at = "starting" /\ startup = "None" => disp.startup \/ disp.at = "done"

(* What the dispatcher's steps do to what it knows of the start.           *)
StartTold ==
    \/ UNCHANGED <<startup, disp.startup>>
    \/ ~disp'.startup /\ startup' = (IF disp.startup THEN "Failed" ELSE startup)
    \/ ~disp'.startup /\ startup' = "Ready"

LEMMA StartFails ==
    ASSUME TypeOK, NEW d \in DispRecord, NEW cause, FailDispatch(d, cause)
    PROVE  /\ StartTold
           /\ disp'.at = "loop" /\ disp'.started = d.started /\ disp'.retiring = d.retiring
  BY DEF FailDispatch, StartTold, DispRecord

LEMMA StartDispatch ==
    ASSUME TypeOK, Dispatch \/ Resolve
    PROVE  StartTold
  <1>d. disp \in DispRecord BY DEF TypeOK
  <1>1. CASE \E d \in DispRecord, cause \in Causes : FailDispatch(d, cause)
    BY <1>1, StartFails
  <1>f. {"Protocol", "Result", "Transport", "Sideband", "Fatal", "RelayExit"} \subseteq Causes BY DEF Causes
  <1>2. CASE DeferFails \/ RelayError
    <2>1. [disp EXCEPT !.deferred = <<>>] \in DispRecord BY <1>d, EmptyQueue DEF DispRecord
    <2> QED BY <1>1, <1>2, <1>f, <2>1, PoppedFields DEF DeferFails, RelayError, TakeRelay
  <1>3. CASE SidebandClosed
    <2>1. [Popped EXCEPT !.sideband = TRUE] \in DispRecord
      BY <1>3, PoppedFields DEF SidebandClosed, TakeRelay, DispRecord
    <2> QED BY <1>1, <1>3, <1>f, <2>1, PoppedFields
        DEF SidebandClosed, TakeRelay, operation, StartTold, DispRecord
  <1>4. CASE Fatal
    <2>1. [Popped EXCEPT !.fatal = TRUE] \in DispRecord
      BY <1>4, PoppedFields DEF Fatal, TakeRelay, DispRecord
    <2> QED BY <1>1, <1>4, <1>f, <2>1, FatalFields DEF Fatal, operation, StartTold
  <1>5. CASE TransportFailure
    BY <1>1, <1>5, <1>f, PoppedFields DEF TransportFailure, operation, StartTold
  <1>6. CASE ReadyCommitted
    BY <1>1, <1>d, <1>6, <1>f DEF ReadyCommitted, operation, StartTold, DispRecord
  <1>7. CASE BeginResolveR \/ BeginCallback
    <2>1. Popped \in DispRecord /\ NextEvent \in EventRecord /\ Popped.startup = disp.startup
      BY <1>7, PoppedFields, Taken DEF BeginResolveR, BeginCallback, TakeRelay
    <2>2. InCallback.startup = disp.startup BY <2>1 DEF InCallback, DispRecord
    <2> QED BY <1>1, <1>7, <1>f, <2>1, <2>2 DEF BeginResolveR, BeginCallback, operation, StartTold
  <1>8. CASE Activate \/ TakeEnvironment \/ Defer
    BY <1>1, <1>d, <1>8, <1>f DEF Activate, TakeEnvironment, Defer, operation, StartTold, DispRecord
  <1>9. CASE Ready
    BY <1>9, PoppedFields DEF Ready, TakeRelay, StartTold, DispRecord
  <1>10. CASE RelayLifetime \/ ShutdownStarted
    BY <1>10, PoppedFields, Taken
    DEF RelayLifetime, ShutdownStarted, TakeRelay, operation, StartTold, DispRecord
  <1>11. CASE IgnoreSemantic \/ InterruptResult \/ CellStarted \/ BootstrapFinished \/ InputEvent
              \/ Complete \/ Suspend \/ Resume
    BY <1>11, PoppedFields
    DEF IgnoreSemantic, InterruptResult, CellStarted, BootstrapFinished, InputEvent, Complete,
        Suspend, Resume, TakeRelay, operation, StartTold
  <1>12. CASE Retire BY <1>d, <1>12 DEF Retire, StartTold, DispRecord
  <1>13. CASE RelayClosed
    <2>1. CASE disp.at = "abort"
      BY <1>d, <1>13, <2>1 DEF RelayClosed, TakeEvent, StartTold, DispRecord
    <2>2. CASE disp.at # "abort"
      BY <1>13, <2>2, PoppedFields DEF RelayClosed, RecordExit, operation, StartTold, DispRecord
    <2> QED BY <2>1, <2>2
  <1>14. CASE Resolve
    BY <1>1, <1>d, <1>14, <1>f DEF Resolve, ReplyTo, StartTold, DispRecord
  <1> QED BY <1>2, <1>3, <1>4, <1>5, <1>6, <1>7, <1>8, <1>9, <1>10, <1>11, <1>12, <1>13, <1>14
          DEF Dispatch

LEMMA GateDispatch ==
    ASSUME TypeOK, Dispatch \/ Resolve, GateInv
    PROVE  GateInv'
  <1>d. disp \in DispRecord BY DEF TypeOK
  <1>c. UNCHANGED retirement.ready_commit BY DispatchFrame, ResolveFrame
  <1>1. CASE /\ \E d \in DispRecord, cause \in Causes : FailDispatch(d, cause) /\ d.started = disp.started
                                                       /\ d.retiring = disp.retiring
    BY <1>1, <1>c, StartFails DEF GateInv
  <1>f. {"Protocol", "Result", "Transport", "Sideband", "Fatal", "RelayExit"} \subseteq Causes BY DEF Causes
  <1>2. CASE DeferFails \/ RelayError
    <2>1. /\ [disp EXCEPT !.deferred = <<>>] \in DispRecord
          /\ [disp EXCEPT !.deferred = <<>>].started = disp.started
          /\ [disp EXCEPT !.deferred = <<>>].retiring = disp.retiring
      BY <1>d, EmptyQueue DEF DispRecord
    <2> QED BY <1>1, <1>2, <1>f, <2>1, PoppedFields DEF DeferFails, RelayError, TakeRelay
  <1>3. CASE SidebandClosed
    <2>1. /\ [Popped EXCEPT !.sideband = TRUE] \in DispRecord
          /\ [Popped EXCEPT !.sideband = TRUE].started = disp.started
          /\ [Popped EXCEPT !.sideband = TRUE].retiring = disp.retiring
          /\ [Popped EXCEPT !.sideband = TRUE].at = "loop"
      BY <1>3, PoppedFields DEF SidebandClosed, TakeRelay, DispRecord
    <2> QED BY <1>1, <1>3, <1>c, <1>f, <2>1 DEF SidebandClosed, GateInv
  <1>4. CASE Fatal
    <2>1. /\ [Popped EXCEPT !.fatal = TRUE] \in DispRecord
          /\ [Popped EXCEPT !.fatal = TRUE].started = disp.started
          /\ [Popped EXCEPT !.fatal = TRUE].retiring = disp.retiring
      BY <1>4, PoppedFields DEF Fatal, TakeRelay, DispRecord
    <2> QED BY <1>1, <1>4, <1>c, <1>f, <2>1, FatalFields DEF Fatal, GateInv
  <1>5. CASE TransportFailure
    BY <1>1, <1>5, <1>c, <1>f, PoppedFields DEF TransportFailure, GateInv
  <1>6. CASE ReadyCommitted
    BY <1>1, <1>d, <1>6, <1>c, <1>f DEF ReadyCommitted, GateInv, DispRecord
  <1>7. CASE BeginResolveR \/ BeginCallback
    <2>1. /\ Popped \in DispRecord /\ NextEvent \in EventRecord /\ NextEvent.kind \in RuntimeCallbacks
          /\ Popped.started = disp.started /\ Popped.retiring = disp.retiring /\ Popped.at = "loop"
      BY <1>7, PoppedFields, Taken
      DEF BeginResolveR, BeginCallback, TakeRelay, CallbackEvents, RuntimeCallbacks
    <2>2. Acceptable(NextEvent) BY <1>7 DEF BeginResolveR, BeginCallback
    <2>3. disp.started /\ ~disp.retiring
      BY <2>1, <2>2
      DEF Acceptable, SemanticError, Ignored, IgnoredDuringRetirement, Semantic, RuntimeCallbacks
    <2>4. InCallback.started = disp.started /\ InCallback.retiring = disp.retiring
      BY <2>1 DEF InCallback, DispRecord
    <2> QED BY <1>1, <1>7, <1>c, <1>f, <2>1, <2>3, <2>4 DEF BeginResolveR, BeginCallback, GateInv
  <1>8. CASE Activate \/ TakeEnvironment \/ Defer
    BY <1>1, <1>d, <1>8, <1>c, <1>f DEF Activate, TakeEnvironment, Defer, GateInv, DispRecord
  <1>9. CASE Ready
    BY <1>9, <1>c, PoppedFields DEF Ready, TakeRelay, GateInv, DispRecord
  <1>10. CASE RelayLifetime \/ ShutdownStarted
    BY <1>10, <1>c, PoppedFields, Taken
    DEF RelayLifetime, ShutdownStarted, TakeRelay, GateInv, DispRecord
  <1>11. CASE IgnoreSemantic \/ InterruptResult \/ CellStarted \/ BootstrapFinished \/ InputEvent
              \/ Complete \/ Suspend \/ Resume
    BY <1>11, <1>c, PoppedFields
    DEF IgnoreSemantic, InterruptResult, CellStarted, BootstrapFinished, InputEvent, Complete,
        Suspend, Resume, TakeRelay, GateInv
  <1>12. CASE Retire BY <1>d, <1>c, <1>12 DEF Retire, GateInv, DispRecord
  <1>13. CASE RelayClosed
    <2>1. CASE disp.at = "abort"
      BY <1>d, <1>c, <1>13, <2>1 DEF RelayClosed, TakeEvent, AfterClose, GateInv, DispRecord
    <2>2. CASE disp.at # "abort"
      <3>1. /\ disp'.at = "abort" /\ disp'.started = disp.started /\ disp'.retiring = disp.retiring
        BY <1>13, <2>2, ClosedFields
      <3> QED BY <1>c, <3>1 DEF GateInv
    <2> QED BY <2>1, <2>2
  <1>14. CASE Resolve
    BY <1>1, <1>d, <1>c, <1>14, <1>f DEF Resolve, ReplyTo, GateInv, DispRecord
  <1> QED BY <1>2, <1>3, <1>4, <1>5, <1>6, <1>7, <1>8, <1>9, <1>10, <1>11, <1>12, <1>13, <1>14
          DEF Dispatch

LEMMA AdmitFields ==
    ASSUME TypeOK, NEW job \in Jobs, Admit(job)
    PROVE  /\ owner.at = "free" /\ owner'.at = (IF job = "Cell" THEN "begin" ELSE "reserve")
           /\ owner'.job = job /\ owner'.admitted = "None" /\ UNCHANGED owner.reservation
           /\ job = "Replace" => Builtin /\ ~wk.r
           /\ job = "Cell" => cell'.phase = "Pending" /\ cell'.outcome = "None"
           /\ job # "Cell" => UNCHANGED cell
           /\ UNCHANGED cell.open
  <1> DEFINE used == owner.used \/ job # "Replace"
             at == IF job = "Cell" THEN "begin" ELSE "reserve"
  <1>0. owner \in OwnerRecord /\ cell \in CellRecord BY DEF TypeOK
  <1>1. /\ owner' = [owner EXCEPT !.at = at, !.job = job, !.jobs = @ + 1, !.used = used, !.admitted = "None"]
        /\ owner.at = "free" /\ (job = "Replace" => Builtin /\ ~wk.r)
    BY DEF Admit
  <1>2. /\ job = "Cell" => cell'.phase = "Pending" /\ cell'.outcome = "None"
        /\ job # "Cell" => UNCHANGED cell
        /\ UNCHANGED cell.open
    BY <1>0 DEF Admit, CellRecord
  <1>3. owner'.at = at /\ owner'.job = job /\ owner'.admitted = "None" /\ UNCHANGED owner.reservation
    <2> HIDE DEF used, at
    <2> QED BY <1>0, <1>1 DEF OwnerRecord
  <1> QED BY <1>1, <1>2, <1>3

(* The holder of the worker mutex leaves the start only with a commit, and *)
(* what was decided of it stays.                                           *)
LEMMA CommitHolder ==
    ASSUME TypeOK, CommitInv, HolderStep
    PROVE  /\ CommitInv' /\ owner'.at # "starting"
           /\ retirement.ready_commit = "Committed" => retirement'.ready_commit = "Committed"
  <1>1. CASE ReceiveStartup \/ OnReady \/ CommitReady
    BY <1>1 DEF ReceiveStartup, OnReady, CommitReady, FailStartup, Move, CommitInv, StartLabels,
       TypeOK, OwnerRecord, RetirementRecord
  <1>2. CASE ~(ReceiveStartup \/ OnReady \/ CommitReady)
    <2>1. owner.at \notin StartLabels \cup {"ended"}
      BY <1>2 DEF HolderStep, OwnerStep, MarkReady, BeginCell, WaitForBootstrap, DispatchCell,
         AbortBootstrapCell, ReserveEnvironment, ReserveReplacement, ReplacementReserved,
         LockEnvironment, BeginPreparation, SendPreparation, ReceiveResult, OwnerRetires,
         OwnerRetired, ResolveDeclaration, Admit, StartLabels
    <2>2. UNCHANGED retirement.ready_commit
      BY <1>2 DEF HolderStep, OwnerStep, MarkReady, BeginCell, WaitForBootstrap, DispatchCell,
         AbortBootstrapCell, ReserveEnvironment, ReserveReplacement, ReplacementReserved,
         LockEnvironment, BeginPreparation, SendPreparation, ReceiveResult, OwnerRetires,
         OwnerRetired, ResolveDeclaration, Admit, TypeOK, RetirementRecord
    <2>3. owner'.at \notin StartLabels
      <3>1. CASE \E label \in OwnerLabels \ StartLabels : owner' = [owner EXCEPT !.at = label]
        BY <3>1 DEF TypeOK, OwnerRecord
      <3>2. CASE \E label \in OwnerLabels \ StartLabels : DropReservation(label)
        BY <3>2, DropFields
      <3>3. CASE MarkReady \/ BeginCell \/ WaitForBootstrap \/ DispatchCell \/ AbortBootstrapCell
                 \/ SendPreparation \/ BeginPreparation
        BY <3>1, <3>3
        DEF MarkReady, BeginCell, WaitForBootstrap, DispatchCell, AbortBootstrapCell,
            SendPreparation, BeginPreparation, Move, OwnerLabels, StartLabels
      <3>4. CASE ReserveEnvironment \/ ReserveReplacement \/ ReplacementReserved
                 \/ \E job \in Jobs : Admit(job)
        BY <3>4, AdmitFields
        DEF ReserveEnvironment, ReserveReplacement, ReplacementReserved, Move, StartLabels, TypeOK,
            OwnerRecord
      <3>5. CASE LockEnvironment \/ ResolveDeclaration \/ OwnerRetires \/ OwnerRetired
        BY <3>1, <3>2, <3>5
        DEF LockEnvironment, ResolveDeclaration, OwnerRetires, OwnerRetired, Move, OwnerLabels,
            StartLabels
      <3>6. CASE ReceiveResult
        <4>1. CASE owner' = [owner EXCEPT !.at = "begin_prepare", !.job = "Prepare"]
          BY <4>1 DEF StartLabels, TypeOK, OwnerRecord
        <4> QED BY <3>1, <3>2, <3>6, <4>1 DEF ReceiveResult, Move, OwnerLabels, StartLabels
      <3> QED BY <1>2, <3>3, <3>4, <3>5, <3>6 DEF HolderStep, OwnerStep
    <2>4. owner.at = "retire" => owner'.at \in {"retire", "ended"}
      BY <1>2 DEF HolderStep, OwnerStep, MarkReady, BeginCell, WaitForBootstrap, DispatchCell,
         AbortBootstrapCell, ReserveEnvironment, ReserveReplacement, ReplacementReserved,
         LockEnvironment, BeginPreparation, SendPreparation, ReceiveResult, OwnerRetires,
         OwnerRetired, ResolveDeclaration, Admit, DropReservation, Move, TypeOK, OwnerRecord
    <2> QED BY <2>1, <2>2, <2>3, <2>4 DEF CommitInv, StartLabels
  <1> QED BY <1>1, <1>2

LEMMA CommitAsks ==
    ASSUME TypeOK, AskStep
    PROVE  \/ UNCHANGED retirement.ready_commit
           \/ retirement.ready_commit = "Open" /\ retirement'.ready_commit = "Retiring"
  <1>1. CASE \E c \in Retirers : LifecycleRetire(c)
    BY <1>1 DEF LifecycleRetire, TypeOK, RetirementRecord
  <1>2. CASE \E c \in Callers : RequestShutdown(c) \/ ShutdownReceipt(c)
    BY <1>2, RequestFields, ReceiptFields
  <1>3. CASE \E c \in Callers : StartRetire(c) \/ BarrierReached(c) \/ JoinTasks(c)
    <2>1. retirement \in RetirementRecord BY DEF TypeOK
    <2>2. \/ UNCHANGED retirement
          \/ retirement' = [retirement EXCEPT !.finishing = TRUE, !.tasks = FALSE]
          \/ retirement' = [retirement EXCEPT !.result = JoinedResult, !.finishing = FALSE]
      BY <1>3 DEF StartRetire, BarrierReached, JoinTasks
    <2> QED BY <2>1, <2>2 DEF RetirementRecord
  <1>4. CASE \E c \in Callers : StopRelay(c) BY <1>4, StopFrame
  <1> QED BY <1>1, <1>2, <1>3, <1>4 DEF AskStep, RetireStep

ReadyInv == GateInv /\ CommitInv /\ StartInv

LEMMA ReadyStep ==
    ASSUME TypeOK, ReadyInv, [Next]_vars
    PROVE  ReadyInv'
  <1>1. CASE Dispatch \/ Resolve
    <2>1. GateInv' BY <1>1, GateDispatch DEF ReadyInv
    <2>2. UNCHANGED <<owner.at, retirement.ready_commit>>
      BY <1>1, DispatchFrame, ResolveFrame DEF Holding
    <2>3. CommitInv' BY <2>2 DEF ReadyInv, CommitInv
    <2>4. StartInv'
      BY <1>1, <2>2, DoneStays, StartDispatch DEF ReadyInv, StartInv, StartTold
    <2> QED BY <2>1, <2>3, <2>4 DEF ReadyInv
  <1>2. CASE HolderStep
    BY <1>2, CommitHolder, HolderFrame DEF ReadyInv, GateInv, StartInv
  <1>3. CASE AskStep
    <2>1. UNCHANGED <<disp, owner.at, startup>> BY <1>3, AskFrame DEF Holding
    <2> QED BY <1>3, <2>1, CommitAsks DEF ReadyInv, GateInv, CommitInv, StartInv
  <1>4. CASE ~(Dispatch \/ Resolve \/ HolderStep \/ AskStep)
    <2>1. UNCHANGED <<disp, startup, owner.at, retirement.ready_commit>>
      BY <1>4, StepCases, WriterFrame, ReaderFrame, InterruptFrame, TickFrame, WorldFrame
      DEF vars, operation, others, Holding
    <2> QED BY <2>1 DEF ReadyInv, GateInv, CommitInv, StartInv
  <1> QED BY <1>1, <1>2, <1>3, <1>4

-----------------------------------------------------------------------------
(* Who waits for an operation has its answer or will be given it.          *)
WaitInv == owner.at \in {"bootstrap", "dispatch", "receive", "send"} => oper.result \/ answer # "None"

Answers == oper.result \/ answer # "None" => oper'.result \/ answer' # "None"

LEMMA FailAnswers ==
    ASSUME NEW cause, FailOperation(cause) \/ RetireOperation
    PROVE  Answers
  BY DEF FailOperation, RetireOperation, Answers

LEMMA DispatchAnswers ==
    ASSUME TypeOK, Dispatch \/ Resolve
    PROVE  Answers
  <1>0. oper \in OperRecord BY DEF TypeOK
  <1>1. CASE \E cause \in Causes : FailOperation(cause) \/ RetireOperation BY <1>1, FailAnswers
  <1>2. {"Protocol", "Result", "Transport", "Sideband", "Fatal", "RelayExit"} \subseteq Causes BY DEF Causes
  <1>3. CASE UNCHANGED <<oper.result, answer>> BY <1>3 DEF Answers
  <1>4. CASE DeferFails \/ RelayError \/ SidebandClosed \/ Fatal \/ TransportFailure \/ Retire
    BY <1>1, <1>2, <1>3, <1>4
    DEF DeferFails, RelayError, SidebandClosed, Fatal, TransportFailure, Retire, FailDispatch, operation
  <1>5. CASE ReadyCommitted \/ RelayClosed
    BY <1>1, <1>2, <1>3, <1>5 DEF ReadyCommitted, RelayClosed, RecordExit, FailDispatch, operation
  <1>6. CASE BootstrapFinished \/ BeginResolveR \/ Activate \/ Suspend \/ Resume
    BY <1>0, <1>1, <1>2, <1>3, <1>6
    DEF BootstrapFinished, BeginResolveR, Activate, Suspend, Resume, FailDispatch, operation, OperRecord
  <1>7. CASE InputEvent BY <1>3, <1>7, InputFields DEF InputEvent
  <1>8. CASE Complete BY <1>8 DEF Complete, Answers
  <1>9. CASE Resolve
    BY <1>0, <1>1, <1>2, <1>3, <1>9 DEF Resolve, ReplyTo, FailDispatch, OperRecord
  <1>10. CASE Defer \/ IgnoreSemantic \/ RelayLifetime \/ InterruptResult \/ ShutdownStarted \/ Ready
              \/ CellStarted \/ BeginCallback \/ TakeEnvironment
    BY <1>3, <1>10
    DEF Defer, IgnoreSemantic, RelayLifetime, InterruptResult, ShutdownStarted, Ready, CellStarted,
        BeginCallback, TakeEnvironment, operation
  <1> QED BY <1>4, <1>5, <1>6, <1>7, <1>8, <1>9, <1>10 DEF Dispatch

LEMMA HolderWaits ==
    ASSUME TypeOK, WaitInv, HolderStep
    PROVE  WaitInv'
  <1>0. owner \in OwnerRecord /\ oper \in OperRecord BY DEF TypeOK
  <1>1. CASE BeginCell
    BY <1>0, <1>1 DEF BeginCell, Move, WaitInv, OwnerRecord, OperRecord
  <1>2. CASE WaitForBootstrap \/ SendPreparation
    BY <1>0, <1>2 DEF WaitForBootstrap, SendPreparation, Move, WaitInv, OwnerRecord, operation
  <1>3. CASE DispatchCell
    BY <1>0, <1>3 DEF DispatchCell, Move, WaitInv, OwnerRecord
  <1>4. CASE BeginPreparation
    <2>1. CASE UNCHANGED oper
      <3>1. owner'.at = "failed" \/ oper'.result
        BY <1>0, <1>4, <2>1 DEF BeginPreparation, Move, OwnerRecord, OperRecord
      <3> QED BY <3>1 DEF WaitInv
    <2>2. CASE ~UNCHANGED oper BY <1>4, <2>2, PreparingFields DEF WaitInv
    <2> QED BY <2>1, <2>2
  <1>5. CASE ~(BeginCell \/ WaitForBootstrap \/ SendPreparation \/ DispatchCell \/ BeginPreparation)
    <2>1. owner'.at \notin {"bootstrap", "dispatch", "receive", "send"}
      <3>1. CASE \E label \in OwnerLabels \ {"bootstrap", "dispatch", "receive", "send"} :
                    owner' = [owner EXCEPT !.at = label] \/ DropReservation(label)
        BY <1>0, <3>1, DropFields DEF OwnerRecord
      <3>2. CASE ReceiveStartup \/ OnReady \/ CommitReady \/ MarkReady \/ AbortBootstrapCell
        BY <3>1, <3>2
        DEF ReceiveStartup, OnReady, CommitReady, MarkReady, AbortBootstrapCell, FailStartup, Move,
            OwnerLabels
      <3>3. CASE ReserveEnvironment \/ ReserveReplacement \/ ReplacementReserved
        BY <1>0, <3>3 DEF ReserveEnvironment, ReserveReplacement, ReplacementReserved, Move, OwnerRecord
      <3>4. CASE LockEnvironment \/ ResolveDeclaration \/ OwnerRetires \/ OwnerRetired
        BY <3>1, <3>4
        DEF LockEnvironment, ResolveDeclaration, OwnerRetires, OwnerRetired, Move, OwnerLabels
      <3>5. CASE ReceiveResult
        <4>1. CASE owner' = [owner EXCEPT !.at = "begin_prepare", !.job = "Prepare"]
          BY <1>0, <4>1 DEF OwnerRecord
        <4> QED BY <3>1, <3>5, <4>1 DEF ReceiveResult, Move, OwnerLabels
      <3>6. CASE \E job \in Jobs : Admit(job) BY <3>6, AdmitFields
      <3> QED BY <1>5, <3>2, <3>3, <3>4, <3>5, <3>6 DEF HolderStep, OwnerStep
    <2> QED BY <2>1 DEF WaitInv
  <1> QED BY <1>1, <1>2, <1>3, <1>4, <1>5

LEMMA WaitStep ==
    ASSUME TypeOK, WaitInv, [Next]_vars
    PROVE  WaitInv'
  <1>1. CASE HolderStep BY <1>1, HolderWaits
  <1>2. CASE Dispatch \/ Resolve
    BY <1>2, DispatchAnswers, DispatchFrame, ResolveFrame DEF WaitInv, Answers, Holding
  <1>3. CASE ~(HolderStep \/ Dispatch \/ Resolve)
    <2>1. UNCHANGED <<oper, answer, owner.at>>
      BY <1>3, StepCases, WriterFrame, ReaderFrame, InterruptFrame, AskFrame, TickFrame, WorldFrame
      DEF vars, operation, Holding
    <2> QED BY <2>1 DEF WaitInv
  <1> QED BY <1>1, <1>2, <1>3

-----------------------------------------------------------------------------
(* The end of a launch: what the dispatcher holds of the environment lock, *)
(* and what is left once an outcome without a remainder is published.      *)
LockInv == env = "Dispatcher" => disp.at = "resolving"

LEMMA LockStep ==
    ASSUME TypeOK, LockInv, [Next]_vars
    PROVE  LockInv'
  <1>d. disp \in DispRecord BY DEF TypeOK
  <1>1. CASE TakeEnvironment BY <1>d, <1>1 DEF TakeEnvironment, LockInv, DispRecord
  <1>2. CASE Dispatch /\ ~TakeEnvironment
    <2>1. disp.at # "resolving"
      BY <1>2 DEF Dispatch, Defer, DeferFails, RelayError, IgnoreSemantic, RelayLifetime,
         SidebandClosed, InterruptResult, ShutdownStarted, Fatal, Ready, ReadyCommitted,
         BootstrapFinished, CellStarted, InputEvent, BeginResolveR, BeginCallback, Activate, Complete,
         Suspend, Resume, TransportFailure, Retire, RelayClosed, TakeRelay, TakeEvent
    <2>2. UNCHANGED env
      BY <1>2 DEF Dispatch, Defer, DeferFails, RelayError, IgnoreSemantic, RelayLifetime,
         SidebandClosed, InterruptResult, ShutdownStarted, Fatal, Ready, ReadyCommitted,
         BootstrapFinished, CellStarted, InputEvent, BeginResolveR, BeginCallback, Activate, Complete,
         Suspend, Resume, TransportFailure, Retire, RelayClosed, others
    <2> QED BY <2>1, <2>2 DEF LockInv
  <1>3. CASE Resolve BY <1>3 DEF Resolve, LockInv
  <1>4. CASE HolderStep
    <2>1. env' \in {env, "Owner", "None"}
      BY <1>4 DEF HolderStep, OwnerStep, ReceiveStartup, OnReady, CommitReady, MarkReady, BeginCell,
         WaitForBootstrap, DispatchCell, AbortBootstrapCell, ReserveEnvironment, ReserveReplacement,
         ReplacementReserved, LockEnvironment, BeginPreparation, SendPreparation, ReceiveResult,
         OwnerRetires, OwnerRetired, ResolveDeclaration, Admit
    <2> QED BY <1>4, <2>1, HolderFrame DEF LockInv
  <1>5. CASE ~(Dispatch \/ Resolve \/ HolderStep)
    <2>1. UNCHANGED <<env, disp>>
      BY <1>5, StepCases, WriterFrame, ReaderFrame, InterruptFrame, AskFrame, TickFrame, WorldFrame
      DEF vars, others
    <2> QED BY <2>1 DEF LockInv
  <1> QED BY <1>1, <1>2, <1>3, <1>4, <1>5

LEMMA CommandsStay ==
    ASSUME TypeOK, [Next]_vars, commands.failed
    PROVE  commands'.failed
  <1>0. commands \in CommandRecord BY DEF TypeOK
  <1>1. CASE Dispatch
    BY <1>0, <1>1 DEF Dispatch, Defer, DeferFails, RelayError, IgnoreSemantic, RelayLifetime,
         SidebandClosed, InterruptResult, ShutdownStarted, Fatal, Ready, ReadyCommitted,
         BootstrapFinished, CellStarted, InputEvent, BeginResolveR, BeginCallback, TakeEnvironment,
         Activate, Complete, Suspend, Resume, TransportFailure, Retire, RelayClosed, Send, Aborted,
         CommandRecord
  <1>2. CASE Resolve BY <1>0, <1>2 DEF Resolve, ReplyTo, Send, CommandRecord
  <1>3. CASE Writer BY <1>3 DEF Writer, WriteCommand, WriteFails
  <1>4. CASE HolderStep
    BY <1>0, <1>4 DEF HolderStep, OwnerStep, ReceiveStartup, OnReady, CommitReady, MarkReady, BeginCell,
         WaitForBootstrap, DispatchCell, AbortBootstrapCell, ReserveEnvironment, ReserveReplacement,
         ReplacementReserved, LockEnvironment, BeginPreparation, SendPreparation, ReceiveResult,
         OwnerRetires, OwnerRetired, ResolveDeclaration, Admit, Send, CommandRecord
  <1>5. CASE \E i \in Interrupters : Interrupt(i)
    BY <1>0, <1>5 DEF Interrupt, Send, CommandRecord
  <1>6. CASE AskStep
    BY <1>0, <1>6 DEF AskStep, LifecycleRetire, RetireStep, RequestShutdown, ShutdownReceipt,
       ReportTransportFailure, StartRetire, BarrierReached, StopRelay, Reap, Terminate, JoinTasks,
       Aborted, CommandRecord
  <1>7. CASE Tick \/ World \/ Reader \/ UNCHANGED vars
    <2>1. UNCHANGED commands BY <1>7, TickFrame, WorldFrame, ReaderFrame DEF vars
    <2> QED BY <2>1
  <1> QED BY <1>1, <1>2, <1>3, <1>4, <1>5, <1>6, <1>7, StepCases

(* Only a cell's start opens its output interval.                          *)
LEMMA OutputStays ==
    ASSUME TypeOK, [Next]_vars, ~cell.open, disp.at = "done"
    PROVE  ~cell'.open
  <1>0. cell \in CellRecord BY DEF TypeOK
  <1>1. ~Resolve BY DEF Resolve
  <1>2. ~Dispatch
    BY DEF Dispatch, Defer, DeferFails, RelayError, IgnoreSemantic, RelayLifetime, SidebandClosed,
       InterruptResult, ShutdownStarted, Fatal, Ready, ReadyCommitted, BootstrapFinished, CellStarted,
       InputEvent, BeginResolveR, BeginCallback, TakeEnvironment, Activate, Complete, Suspend, Resume,
       TransportFailure, Retire, RelayClosed, TakeRelay, TakeEvent
  <1>3. CASE \E job \in Jobs : Admit(job) BY <1>3, AdmitFields
  <1>4. CASE HolderStep /\ ~\E job \in Jobs : Admit(job)
    BY <1>0, <1>4 DEF HolderStep, OwnerStep, ReceiveStartup, OnReady, CommitReady, MarkReady, BeginCell,
         WaitForBootstrap, DispatchCell, AbortBootstrapCell, ReserveEnvironment, ReserveReplacement,
         ReplacementReserved, LockEnvironment, BeginPreparation, SendPreparation, ReceiveResult,
         OwnerRetires, OwnerRetired, ResolveDeclaration, FinishCell, FailOperation, operation, CellRecord
  <1>5. CASE \E i \in Interrupters : Interrupt(i) BY <1>0, <1>5 DEF Interrupt, CellRecord
  <1>6. CASE AskStep
    BY <1>0, <1>6 DEF AskStep, LifecycleRetire, RetireStep, RequestShutdown, ShutdownReceipt,
       StartRetire, BarrierReached, StopRelay, JoinTasks, operation, CellRecord
  <1>7. CASE Tick \/ World \/ Reader \/ Writer \/ UNCHANGED vars
    <2>1. UNCHANGED cell BY <1>7, TickFrame, WorldFrame, ReaderFrame, WriterFrame DEF vars, operation
    <2> QED BY <2>1
  <1> QED BY <1>1, <1>2, <1>3, <1>4, <1>5, <1>6, <1>7, StepCases

QuietInv ==
    retirement.result \in {"Clean", "Unclean"} => Quiet /\ commands.failed /\ ~cell.open

LEMMA QuietStep ==
    ASSUME TypeOK, RetirementInv, QuietInv, [Next]_vars
    PROVE  QuietInv'
  <1>1. CASE \E c \in Callers : JoinTasks(c)
    <2>1. PICK c \in Callers : JoinTasks(c) BY <1>1
    <2>2. /\ retirement'.result = JoinedResult /\ commands'.failed /\ ~reader' /\ disp'.at = "done"
          /\ UNCHANGED child
          /\ child.state = "Reaped" => ~cell'.open
      BY <2>1 DEF JoinTasks, DispatcherDone, outside, TypeOK, RetirementRecord, CellRecord
    <2>3. JoinedResult # "Stuck" => child.state = "Reaped" BY DEF JoinedResult
    <2> QED BY <2>2, <2>3 DEF QuietInv, Quiet, DispatcherDone
  <1>2. CASE ~\E c \in Callers : JoinTasks(c)
    <2>1. UNCHANGED retirement.result
      <3>1. CASE AskStep
        <4>1. CASE \E c \in Callers : StopRelay(c) BY <4>1, StopFrame
        <4>2. CASE ~\E c \in Callers : StopRelay(c)
          <5>1. retirement \in RetirementRecord BY DEF TypeOK
          <5>2. CASE \E c \in Callers : RequestShutdown(c) \/ ShutdownReceipt(c)
            BY <5>2, RequestFields, ReceiptFields
          <5>3. CASE \E c \in Callers : LifecycleRetire(c) \/ StartRetire(c) \/ BarrierReached(c)
            BY <5>1, <5>3 DEF LifecycleRetire, StartRetire, BarrierReached, RetirementRecord
          <5> QED BY <1>2, <3>1, <4>2, <5>2, <5>3 DEF AskStep, RetireStep, Callers
        <4> QED BY <4>1, <4>2
      <3>2. CASE OwnerRetires BY <3>2 DEF OwnerRetires, TypeOK, RetirementRecord
      <3>3. CASE ~AskStep /\ ~OwnerRetires
        BY <3>3, StepCases, DispatchFrame, ResolveFrame, WriterFrame, ReaderFrame, HolderFrame,
           InterruptFrame, TickFrame, WorldFrame
        DEF vars, Asking
      <3> QED BY <3>1, <3>2, <3>3
    <2> QED BY <2>1, QuietStays, CommandsStay, OutputStays DEF QuietInv, Quiet, DispatcherDone
  <1> QED BY <1>1, <1>2

EndInv == OperInv /\ FailureInv /\ InterruptInv /\ ReadyInv /\ WaitInv /\ LockInv /\ QuietInv

LEMMA EndInit == ASSUME Init PROVE EndInv
  BY RunningInit
  DEF Init, EndInv, InterruptInv, ReadyInv, GateInv, CommitInv, StartInv, StartLabels, WaitInv, LockInv,
      QuietInv

LEMMA EndStep ==
    ASSUME TypeOK, RetirementInv, EndInv, [Next]_vars
    PROVE  EndInv'
  BY OperStep, FailureStep, InterruptStep, ReadyStep, WaitStep, LockStep, QuietStep DEF EndInv

(* The invariant of a launch's end, of which the next theorem is a part.   *)
THEOREM EndHolds == Spec => []EndInv
  <1>1. Init => EndInv BY EndInit
  <1>2. TypeOK /\ RetirementInv /\ EndInv /\ [Next]_vars => EndInv' BY EndStep
  <1> QED BY <1>1, <1>2, TypesHold, RetirementHolds, PTL DEF Spec

(* A launch whose retirement ended cleanly, or but for its status, has     *)
(* reaped its child and ended its threads, and nobody waits for it: the    *)
(* next launch may take its place.                                         *)
THEOREM ReplaceableHolds == Spec => []ReplaceableIsQuiet
  <1>1. TypeOK /\ EndInv => ReplaceableIsQuiet
    BY DEF EndInv, OperInv, FailureInv, InterruptInv, LockInv, QuietInv, Quiet, DispatcherDone,
       ReplaceableIsQuiet
  <1> QED BY <1>1, TypesHold, EndHolds, PTL

-----------------------------------------------------------------------------
(* The dispatcher's queue: it takes from the front, all others append.     *)
Shifts ==
    /\ events # <<>> /\ Len(events') = Len(events) - 1
    /\ \A k \in 1..Len(events') : events'[k] = events[k + 1]
Grows(kinds) ==
    /\ Len(events) <= Len(events')
    /\ \A k \in 1..Len(events) : events'[k] = events[k]
    /\ \A k \in (Len(events) + 1)..Len(events') : events'[k].kind \in kinds

LEMMA GrowsNot ==
    ASSUME TypeOK, NEW kinds, UNCHANGED events
    PROVE  Grows(kinds)
  BY DEF Grows, TypeOK

LEMMA GrowsBy ==
    ASSUME TypeOK, NEW kinds, NEW new \in Seq(EventRecord), events' = events \o new,
           \A k \in 1..Len(new) : new[k].kind \in kinds
    PROVE  Grows(kinds)
  BY DEF Grows, TypeOK

LEMMA GrowsOne ==
    ASSUME TypeOK, NEW kinds, NEW e \in EventRecord, e.kind \in kinds, events' = Append(events, e)
    PROVE  Grows(kinds)
  BY DEF Grows, TypeOK

LEMMA GrowsPair ==
    ASSUME TypeOK, NEW kinds, NEW d \in EventRecord, NEW e \in EventRecord,
           d.kind \in kinds, e.kind \in kinds, events' = events \o <<d, e>>
    PROVE  Grows(kinds)
  <1> DEFINE new == <<d, e>>
  <1>1. new \in Seq(EventRecord) /\ Len(new) = 2 /\ new[1] = d /\ new[2] = e OBVIOUS
  <1>2. events' = events \o new OBVIOUS
  <1> HIDE DEF new
  <1>3. \A k \in 1..Len(new) : k = 1 \/ k = 2 BY <1>1
  <1>4. \A k \in 1..Len(new) : new[k].kind \in kinds BY <1>1, <1>3
  <1> QED BY <1>1, <1>2, <1>4, GrowsBy

LEMMA GrowsSingle ==
    ASSUME TypeOK, NEW kinds, NEW e \in EventRecord, e.kind \in kinds, events' = events \o <<e>>
    PROVE  Grows(kinds)
  <1> DEFINE new == <<e>>
  <1>1. new \in Seq(EventRecord) /\ Len(new) = 1 /\ new[1] = e OBVIOUS
  <1>2. events' = events \o new OBVIOUS
  <1> HIDE DEF new
  <1>3. \A k \in 1..Len(new) : k = 1 BY <1>1
  <1>4. \A k \in 1..Len(new) : new[k].kind \in kinds BY <1>1, <1>3
  <1> QED BY <1>1, <1>2, <1>4, GrowsBy

LEMMA ClosingKinds ==
    /\ \A k \in 0..1 : \A j \in 1..Len(SubSeq(ClosingEvents, 1, k)) :
          SubSeq(ClosingEvents, 1, k)[j].kind \in Lifetime /\ SubSeq(ClosingEvents, 1, k)[j].n = 0
    /\ \A fatal \in {<<>>, <<Event("Fatal")>>} : \A j \in 1..Len(fatal \o ClosingEvents) :
          (fatal \o ClosingEvents)[j].kind \in Lifetime /\ (fatal \o ClosingEvents)[j].n = 0
  <1>1. /\ ClosingEvents \in Seq(EventRecord) /\ Len(ClosingEvents) = 2
        /\ ClosingEvents[1] = Event("SidebandClosed") /\ ClosingEvents[2] = Event("Outcome")
    BY ClosingTyped DEF ClosingEvents
  <1>2. \A j \in 1..2 : ClosingEvents[j].kind \in Lifetime /\ ClosingEvents[j].n = 0
    <2>1. \A kind \in {"SidebandClosed", "Outcome"} : Event(kind).kind \in Lifetime /\ Event(kind).n = 0
      BY DEF Event, Lifetime
    <2> QED BY <1>1, <2>1
  <1>3. \A k \in 0..1 : /\ Len(SubSeq(ClosingEvents, 1, k)) = k
                        /\ \A j \in 1..k : SubSeq(ClosingEvents, 1, k)[j] = ClosingEvents[j]
    BY <1>1, SubSeqProperties
  <1>4. /\ \A k \in 0..1 : \A j \in 1..Len(SubSeq(ClosingEvents, 1, k)) :
             SubSeq(ClosingEvents, 1, k)[j].kind \in Lifetime /\ SubSeq(ClosingEvents, 1, k)[j].n = 0
    BY <1>2, <1>3
  <1>5. \A fatal \in {<<>>, <<Event("Fatal")>>} : \A j \in 1..Len(fatal \o ClosingEvents) :
          (fatal \o ClosingEvents)[j].kind \in Lifetime /\ (fatal \o ClosingEvents)[j].n = 0
    <2> SUFFICES ASSUME NEW fatal \in {<<>>, <<Event("Fatal")>>}, NEW j \in 1..Len(fatal \o ClosingEvents)
                 PROVE  (fatal \o ClosingEvents)[j].kind \in Lifetime /\ (fatal \o ClosingEvents)[j].n = 0
      OBVIOUS
    <2>1. fatal \in Seq(EventRecord) /\ \A k \in 1..Len(fatal) : fatal[k].kind \in Lifetime /\ fatal[k].n = 0
      <3>1. Event("Fatal") \in EventRecord /\ Event("Fatal").kind \in Lifetime /\ Event("Fatal").n = 0
        BY ClosingTyped DEF Event, Lifetime
      <3>2. /\ <<Event("Fatal")>> \in Seq(EventRecord) /\ Len(<<Event("Fatal")>>) = 1
            /\ <<Event("Fatal")>>[1] = Event("Fatal")
        BY <3>1
      <3>3. Len(<<>>) = 0 /\ <<>> \in Seq(EventRecord) BY EmptyQueue
      <3>4. CASE fatal = <<>> BY <3>3, <3>4
      <3>5. CASE fatal = <<Event("Fatal")>>
        <4>1. fatal \in Seq(EventRecord) /\ Len(fatal) = 1 /\ fatal[1] = Event("Fatal") BY <3>2, <3>5
        <4>2. \A k \in 1..Len(fatal) : k = 1 BY <4>1
        <4> QED BY <3>1, <4>1, <4>2
      <3> QED BY <3>4, <3>5
    <2>2. Len(fatal) \in Nat /\ Len(fatal \o ClosingEvents) = Len(fatal) + 2
      <3>1. fatal \in Seq(EventRecord) /\ ClosingEvents \in Seq(EventRecord) BY <1>1, <2>1
      <3>2. Len(fatal \o ClosingEvents) = Len(fatal) + Len(ClosingEvents) BY <3>1, ConcatProperties, Zenon
      <3>3. Len(fatal) \in Nat BY <3>1, LenProperties, Zenon
      <3> QED BY <1>1, <3>2, <3>3
    <2>3. j \in Nat /\ 1 <= j /\ j <= Len(fatal) + 2 BY <2>2
    <2>4. CASE j <= Len(fatal)
      <3>1. j \in 1..Len(fatal) BY <2>2, <2>3, <2>4
      <3>2. (fatal \o ClosingEvents)[j] = fatal[j] BY <1>1, <2>1, <3>1, ConcatProperties
      <3> QED BY <2>1, <3>1, <3>2
    <2>5. CASE j > Len(fatal)
      <3>1. j - Len(fatal) \in 1..2 /\ j \in (Len(fatal) + 1)..(Len(fatal) + Len(ClosingEvents))
        BY <1>1, <2>2, <2>3, <2>5
      <3>2. (fatal \o ClosingEvents)[j] = ClosingEvents[j - Len(fatal)]
        BY <1>1, <2>1, <3>1, ConcatProperties
      <3> QED BY <1>2, <3>1, <3>2
    <2> QED BY <2>2, <2>3, <2>4, <2>5
  <1> QED BY <1>4, <1>5

LEMMA DispatchShifts ==
    ASSUME TypeOK, Dispatch
    PROVE  UNCHANGED events \/ (disp.at = "loop" /\ Shifts)
  <1>1. CASE ReadyCommitted \/ TakeEnvironment \/ Activate \/ disp.at = "abort"
    BY <1>1 DEF ReadyCommitted, TakeEnvironment, Activate, Dispatch, Defer, DeferFails, RelayError, IgnoreSemantic, RelayLifetime,
         SidebandClosed, InterruptResult, ShutdownStarted, Fatal, Ready,
         BootstrapFinished, CellStarted, InputEvent, BeginResolveR, BeginCallback, Complete,
         Suspend, Resume, TransportFailure, Retire, RelayClosed, TakeRelay, TakeEvent
  <1>2. CASE \E kinds : TakeEvent(kinds)
    <2>1. PICK kinds : TakeEvent(kinds) BY <1>2
    <2>2. CASE FromSpool BY <2>1, <2>2, Taken
    <2>3. CASE ~FromSpool BY <2>1, <2>3, Taken DEF Shifts
    <2> QED BY <2>2, <2>3
  <1> QED BY <1>1, <1>2
    DEF Dispatch, Defer, DeferFails, RelayError, IgnoreSemantic, RelayLifetime,
         SidebandClosed, InterruptResult, ShutdownStarted, Fatal, Ready,
         BootstrapFinished, CellStarted, InputEvent, BeginResolveR, BeginCallback, Complete,
         Suspend, Resume, TransportFailure, Retire, RelayClosed, TakeRelay

LEMMA WriterGrows ==
    ASSUME TypeOK, Writer
    PROVE  /\ Grows({"InterruptResult", "ShutdownStarted", "TransportFailure"})
           /\ WriteCommand => Grows({"InterruptResult", "ShutdownStarted"})
  <1>1. CASE WriteFails
    <2>1. Event("TransportFailure") \in EventRecord BY EventTypes
    <2>2. Grows({"TransportFailure"}) BY <1>1, <2>1, GrowsOne DEF WriteFails, Event
    <2>3. ~WriteCommand BY <1>1 DEF WriteFails, WriteCommand, Reading
    <2> QED BY <2>2, <2>3 DEF Grows
  <1>2. CASE WriteCommand
    <2>1. commands.queue # <<>> BY <1>2 DEF WriteCommand
    <2>2. CASE UNCHANGED events BY <2>2, GrowsNot
    <2>3. CASE ~UNCHANGED events
      <3>1. \/ events' = Append(events, [kind |-> "InterruptResult", n |-> 0, i |-> Head(commands.queue).i])
            \/ events' = Append(events, [kind |-> "ShutdownStarted", n |-> 0, i |-> NoCall])
        BY <1>2, <2>3 DEF WriteCommand, Post
      <3>2. /\ [kind |-> "InterruptResult", n |-> 0, i |-> Head(commands.queue).i] \in EventRecord
            /\ [kind |-> "ShutdownStarted", n |-> 0, i |-> NoCall] \in EventRecord
        BY <2>1, CommandTaken, EventTyped DEF Kinds, Lifetime
      <3>3. Grows({"InterruptResult", "ShutdownStarted"}) BY <3>1, <3>2, GrowsOne
      <3> QED BY <3>3 DEF Grows
    <2> QED BY <2>2, <2>3
  <1> QED BY <1>1, <1>2 DEF Writer

LEMMA ReaderGrows ==
    ASSUME TypeOK, Reader
    PROVE  Grows({"TransportFailure", "RelayClosed"})
  <1>1. CASE ReaderEnds
    <2>1. Event("RelayClosed") \in EventRecord BY EventTypes
    <2> QED BY <1>1, <2>1, GrowsOne DEF ReaderEnds, Event
  <1>2. CASE ReadFails
    <2>1. Event("TransportFailure") \in EventRecord /\ Event("RelayClosed") \in EventRecord
      BY EventTypes
    <2> QED BY <1>2, <2>1, GrowsPair DEF ReadFails, Event
  <1> QED BY <1>1, <1>2 DEF Reader

LEMMA AskGrows ==
    ASSUME TypeOK, AskStep
    PROVE  /\ Grows({"TransportFailure", "Retire"})
           /\ (~\E c \in Callers : StartRetire(c)) => Grows({"TransportFailure"})
  <1>0. Event("TransportFailure") \in EventRecord /\ Event("Retire") \in EventRecord BY EventTypes
  <1>1. CASE UNCHANGED events BY <1>1, GrowsNot
  <1>2. CASE events' = Append(events, Event("TransportFailure"))
    <2>1. Grows({"TransportFailure"}) BY <1>0, <1>2, GrowsOne DEF Event
    <2> QED BY <2>1 DEF Grows
  <1>3. CASE \E c \in Callers : StartRetire(c) /\ events' = Append(events, Event("Retire"))
    BY <1>0, <1>3, GrowsOne DEF Event
  <1> QED BY <1>1, <1>2, <1>3
    DEF AskStep, LifecycleRetire, RetireStep, RequestShutdown, ShutdownReceipt,
       ReportTransportFailure, StartRetire, BarrierReached, StopRelay, Reap, Terminate, JoinTasks

LEMMA HolderGrows ==
    ASSUME TypeOK, HolderStep
    PROVE  \/ UNCHANGED events
           \/ ReserveReplacement /\ events' = Append(events, Event("Suspend"))
           \/ /\ owner.reservation = "Replacing" /\ owner'.reservation = "None" /\ disp.at # "done"
              /\ events' = Append(events, Event("Resume"))
  <1>1. CASE UNCHANGED events \/ ReserveReplacement BY <1>1 DEF ReserveReplacement
  <1>2. CASE \E label \in OwnerLabels : DropReservation(label)
    BY <1>2, DropFields DEF DropReservation, DispatcherDone
  <1> QED BY <1>1, <1>2
    DEF HolderStep, OwnerStep, ReceiveStartup, OnReady, CommitReady, MarkReady, BeginCell,
        WaitForBootstrap, DispatchCell, AbortBootstrapCell, ReserveEnvironment,
        ReplacementReserved, LockEnvironment, BeginPreparation, SendPreparation, ReceiveResult,
        OwnerRetires, OwnerRetired, ResolveDeclaration, Admit, OwnerLabels

LEMMA SaidGrows ==
    ASSUME TypeOK, NEW kind \in Kinds, NEW kinds, kind \in kinds, Said(kind)
    PROVE  Grows(kinds)
  <1>1. CASE UNCHANGED events BY <1>1, GrowsNot
  <1>2. CASE ~UNCHANGED events
    <2>1. wk.n + 1 \in Nat BY DEF TypeOK, WorldRecord
    <2>2. [kind |-> kind, n |-> wk.n + 1, i |-> NoCall] \in EventRecord BY <2>1, EventTyped
    <2>4. events' = events \o <<[kind |-> kind, n |-> wk.n + 1, i |-> NoCall]>>
      BY <1>2 DEF Said, Emit
    <2> QED BY <2>2, <2>4, GrowsSingle
  <1> QED BY <1>1, <1>2

LEMMA WorldEmits ==
    ASSUME TypeOK, World, NEW kinds, Lifetime \subseteq kinds,
           Semantic \ {"ResolveR", "CellStarted", "Completed"} \subseteq kinds,
           wk.r => "ResolveR" \in kinds,
           StartsTodo /\ wk.todo = "Cell" => "CellStarted" \in kinds,
           FinishesTodo /\ wk.at = "Cell" => "Completed" \in kinds
    PROVE  Grows(kinds) /\ (~reader => UNCHANGED events)
  <1>0. ~reader => UNCHANGED events
    BY DEF World, WorkerStarts, Initializes, StartsTodo, FinishesTodo, CallsBack, AsksInput,
       CommandsEnd, RelayFinishes, RelayDies, TurnsDeaf, Said, Emit
  <1>1. CASE UNCHANGED events BY <1>0, <1>1, GrowsNot
  <1>2. CASE \E kind \in Semantic \cap kinds : Said(kind)
    BY <1>0, <1>2, SaidGrows DEF Kinds
  <1>3. CASE \E new \in Seq(EventRecord) : /\ \A k \in 1..Len(new) : new[k].kind \in kinds
                                          /\ events' = events \o new
    BY <1>0, <1>3, GrowsBy
  <1>4. CASE Initializes \/ StartsTodo \/ AsksInput
    BY <1>1, <1>2, <1>4
    DEF Initializes, StartsTodo, AsksInput, Semantic, Initialized, Inputs
  <1>f. CASE FinishesTodo
    <2>1. \/ wk.at = "Cell" /\ Said("Completed")
          \/ \E kind \in {"Prepared", "PreparationFailed"} : Said(kind)
      BY <1>f DEF FinishesTodo
    <2> QED BY <1>2, <1>f, <2>1 DEF Semantic, Results
  <1>c. CASE CallsBack
    BY <1>2, <1>c DEF CallsBack, Semantic, RuntimeCallbacks
  <1>5. CASE WorkerStarts
    <2>1. Event("WorkerStarted") \in EventRecord /\ [Event("Ready") EXCEPT !.n = 1] \in EventRecord
      BY EventTyped DEF Event, EventRecord, Kinds, Lifetime, Semantic
    <2>2. Event("WorkerStarted").kind \in kinds /\ [Event("Ready") EXCEPT !.n = 1].kind \in kinds
      BY DEF Event, Lifetime, Semantic
    <2> QED BY <1>1, <1>5, <2>1, <2>2, GrowsPair DEF WorkerStarts, Emit
  <1>6. CASE CommandsEnd
    <2>1. Event("PartialFrame") \in EventRecord BY ClosingTyped
    <2>2. Event("PartialFrame").kind \in kinds BY DEF Event, Lifetime
    <2> QED BY <1>1, <1>6, <2>1, <2>2, GrowsSingle DEF CommandsEnd, Emit
  <1>7. CASE RelayFinishes \/ RelayDies
    <2>1. \A new \in Seq(EventRecord) :
             (\A k \in 1..Len(new) : new[k].kind \in Lifetime) /\ Emit(new) => Grows(kinds)
      BY <1>1, <1>3 DEF Emit
    <2>2. CASE RelayDies
      <3>1. PICK k \in 0..1 : Emit(SubSeq(ClosingEvents, 1, k)) BY <2>2 DEF RelayDies
      <3> QED BY <1>0, <2>1, <3>1, ClosingTyped, ClosingKinds
    <2>3. CASE RelayFinishes
      <3>1. CASE Emit(ClosingEvents)
        <4>1. ClosingEvents = <<>> \o ClosingEvents BY ClosingTyped
        <4> QED BY <1>0, <2>1, <3>1, <4>1, ClosingTyped, ClosingKinds
      <3>2. CASE ~Emit(ClosingEvents)
        <4>1. PICK fatal \in {<<>>, <<Event("Fatal")>>} : Emit(fatal \o ClosingEvents)
          BY <2>3, <3>2 DEF RelayFinishes
        <4> QED BY <1>0, <2>1, <4>1, ClosingTyped, ClosingKinds
      <3> QED BY <3>1, <3>2
    <2> QED BY <1>7, <2>2, <2>3
  <1>8. CASE TurnsDeaf BY <1>1, <1>8 DEF TurnsDeaf
  <1> QED BY <1>4, <1>f, <1>c, <1>5, <1>6, <1>7, <1>8 DEF World

LEMMA WorldGrows ==
    ASSUME TypeOK, World
    PROVE  /\ Grows(Lifetime \cup Semantic)
           /\ ~wk.r => Grows((Lifetime \cup Semantic) \ {"ResolveR"})
           /\ ~reader => UNCHANGED events
  <1>1. /\ "ResolveR" \in Semantic /\ "ResolveR" \notin Lifetime
        /\ {"CellStarted", "Completed"} \subseteq Semantic \ {"ResolveR"}
    BY DEF Semantic, RuntimeCallbacks, Results, Lifetime
  <1> QED BY <1>1, WorldEmits

-----------------------------------------------------------------------------
(* The holder of the worker mutex: what it has reserved at each place.     *)
Reserves == {"prepare_env", "resolve", "begin_prepare", "send", "receive", "failed", "retire"}
HolderInv ==
    /\ owner.reservation # "None" => owner.at \in Reserves
    /\ owner.at \in {"begin", "bootstrap", "dispatch", "abort"} => owner.job = "Cell"
    /\ owner.at = "suspending" => owner.job = "Replace"
    /\ owner.at \in {"prepare_env", "resolve"} /\ owner.job = "Replace" =>
         owner.admitted = "Err" \/ owner.reservation = "Replacing"
    /\ owner.at = "resolve" => owner.admitted # "Err"
    /\ owner.at = "reserve" => owner.admitted = "None"
    /\ owner.job = "Replace" => Builtin /\ ~wk.r
    /\ env = "Owner" =>
         owner.at = "resolve" \/ (owner.at = "retire" /\ owner.reservation = "Replacing")

LEMMA HolderMoves ==
    ASSUME TypeOK, HolderInv, HolderStep
    PROVE  HolderInv'
  <1>0. owner \in OwnerRecord /\ wk' = wk BY HolderFrame DEF TypeOK
  <1>1. CASE \E label \in OwnerLabels : DropReservation(label) /\ label \in {"free", "ended"} /\ env' # "Owner"
    <2>1. owner'.at \in {"free", "ended"} /\ owner'.reservation = "None" /\ owner'.job = owner.job
      BY <1>1, DropFields
    <2> QED BY <1>0, <1>1, <2>1 DEF HolderInv
  <1>2. CASE ReceiveStartup \/ OnReady \/ CommitReady \/ MarkReady
    BY <1>0, <1>2 DEF ReceiveStartup, OnReady, CommitReady, MarkReady, FailStartup, Move, HolderInv,
       OwnerRecord, Reserves, others
  <1>3. CASE BeginCell \/ WaitForBootstrap \/ DispatchCell \/ AbortBootstrapCell
    BY <1>0, <1>3 DEF BeginCell, WaitForBootstrap, DispatchCell, AbortBootstrapCell, Move, HolderInv,
       OwnerRecord, Reserves, others
  <1>4. CASE ReserveEnvironment \/ ReserveReplacement
    BY <1>0, <1>4 DEF ReserveEnvironment, ReserveReplacement, Move, HolderInv, OwnerRecord, Reserves
  <1>5. CASE ReplacementReserved
    <2>1. /\ owner'.at = "prepare_env" /\ owner.at = "suspending" /\ owner'.job = owner.job
          /\ owner'.admitted = "Err" \/ owner'.reservation = "Replacing"
          /\ env' = env
      BY <1>0, <1>5 DEF ReplacementReserved, OwnerRecord
    <2> QED BY <1>0, <2>1 DEF HolderInv, Reserves
  <1>6. CASE LockEnvironment
    <2>1. \/ owner.at = "prepare_env" /\ owner.admitted = "Err" /\ Move("failed") /\ env' = env
          \/ DropReservation("free") /\ env' = "None"
          \/ owner.at = "prepare_env" /\ owner.admitted # "Err" /\ Move("resolve")
      BY <1>6 DEF LockEnvironment
    <2>2. CASE DropReservation("free") /\ env' = "None" BY <1>1, <2>2 DEF OwnerLabels
    <2> QED BY <1>0, <2>1, <2>2 DEF Move, HolderInv, OwnerRecord, Reserves
  <1>7. CASE ResolveDeclaration
    <2>1. CASE DropReservation("free") /\ env' = "None" BY <1>1, <2>1 DEF OwnerLabels
    <2>2. CASE ~(DropReservation("free") /\ env' = "None")
      BY <1>0, <1>7, <2>2 DEF ResolveDeclaration, Move, HolderInv, OwnerRecord, Reserves
    <2> QED BY <2>1, <2>2
  <1>8. CASE BeginPreparation \/ SendPreparation
    BY <1>0, <1>8 DEF BeginPreparation, SendPreparation, Move, HolderInv, OwnerRecord, Reserves
  <1>9. CASE ReceiveResult
    <2>0. owner.at = "receive" /\ env' = env BY <1>9 DEF ReceiveResult
    <2>1. CASE DropReservation("free") BY <1>1, <2>0, <2>1 DEF OwnerLabels, HolderInv
    <2>2. CASE Move("failed") BY <1>0, <2>0, <2>2 DEF Move, HolderInv, OwnerRecord, Reserves
    <2>3. CASE owner' = [owner EXCEPT !.at = "begin_prepare", !.job = "Prepare"]
      BY <1>0, <2>0, <2>3 DEF HolderInv, OwnerRecord, Reserves
    <2> QED BY <1>9, <2>1, <2>2, <2>3 DEF ReceiveResult
  <1>10. CASE OwnerRetires \/ OwnerRetired
    <2>1. CASE DropReservation("ended") /\ env' = (IF env = "Owner" THEN "None" ELSE env)
      BY <1>1, <2>1 DEF OwnerLabels
    <2>2. CASE Move("retire") /\ owner.at \in {"failed", "retire"} /\ env' = env
      BY <1>0, <2>2 DEF Move, HolderInv, OwnerRecord, Reserves
    <2> QED BY <1>10, <2>1, <2>2 DEF OwnerRetires, OwnerRetired
  <1>11. CASE \E job \in Jobs : Admit(job)
    <2>1. PICK job \in Jobs : Admit(job) BY <1>11
    <2>2. env' = env BY <2>1 DEF Admit
    <2> QED BY <1>0, <2>1, <2>2, AdmitFields DEF HolderInv, Reserves
  <1> QED BY <1>2, <1>3, <1>4, <1>5, <1>6, <1>7, <1>8, <1>9, <1>10, <1>11 DEF HolderStep, OwnerStep

-----------------------------------------------------------------------------
(* The suspension of bootstrap by a replacement: one barrier is queued     *)
(* while it is waited for; while the environment is held for a replacement *)
(* the dispatcher is not in a callback and will not leave the suspension.  *)
Held == owner.reservation = "Replacing" \/ (owner.at = "suspending" /\ owner.admitted = "Ok")

SpoolInv == \A k \in 1..Len(disp.deferred) : disp.deferred[k].kind \in Semantic
SuspendInv ==
    /\ disp.at # "done" =>
         \A k \in 1..Len(events) : events[k].kind = "Suspend" =>
            /\ owner.at = "suspending" /\ owner.admitted = "None"
            /\ \A j \in 1..Len(events) : events[j].kind \in {"Suspend", "Resume"} => j <= k
    /\ owner.at = "suspending" /\ owner.admitted = "None" /\ disp.at # "done" =>
         \E k \in 1..Len(events) : events[k].kind = "Suspend"
    /\ Held => disp.at \notin {"env", "resolving"}
    /\ Held /\ disp.at # "done" =>
         /\ \A k \in 1..Len(events) : events[k].kind # "Resume"
         /\ oper.suspended \/ disp.retiring

LEMMA SuspendGrows ==
    ASSUME TypeOK, TypeOK', SuspendInv, NEW kinds, Grows(kinds), "Suspend" \notin kinds, "Resume" \notin kinds,
           UNCHANGED <<disp.at, disp.retiring, oper.suspended>>,
           UNCHANGED <<owner.at, owner.admitted, owner.reservation>>
    PROVE  SuspendInv'
  <1>1. Len(events) \in Nat /\ Len(events') \in Nat /\ Len(events) <= Len(events') BY DEF TypeOK, Grows
  <1>2. \A k \in 1..Len(events) : k \in 1..Len(events') /\ events'[k] = events[k] BY <1>1 DEF Grows
  <1>3. \A k \in 1..Len(events') :
           events'[k].kind \in {"Suspend", "Resume"} => k \in 1..Len(events) /\ events'[k] = events[k]
    BY <1>1 DEF Grows
  <1>4. Held' <=> Held BY DEF Held
  <1> QED BY <1>2, <1>3, <1>4 DEF SuspendInv

LEMMA SuspendShifts ==
    ASSUME TypeOK, TypeOK', SuspendInv, UNCHANGED events \/ (Shifts /\ events[1].kind # "Suspend"),
           UNCHANGED <<owner.at, owner.admitted, owner.reservation>>,
           disp.at = "done" => disp'.at = "done",
           Held => /\ disp'.at \notin {"env", "resolving"}
                   /\ disp'.at # "done" => oper'.suspended \/ disp'.retiring
    PROVE  SuspendInv'
  <1>1. Held' <=> Held BY DEF Held
  <1>2. CASE UNCHANGED events BY <1>1, <1>2 DEF SuspendInv
  <1>3. CASE Shifts /\ events[1].kind # "Suspend"
    <2>1. /\ Len(events) \in Nat /\ Len(events') = Len(events) - 1
          /\ \A k \in 1..Len(events') : k + 1 \in 1..Len(events) /\ events'[k] = events[k + 1]
      BY <1>3 DEF Shifts, TypeOK
    <2>2. \A k \in 1..Len(events) : k = 1 \/ (k - 1 \in 1..Len(events') /\ events'[k - 1] = events[k])
      BY <2>1
    <2>3. ASSUME disp'.at # "done", NEW k \in 1..Len(events'), events'[k].kind = "Suspend"
          PROVE  /\ owner'.at = "suspending" /\ owner'.admitted = "None"
                 /\ \A j \in 1..Len(events') : events'[j].kind \in {"Suspend", "Resume"} => j <= k
      <3>1. /\ owner.at = "suspending" /\ owner.admitted = "None"
            /\ \A j \in 1..Len(events) : events[j].kind \in {"Suspend", "Resume"} => j <= k + 1
        BY <2>1, <2>3 DEF SuspendInv
      <3>2. \A j \in 1..Len(events') : events'[j].kind \in {"Suspend", "Resume"} => j + 1 <= k + 1
        BY <2>1, <3>1
      <3> QED BY <3>1, <3>2
    <2>4. owner'.at = "suspending" /\ owner'.admitted = "None" /\ disp'.at # "done" =>
             \E k \in 1..Len(events') : events'[k].kind = "Suspend"
      BY <1>3, <2>2 DEF SuspendInv
    <2>5. Held' /\ disp'.at # "done" => \A k \in 1..Len(events') : events'[k].kind # "Resume"
      BY <1>1, <2>1 DEF SuspendInv
    <2> QED BY <1>1, <2>3, <2>4, <2>5 DEF SuspendInv
  <1> QED BY <1>2, <1>3

(* What the dispatcher takes, and what it keeps of a suspension.           *)
LEMMA DispatchTakes ==
    ASSUME TypeOK, Dispatch, ~Suspend, SpoolInv
    PROVE  UNCHANGED events \/ (Shifts /\ events[1].kind # "Suspend")
  <1>1. CASE ReadyCommitted \/ TakeEnvironment \/ Activate \/ disp.at = "abort" \/ UNCHANGED events
    BY <1>1, DispatchShifts
    DEF ReadyCommitted, TakeEnvironment, Activate
  <1>2. CASE \E kinds : TakeEvent(kinds) /\ "Suspend" \notin kinds
    <2>1. PICK kinds : TakeEvent(kinds) /\ "Suspend" \notin kinds BY <1>2
    <2>2. CASE FromSpool BY <2>1, <2>2, Taken
    <2>3. CASE ~FromSpool BY <2>1, <2>3, Taken DEF Shifts
    <2> QED BY <2>2, <2>3
  <1>3. "Suspend" \notin Semantic \cup Lifetime \cup Initialized \cup Inputs \cup Results \cup CallbackEvents
    BY DEF Semantic, Lifetime, Initialized, Inputs, Results, CallbackEvents, RuntimeCallbacks
  <1>4. CASE RelayClosed
    <2>1. CASE TakeEvent({"RelayClosed"}) BY <1>2, <2>1
    <2> QED BY <1>1, <1>4, <2>1 DEF RelayClosed
  <1> QED BY <1>1, <1>2, <1>3, <1>4
    DEF Dispatch, Defer, DeferFails, RelayError, IgnoreSemantic, RelayLifetime,
         SidebandClosed, InterruptResult, ShutdownStarted, Fatal, Ready,
         BootstrapFinished, CellStarted, InputEvent, BeginResolveR, BeginCallback, Complete,
         Resume, TransportFailure, Retire, TakeRelay

(* Flags of the dispatcher that stay once they are set, and the suspension *)
(* that only a Resume or the retirement of the operation ends.             *)
Steady ==
    /\ disp.retiring => disp'.retiring
    /\ disp.semantic => disp'.semantic
    /\ disp.closed => disp'.closed
    /\ oper.suspended => oper'.suspended \/ disp'.retiring
    /\ disp'.at \in {"env", "resolving"} =>
         disp.at = "env" \/ BeginResolveR \/ BeginCallback

LEMMA SteadyFails ==
    ASSUME TypeOK, NEW d \in DispRecord, NEW cause \in Causes, FailDispatch(d, cause),
           d.retiring = disp.retiring, d.closed = disp.closed
    PROVE  Steady
  <1>1. /\ disp'.semantic /\ disp'.at = "loop" /\ disp'.retiring = d.retiring
        /\ disp'.closed = d.closed
    BY DEF FailDispatch, DispRecord
  <1>2. oper'.suspended = oper.suspended BY FailedFields DEF FailDispatch
  <1> QED BY <1>1, <1>2 DEF Steady

LEMMA SteadyDispatch ==
    ASSUME TypeOK, Dispatch, ~Resume
    PROVE  Steady
  <1>d. disp \in DispRecord /\ oper \in OperRecord BY DEF TypeOK
  <1>f. {"Protocol", "Result", "Transport", "Sideband", "Fatal", "RelayExit"} \subseteq Causes BY DEF Causes
  <1>1. CASE \E d \in DispRecord, cause \in Causes :
                FailDispatch(d, cause) /\ d.retiring = disp.retiring /\ d.closed = disp.closed
    BY <1>1, SteadyFails
  <1>2. CASE DeferFails \/ RelayError
    <2>1. /\ [disp EXCEPT !.deferred = <<>>] \in DispRecord
          /\ [disp EXCEPT !.deferred = <<>>].closed = disp.closed
          /\ [disp EXCEPT !.deferred = <<>>].retiring = disp.retiring
      BY <1>d, EmptyQueue DEF DispRecord
    <2> QED BY <1>1, <1>2, <1>f, <2>1, PoppedFields DEF DeferFails, RelayError, TakeRelay
  <1>3. CASE SidebandClosed
    <2>1. /\ [Popped EXCEPT !.sideband = TRUE] \in DispRecord
          /\ [Popped EXCEPT !.sideband = TRUE].closed = disp.closed
          /\ [Popped EXCEPT !.sideband = TRUE].semantic = disp.semantic
          /\ [Popped EXCEPT !.sideband = TRUE].retiring = disp.retiring
          /\ [Popped EXCEPT !.sideband = TRUE].at = "loop"
      BY <1>3, PoppedFields DEF SidebandClosed, TakeRelay, DispRecord
    <2> QED BY <1>1, <1>3, <1>f, <2>1 DEF SidebandClosed, Steady, operation
  <1>4. CASE Fatal
    <2>1. /\ [Popped EXCEPT !.fatal = TRUE] \in DispRecord
          /\ [Popped EXCEPT !.fatal = TRUE].closed = disp.closed
          /\ [Popped EXCEPT !.fatal = TRUE].retiring = disp.retiring
      BY <1>4, PoppedFields DEF Fatal, TakeRelay, DispRecord
    <2> QED BY <1>1, <1>4, <1>f, <2>1, FatalFields DEF Fatal, Steady, operation
  <1>5. CASE TransportFailure
    BY <1>1, <1>5, <1>f, PoppedFields DEF TransportFailure, Steady, operation
  <1>6. CASE ReadyCommitted
    BY <1>1, <1>d, <1>6, <1>f DEF ReadyCommitted, Steady, DispRecord, operation
  <1>7. CASE BeginResolveR \/ BeginCallback
    <2>1. Popped \in DispRecord /\ NextEvent \in EventRecord
      BY <1>7, PoppedFields, Taken DEF BeginResolveR, BeginCallback, TakeRelay
    <2>2. /\ Popped.retiring = disp.retiring /\ Popped.closed = disp.closed
          /\ Popped.semantic = disp.semantic /\ Popped.at = "loop"
      BY <1>7, PoppedFields DEF BeginResolveR, BeginCallback, TakeRelay
    <2>3. /\ InCallback.retiring = disp.retiring /\ InCallback.closed = disp.closed
          /\ InCallback.semantic = disp.semantic
      BY <2>1, <2>2 DEF InCallback, DispRecord
    <2>4. oper' = oper \/ oper' = [oper EXCEPT !.callback = "Resolving"]
          \/ FailDispatch(Popped, "Transport")
      BY <1>7 DEF BeginResolveR, BeginCallback, operation
    <2>5. disp' = InCallback \/ disp' = Popped \/ FailDispatch(Popped, "Transport")
      BY <1>7 DEF BeginResolveR, BeginCallback
    <2> QED BY <1>1, <1>d, <1>7, <1>f, <2>1, <2>2, <2>3, <2>4, <2>5 DEF Steady, OperRecord
  <1>8. CASE Activate \/ TakeEnvironment \/ Defer
    BY <1>1, <1>d, <1>8, <1>f
    DEF Activate, TakeEnvironment, Defer, Steady, DispRecord, OperRecord, operation, TakeEvent
  <1>9. CASE Ready
    <2>1. /\ disp'.at = "ready" /\ disp'.retiring = disp.retiring /\ disp'.closed = disp.closed
          /\ disp'.semantic = disp.semantic
      BY <1>9, PoppedFields DEF Ready, TakeRelay, DispRecord
    <2>2. oper' = oper BY <1>9 DEF Ready
    <2> QED BY <2>1, <2>2 DEF Steady
  <1>10. CASE RelayLifetime \/ ShutdownStarted
    <2>1. /\ disp'.at = "loop" /\ disp'.retiring = disp.retiring /\ disp'.closed = disp.closed
          /\ disp'.semantic = disp.semantic
      BY <1>10, PoppedFields, Taken DEF RelayLifetime, ShutdownStarted, TakeRelay, DispRecord
    <2>2. oper' = oper BY <1>10 DEF RelayLifetime, ShutdownStarted, operation
    <2> QED BY <2>1, <2>2 DEF Steady
  <1>11. CASE IgnoreSemantic \/ InterruptResult \/ CellStarted \/ BootstrapFinished
              \/ Suspend
    <2>1. oper'.suspended = oper.suspended \/ (Suspend /\ oper'.suspended)
      BY <1>d, <1>11 DEF IgnoreSemantic, InterruptResult, CellStarted, BootstrapFinished, Suspend,
         OperRecord, operation
    <2> QED BY <1>11, <2>1, PoppedFields
        DEF IgnoreSemantic, InterruptResult, CellStarted, BootstrapFinished, Suspend, TakeRelay, Steady
  <1>12. CASE InputEvent \/ Complete
    BY <1>12, PoppedFields, InputFields, CompletedFields DEF InputEvent, Complete, TakeRelay, Steady
  <1>13. CASE Retire BY <1>d, <1>13 DEF Retire, Steady, DispRecord
  <1>14. CASE RelayClosed
    <2>1. CASE disp.at = "abort"
      BY <1>d, <1>14, <2>1 DEF RelayClosed, TakeEvent, AfterClose, Steady, DispRecord
    <2>2. CASE disp.at # "abort"
      <3>1. /\ disp'.at = "abort" /\ disp'.closed /\ disp'.retiring = disp.retiring
            /\ disp.semantic => disp'.semantic
        BY <1>14, <2>2, ClosedFields
      <3>2. oper'.suspended = oper.suspended
        BY <1>f, <1>14, <2>2, FailedFields DEF RelayClosed, RecordExit, operation
      <3> QED BY <3>1, <3>2 DEF Steady
    <2> QED BY <2>1, <2>2
  <1> QED BY <1>2, <1>3, <1>4, <1>5, <1>6, <1>7, <1>8, <1>9, <1>10, <1>11, <1>12, <1>13, <1>14
          DEF Dispatch

(* No callback begins under a suspension: it is deferred, or ignored.      *)
LEMMA NoCallbackSuspended ==
    ASSUME TypeOK, BeginResolveR \/ BeginCallback
    PROVE  ~oper.suspended /\ ~disp.retiring /\ ~disp.semantic
  <1>1. NextEvent.kind \in RuntimeCallbacks /\ NextEvent.kind \in Semantic
    BY Taken DEF BeginResolveR, BeginCallback, TakeRelay, CallbackEvents, RuntimeCallbacks, Semantic
  <1>2. ~Ignored(NextEvent) /\ ~Deferred(NextEvent)
    BY <1>1 DEF BeginResolveR, BeginCallback, Acceptable, TakeRelay
  <1>3. NextEvent.kind \in IgnoredDuringRetirement /\ NextEvent.kind \in BootstrapCallback
    BY <1>1 DEF IgnoredDuringRetirement, BootstrapCallback
  <1> QED BY <1>2, <1>3 DEF Ignored, Deferred

SpoolShifts ==
    /\ disp.deferred # <<>> /\ Len(disp'.deferred) = Len(disp.deferred) - 1
    /\ \A k \in 1..Len(disp'.deferred) : disp'.deferred[k] = disp.deferred[k + 1]

(* What happens to the two queues: nothing, or the first event of one of   *)
(* them is taken, which either takes effect or joins the spool, unless the *)
(* spool is dropped.                                                       *)
LEMMA QueueMoves ==
    ASSUME TypeOK, Dispatch \/ Resolve
    PROVE  \/ UNCHANGED <<events, disp.deferred>>
           \/ disp.at = "loop" /\ FromSpool /\ UNCHANGED events /\ SpoolShifts
           \/ disp.at = "loop" /\ ~FromSpool /\ Shifts /\ UNCHANGED disp.deferred
           \/ /\ Defer /\ disp.at = "loop" /\ Shifts /\ events[1].kind \in Semantic
              /\ disp'.deferred = Append(disp.deferred, events[1])
           \/ /\ DeferFails \/ Retire
              /\ disp.at = "loop" /\ (UNCHANGED events \/ Shifts) /\ disp'.deferred = <<>>
  <1>d. disp \in DispRecord /\ disp.deferred \in Seq(EventRecord) BY DEF TypeOK, DispRecord
  <1>0. CASE UNCHANGED <<events, disp.deferred>> BY <1>0
  <1>p. ASSUME NEW kinds, TakeEvent(kinds), disp'.deferred = Popped.deferred
        PROVE  \/ disp.at = "loop" /\ FromSpool /\ UNCHANGED events /\ SpoolShifts
               \/ disp.at = "loop" /\ ~FromSpool /\ Shifts /\ UNCHANGED disp.deferred
    BY <1>p, Taken DEF Shifts, SpoolShifts
  <1>2. CASE Defer
    <2>1. ~FromSpool BY <1>2 DEF Defer, Deferred, FromSpool
    <2>2. NextEvent = events[1] /\ NextEvent.kind \in Semantic /\ Shifts /\ disp.at = "loop"
      BY <1>2, <2>1, Taken DEF Defer, Shifts
    <2>3. disp'.deferred = Append(disp.deferred, NextEvent) BY <1>d, <1>2 DEF Defer, DispRecord
    <2> QED BY <1>2, <2>2, <2>3
  <1>3. CASE DeferFails \/ Retire
    <2>1. disp'.deferred = <<>> BY <1>d, <1>3 DEF DeferFails, Retire, FailDispatch, DispRecord
    <2>2. disp.at = "loop" /\ (UNCHANGED events \/ Shifts)
      BY <1>3, Taken DEF DeferFails, Retire, Shifts
    <2> QED BY <1>3, <2>1, <2>2
  <1>4. CASE ReadyCommitted \/ TakeEnvironment \/ Activate \/ Resolve
    BY <1>d, <1>0, <1>4 DEF ReadyCommitted, TakeEnvironment, Activate, Resolve, ReplyTo, FailDispatch,
       DispRecord
  <1>5. CASE RelayClosed
    <2>1. CASE disp.at = "abort" BY <1>d, <1>0, <1>5, <2>1 DEF RelayClosed, TakeEvent, DispRecord
    <2>2. CASE disp.at # "abort"
      <3>1. TakeEvent({"RelayClosed"}) /\ RecordExit([Popped EXCEPT !.closed = TRUE, !.at = "abort"])
        BY <1>5, <2>2 DEF RelayClosed
      <3>2. Popped \in DispRecord BY <3>1, PoppedFields
      <3> QED BY <1>p, <3>1, <3>2 DEF RecordExit, DispRecord
    <2> QED BY <2>1, <2>2
  <1>6. CASE Fatal
    <2>1. TakeEvent({"Fatal", "PartialFrame"}) BY <1>6 DEF Fatal, TakeRelay
    <2>2. Popped \in DispRecord BY <2>1, PoppedFields
    <2>3. disp.retiring => disp'.deferred = Popped.deferred BY <1>6, FatalFields
    <2>4. ~disp.retiring => disp'.deferred = Popped.deferred
      BY <1>6, <2>2 DEF Fatal, FailDispatch, DispRecord
    <2> QED BY <1>p, <2>1, <2>3, <2>4
  <1>7. CASE \E kinds : /\ TakeEvent(kinds)
                        /\ \/ disp' = Popped \/ \E cause : FailDispatch(Popped, cause)
                           \/ disp' = [Popped EXCEPT !.at = "ready", !.startup = FALSE]
                           \/ disp' = InCallback \/ disp' = [Popped EXCEPT !.acquired = TRUE]
                           \/ disp' = [Popped EXCEPT !.outcome = TRUE]
                           \/ disp' = [Popped EXCEPT !.intentional = TRUE]
                           \/ disp' = [Popped EXCEPT !.sideband = TRUE]
                           \/ \E cause : FailDispatch([Popped EXCEPT !.sideband = TRUE], cause)
    <2>1. PICK kinds : TakeEvent(kinds) BY <1>7
    <2>2. Popped \in DispRecord BY <2>1, PoppedFields
    <2>3. disp'.deferred = Popped.deferred BY <1>7, <2>2 DEF FailDispatch, InCallback, DispRecord
    <2> QED BY <1>p, <2>1, <2>3
  <1>8. CASE RelayError \/ IgnoreSemantic \/ SidebandClosed \/ InterruptResult
             \/ ShutdownStarted \/ Ready \/ BootstrapFinished \/ CellStarted \/ InputEvent
    BY <1>7, <1>8 DEF RelayError, IgnoreSemantic, SidebandClosed, InterruptResult,
       ShutdownStarted, Ready, BootstrapFinished, CellStarted, InputEvent, TakeRelay
  <1>9. CASE BeginResolveR \/ BeginCallback \/ Complete \/ Suspend \/ Resume \/ TransportFailure
    BY <1>7, <1>9 DEF BeginResolveR, BeginCallback, Complete, Suspend, Resume, TransportFailure, TakeRelay
  <1>10. CASE RelayLifetime
    <2>1. NextEvent.kind \in {"WorkerStarted", "Outcome"} BY <1>10, Taken DEF RelayLifetime, TakeRelay
    <2> QED BY <1>7, <1>10, <2>1 DEF RelayLifetime, TakeRelay
  <1> QED BY <1>2, <1>3, <1>4, <1>5, <1>6, <1>8, <1>9, <1>10 DEF Dispatch

LEMMA SpoolFrame ==
    ASSUME TypeOK, [Next]_vars, ~Dispatch, ~Resolve
    PROVE  UNCHANGED disp
  BY StepCases, WriterFrame, ReaderFrame, HolderFrame, InterruptFrame, AskFrame,
     TickFrame, WorldFrame DEF vars

(* What the spool then holds was in it or at the head of the queue.        *)
LEMMA SpoolElements ==
    ASSUME TypeOK, [Next]_vars, NEW k \in 1..Len(disp'.deferred)
    PROVE  \/ \E j \in 1..Len(disp.deferred) : disp'.deferred[k] = disp.deferred[j]
           \/ /\ 1 \in 1..Len(events) /\ disp'.deferred[k] = events[1]
              /\ disp'.deferred[k].kind \in Semantic
  <1>d. disp.deferred \in Seq(EventRecord) /\ events \in Seq(EventRecord) BY DEF TypeOK, DispRecord
  <1>0. CASE UNCHANGED disp.deferred BY <1>0
  <1>1. CASE disp'.deferred = <<>> BY <1>1, EmptyQueue
  <1>2. CASE SpoolShifts
    <2>1. k + 1 \in 1..Len(disp.deferred) /\ disp'.deferred[k] = disp.deferred[k + 1]
      BY <1>d, <1>2 DEF SpoolShifts
    <2> QED BY <2>1
  <1>3. CASE Shifts /\ events[1].kind \in Semantic /\ disp'.deferred = Append(disp.deferred, events[1])
    <2>1. 1 \in 1..Len(events) /\ events[1] \in EventRecord BY <1>d, <1>3 DEF Shifts
    <2>2. k \in 1..Len(disp.deferred) \/ k = Len(disp.deferred) + 1 BY <1>d, <1>3, <2>1, Appended
    <2> QED BY <1>d, <1>3, <2>1, <2>2, Appended
  <1> QED BY <1>0, <1>1, <1>2, <1>3, QueueMoves, SpoolFrame

LEMMA SpoolStep ==
    ASSUME TypeOK, SpoolInv, [Next]_vars
    PROVE  SpoolInv'
  BY SpoolElements DEF SpoolInv

(* The barrier of a replacement is at the head of the queue when it takes  *)
(* effect, and the holder waits for it.                                    *)
LEMMA SuspendFields ==
    ASSUME TypeOK, SpoolInv, SuspendInv, Suspend
    PROVE  /\ disp.at = "loop" /\ disp' = disp /\ Shifts /\ events[1].kind = "Suspend"
           /\ owner.at = "suspending" /\ owner.admitted = "None"
           /\ UNCHANGED <<owner.at, owner.job, owner.reservation, env>>
           /\ owner'.admitted \in {"Ok", "Err"}
           /\ owner'.admitted = "Ok" =>
                /\ EnsureAvailable /\ oper'.suspended /\ oper.failure = oper'.failure
                /\ UNCHANGED <<oper.kind, oper.callback, oper.retiring>>
           /\ owner'.admitted # "Ok" => UNCHANGED oper
  <1>1. ~FromSpool
    <2>1. SUFFICES ASSUME FromSpool PROVE FALSE OBVIOUS
    <2>2. NextEvent = disp.deferred[1] /\ disp.deferred # <<>> /\ NextEvent.kind = "Suspend"
      BY <2>1, Taken DEF Suspend
    <2>3. 1 \in 1..Len(disp.deferred) BY <2>2 DEF TypeOK, DispRecord
    <2>4. "Suspend" \notin Semantic
      BY DEF Semantic, RuntimeCallbacks, Initialized, Inputs, Results
    <2> QED BY <2>2, <2>3, <2>4 DEF SpoolInv
  <1>2. /\ disp.at = "loop" /\ disp' = disp /\ Shifts /\ events[1].kind = "Suspend"
    BY <1>1, Taken DEF Suspend, Shifts
  <1>3. 1 \in 1..Len(events) BY <1>2 DEF Shifts, TypeOK
  <1>4. owner.at = "suspending" /\ owner.admitted = "None" BY <1>2, <1>3 DEF SuspendInv
  <1> DEFINE admitted == EnsureAvailable /\ oper.bootstrap # "Disabled" /\ ~oper.reserved
  <1>5. /\ oper' = IF admitted THEN [oper EXCEPT !.reserved = TRUE, !.suspended = TRUE] ELSE oper
        /\ owner' = [owner EXCEPT !.admitted = IF admitted THEN "Ok" ELSE "Err"]
        /\ env' = env
    BY DEF Suspend
  <1>6. admitted => EnsureAvailable OBVIOUS
  <1> HIDE DEF admitted
  <1> QED BY <1>2, <1>4, <1>5, <1>6 DEF TypeOK, OwnerRecord, OperRecord

LEMMA HolderKept ==
    ASSUME TypeOK, HolderInv, SpoolInv, SuspendInv, [Next]_vars
    PROVE  HolderInv'
  <1>1. CASE HolderStep BY <1>1, HolderMoves
  <1>2. CASE Suspend
    <2>1. wk'.r = wk.r BY <1>2, DispatchFrame DEF Dispatch
    <2> QED BY <1>2, <2>1, SuspendFields DEF HolderInv
  <1>3. CASE Dispatch /\ ~Suspend
    <2>1. UNCHANGED <<owner, wk.r>> /\ (env' = env \/ env' = "Dispatcher")
      BY <1>3, DispatchFrame DEF Dispatch, Defer, DeferFails, RelayError, IgnoreSemantic, RelayLifetime,
         SidebandClosed, InterruptResult, ShutdownStarted, Fatal, Ready, ReadyCommitted,
         BootstrapFinished, CellStarted, InputEvent, BeginResolveR, BeginCallback, TakeEnvironment,
         Activate, Complete, Resume, TransportFailure, Retire, RelayClosed, others
    <2> QED BY <2>1 DEF HolderInv
  <1>4. CASE Resolve
    <2>1. UNCHANGED <<owner, wk.r>> /\ (env' = env \/ env' = "None")
      BY <1>4, ResolveFrame DEF Resolve
    <2> QED BY <2>1 DEF HolderInv
  <1>5. CASE ~(HolderStep \/ Dispatch \/ Resolve)
    <2>1. UNCHANGED <<owner, env, wk.r>>
      BY <1>5, StepCases, WriterFrame, ReaderFrame, InterruptFrame, AskFrame, TickFrame, WorldFrame
      DEF vars, others
    <2> QED BY <2>1 DEF HolderInv
  <1> QED BY <1>1, <1>2, <1>3, <1>4, <1>5

(* What the holder's steps do to a replacement's hold.                     *)
LEMMA HoldsKept ==
    ASSUME TypeOK, HolderInv, HolderStep
    PROVE  \/ ReserveReplacement /\ ~DispatcherDone
           \/ Held' /\ Held /\ UNCHANGED <<events, oper.suspended>>
              /\ ~(owner'.at = "suspending" /\ owner'.admitted = "None")
           \/ ~Held' /\ ~(owner'.at = "suspending" /\ owner'.admitted = "None")
              /\ (owner.at = "suspending" /\ owner.admitted = "None" => disp.at = "done")
  <1>0. owner \in OwnerRecord /\ oper \in OperRecord BY DEF TypeOK
  <1>1. CASE \E label \in OwnerLabels \ {"suspending"} : DropReservation(label)
    <2>0. PICK label \in OwnerLabels \ {"suspending"} : DropReservation(label) BY <1>1
    <2>1. owner'.at # "suspending" /\ owner'.reservation = "None" BY <2>0, DropFields
    <2>2. owner.at = "suspending" /\ owner.admitted = "None" => disp.at = "done"
      BY <1>0, <2>1 DEF HolderStep, OwnerStep, ReceiveStartup, OnReady, CommitReady, MarkReady, BeginCell,
        WaitForBootstrap, DispatchCell, AbortBootstrapCell, ReserveEnvironment, ReserveReplacement,
        ReplacementReserved, LockEnvironment, BeginPreparation, SendPreparation, ReceiveResult,
        OwnerRetires, OwnerRetired, ResolveDeclaration, Admit, OwnerRecord, DispatcherDone
    <2> QED BY <2>1, <2>2 DEF Held
  <1>2. CASE ReceiveStartup \/ OnReady \/ CommitReady \/ MarkReady \/ BeginCell \/ WaitForBootstrap
             \/ DispatchCell \/ AbortBootstrapCell
    <2>1. /\ owner.at \in {"starting", "on_ready", "commit", "mark", "begin", "bootstrap", "dispatch", "abort"}
          /\ owner'.at \in OwnerLabels \ {"suspending"} /\ owner'.reservation = owner.reservation
      BY <1>0, <1>2 DEF ReceiveStartup, OnReady, CommitReady, MarkReady, BeginCell, WaitForBootstrap,
         DispatchCell, AbortBootstrapCell, FailStartup, Move, OwnerRecord, OwnerLabels
    <2> QED BY <2>1 DEF Held, HolderInv, Reserves
  <1>3. CASE ReserveEnvironment \/ ReserveReplacement
    <2>1. owner.at = "reserve" BY <1>3 DEF ReserveEnvironment, ReserveReplacement
    <2>2. \/ ReserveReplacement /\ ~DispatcherDone
          \/ owner'.at # "suspending" /\ owner'.reservation \in {owner.reservation, "Live"}
      BY <1>0, <1>3 DEF ReserveEnvironment, ReserveReplacement, Move, OwnerRecord
    <2> QED BY <2>1, <2>2 DEF Held, HolderInv, Reserves
  <1>4. CASE ReplacementReserved
    <2>1. /\ owner.at = "suspending" /\ (owner.admitted # "None" \/ disp.at = "done")
          /\ owner'.at = "prepare_env" /\ (owner'.reservation = "Replacing" <=> owner.admitted = "Ok")
          /\ UNCHANGED <<events, oper>>
      BY <1>0, <1>4 DEF ReplacementReserved, OwnerRecord, operation, DispatcherDone
    <2> QED BY <2>1 DEF Held
  <1>5. CASE LockEnvironment \/ ResolveDeclaration \/ OwnerRetires \/ OwnerRetired
    <2>1. \/ \E label \in OwnerLabels \ {"suspending"} : DropReservation(label)
          \/ \E label \in OwnerLabels \ {"suspending"} : Move(label) /\ UNCHANGED <<events, oper>>
      BY <1>5 DEF LockEnvironment, ResolveDeclaration, OwnerRetires, OwnerRetired, OwnerLabels
    <2>2. owner.at # "suspending"
      BY <1>5 DEF LockEnvironment, ResolveDeclaration, OwnerRetires, OwnerRetired
    <2>3. CASE \E label \in OwnerLabels \ {"suspending"} : Move(label) /\ UNCHANGED <<events, oper>>
      <3>1. owner'.at # "suspending" /\ owner'.reservation = owner.reservation
        BY <1>0, <2>3 DEF Move, OwnerRecord
      <3> QED BY <2>2, <2>3, <3>1 DEF Held
    <2> QED BY <1>1, <2>1, <2>3
  <1>6. CASE BeginPreparation \/ SendPreparation
    <2>1. /\ owner.at \in {"begin_prepare", "send"} /\ owner'.at # "suspending"
          /\ owner'.reservation = owner.reservation /\ UNCHANGED events
      BY <1>0, <1>6 DEF BeginPreparation, SendPreparation, Move, OwnerRecord
    <2>2. oper'.suspended = oper.suspended
      BY <1>6, PreparingFields DEF SendPreparation, operation
    <2> QED BY <2>1, <2>2 DEF Held
  <1>7. CASE ReceiveResult
    <2>1. owner.at = "receive" /\ (\/ DropReservation("free")
                                   \/ /\ owner'.at # "suspending" /\ owner'.reservation = owner.reservation
                                      /\ UNCHANGED <<events, oper>>)
      BY <1>0, <1>7 DEF ReceiveResult, Move, OwnerRecord
    <2> QED BY <1>1, <2>1 DEF Held, OwnerLabels
  <1>8. CASE \E job \in Jobs : Admit(job)
    <2>1. PICK job \in Jobs : Admit(job) BY <1>8
    <2> QED BY <2>1, AdmitFields DEF Held, HolderInv, Reserves
  <1> QED BY <1>2, <1>3, <1>4, <1>5, <1>6, <1>7, <1>8 DEF HolderStep, OwnerStep

LEMMA SuspendHolder ==
    ASSUME TypeOK, TypeOK', HolderInv, SuspendInv, HolderStep
    PROVE  SuspendInv'
  <1>0. disp' = disp BY HolderFrame
  <1>e. /\ Len(events) \in Nat BY DEF TypeOK
  <1>n. (\A k \in 1..Len(events) : events[k].kind # "Suspend") \/ disp.at = "done"
          \/ (owner.at = "suspending" /\ owner.admitted = "None")
    BY DEF SuspendInv
  <1>1. CASE ReserveReplacement /\ ~DispatcherDone
    <2>1. /\ owner.at = "reserve" /\ events' = Append(events, Event("Suspend")) /\ owner'.at = "suspending"
          /\ owner'.admitted = owner.admitted /\ owner'.reservation = owner.reservation
      BY <1>1 DEF ReserveReplacement, Move, TypeOK, OwnerRecord, DispatcherDone
    <2>2. owner.admitted = "None" /\ ~Held' /\ disp.at # "done"
      BY <1>1, <2>1 DEF HolderInv, Held, Reserves, DispatcherDone
    <2>3. /\ Len(events') = Len(events) + 1 /\ events'[Len(events) + 1].kind = "Suspend"
          /\ \A k \in 1..Len(events) : events'[k] = events[k]
      BY <2>1, EventTypes, Appended DEF TypeOK, Event
    <2>4. \A k \in 1..Len(events) : events[k].kind # "Suspend" BY <1>n, <2>1, <2>2
    <2>5. \A k \in 1..Len(events') : events'[k].kind = "Suspend" => k = Len(events')
      BY <1>e, <2>3, <2>4
    <2>6. \A j, k \in 1..Len(events') : events'[k].kind = "Suspend" => j <= k BY <1>e, <2>3, <2>5
    <2>7. Len(events') \in 1..Len(events') BY <1>e, <2>3
    <2> QED BY <2>1, <2>2, <2>3, <2>6, <2>7 DEF SuspendInv
  <1>2. CASE ~(ReserveReplacement /\ ~DispatcherDone)
    <2>1. CASE disp.at = "done" BY <1>0, <2>1 DEF SuspendInv
    <2>2. CASE disp.at # "done" /\ Held' /\ Held /\ UNCHANGED <<events, oper.suspended>>
               /\ ~(owner'.at = "suspending" /\ owner'.admitted = "None")
      <3>1. ~(owner.at = "suspending" /\ owner.admitted = "None")
        BY <2>2 DEF Held, HolderInv, Reserves
      <3> QED BY <1>0, <1>n, <2>2, <3>1 DEF SuspendInv
    <2>3. CASE disp.at # "done" /\ ~Held' /\ ~(owner'.at = "suspending" /\ owner'.admitted = "None")
              /\ ~(owner.at = "suspending" /\ owner.admitted = "None")
      <3>1. \A k \in 1..Len(events) : events[k].kind # "Suspend" BY <1>n, <2>3
      <3>2. UNCHANGED events \/ events' = Append(events, Event("Resume"))
        BY <1>2, HolderGrows DEF ReserveReplacement, DispatcherDone
      <3>3. \A k \in 1..Len(events') : events'[k].kind # "Suspend"
        <4>1. CASE UNCHANGED events BY <3>1, <4>1
        <4>2. CASE events' = Append(events, Event("Resume"))
          <5>1. /\ Len(events') = Len(events) + 1 /\ events'[Len(events) + 1].kind = "Resume"
                /\ \A k \in 1..Len(events) : events'[k] = events[k]
            BY <4>2, EventTypes, Appended DEF TypeOK, Event
          <5>2. \A k \in 1..Len(events') : k \in 1..Len(events) \/ k = Len(events) + 1 BY <1>e, <5>1
          <5> QED BY <3>1, <5>1, <5>2
        <4> QED BY <3>2, <4>1, <4>2
      <3> QED BY <1>0, <2>3, <3>3 DEF SuspendInv
    <2> QED BY <1>2, <2>1, <2>2, <2>3, HoldsKept
  <1> QED BY <1>1, <1>2

LEMMA SuspendDispatch ==
    ASSUME TypeOK, TypeOK', SpoolInv, SuspendInv, Dispatch \/ Resolve
    PROVE  SuspendInv'
  <1>h. UNCHANGED <<owner.at, owner.reservation>> BY DispatchFrame, ResolveFrame DEF Holding
  <1>a. ~Suspend => UNCHANGED owner.admitted
    BY DEF Dispatch, Resolve, Defer, DeferFails, RelayError, IgnoreSemantic, RelayLifetime,
         SidebandClosed, InterruptResult, ShutdownStarted, Fatal, Ready, ReadyCommitted,
         BootstrapFinished, CellStarted, InputEvent, BeginResolveR, BeginCallback, TakeEnvironment,
         Activate, Complete, Resume, TransportFailure, Retire, RelayClosed, others
  <1>d. disp.at = "done" => disp'.at = "done" BY DoneStays DEF Next, DispatcherDone
  <1>1. CASE Suspend
    <2>1. /\ Len(events) \in Nat /\ Len(events') = Len(events) - 1 /\ 1 \in 1..Len(events)
          /\ \A k \in 1..Len(events') : k + 1 \in 1..Len(events) /\ events'[k] = events[k + 1]
      BY <1>1, SuspendFields DEF Shifts, TypeOK
    <2>2. \A j \in 1..Len(events) : events[j].kind \in {"Suspend", "Resume"} => j <= 1
      BY <1>1, <2>1, SuspendFields DEF SuspendInv
    <2>3. \A k \in 1..Len(events') : events'[k].kind \notin {"Suspend", "Resume"}
      BY <2>1, <2>2
    <2>4. owner'.admitted # "None" /\ disp'.at = "loop" BY <1>1, SuspendFields
    <2>5. Held' => oper'.suspended \/ disp'.retiring
      <3>1. CASE owner'.admitted = "Ok" BY <1>1, <3>1, SuspendFields
      <3>2. CASE owner'.admitted # "Ok"
        <4>1. Held' => Held BY <1>h, <3>2 DEF Held
        <4>2. Held => owner.reservation = "Replacing" BY <1>1, SuspendFields DEF Held
        <4> QED BY <1>1, <3>2, <4>1, SuspendFields DEF SuspendInv
      <3> QED BY <3>1, <3>2
    <2> QED BY <2>3, <2>4, <2>5 DEF SuspendInv
  <1>2. CASE Dispatch /\ ~Suspend /\ ~Resume
    <2>1. UNCHANGED events \/ (Shifts /\ events[1].kind # "Suspend") BY <1>2, DispatchTakes
    <2>2. Steady BY <1>2, SteadyDispatch
    <2>3. ASSUME Held PROVE disp'.at \notin {"env", "resolving"}
      <3>1. disp.at \notin {"env", "resolving", "done"} => oper.suspended \/ disp.retiring
        BY <2>3 DEF SuspendInv
      <3>2. ~BeginResolveR /\ ~BeginCallback
        BY <3>1, NoCallbackSuspended, Taken DEF BeginResolveR, BeginCallback, TakeRelay
      <3> QED BY <2>2, <2>3, <3>2 DEF Steady, SuspendInv
    <2>4. ASSUME Held, disp'.at # "done" PROVE oper'.suspended \/ disp'.retiring
      <3>1. oper.suspended \/ disp.retiring BY <1>d, <2>4 DEF SuspendInv
      <3> QED BY <2>2, <3>1 DEF Steady
    <2> QED BY <1>h, <1>a, <1>d, <1>2, <2>1, <2>3, <2>4, SuspendShifts
  <1>3. CASE Resume
    <2>1. disp.at = "loop" /\ disp' = disp /\ 1 \in 1..Len(events) /\ events[1].kind = "Resume"
      <3>1. ~FromSpool
        <4>1. SUFFICES ASSUME FromSpool PROVE FALSE OBVIOUS
        <4>2. NextEvent = disp.deferred[1] /\ disp.deferred # <<>> /\ NextEvent.kind = "Resume"
          BY <1>3, <4>1, Taken DEF Resume
        <4>3. 1 \in 1..Len(disp.deferred) BY <4>2 DEF TypeOK, DispRecord
        <4>4. "Resume" \notin Semantic
          BY DEF Semantic, RuntimeCallbacks, Initialized, Inputs, Results
        <4> QED BY <4>2, <4>3, <4>4 DEF SpoolInv
      <3>2. disp.at = "loop" /\ Popped = disp /\ events # <<>> /\ events[1].kind = "Resume"
        BY <1>3, <3>1, Taken DEF Resume
      <3> QED BY <1>3, <3>2 DEF Resume, TypeOK
    <2>2. ~Held BY <2>1 DEF SuspendInv
    <2>3. ~Suspend BY <1>3 DEF Suspend, Resume, TakeEvent
    <2> QED BY <2>2, <2>3,  <1>h, <1>a, <1>3, <2>1, SuspendShifts, DispatchTakes DEF Dispatch
  <1>4. CASE Resolve
    <2>1. UNCHANGED events /\ disp.at = "resolving" BY <1>4 DEF Resolve
    <2>2. ~Held BY <2>1 DEF SuspendInv
    <2>3. ~Suspend BY <2>1 DEF Suspend, TakeEvent
    <2> QED BY <1>h, <1>a, <2>1, <2>2, <2>3, SuspendShifts
  <1> QED BY <1>1, <1>2, <1>3, <1>4

LEMMA SuspendStep ==
    ASSUME TypeOK, HolderInv, SpoolInv, SuspendInv, [Next]_vars
    PROVE  SuspendInv'
  <1>t. TypeOK' BY TypesStep
  <1>1. CASE HolderStep BY <1>t, <1>1, SuspendHolder
  <1>2. CASE Dispatch \/ Resolve BY <1>t, <1>2, SuspendDispatch
  <1>k. /\ "Suspend" \notin Lifetime \cup Semantic /\ "Resume" \notin Lifetime \cup Semantic
    BY DEF Lifetime, Semantic, RuntimeCallbacks, Initialized, Inputs, Results
  <1>3. CASE Writer \/ Reader \/ AskStep \/ World
    <2>1. UNCHANGED <<disp, oper, owner>>
      BY <1>3, WriterFrame, ReaderFrame, AskFrame, WorldFrame DEF operation
    <2>2. \E kinds : Grows(kinds) /\ "Suspend" \notin kinds /\ "Resume" \notin kinds
      BY <1>k, <1>3, WriterGrows, ReaderGrows, AskGrows, WorldGrows
    <2> QED BY <1>t, <2>1, <2>2, SuspendGrows
  <1>4. CASE (\E i \in Interrupters : Interrupt(i)) \/ Tick \/ UNCHANGED vars
    <2>1. UNCHANGED <<disp, oper, owner, events>>
      BY <1>4, InterruptFrame, TickFrame DEF vars, others, operation
    <2> QED BY <2>1 DEF SuspendInv, Held
  <1> QED BY <1>1, <1>2, <1>3, <1>4, StepCases

-----------------------------------------------------------------------------
(* Runtime R callbacks and preparations exclude one another.               *)
(* A worker without R never asks for R.                                    *)
Silent == ~wk.r => /\ \A k \in 1..Len(events) : events[k].kind # "ResolveR"
                   /\ \A k \in 1..Len(disp.deferred) : disp.deferred[k].kind # "ResolveR"

LEMMA SilentGrows ==
    ASSUME TypeOK, TypeOK', Silent, UNCHANGED <<disp.deferred, wk.r>>, NEW kinds,
           ~wk.r => Grows(kinds), "ResolveR" \notin kinds
    PROVE  Silent'
  BY DEF Silent, Grows, TypeOK

LEMMA SilentStep ==
    ASSUME TypeOK, Silent, [Next]_vars
    PROVE  Silent'
  <1>t. TypeOK' BY TypesStep
  <1>r. wk'.r = wk.r
    BY StepCases, DispatchFrame, ResolveFrame, WriterFrame, ReaderFrame, HolderFrame, InterruptFrame,
       AskFrame, TickFrame, WorldFrame DEF vars, others, outside
  <1>d. ~wk.r => \A k \in 1..Len(disp'.deferred) : disp'.deferred[k].kind # "ResolveR"
    BY SpoolElements DEF Silent
  <1>1. CASE Dispatch \/ Resolve
    <2>1. UNCHANGED events \/ Shifts BY <1>1, DispatchShifts DEF Resolve
    <2> QED BY <1>r, <1>d, <2>1 DEF Silent, Shifts, TypeOK
  <1>2. CASE Writer \/ Reader \/ AskStep \/ World
    <2>1. UNCHANGED disp BY <1>2, WriterFrame, ReaderFrame, AskFrame, WorldFrame
    <2>2. "ResolveR" \notin Lifetime BY DEF Lifetime
    <2>3. \E kinds : "ResolveR" \notin kinds /\ (~wk.r => Grows(kinds))
      BY <1>2, <2>2, WriterGrows, ReaderGrows, AskGrows, WorldGrows
    <2> QED BY <1>t, <1>r, <2>1, <2>3, SilentGrows
  <1>3. CASE HolderStep
    <2>1. /\ Event("Suspend") \in EventRecord /\ Event("Suspend").kind = "Suspend"
          /\ Event("Resume") \in EventRecord /\ Event("Resume").kind = "Resume"
      BY EventTypes DEF Event
    <2>2. Grows({"Suspend", "Resume"}) BY <1>3, <2>1, HolderGrows, GrowsNot, GrowsOne
    <2>3. UNCHANGED disp BY <1>3, HolderFrame
    <2> QED BY <1>t, <1>r, <2>2, <2>3, SilentGrows
  <1>4. CASE (\E i \in Interrupters : Interrupt(i)) \/ Tick \/ UNCHANGED vars
    <2>1. UNCHANGED <<events, disp>> BY <1>4, InterruptFrame, TickFrame DEF vars
    <2> QED BY <1>r, <2>1 DEF Silent
  <1> QED BY <1>1, <1>2, <1>3, <1>4, StepCases

(* What the dispatcher does to the claims on the environment.              *)
Claims ==
    /\ oper'.callback # "None" => oper.callback # "None" \/ (BeginResolveR /\ ~oper'.reserved)
    /\ oper'.reserved => oper.reserved \/ Suspend
    /\ oper'.kind = "Prepare" => oper.kind = "Prepare"

LEMMA ClaimsFail ==
    ASSUME TypeOK, NEW cause \in Causes, FailOperation(cause)
    PROVE  Claims
  BY FailedFields DEF Claims

LEMMA ClaimsDispatch ==
    ASSUME TypeOK, Dispatch \/ Resolve
    PROVE  Claims
  <1>d. oper \in OperRecord BY DEF TypeOK
  <1>f. {"Protocol", "Result", "Transport", "Sideband", "Fatal", "RelayExit"} \subseteq Causes BY DEF Causes
  <1>1. CASE \E cause \in Causes : FailOperation(cause) BY <1>1, ClaimsFail
  <1>0. CASE UNCHANGED oper BY <1>0 DEF Claims
  <1>2. CASE DeferFails \/ RelayError \/ SidebandClosed \/ Fatal \/ TransportFailure
    BY <1>0, <1>1, <1>2, <1>f DEF DeferFails, RelayError, SidebandClosed, Fatal, TransportFailure,
       FailDispatch, operation
  <1>3. CASE RetireOperation BY <1>3, RetiredFields DEF Claims
  <1>4. CASE ReadyCommitted \/ Retire \/ RelayClosed
    BY <1>0, <1>1, <1>3, <1>4, <1>f DEF ReadyCommitted, Retire, RelayClosed, RecordExit, FailDispatch,
       operation
  <1>5. CASE BeginResolveR
    <2>1. \/ UNCHANGED oper \/ FailOperation("Transport")
          \/ ~oper.reserved /\ oper' = [oper EXCEPT !.callback = "Resolving"]
      BY <1>5 DEF BeginResolveR, FailDispatch, operation
    <2> QED BY <1>0, <1>1, <1>d, <1>5, <1>f, <2>1 DEF Claims, OperRecord
  <1>6. CASE BootstrapFinished \/ Suspend \/ Resume
    BY <1>0, <1>d, <1>6 DEF BootstrapFinished, Suspend, Resume, Claims, OperRecord
  <1>7. CASE InputEvent BY <1>7, InputFields DEF InputEvent, Claims
  <1>8. CASE Complete BY <1>8, CompletedFields DEF Claims
  <1>9. CASE Activate \/ Resolve
    <2>1. \/ UNCHANGED oper \/ \E cause \in Causes : FailOperation(cause)
          \/ oper' = [oper EXCEPT !.callback = "None"]
          \/ oper.callback = "Resolving" /\ oper' = [oper EXCEPT !.callback = "AwaitingActivation"]
      BY <1>9, <1>f DEF Activate, Resolve, ReplyTo, FailDispatch, operation
    <2> QED BY <1>0, <1>1, <1>d, <2>1 DEF Claims, OperRecord
  <1>10. CASE Defer \/ IgnoreSemantic \/ RelayLifetime \/ InterruptResult \/ ShutdownStarted \/ Ready
              \/ CellStarted \/ BeginCallback \/ TakeEnvironment
    BY <1>0, <1>10 DEF Defer, IgnoreSemantic, RelayLifetime, InterruptResult, ShutdownStarted, Ready,
       CellStarted, BeginCallback, TakeEnvironment, operation
  <1> QED BY <1>2, <1>4, <1>5, <1>6, <1>7, <1>8, <1>9, <1>10 DEF Dispatch

ClaimInv ==
    /\ oper.reserved \/ oper.kind = "Prepare" => oper.callback = "None"
    /\ ~wk.r => oper.callback = "None"

LEMMA ClaimStep ==
    ASSUME TypeOK, HolderInv, SpoolInv, SuspendInv, Silent, ClaimInv, [Next]_vars
    PROVE  ClaimInv'
  <1>d. oper \in OperRecord BY DEF TypeOK
  <1>r. wk'.r = wk.r
    BY StepCases, DispatchFrame, ResolveFrame, WriterFrame, ReaderFrame, HolderFrame, InterruptFrame,
       AskFrame, TickFrame, WorldFrame DEF vars, others, outside
  <1>1. CASE BeginResolveR
    <2>1. TakeEvent({"ResolveR"}) /\ Acceptable(NextEvent) BY <1>1 DEF BeginResolveR, TakeRelay
    <2>2. NextEvent.kind = "ResolveR" BY <2>1, Taken
    <2>3. oper.kind # "Prepare" BY <2>1, <2>2 DEF Acceptable, SemanticError, Semantic, RuntimeCallbacks
    <2>4. wk.r
      <3>1. CASE FromSpool
        <4>1. 1 \in 1..Len(disp.deferred) /\ disp.deferred[1].kind = "ResolveR"
          BY <2>1, <2>2, <3>1, Taken DEF TypeOK, DispRecord
        <4> QED BY <4>1 DEF Silent
      <3>2. CASE ~FromSpool
        <4>1. 1 \in 1..Len(events) /\ events[1].kind = "ResolveR"
          BY <2>1, <2>2, <3>2, Taken DEF TypeOK
        <4> QED BY <4>1 DEF Silent
      <3> QED BY <3>1, <3>2
    <2>5. ~Suspend BY <2>1, <2>2, Taken DEF Suspend
    <2>6. Claims BY <1>1, ClaimsDispatch DEF Dispatch
    <2> QED BY <1>r, <2>3, <2>4, <2>5, <2>6 DEF Claims, ClaimInv
  <1>2. CASE Suspend
    <2>1. owner.job = "Replace" /\ ~wk.r BY <1>2, SuspendFields DEF HolderInv
    <2>2. Claims /\ ~BeginResolveR
      BY <1>2, ClaimsDispatch, Taken DEF Dispatch, Suspend, BeginResolveR, TakeRelay
    <2> QED BY <1>r, <2>1, <2>2 DEF Claims, ClaimInv
  <1>3. CASE (Dispatch \/ Resolve) /\ ~BeginResolveR /\ ~Suspend
    BY <1>r, <1>3, ClaimsDispatch DEF Claims, ClaimInv
  <1>4. CASE HolderStep
    <2>1. CASE BeginPreparation BY <1>r, <2>1, PreparingFields DEF ClaimInv
    <2>2. CASE \E label : DropReservation(label) BY <1>r, <2>2, DropFields DEF ClaimInv
    <2>3. CASE DispatchCell
      <3>1. "Owner" \in Causes BY DEF Causes
      <3>2. UNCHANGED oper \/ FailOperation("Owner") BY <2>3 DEF DispatchCell
      <3> QED BY <1>r, <3>1, <3>2, FailedFields DEF ClaimInv
    <2>4. CASE UNCHANGED oper BY <1>r, <2>4 DEF ClaimInv
    <2>5. CASE BeginCell \/ AbortBootstrapCell \/ ReserveEnvironment
      <3>1. /\ oper'.callback = oper.callback /\ (oper'.reserved => oper.reserved \/ oper.callback = "None")
            /\ oper'.kind # "Prepare" \/ oper'.kind = oper.kind
        BY <1>d, <2>5 DEF BeginCell, AbortBootstrapCell, ReserveEnvironment, OperRecord
      <3> QED BY <1>r, <3>1 DEF ClaimInv
    <2> QED BY <1>4, <2>1, <2>2, <2>3, <2>4, <2>5
        DEF HolderStep, OwnerStep, ReceiveStartup, OnReady, CommitReady, MarkReady,
        WaitForBootstrap, ReserveReplacement, ReplacementReserved, LockEnvironment,
        SendPreparation, ReceiveResult, OwnerRetires, OwnerRetired, ResolveDeclaration, Admit, operation
  <1>5. CASE ~(Dispatch \/ Resolve \/ HolderStep)
    <2>1. UNCHANGED oper
      BY <1>5, StepCases, WriterFrame, ReaderFrame, InterruptFrame, AskFrame, TickFrame, WorldFrame
      DEF vars, operation
    <2> QED BY <1>r, <2>1 DEF ClaimInv
  <1> QED BY <1>1, <1>2, <1>3, <1>4, <1>5

-----------------------------------------------------------------------------
EnvironmentInv == HolderInv /\ SpoolInv /\ SuspendInv /\ Silent /\ ClaimInv

LEMMA EnvironmentInit == ASSUME Init PROVE EnvironmentInv
  <1>1. Len(<<>>) = 0 BY EmptyQueue
  <1>2. events = <<>> /\ disp.deferred = <<>> BY DEF Init
  <1> QED BY <1>1, <1>2 DEF Init, EnvironmentInv, HolderInv, SpoolInv, SuspendInv, Held, Silent, ClaimInv

(* Who holds the prepared environment, what the spool and a suspension     *)
(* keep of it, and what an unanswered callback claims of it.               *)
THEOREM EnvironmentHolds == Spec => []EnvironmentInv
  <1>1. Init => EnvironmentInv BY EnvironmentInit
  <1>2. TypeOK /\ EnvironmentInv /\ [Next]_vars => EnvironmentInv'
    BY HolderKept, SpoolStep, SuspendStep, SilentStep, ClaimStep DEF EnvironmentInv
  <1> QED BY <1>1, <1>2, TypesHold, PTL DEF Spec

(* A runtime R callback is never open beside a preparation or reservation, *)
(* the dispatcher never holds the environment that a retiring owner holds, *)
(* and callbacks are resolved only in a launch that was committed ready.   *)
THEOREM ExclusionHolds == Spec => []EnvironmentExclusive
  <1>1. EndInv /\ EnvironmentInv => EnvironmentExclusive
    BY DEF EndInv, ReadyInv, GateInv, EnvironmentInv, HolderInv, SuspendInv, Held, ClaimInv,
       EnvironmentExclusive
  <1> QED BY <1>1, EndHolds, EnvironmentHolds, PTL

(* Whoever waits for startup, a result, a suspension or an interrupt has   *)
(* its answer, or the dispatcher is still to give it; and a dispatcher     *)
(* that waits for the readiness commit has an owner that will make it.     *)
THEOREM ForgottenHolds == Spec => []NobodyForgotten
  <1>1. TypeOK /\ EndInv /\ EnvironmentInv => NobodyForgotten
    <2> SUFFICES ASSUME TypeOK, EndInv, EnvironmentInv PROVE NobodyForgotten OBVIOUS
    <2>1. owner.at = "suspending" /\ owner.admitted = "None" =>
            disp.at = "done" \/ \E k \in DOMAIN events : events[k].kind = "Suspend"
      BY DEF EnvironmentInv, SuspendInv, TypeOK
    <2> QED BY <2>1 DEF EndInv, ReadyInv, CommitInv, StartInv, StartLabels, WaitInv, InterruptInv,
        NobodyForgotten, DispatcherDone
  <1> QED BY <1>1, TypesHold, EndHolds, EnvironmentHolds, PTL

-----------------------------------------------------------------------------
(* The way of a cell through the launch: an Evaluate is queued, written,   *)
(* started and finished, and what the worker says of it is queued and may  *)
(* be spooled.  It is in one of these places at a time, for its start and  *)
(* for its completion.                                                     *)
Has(q, kind) == \E k \in 1..Len(q) : q[k].kind = kind
Once(q, kind) == \A j, k \in 1..Len(q) : q[j].kind = kind /\ q[k].kind = kind => j = k

LEMMA ShiftHas ==
    ASSUME NEW q, NEW r, NEW kind, Len(q) \in Nat, Len(r) \in Nat, Len(r) = Len(q) - 1,
           \A k \in 1..Len(r) : r[k] = q[k + 1]
    PROVE  /\ Has(r, kind) => Has(q, kind)
           /\ Once(q, kind) => Once(r, kind) /\ (q[1].kind = kind => ~Has(r, kind))
  <1>1. \A k \in 1..Len(r) : k + 1 \in 1..Len(q) /\ k + 1 # 1 /\ r[k] = q[k + 1] OBVIOUS
  <1>2. 1 \in 1..Len(q) OBVIOUS
  <1>3. Has(r, kind) => Has(q, kind) BY <1>1 DEF Has
  <1>4. ASSUME Once(q, kind), NEW j \in 1..Len(r), NEW k \in 1..Len(r), r[j].kind = kind, r[k].kind = kind
        PROVE  j = k
    <2>1. j + 1 = k + 1 BY <1>1, <1>4 DEF Once
    <2> QED BY <2>1
  <1>5. Once(q, kind) /\ q[1].kind = kind => ~Has(r, kind)
    <2> SUFFICES ASSUME Once(q, kind), q[1].kind = kind, NEW k \in 1..Len(r), r[k].kind = kind
                 PROVE  FALSE
      BY DEF Has
    <2>1. k + 1 = 1 BY <1>1, <1>2 DEF Once
    <2> QED BY <2>1
  <1> QED BY <1>3, <1>4, <1>5 DEF Once

LEMMA AppendHas ==
    ASSUME NEW S, NEW q \in Seq(S), NEW e \in S, NEW kind
    PROVE  /\ e.kind # kind => (Has(Append(q, e), kind) <=> Has(q, kind))
                               /\ (Once(q, kind) => Once(Append(q, e), kind))
           /\ ~Has(q, kind) => Once(Append(q, e), kind)
  <1> DEFINE r == Append(q, e)
  <1>1. /\ Len(q) \in Nat /\ Len(r) = Len(q) + 1 /\ r[Len(q) + 1] = e
        /\ \A k \in 1..Len(q) : r[k] = q[k]
    BY Appended
  <1> HIDE DEF r
  <1>2. \A k \in 1..Len(r) : (k \in 1..Len(q) /\ r[k] = q[k]) \/ (k = Len(q) + 1 /\ r[k] = e) BY <1>1
  <1>3. \A k \in 1..Len(q) : k \in 1..Len(r) /\ r[k] = q[k] BY <1>1
  <1>4. e.kind # kind => (Has(r, kind) <=> Has(q, kind)) /\ (Once(q, kind) => Once(r, kind))
    BY <1>2, <1>3 DEF Has, Once
  <1>5. ~Has(q, kind) => Once(r, kind) BY <1>2 DEF Has, Once
  <1> QED BY <1>4, <1>5 DEF r

LEMMA GrowsHas ==
    ASSUME TypeOK, TypeOK', NEW kinds, Grows(kinds), NEW kind, kind \notin kinds
    PROVE  /\ Has(events', kind) <=> Has(events, kind)
           /\ Once(events, kind) => Once(events', kind)
  <1>1. Len(events) \in Nat /\ Len(events') \in Nat BY DEF TypeOK
  <1>2. \A k \in 1..Len(events') :
          events'[k].kind = kind => k \in 1..Len(events) /\ events'[k] = events[k]
    BY <1>1 DEF Grows
  <1>3. \A k \in 1..Len(events) : k \in 1..Len(events') /\ events'[k] = events[k] BY <1>1 DEF Grows
  <1> QED BY <1>2, <1>3 DEF Has, Once

Run(kind) == kind = "Completed" /\ wk.at = "Cell"
Clear(kind) ==
    /\ ~Has(commands.queue, "Evaluate") /\ wk.todo # "Cell" /\ ~Run(kind)
    /\ ~Has(events, kind) /\ ~Has(disp.deferred, kind)
Flow(kind) ==
    /\ Once(commands.queue, "Evaluate") /\ Once(events, kind) /\ Once(disp.deferred, kind)
    /\ Has(commands.queue, "Evaluate") =>
         wk.todo # "Cell" /\ ~Run(kind) /\ ~Has(events, kind) /\ ~Has(disp.deferred, kind)
    /\ wk.todo = "Cell" => ~Run(kind) /\ ~Has(events, kind) /\ ~Has(disp.deferred, kind)
    /\ Run(kind) => ~Has(events, kind) /\ ~Has(disp.deferred, kind)
    /\ Has(events, kind) => ~Has(disp.deferred, kind)

(* Other commands join the queue of commands.                              *)
Unasked ==
    /\ Has(commands'.queue, "Evaluate") <=> Has(commands.queue, "Evaluate")
    /\ Once(commands.queue, "Evaluate") => Once(commands'.queue, "Evaluate")

LEMMA UnaskedSame == ASSUME commands'.queue = commands.queue PROVE Unasked
  BY DEF Unasked

LEMMA UnaskedSend ==
    ASSUME TypeOK, NEW kind \in {"Prepare", "Reply", "Reject", "Interrupt", "Shutdown"},
           NEW i \in Interrupters \cup {NoCall}, Send([kind |-> kind, i |-> i])
    PROVE  Unasked
  <1> DEFINE S == [kind : {"Evaluate", "Prepare", "Reply", "Reject", "Interrupt", "Shutdown"},
                   i : Interrupters \cup {NoCall}]
             e == [kind |-> kind, i |-> i]
  <1>1. commands.queue \in Seq(S) /\ e \in S /\ e.kind # "Evaluate" BY DEF TypeOK, CommandRecord
  <1>2. commands'.queue = Append(commands.queue, e) BY DEF Send, TypeOK, CommandRecord
  <1> HIDE DEF S, e
  <1> QED BY <1>1, <1>2, AppendHas DEF Unasked

LEMMA UnaskedCommand ==
    ASSUME TypeOK, NEW kind \in {"Prepare", "Reply", "Reject", "Shutdown"}, Send(Command(kind))
    PROVE  Unasked
  BY UnaskedSend DEF Command

LEMMA UnaskedAborted ==
    ASSUME TypeOK, commands' = Aborted
    PROVE  Unasked
  <1>1. commands'.queue = commands.queue BY DEF Aborted, TypeOK, CommandRecord
  <1> QED BY <1>1, UnaskedSame

LEMMA UnaskedDispatch ==
    ASSUME TypeOK, Dispatch \/ Resolve
    PROVE  Unasked
  <1>1. \/ UNCHANGED commands \/ commands' = Aborted
        \/ \E kind \in {"Reply", "Reject"} : Send(Command(kind))
    BY DEF Dispatch, Resolve, ReplyTo, Defer, DeferFails, RelayError, IgnoreSemantic, RelayLifetime,
         SidebandClosed, InterruptResult, ShutdownStarted, Fatal, Ready, ReadyCommitted,
         BootstrapFinished, CellStarted, InputEvent, BeginResolveR, BeginCallback, TakeEnvironment,
         Activate, Complete, Suspend, Resume, TransportFailure, Retire, RelayClosed
  <1>2. UNCHANGED commands => commands'.queue = commands.queue OBVIOUS
  <1> QED BY <1>1, <1>2, UnaskedSame, UnaskedAborted, UnaskedCommand

LEMMA UnaskedAsk ==
    ASSUME TypeOK, AskStep
    PROVE  Unasked
  <1>1. \/ UNCHANGED commands \/ commands' = Aborted \/ Send(Command("Shutdown"))
    BY DEF AskStep, LifecycleRetire, RetireStep, RequestShutdown, ShutdownReceipt,
       ReportTransportFailure, StartRetire, BarrierReached, StopRelay, Reap, Terminate, JoinTasks
  <1>2. UNCHANGED commands => commands'.queue = commands.queue OBVIOUS
  <1> QED BY <1>1, <1>2, UnaskedSame, UnaskedAborted, UnaskedCommand

LEMMA UnaskedHolder ==
    ASSUME TypeOK, HolderStep, ~DispatchCell
    PROVE  Unasked
  <1>1. \/ UNCHANGED commands \/ Send(Command("Prepare"))
    BY DEF HolderStep, OwnerStep, ReceiveStartup, OnReady, CommitReady, MarkReady, BeginCell,
         WaitForBootstrap, AbortBootstrapCell, ReserveEnvironment, ReserveReplacement,
         ReplacementReserved, LockEnvironment, BeginPreparation, SendPreparation, ReceiveResult,
         OwnerRetires, OwnerRetired, ResolveDeclaration, Admit
  <1>2. UNCHANGED commands => commands'.queue = commands.queue OBVIOUS
  <1> QED BY <1>1, <1>2, UnaskedSame, UnaskedCommand

LEMMA UnaskedInterrupt ==
    ASSUME TypeOK, NEW i \in Interrupters, Interrupt(i)
    PROVE  Unasked
  <1>1. UNCHANGED commands \/ Send([kind |-> "Interrupt", i |-> i]) BY DEF Interrupt
  <1>2. UNCHANGED commands => commands'.queue = commands.queue OBVIOUS
  <1> QED BY <1>1, <1>2, UnaskedSame, UnaskedSend

(* An Evaluate leaves the queue of commands for the worker.                *)
LEMMA Written ==
    ASSUME TypeOK, TypeOK', WriteCommand
    PROVE  /\ Has(commands'.queue, "Evaluate") => Has(commands.queue, "Evaluate")
           /\ Once(commands.queue, "Evaluate") => Once(commands'.queue, "Evaluate")
           /\ \/ wk'.todo # "Cell" \/ wk'.todo = wk.todo
              \/ /\ Has(commands.queue, "Evaluate")
                 /\ Once(commands.queue, "Evaluate") => ~Has(commands'.queue, "Evaluate")
  <1>1. commands.queue # <<>> /\ commands' = [commands EXCEPT !.queue = Tail(@)] BY DEF WriteCommand
  <1> DEFINE q == commands.queue
             S == [kind : {"Evaluate", "Prepare", "Reply", "Reject", "Interrupt", "Shutdown"},
                   i : Interrupters \cup {NoCall}]
  <1>2. q \in Seq(S) /\ q # <<>> /\ commands'.queue = Tail(q) BY <1>1 DEF TypeOK, CommandRecord
  <1>3. wk'.todo # "Cell" \/ wk'.todo = wk.todo \/ Head(q).kind = "Evaluate"
    BY DEF WriteCommand, TypeOK, WorldRecord
  <1> HIDE DEF q, S
  <1>4. /\ Head(q) = q[1] /\ Len(q) \in Nat /\ Len(Tail(q)) \in Nat /\ Len(Tail(q)) = Len(q) - 1
        /\ \A k \in 1..Len(Tail(q)) : Tail(q)[k] = q[k + 1]
    BY <1>2, HeadTailProperties
  <1>5. 1 \in 1..Len(q) BY <1>2, <1>4
  <1>6. Head(q).kind = "Evaluate" => Has(q, "Evaluate") BY <1>4, <1>5 DEF Has
  <1>7. /\ Has(Tail(q), "Evaluate") => Has(q, "Evaluate")
        /\ Once(q, "Evaluate") => Once(Tail(q), "Evaluate")
                                  /\ (q[1].kind = "Evaluate" => ~Has(Tail(q), "Evaluate"))
    BY <1>4, ShiftHas
  <1> QED BY <1>2, <1>3, <1>4, <1>6, <1>7 DEF q


(* The dispatcher takes from the way of a cell, and moves along it.        *)
LEMMA FlowDispatch ==
    ASSUME TypeOK, TypeOK', Dispatch \/ Resolve, NEW kind, Flow(kind)
    PROVE  Flow(kind)' /\ (Clear(kind) => Clear(kind)')
  <1>1. Unasked BY UnaskedDispatch
  <1>2. wk'.todo = wk.todo /\ wk'.at = wk.at BY DispatchFrame, ResolveFrame
  <1>t. /\ events \in Seq(EventRecord) /\ events' \in Seq(EventRecord)
        /\ disp.deferred \in Seq(EventRecord) /\ disp'.deferred \in Seq(EventRecord)
    BY DEF TypeOK, DispRecord
  <1>l. /\ Len(events) \in Nat /\ Len(events') \in Nat
        /\ Len(disp.deferred) \in Nat /\ Len(disp'.deferred) \in Nat
    BY <1>t, LenProperties
  <1>s. Shifts => /\ Has(events', kind) => Has(events, kind)
                  /\ Once(events, kind) => Once(events', kind)
                                           /\ (events[1].kind = kind => ~Has(events', kind))
    BY <1>l, ShiftHas DEF Shifts
  <1>3. CASE UNCHANGED <<events, disp.deferred>>
    BY <1>1, <1>2, <1>3 DEF Flow, Clear, Run, Unasked
  <1>4. CASE UNCHANGED events /\ SpoolShifts
    <2>1. /\ Has(disp'.deferred, kind) => Has(disp.deferred, kind)
          /\ Once(disp.deferred, kind) => Once(disp'.deferred, kind)
      BY <1>l, <1>4, ShiftHas DEF SpoolShifts
    <2> QED BY <1>1, <1>2, <1>4, <2>1 DEF Flow, Clear, Run, Unasked
  <1>5. CASE Shifts /\ UNCHANGED disp.deferred
    BY <1>1, <1>2, <1>s, <1>5 DEF Flow, Clear, Run, Unasked
  <1>6. CASE Shifts /\ disp'.deferred = Append(disp.deferred, events[1])
    <2>1. events[1] \in EventRecord /\ 1 \in 1..Len(events) BY <1>t, <1>l, <1>6 DEF Shifts
    <2>2. CASE events[1].kind = kind
      <3>1. Has(events, kind) BY <2>1, <2>2 DEF Has
      <3>2. ~Has(disp.deferred, kind) BY <3>1 DEF Flow
      <3>3. Once(disp'.deferred, kind) BY <1>t, <1>6, <2>1, <3>2, AppendHas
      <3>4. ~Has(events', kind) /\ Once(events', kind) BY <1>s, <1>6, <2>2 DEF Flow
      <3> QED BY <1>1, <1>2, <3>1, <3>3, <3>4 DEF Flow, Clear, Run, Unasked
    <2>3. CASE events[1].kind # kind
      <3>1. /\ Has(disp'.deferred, kind) <=> Has(disp.deferred, kind)
            /\ Once(disp.deferred, kind) => Once(disp'.deferred, kind)
        BY <1>t, <1>6, <2>1, <2>3, AppendHas
      <3> QED BY <1>1, <1>2, <1>s, <1>6, <3>1 DEF Flow, Clear, Run, Unasked
    <2> QED BY <2>2, <2>3
  <1>7. CASE (UNCHANGED events \/ Shifts) /\ disp'.deferred = <<>>
    <2>1. ~Has(disp'.deferred, kind) /\ Once(disp'.deferred, kind) BY <1>7, EmptyQueue DEF Has, Once
    <2> QED BY <1>1, <1>2, <1>s, <1>7, <2>1 DEF Flow, Clear, Run, Unasked
  <1> QED BY <1>3, <1>4, <1>5, <1>6, <1>7, QueueMoves

(* What the dispatcher takes is nowhere else on the way.                   *)
LEMMA FlowTakes ==
    ASSUME TypeOK, TypeOK', Dispatch, NEW kind, Flow(kind), NEW kinds, TakeEvent(kinds),
           NextEvent.kind = kind, disp'.deferred = Popped.deferred
    PROVE  Clear(kind)' /\ ~Clear(kind)
  <1>1. Unasked BY UnaskedDispatch
  <1>2. wk'.todo = wk.todo /\ wk'.at = wk.at BY DispatchFrame
  <1>t. /\ events \in Seq(EventRecord) /\ events' \in Seq(EventRecord)
        /\ disp.deferred \in Seq(EventRecord) /\ disp'.deferred \in Seq(EventRecord)
    BY DEF TypeOK, DispRecord
  <1>l. /\ Len(events) \in Nat /\ Len(events') \in Nat
        /\ Len(disp.deferred) \in Nat /\ Len(disp'.deferred) \in Nat
    BY <1>t, LenProperties
  <1>3. CASE FromSpool
    <2>1. 1 \in 1..Len(disp.deferred) /\ disp.deferred[1].kind = kind BY <1>l, <1>3, <1>t, Taken
    <2>2. ~Has(disp'.deferred, kind) BY <1>l, <1>3, <2>1, Taken, ShiftHas DEF Flow
    <2>3. Has(disp.deferred, kind) BY <2>1 DEF Has
    <2>4. events' = events BY <1>3, Taken
    <2> QED BY <1>1, <1>2, <2>2, <2>3, <2>4 DEF Flow, Clear, Run, Unasked
  <1>4. CASE ~FromSpool
    <2>1. 1 \in 1..Len(events) /\ events[1].kind = kind BY <1>l, <1>4, <1>t, Taken
    <2>2. ~Has(events', kind) BY <1>l, <1>4, <2>1, Taken, ShiftHas DEF Flow
    <2>3. Has(events, kind) BY <2>1 DEF Has
    <2>4. disp'.deferred = disp.deferred BY <1>4, Taken
    <2> QED BY <1>1, <1>2, <2>2, <2>3, <2>4 DEF Flow, Clear, Run, Unasked
  <1> QED BY <1>3, <1>4

(* The other threads do not touch the way of a cell, but for the writer.   *)
LEMMA FlowSame ==
    ASSUME TypeOK, TypeOK', NEW kind, Flow(kind), Unasked, UNCHANGED disp,
           wk'.todo = "Cell" => wk.todo = "Cell", Run(kind)' => Run(kind),
           NEW kinds, Grows(kinds), kind \notin kinds
    PROVE  Flow(kind)' /\ (Clear(kind) => Clear(kind)')
  BY GrowsHas DEF Flow, Clear, Unasked

CellEvents == {"CellStarted", "Completed"}

LEMMA FlowWriter ==
    ASSUME TypeOK, TypeOK', Writer, NEW kind \in CellEvents, Flow(kind)
    PROVE  Flow(kind)' /\ (Clear(kind) => Clear(kind)')
  <1>k. kind \notin {"InterruptResult", "ShutdownStarted", "TransportFailure"} BY DEF CellEvents
  <1>f. UNCHANGED disp /\ (Run(kind)' => Run(kind)) BY WriterFrame DEF Run
  <1>1. CASE WriteFails
    <2>1. Unasked BY <1>1, UnaskedAborted DEF WriteFails
    <2>2. wk' = wk BY <1>1 DEF WriteFails, others, outside
    <2> QED BY <1>k, <1>f, <2>1, <2>2, WriterGrows, FlowSame
  <1>2. CASE WriteCommand
    <2>1. /\ Has(events', kind) <=> Has(events, kind)
          /\ Once(events, kind) => Once(events', kind)
      BY <1>k, WriterGrows, GrowsHas
    <2> QED BY <1>2, <1>f, <2>1, Written DEF Flow, Clear
  <1> QED BY <1>1, <1>2 DEF Writer


LEMMA FlowHolder ==
    ASSUME TypeOK, TypeOK', HolderStep, ~DispatchCell, NEW kind \in CellEvents, Flow(kind)
    PROVE  Flow(kind)' /\ (Clear(kind) => Clear(kind)')
  <1>1. UNCHANGED <<disp, wk>> BY HolderFrame
  <1>2. Unasked BY UnaskedHolder
  <1>3. \E kinds : Grows(kinds) /\ kind \notin kinds
    <2>1. CASE UNCHANGED events
      <3>1. Grows({}) BY <2>1, GrowsNot
      <3> QED BY <3>1
    <2>2. CASE \E k \in {"Suspend", "Resume"} : events' = Append(events, Event(k))
      <3>1. PICK k \in {"Suspend", "Resume"} : events' = Append(events, Event(k)) BY <2>2
      <3>2. Event(k) \in EventRecord /\ Event(k).kind \in {"Suspend", "Resume"}
        BY EventTyped DEF Event, Kinds, Controls
      <3>3. Grows({"Suspend", "Resume"}) BY <3>1, <3>2, GrowsOne
      <3> QED BY <3>3 DEF CellEvents
    <2> QED BY <2>1, <2>2, HolderGrows
  <1>4. PICK kinds : Grows(kinds) /\ kind \notin kinds BY <1>3
  <1> QED BY <1>1, <1>2, <1>4, FlowSame DEF Run

(* The worker starts and finishes a cell, and says so once.                *)
LEMMA SaidOnce ==
    ASSUME TypeOK, NEW kind \in CellEvents, Said(kind), ~Has(events, kind)
    PROVE  Once(events', kind)
  <1> DEFINE e == [kind |-> kind, n |-> wk.n + 1, i |-> NoCall]
  <1>1. wk.n + 1 \in Nat /\ kind \in Kinds
    BY DEF TypeOK, WorldRecord, CellEvents, Kinds, Semantic, Results
  <1>2. e \in EventRecord /\ e.kind = kind BY <1>1, EventTyped
  <1>3. events \in Seq(EventRecord) BY DEF TypeOK
  <1>4. events' = events \o <<e>> \/ events' = events BY DEF Said, Emit
  <1> HIDE DEF e
  <1>5. events \o <<e>> = Append(events, e) BY <1>2, <1>3
  <1>6. CASE events' = events BY <1>6 DEF Has, Once
  <1>7. CASE events' = Append(events, e) BY <1>2, <1>3, <1>7, AppendHas
  <1> QED BY <1>4, <1>5, <1>6, <1>7

LEMMA WorldSilent ==
    ASSUME TypeOK, World, NEW kind \in CellEvents,
           kind = "CellStarted" => ~(StartsTodo /\ wk.todo = "Cell"),
           kind = "Completed" => ~(FinishesTodo /\ wk.at = "Cell")
    PROVE  Grows((Lifetime \cup Semantic) \ {kind})
  <1> DEFINE kinds == (Lifetime \cup Semantic) \ {kind}
  <1>1. /\ Lifetime \subseteq kinds /\ Semantic \ {"ResolveR", "CellStarted", "Completed"} \subseteq kinds
        /\ "ResolveR" \in kinds
        /\ kind # "CellStarted" => "CellStarted" \in kinds
        /\ kind # "Completed" => "Completed" \in kinds
    BY DEF CellEvents, Semantic, RuntimeCallbacks, Results, Lifetime
  <1> HIDE DEF kinds
  <1>2. Grows(kinds) BY <1>1, WorldEmits
  <1> QED BY <1>2 DEF kinds

LEMMA WorldPlaces ==
    ASSUME TypeOK, World
    PROVE  /\ wk'.todo = "Cell" => wk.todo = "Cell"
           /\ wk'.at = "Cell" => wk.at = "Cell" \/ (StartsTodo /\ wk.todo = "Cell")
           /\ StartsTodo => wk.at = "Idle" /\ wk'.todo = "None"
           /\ FinishesTodo => wk'.at = "Idle" /\ ~StartsTodo
  <1>1. wk \in WorldRecord BY DEF TypeOK
  <1>2. CASE StartsTodo \/ FinishesTodo
    BY <1>1, <1>2 DEF StartsTodo, FinishesTodo, WorldRecord
  <1>3. CASE ~StartsTodo /\ ~FinishesTodo
    <2>1. CASE WorkerStarts \/ Initializes \/ CallsBack \/ AsksInput
      BY <1>1, <1>3, <2>1 DEF WorkerStarts, Initializes, CallsBack, AsksInput, WorldRecord
    <2>2. CASE CommandsEnd \/ RelayFinishes \/ RelayDies \/ TurnsDeaf
      BY <1>1, <1>3, <2>2 DEF CommandsEnd, RelayFinishes, RelayDies, TurnsDeaf, Exits, WorldRecord
    <2> QED BY <1>3, <2>1, <2>2 DEF World
  <1> QED BY <1>2, <1>3

LEMMA FlowWorld ==
    ASSUME TypeOK, TypeOK', World, NEW kind \in CellEvents, Flow(kind)
    PROVE  Flow(kind)' /\ (Clear(kind) => Clear(kind)')
  <1>1. UNCHANGED <<disp, commands>> BY WorldFrame
  <1>2. Unasked BY <1>1, UnaskedSame
  <1>w. \/ Grows((Lifetime \cup Semantic) \ {kind})
        \/ StartsTodo /\ wk.todo = "Cell" /\ kind = "CellStarted"
        \/ FinishesTodo /\ wk.at = "Cell" /\ kind = "Completed"
    BY WorldSilent DEF CellEvents
  <1>3. CASE Grows((Lifetime \cup Semantic) \ {kind}) /\ (Run(kind)' => Run(kind))
    BY <1>1, <1>2, <1>3, WorldPlaces, FlowSame
  <1>4. CASE StartsTodo /\ wk.todo = "Cell" /\ kind = "CellStarted"
    <2>1. Said(kind) BY <1>4 DEF StartsTodo
    <2>2. Once(events', kind) BY <1>4, <2>1, SaidOnce DEF Flow
    <2> QED BY <1>1, <1>2, <1>4, <2>2, WorldPlaces DEF Flow, Clear, Run, Unasked
  <1>5. CASE FinishesTodo /\ wk.at = "Cell" /\ kind = "Completed"
    <2>1. Said(kind) BY <1>5 DEF FinishesTodo
    <2>2. Once(events', kind) BY <1>5, <2>1, SaidOnce DEF Flow, Run
    <2> QED BY <1>1, <1>2, <1>5, <2>2, WorldPlaces DEF Flow, Clear, Run, Unasked
  <1>6. CASE Grows((Lifetime \cup Semantic) \ {kind}) /\ ~(Run(kind)' => Run(kind))
    <2>1. StartsTodo /\ wk.todo = "Cell" /\ kind = "Completed" BY <1>6, WorldPlaces DEF Run
    <2>2. /\ Has(events', kind) <=> Has(events, kind)
          /\ Once(events, kind) => Once(events', kind)
      BY <1>6, GrowsHas
    <2> QED BY <1>1, <1>2, <2>1, <2>2, WorldPlaces DEF Flow, Clear, Run, Unasked
  <1> QED BY <1>w, <1>3, <1>4, <1>5, <1>6

(* Every step but the dispatch of a cell.                                  *)
LEMMA FlowStep ==
    ASSUME TypeOK, [Next]_vars, ~DispatchCell, NEW kind \in CellEvents, Flow(kind)
    PROVE  Flow(kind)' /\ (Clear(kind) => Clear(kind)')
  <1>t. TypeOK' BY TypesStep
  <1>1. CASE Reader
    <2>1. UNCHANGED <<disp, commands>> /\ wk'.todo = wk.todo /\ wk'.at = wk.at BY <1>1, ReaderFrame
    <2>2. kind \notin {"TransportFailure", "RelayClosed"} BY DEF CellEvents
    <2>3. Unasked BY <2>1, UnaskedSame
    <2> QED BY <1>t, <1>1, <2>1, <2>2, <2>3, ReaderGrows, FlowSame DEF Run
  <1>2. CASE AskStep
    <2>1. UNCHANGED <<disp, wk>> BY <1>2, AskFrame
    <2>2. kind \notin {"TransportFailure", "Retire"} BY DEF CellEvents
    <2> QED BY <1>t, <1>2, <2>1, <2>2, UnaskedAsk, AskGrows, FlowSame DEF Run
  <1>3. CASE (\E i \in Interrupters : Interrupt(i)) \/ Tick \/ UNCHANGED vars
    <2>1. UNCHANGED <<events, disp, wk>>
      BY <1>3, InterruptFrame, TickFrame DEF others, outside, vars
    <2>2. Unasked BY <1>3, UnaskedInterrupt, UnaskedSame, TickFrame DEF vars
    <2> QED BY <2>1, <2>2 DEF Flow, Clear, Run, Unasked
  <1> QED BY <1>t, <1>1, <1>2, <1>3, StepCases, FlowDispatch, FlowWriter, FlowHolder, FlowWorld

(* A cell sets out when nothing of another one is on the way.              *)
LEMMA FlowSends ==
    ASSUME TypeOK, TypeOK', DispatchCell, NEW kind \in CellEvents, Flow(kind),
           EnsureRunning => Clear(kind)
    PROVE  /\ Flow(kind)'
           /\ Clear(kind) => Clear(kind)' \/ (Move("receive") /\ UNCHANGED oper)
  <1>1. UNCHANGED <<events, disp, wk>> BY DEF DispatchCell, outside
  <1>2. CASE UNCHANGED commands BY <1>1, <1>2 DEF Flow, Clear, Run
  <1>3. CASE ~UNCHANGED commands
    <2>1. /\ EnsureRunning /\ Send(Command("Evaluate")) /\ Move("receive")
          /\ UNCHANGED oper
      BY <1>3 DEF DispatchCell
    <2> DEFINE S == [kind : {"Evaluate", "Prepare", "Reply", "Reject", "Interrupt", "Shutdown"},
                     i : Interrupters \cup {NoCall}]
               e == Command("Evaluate")
    <2>3. commands.queue \in Seq(S) /\ e \in S BY DEF TypeOK, CommandRecord, Command
    <2>4. commands'.queue = Append(commands.queue, e) BY <2>1 DEF Send, TypeOK, CommandRecord
    <2> HIDE DEF S, e
    <2>5. Once(commands'.queue, "Evaluate") BY <2>1, <2>3, <2>4, AppendHas DEF Clear
    <2> QED BY <1>1, <2>1, <2>5 DEF Flow, Clear, Run
  <1> QED BY <1>2, <1>3

-----------------------------------------------------------------------------
(* Cells.  A running launch has an operation exactly while somebody waits  *)
(* for it; a cell is one from bootstrap until its result is received; and  *)
(* nothing of a cell is on the way before it is dispatched and after it    *)
(* completed.                                                              *)
Resting == {"starting", "on_ready", "commit", "mark", "free", "begin", "reserve", "suspending",
            "prepare_env", "resolve", "begin_prepare"}
Undispatched == {"begin", "bootstrap", "dispatch", "abort"}
PlaceInv ==
    EnsureRunning =>
       /\ oper.kind # "None" <=> oper.result
       /\ oper.result => answer = "None"
       /\ answer # "Failed"
       /\ owner.at \in Resting => oper.kind = "None"
       /\ owner.at = "begin" => answer = "None"
       /\ owner.at \in Undispatched \ {"begin"} => oper.kind = "Cell"
       /\ oper.kind = "Cell" =>
            owner.at \in {"bootstrap", "dispatch", "abort", "receive"} /\ cell.outcome = "None"
       /\ owner.at \in Undispatched =>
            cell.phase # "Dispatched" /\ cell.outcome = "None" /\ ~cell.entered
       /\ owner.at = "dispatch" => oper.bootstrap # "Running"
OnWay(kind) == EnsureRunning /\ ~Clear(kind) => owner.at = "receive" /\ oper.kind = "Cell"
CellInv ==
    /\ PlaceInv
    /\ \A kind \in CellEvents : Flow(kind) /\ OnWay(kind)
    /\ EnsureRunning /\ ~Clear("CellStarted") => ~cell.entered

(* Steps that leave the places of a cell alone.                            *)
LEMMA PlaceKept ==
    ASSUME PlaceInv, EnsureRunning' => EnsureRunning,
           UNCHANGED <<oper.kind, oper.result, answer, owner.at, cell.outcome, cell.entered>>,
           oper'.bootstrap = "Running" => oper.bootstrap = "Running",
           cell'.phase = "Dispatched" => cell.phase = "Dispatched"
    PROVE  PlaceInv'
  BY DEF PlaceInv

LEMMA RunsOn == ASSUME OperInv, TypeOK, [Next]_vars PROVE EnsureRunning' => EnsureRunning
  BY OperStep DEF Remembers, EnsureRunning, TypeOK, OperRecord

(* What fails an operation, and what retires it, ends the launch's run.    *)
LEMMA FailStops ==
    ASSUME TypeOK, (\E cause \in Causes \ {"None"} : FailOperation(cause)) \/ RetireOperation
    PROVE  ~EnsureRunning'
  BY FailedFields, RetiredFields DEF EnsureRunning, TypeOK, OperRecord

LEMMA DispatchPlaces ==
    ASSUME TypeOK, Dispatch \/ Resolve
    PROVE  \/ (\E cause \in Causes \ {"None"} : FailOperation(cause)) \/ RetireOperation
           \/ CellStarted \/ Complete
           \/ /\ UNCHANGED <<oper.kind, oper.result, answer, cell.outcome, cell.entered>>
              /\ oper'.bootstrap = "Running" => oper.bootstrap = "Running"
              /\ cell'.phase = "Dispatched" => cell.phase = "Dispatched"
  <1>0. {"Protocol", "Result", "Transport", "Sideband", "Fatal", "RelayExit"} \subseteq Causes \ {"None"}
    BY DEF Causes
  <1>d. oper \in OperRecord /\ cell \in CellRecord BY DEF TypeOK
  <1>1. CASE DeferFails \/ RelayError \/ SidebandClosed \/ Fatal \/ TransportFailure \/ Retire
    BY <1>0, <1>1
    DEF DeferFails, RelayError, SidebandClosed, Fatal, TransportFailure, Retire, FailDispatch, operation
  <1>2. CASE ReadyCommitted \/ RelayClosed
    BY <1>0, <1>2 DEF ReadyCommitted, RelayClosed, RecordExit, FailDispatch, operation
  <1>3. CASE BootstrapFinished
    BY <1>d, <1>3 DEF BootstrapFinished, OperRecord, CellRecord
  <1>4. CASE BeginResolveR \/ Activate \/ Suspend \/ Resume \/ Resolve
    <2>1. \/ \E cause \in Causes \ {"None"} : FailOperation(cause)
          \/ /\ UNCHANGED <<answer, cell>>
             /\ \/ UNCHANGED oper \/ oper' = [oper EXCEPT !.suspended = FALSE]
                \/ oper' = [oper EXCEPT !.reserved = TRUE, !.suspended = TRUE]
                \/ \E callback \in {"None", "Resolving", "AwaitingActivation"} :
                      oper' = [oper EXCEPT !.callback = callback]
      <3>1. CASE BeginResolveR \/ Activate
        BY <1>0, <3>1 DEF BeginResolveR, Activate, FailDispatch, operation
      <3>2. CASE Suspend \/ Resume BY <3>2 DEF Suspend, Resume
      <3>3. CASE Resolve BY <1>0, <3>3 DEF Resolve, ReplyTo, FailDispatch
      <3> QED BY <1>4, <3>1, <3>2, <3>3
    <2> QED BY <1>d, <2>1 DEF OperRecord
  <1>5. CASE InputEvent BY <1>5, InputFields DEF InputEvent
  <1>6. CASE Defer \/ IgnoreSemantic \/ RelayLifetime \/ InterruptResult \/ ShutdownStarted \/ Ready
              \/ BeginCallback \/ TakeEnvironment
    BY <1>6
    DEF Defer, IgnoreSemantic, RelayLifetime, InterruptResult, ShutdownStarted, Ready, BeginCallback,
        TakeEnvironment, operation
  <1> QED BY <1>1, <1>2, <1>3, <1>4, <1>5, <1>6 DEF Dispatch

(* The events of a cell find it where they expect it.                      *)
LEMMA CellStartedTakes ==
    ASSUME TypeOK, TypeOK', CellInv, CellStarted, EnsureRunning
    PROVE  /\ Clear("CellStarted")' /\ owner.at = "receive" /\ oper.kind = "Cell"
           /\ UNCHANGED <<oper, answer, cell.outcome, cell.phase>>
  <1>1. TakeEvent({"CellStarted"}) BY DEF CellStarted, TakeRelay
  <1>2. NextEvent.kind = "CellStarted" /\ disp' = Popped BY <1>1, Taken DEF CellStarted
  <1>3. Clear("CellStarted")' /\ ~Clear("CellStarted")
    BY <1>1, <1>2, FlowTakes DEF CellInv, CellEvents, Dispatch
  <1>4. UNCHANGED <<oper, answer, cell.outcome, cell.phase>>
    BY DEF CellStarted, TypeOK, CellRecord
  <1> QED BY <1>3, <1>4 DEF CellInv, OnWay, CellEvents

LEMMA CompleteTakes ==
    ASSUME TypeOK, TypeOK', CellInv, Complete, EnsureRunning
    PROVE  /\ NextEvent.kind = "Completed" =>
                 Clear("Completed")' /\ oper.kind = "Cell" /\ cell.entered /\ owner.at = "receive"
           /\ NextEvent.kind # "Completed" => oper.kind = "Prepare"
  <1>1. TakeEvent(Results) /\ Acceptable(NextEvent) /\ disp' = Popped BY DEF Complete, TakeRelay
  <1>2. NextEvent.kind \in Results /\ NextEvent.kind \in Semantic BY <1>1, Taken DEF Semantic
  <1>3. ~SemanticError(NextEvent) BY <1>1, <1>2 DEF Acceptable
  <1>4. CASE NextEvent.kind = "Completed"
    <2>1. oper.kind = "Cell" /\ cell.entered BY <1>2, <1>3, <1>4 DEF SemanticError
    <2>2. Clear("Completed")' /\ ~Clear("Completed")
      BY <1>1, <1>4, FlowTakes DEF CellInv, CellEvents, Dispatch
    <2> QED BY <1>4, <2>1, <2>2 DEF CellInv, OnWay, CellEvents
  <1>5. CASE NextEvent.kind # "Completed"
    BY <1>2, <1>3, <1>5 DEF SemanticError
  <1> QED BY <1>4, <1>5


LEMMA CellDispatch ==
    ASSUME TypeOK, TypeOK', CellInv, Dispatch \/ Resolve, EnsureRunning' => EnsureRunning
    PROVE  CellInv'
  <1>1. \A kind \in CellEvents : Flow(kind)' /\ (Clear(kind) => Clear(kind)')
    BY FlowDispatch DEF CellInv
  <1>2. CASE ~EnsureRunning' BY <1>1, <1>2 DEF CellInv, PlaceInv, OnWay
  <1>3. CASE EnsureRunning'
    <2>0. EnsureRunning /\ owner'.at = owner.at BY <1>3, DispatchFrame, ResolveFrame DEF Holding
    <2>k. {"CellStarted", "Completed"} = CellEvents BY DEF CellEvents
    <2>1. CASE CellStarted
      <3>1. PlaceInv' BY <2>0, <2>1, CellStartedTakes DEF CellInv, PlaceInv, Undispatched, Resting
      <3>2. OnWay("Completed")' BY <1>1, <2>0, <2>1, <2>k, CellStartedTakes DEF CellInv, OnWay
      <3>3. Clear("CellStarted")' BY <2>0, <2>1, CellStartedTakes
      <3> QED BY <1>1, <2>k, <3>1, <3>2, <3>3 DEF CellInv, OnWay
    <2>2. CASE Complete
      <3>1. /\ oper'.kind = "None" /\ ~oper'.result /\ cell'.entered = cell.entered
            /\ UNCHANGED oper.bootstrap
        BY <2>2, CompletedFields
      <3>2. answer' # "Failed" BY <2>0, <2>2 DEF Complete, CellInv, PlaceInv
      <3>3. owner.at \notin Resting \cup Undispatched
        <4>1. \/ oper.kind = "Cell" /\ owner.at = "receive"
              \/ oper.kind = "Prepare"
          BY <2>0, <2>2, CompleteTakes
        <4>2. oper.kind = "Cell" /\ owner.at = "receive" => owner.at \notin Resting \cup Undispatched
          BY DEF Resting, Undispatched
        <4>3. owner.at \in Resting => oper.kind = "None" BY <2>0 DEF CellInv, PlaceInv
        <4>4. owner.at \in Undispatched \ {"begin"} => oper.kind = "Cell"
          BY <2>0 DEF CellInv, PlaceInv
        <4>5. "begin" \in Resting BY DEF Resting
        <4> QED BY <4>1, <4>2, <4>3, <4>4, <4>5
      <3>4. PlaceInv' BY <2>0, <3>1, <3>2, <3>3 DEF CellInv, PlaceInv, Undispatched, Resting
      <3>5. Clear("Completed")'
        BY <1>1, <2>0, <2>2, <2>k, CompleteTakes DEF CellInv, OnWay
      <3>6. Clear("CellStarted")'
        BY <1>1, <2>0, <2>2, <2>k, CompleteTakes DEF CellInv, OnWay
      <3> QED BY <1>1, <2>k, <3>4, <3>5, <3>6 DEF CellInv, OnWay
    <2>3. CASE /\ UNCHANGED <<oper.kind, oper.result, answer, cell.outcome, cell.entered>>
               /\ oper'.bootstrap = "Running" => oper.bootstrap = "Running"
               /\ cell'.phase = "Dispatched" => cell.phase = "Dispatched"
      <3>1. PlaceInv' BY <2>0, <2>3, PlaceKept DEF CellInv
      <3> QED BY <1>1, <2>0, <2>k, <2>3, <3>1 DEF CellInv, OnWay
    <2> QED BY <1>3, <2>1, <2>2, <2>3, DispatchPlaces, FailStops
  <1> QED BY <1>2, <1>3

(* A cell whose result is not there yet is not given up.                   *)
LEMMA CellAwaited ==
    ASSUME TypeOK, FailureInv, PlaceInv, EnsureRunning, HolderStep, owner.at = "receive"
    PROVE  oper.kind # "Cell" /\ ReceiveResult
  <1>1. ReceiveResult
    BY DEF HolderStep, OwnerStep, ReceiveStartup, OnReady, CommitReady, MarkReady, BeginCell,
       WaitForBootstrap, DispatchCell, AbortBootstrapCell, ReserveEnvironment, ReserveReplacement,
       ReplacementReserved, LockEnvironment, BeginPreparation, SendPreparation, OwnerRetires,
       OwnerRetired, ResolveDeclaration, Admit
  <1>2. disp.at # "done" BY DEF FailureInv
  <1> QED BY <1>1, <1>2 DEF ReceiveResult, PlaceInv, DispatcherDone

LEMMA HolderPlaces ==
    ASSUME TypeOK, HolderInv, FailureInv, PlaceInv, HolderStep, EnsureRunning, EnsureRunning'
    PROVE  PlaceInv'
  <1>d. owner \in OwnerRecord /\ oper \in OperRecord /\ cell \in CellRecord BY DEF TypeOK
  <1>0. CASE /\ \E label \in {"free", "ended"} : DropReservation(label)
             /\ oper.kind # "Cell" /\ UNCHANGED <<answer, cell>>
             /\ owner.at \in Resting
    <2>1. /\ owner'.at \in {"free", "ended"}
          /\ UNCHANGED <<oper.kind, oper.result, oper.bootstrap>>
      <3>1. PICK label \in {"free", "ended"} : DropReservation(label) BY <1>0
      <3>2. owner'.at = label /\ UNCHANGED <<oper.kind, oper.result, oper.bootstrap>>
        BY <3>1, DropFields
      <3> QED BY <3>2
    <2>2. oper.kind = "None" => ~oper.result BY DEF PlaceInv
    <2> QED BY <1>0, <2>1, <2>2 DEF PlaceInv, Undispatched, Resting
  <1>1. CASE ReceiveStartup \/ OnReady \/ CommitReady \/ MarkReady
    <2>1. /\ UNCHANGED <<oper, answer, cell>> /\ owner.at \in Resting
          /\ owner'.at \in {"on_ready", "commit", "mark", "free", "retire"}
      BY <1>d, <1>1 DEF ReceiveStartup, OnReady, CommitReady, MarkReady, FailStartup, Move, OwnerRecord,
         operation, Resting
    <2> QED BY <2>1 DEF PlaceInv, Undispatched, Resting
  <1>2. CASE BeginCell
    <2>1. CASE EnsureAvailable
      <3>1. /\ owner.at = "begin" /\ owner' = [owner EXCEPT !.at = "bootstrap"] /\ answer' = answer
            /\ oper' = [oper EXCEPT !.kind = "Cell", !.result = TRUE, !.idle_input = FALSE]
            /\ cell' = [cell EXCEPT !.input = oper.idle_input]
        BY <1>2, <2>1 DEF BeginCell, Move
      <3>2. owner'.at = "bootstrap" BY <1>d, <3>1 DEF OwnerRecord
      <3>3. oper'.kind = "Cell" /\ oper'.result BY <1>d, <3>1 DEF OperRecord
      <3>4. UNCHANGED <<cell.phase, cell.outcome, cell.entered>> BY <1>d, <3>1 DEF CellRecord
      <3> QED BY <3>1, <3>2, <3>3, <3>4 DEF PlaceInv, Undispatched, Resting
    <2>2. CASE ~EnsureAvailable
      BY <1>2, <2>2 DEF BeginCell, EnsureAvailable, PlaceInv, Resting
    <2> QED BY <2>1, <2>2
  <1>3. CASE WaitForBootstrap
    BY <1>d, <1>3 DEF WaitForBootstrap, Move, PlaceInv, OwnerRecord, operation, Undispatched, Resting
  <1>4. CASE DispatchCell
    <2>1. ~\E cause \in Causes \ {"None"} : FailOperation(cause) BY FailStops
    <2>2. "Owner" \in Causes \ {"None"} BY DEF Causes
    <2>3. /\ UNCHANGED <<oper, answer, cell.outcome, cell.entered>> /\ owner.at = "dispatch"
          /\ \/ Move("abort") /\ cell.phase = "Withheld" /\ cell' = cell
             \/ Move("receive")
      <3>1. ~FailOperation("Owner") BY <2>1, <2>2
      <3>2. UNCHANGED <<oper, answer>> /\ owner.at = "dispatch" BY <1>4, <3>1 DEF DispatchCell
      <3>3. \/ Move("abort") /\ cell.phase = "Withheld" /\ cell' = cell
            \/ Move("receive") /\ cell' = [cell EXCEPT !.phase = "Dispatched"]
        BY <1>4, <3>1 DEF DispatchCell
      <3>4. UNCHANGED <<cell.outcome, cell.entered>> BY <1>d, <3>3 DEF CellRecord
      <3> QED BY <3>2, <3>3, <3>4
    <2>4. \/ owner'.at = "abort" /\ cell'.phase # "Dispatched"
          \/ owner'.at = "receive"
      BY <1>d, <2>3 DEF Move, OwnerRecord
    <2> QED BY <2>3, <2>4 DEF PlaceInv, Undispatched, Resting
  <1>5. CASE AbortBootstrapCell
    <2>1. oper.kind = "Cell" BY <1>5 DEF AbortBootstrapCell, PlaceInv, Undispatched
    <2>2. /\ oper' = [oper EXCEPT !.kind = "None", !.result = FALSE, !.idle_input = cell.input]
          /\ Move("free") /\ answer' = answer
      BY <1>5, <2>1 DEF AbortBootstrapCell
    <2>3. oper'.kind = "None" /\ ~oper'.result /\ owner'.at = "free" BY <1>d, <2>2 DEF Move, OperRecord, OwnerRecord
    <2> QED BY <2>2, <2>3 DEF PlaceInv, Undispatched, Resting
  <1>6. CASE ReserveEnvironment \/ ReserveReplacement \/ ReplacementReserved
    <2>1. /\ UNCHANGED <<oper.kind, oper.result, answer, cell>> /\ owner.at \in Resting
          /\ owner'.at \in {"prepare_env", "free", "suspending"}
      <3>1. /\ UNCHANGED <<answer, cell>> /\ owner.at \in {"reserve", "suspending"}
            /\ UNCHANGED oper \/ oper' = [oper EXCEPT !.reserved = TRUE]
        BY <1>6 DEF ReserveEnvironment, ReserveReplacement, ReplacementReserved, operation
      <3>2. UNCHANGED <<oper.kind, oper.result>> BY <1>d, <3>1 DEF OperRecord
      <3>3. owner'.at \in {"prepare_env", "free", "suspending"}
        BY <1>d, <1>6 DEF ReserveEnvironment, ReserveReplacement, ReplacementReserved, Move, OwnerRecord
      <3> QED BY <3>1, <3>2, <3>3 DEF Resting
    <2> QED BY <2>1 DEF PlaceInv, Undispatched, Resting
  <1>7. CASE LockEnvironment \/ ResolveDeclaration
    <2>1. UNCHANGED <<answer, cell>> /\ owner.at \in {"prepare_env", "resolve"}
      BY <1>7 DEF LockEnvironment, ResolveDeclaration
    <2>2. oper.kind = "None" BY <2>1 DEF PlaceInv, Resting
    <2>3. CASE DropReservation("free") BY <1>0, <2>1, <2>2, <2>3 DEF Resting
    <2>4. CASE ~DropReservation("free")
      <3>1. UNCHANGED oper /\ owner'.at \in {"failed", "resolve", "retire", "begin_prepare"}
        BY <1>d, <1>7, <2>4 DEF LockEnvironment, ResolveDeclaration, Move, OwnerRecord
      <3> QED BY <2>1, <2>2, <3>1 DEF PlaceInv, Undispatched, Resting
    <2> QED BY <2>3, <2>4
  <1>8. CASE BeginPreparation
    <2>1. UNCHANGED cell /\ owner.at = "begin_prepare" /\ answer' \in {"None", answer}
      BY <1>8 DEF BeginPreparation
    <2>2. CASE UNCHANGED oper
      <3>1. owner'.at = "failed" /\ answer' = answer
        BY <1>d, <1>8, <2>2 DEF BeginPreparation, Move, OwnerRecord, OperRecord, EnsureAvailable
      <3> QED BY <2>1, <2>2, <3>1 DEF PlaceInv, Undispatched, Resting
    <2>3. CASE ~UNCHANGED oper
      <3>1. owner'.at = "send" /\ answer' = "None"
        BY <1>d, <1>8, <2>3 DEF BeginPreparation, Move, OwnerRecord
      <3>2. oper'.kind = "Prepare" /\ oper'.result BY <1>8, <2>3, PreparingFields
      <3> QED BY <2>1, <3>1, <3>2 DEF PlaceInv, Undispatched, Resting
    <2> QED BY <2>2, <2>3
  <1>9. CASE SendPreparation
    BY <1>d, <1>9 DEF SendPreparation, Move, PlaceInv, OwnerRecord, operation, Undispatched, Resting
  <1>10. CASE ReceiveResult
    <2>1. owner.at = "receive" /\ oper.kind # "Cell" /\ UNCHANGED cell /\ answer' = "None"
      BY <1>10, CellAwaited DEF ReceiveResult
    <2>2. disp.at # "done" /\ answer # "Failed" BY DEF FailureInv, PlaceInv
    <2>3. answer # "None" /\ ~oper.result /\ oper.kind = "None"
      BY <1>10, <2>2 DEF ReceiveResult, PlaceInv, DispatcherDone
    <2>4. \/ owner' = [owner EXCEPT !.at = "begin_prepare", !.job = "Prepare"] /\ UNCHANGED oper
          \/ DropReservation("free")
      BY <1>10, <2>2, <2>3 DEF ReceiveResult
    <2>5. owner'.at \in {"begin_prepare", "free"} /\ UNCHANGED <<oper.kind, oper.result>>
      BY <1>d, <2>4, DropFields DEF OwnerRecord
    <2> QED BY <2>1, <2>3, <2>5 DEF PlaceInv, Undispatched, Resting
  <1>11. CASE OwnerRetires \/ OwnerRetired
    <2>1. owner.at \in {"failed", "retire"} /\ answer' = answer BY <1>11 DEF OwnerRetires, OwnerRetired
    <2>2. owner'.at \in {"ended", "retire"} /\ UNCHANGED <<oper.kind, oper.result>>
      <3>1. DropReservation("ended") \/ (Move("retire") /\ UNCHANGED oper)
        BY <1>11 DEF OwnerRetires, OwnerRetired
      <3> QED BY <1>d, <3>1, DropFields DEF Move, OwnerRecord
    <2> QED BY <2>1, <2>2 DEF PlaceInv, Undispatched, Resting
  <1>12. CASE \E job \in Jobs : Admit(job)
    <2>1. PICK job \in Jobs : Admit(job) BY <1>12
    <2>2. UNCHANGED oper /\ answer' = "None" /\ owner.at = "free" /\ (job = "Cell" => ~cell'.entered)
      BY <1>d, <2>1 DEF Admit, CellRecord
    <2> QED BY <2>1, <2>2, AdmitFields DEF PlaceInv, Undispatched, Resting
  <1> QED BY <1>1, <1>2, <1>3, <1>4, <1>5, <1>6, <1>7, <1>8, <1>9, <1>10, <1>11, <1>12
          DEF HolderStep, OwnerStep

LEMMA CellHolder ==
    ASSUME TypeOK, TypeOK', HolderInv, FailureInv, CellInv, HolderStep, EnsureRunning' => EnsureRunning
    PROVE  CellInv'
  <1>k. {"CellStarted", "Completed"} = CellEvents BY DEF CellEvents
  <1>1. \A kind \in CellEvents : Flow(kind)'
    BY FlowHolder, FlowSends DEF CellInv, OnWay, DispatchCell
  <1>2. CASE ~EnsureRunning' BY <1>1, <1>2 DEF CellInv, PlaceInv, OnWay
  <1>3. CASE EnsureRunning'
    <2>1. EnsureRunning /\ PlaceInv' BY <1>3, HolderPlaces DEF CellInv
    <2>2. CASE owner.at = "receive"
      <3>1. oper.kind # "Cell" /\ ReceiveResult BY <2>1, <2>2, CellAwaited DEF CellInv
      <3>2. \A kind \in CellEvents : Clear(kind) BY <2>1, <3>1 DEF CellInv, OnWay
      <3>3. ~DispatchCell BY <2>2 DEF DispatchCell
      <3>4. \A kind \in CellEvents : Clear(kind)' BY <3>2, <3>3, FlowHolder DEF CellInv
      <3> QED BY <1>1, <1>k, <2>1, <3>4 DEF CellInv, OnWay
    <2>3. CASE owner.at # "receive"
      <3>1. \A kind \in CellEvents : Clear(kind) BY <2>1, <2>3 DEF CellInv, OnWay
      <3>2. CASE ~DispatchCell
        <4>1. \A kind \in CellEvents : Clear(kind)' BY <3>1, <3>2, FlowHolder DEF CellInv
        <4> QED BY <1>1, <1>k, <2>1, <4>1 DEF CellInv, OnWay
      <3>3. CASE DispatchCell
        <4>1. \A kind \in CellEvents : Clear(kind)' \/ (Move("receive") /\ UNCHANGED oper)
          BY <3>1, <3>3, FlowSends DEF CellInv
        <4>2. owner.at = "dispatch" /\ cell'.entered = cell.entered
          BY <3>3 DEF DispatchCell, TypeOK, CellRecord, FailOperation, FinishCell
        <4>3. oper.kind = "Cell" /\ ~cell.entered BY <2>1, <4>2 DEF CellInv, PlaceInv, Undispatched
        <4>4. Move("receive") => owner'.at = "receive" BY DEF Move, TypeOK, OwnerRecord
        <4> QED BY <1>1, <1>k, <2>1, <4>1, <4>2, <4>3, <4>4 DEF CellInv, OnWay
      <3> QED BY <3>2, <3>3
    <2> QED BY <2>2, <2>3
  <1> QED BY <1>2, <1>3

LEMMA CellStep ==
    ASSUME TypeOK, EndInv, HolderInv, CellInv, [Next]_vars
    PROVE  CellInv'
  <1>t. TypeOK' BY TypesStep
  <1>r. EnsureRunning' => EnsureRunning BY RunsOn DEF EndInv
  <1>1. CASE Dispatch \/ Resolve BY <1>t, <1>r, <1>1, CellDispatch
  <1>2. CASE HolderStep BY <1>t, <1>r, <1>2, CellHolder DEF EndInv
  <1>3. CASE ~(Dispatch \/ Resolve \/ HolderStep)
    <2>1. UNCHANGED <<oper, answer, owner>>
      BY <1>3, StepCases, WriterFrame, ReaderFrame, InterruptFrame, AskFrame, TickFrame, WorldFrame
      DEF vars, operation, others
    <2>2. /\ UNCHANGED <<cell.outcome, cell.entered>>
          /\ cell'.phase = "Dispatched" => cell.phase = "Dispatched"
      <3>c. cell \in CellRecord BY DEF TypeOK
      <3>1. CASE AskStep
        <4>1. cell' = cell \/ cell' = [cell EXCEPT !.open = FALSE]
          BY <3>1 DEF AskStep, LifecycleRetire, RetireStep, RequestShutdown, ShutdownReceipt,
             StartRetire, BarrierReached, StopRelay, JoinTasks, operation
        <4> QED BY <3>c, <4>1 DEF CellRecord
      <3>2. CASE \E i \in Interrupters : Interrupt(i) BY <3>c, <3>2 DEF Interrupt, CellRecord
      <3>3. CASE ~AskStep /\ ~\E i \in Interrupters : Interrupt(i)
        BY <1>3, <3>3, StepCases, WriterFrame, ReaderFrame, TickFrame, WorldFrame DEF vars, operation
      <3> QED BY <3>1, <3>2, <3>3
    <2>3. PlaceInv' BY <1>r, <2>1, <2>2, PlaceKept DEF CellInv
    <2>4. ~DispatchCell BY <1>3 DEF HolderStep, OwnerStep
    <2>5. \A kind \in CellEvents : Flow(kind)' /\ (Clear(kind) => Clear(kind)')
      BY <2>4, FlowStep DEF CellInv
    <2>6. "CellStarted" \in CellEvents BY DEF CellEvents
    <2> QED BY <1>r, <2>1, <2>2, <2>3, <2>5, <2>6 DEF CellInv, OnWay
  <1> QED BY <1>1, <1>2, <1>3

LEMMA CellInit == ASSUME Init PROVE CellInv
  <1>1. Len(<<>>) = 0 BY EmptyQueue
  <1>2. events = <<>> /\ disp.deferred = <<>> /\ commands.queue = <<>> BY DEF Init
  <1>3. wk.todo = "None" /\ wk.at = "Spawned" BY DEF Init
  <1>4. \A kind \in CellEvents : Flow(kind) /\ Clear(kind)
    BY <1>1, <1>2, <1>3 DEF Flow, Clear, Run, Has, Once
  <1>5. PlaceInv BY DEF Init, PlaceInv, Undispatched, Resting
  <1> QED BY <1>4, <1>5 DEF CellInv, OnWay, CellEvents

(* The way of a cell through a launch, of which NoPanic needs the places.  *)
THEOREM CellsHold == Spec => []CellInv
  <1>1. TypeOK /\ EndInv /\ EnvironmentInv /\ CellInv /\ [Next]_vars => CellInv'
    BY CellStep DEF EnvironmentInv
  <1> QED BY <1>1, CellInit, TypesHold, EndHolds, EnvironmentHolds, PTL DEF Spec

(* The assertions and expectations of the code hold: a cell is sent only   *)
(* after bootstrap and only if nothing withheld or sent it before, a cell  *)
(* that is withheld leaves no input request of the idle worker behind, and *)
(* retirement finds its budget, its allowance and its tasks.               *)
THEOREM PanicsHold == Spec => []NoPanic
  <1>1. TypeOK /\ EndInv /\ RetirementInv /\ CellInv => NoPanic
    <2> SUFFICES ASSUME TypeOK, EndInv, RetirementInv, CellInv PROVE NoPanic OBVIOUS
    <2>1. owner.at = "dispatch" /\ EnsureRunning =>
            /\ oper.bootstrap # "Running" /\ cell.phase # "Dispatched"
            /\ cell.phase = "Pending" => cell.outcome = "None"
      BY DEF CellInv, PlaceInv, Undispatched
    <2>2. oper.kind = "Cell" => ~oper.idle_input BY DEF EndInv, OperInv
    <2> QED BY <2>1, <2>2 DEF NoPanic, RetirementInv, AskingInv
  <1> QED BY <1>1, TypesHold, EndHolds, RetirementHolds, CellsHold, PTL

-----------------------------------------------------------------------------
(* The order of causes.  A suspension that nobody holds any more ends in   *)
(* front of the next completion, so a completion in the queue is handled   *)
(* when its turn comes; and what was queued before the barrier of          *)
(* retirement has its turn before it.                                      *)
Ahead(first, kind) ==
    \E j \in 1..Len(events) :
       events[j].kind = first /\ \A k \in 1..Len(events) : events[k].kind = kind => j < k

UnreservedInv == EnsureRunning /\ oper.kind = "Cell" => owner.reservation = "None"
ResumeInv == EnsureRunning /\ oper.suspended /\ ~Held => Ahead("Resume", "Completed")
AheadInv ==
    /\ retirement.tasks => ~ghost.ahead /\ ~Has(events, "Retire")
    /\ ghost.ahead =>
         \/ oper.failure # "None" \/ cell.outcome = "Completed"
         \/ EnsureRunning /\ oper.kind = "Cell" /\ Ahead("Completed", "Retire")
BarrierInv == UnreservedInv /\ ResumeInv /\ AheadInv

LEMMA AheadGrows ==
    ASSUME TypeOK, TypeOK', NEW first, NEW kind, Ahead(first, kind), NEW kinds, Grows(kinds)
    PROVE  Ahead(first, kind)'
  <1>1. Len(events) \in Nat /\ Len(events') \in Nat BY DEF TypeOK
  <1>2. PICK j \in 1..Len(events) :
           events[j].kind = first /\ \A k \in 1..Len(events) : events[k].kind = kind => j < k
    BY DEF Ahead
  <1>3. j \in 1..Len(events') /\ events'[j].kind = first BY <1>1, <1>2 DEF Grows
  <1>4. \A k \in 1..Len(events') : events'[k].kind = kind => j < k BY <1>1, <1>2 DEF Grows
  <1> QED BY <1>3, <1>4 DEF Ahead

LEMMA AheadShifts ==
    ASSUME TypeOK, TypeOK', NEW first, NEW kind, Ahead(first, kind), Shifts, events[1].kind # first
    PROVE  Ahead(first, kind)'
  <1>1. Len(events) \in Nat /\ Len(events') \in Nat /\ Len(events') = Len(events) - 1
    BY DEF TypeOK, Shifts
  <1>2. PICK j \in 1..Len(events) :
           events[j].kind = first /\ \A k \in 1..Len(events) : events[k].kind = kind => j < k
    BY DEF Ahead
  <1>3. j # 1 BY <1>2
  <1>4. \A k \in 1..Len(events') : k + 1 \in 1..Len(events) /\ events'[k] = events[k + 1]
    BY <1>1 DEF Shifts
  <1>5. j - 1 \in 1..Len(events') /\ (j - 1) + 1 = j BY <1>1, <1>2, <1>3
  <1>6. events'[j - 1].kind = first BY <1>2, <1>4, <1>5
  <1>7. \A k \in 1..Len(events') : events'[k].kind = kind => j - 1 < k BY <1>2, <1>4
  <1> QED BY <1>5, <1>6, <1>7 DEF Ahead

LEMMA AheadHead ==
    ASSUME TypeOK, NEW first, NEW kind, Ahead(first, kind)
    PROVE  events[1].kind # kind
  <1>1. Len(events) \in Nat BY DEF TypeOK
  <1> QED BY <1>1 DEF Ahead

LEMMA AheadAppend ==
    ASSUME TypeOK, NEW first, NEW kind, ~Has(events, kind), NEW e \in EventRecord,
           e.kind = first, first # kind, events' = Append(events, e)
    PROVE  Ahead(first, kind)'
  <1>1. /\ Len(events) \in Nat /\ Len(events') = Len(events) + 1 /\ events'[Len(events) + 1] = e
        /\ \A k \in 1..Len(events) : events'[k] = events[k]
    BY Appended DEF TypeOK
  <1>2. Len(events) + 1 \in 1..Len(events') BY <1>1
  <1>3. \A k \in 1..Len(events') : events'[k].kind # kind BY <1>1 DEF Has
  <1> QED BY <1>1, <1>2, <1>3 DEF Ahead

LEMMA AheadBarrier ==
    ASSUME TypeOK, NEW first, NEW kind, ~Has(events, kind), Has(events, first), NEW e \in EventRecord,
           events' = Append(events, e)
    PROVE  Ahead(first, kind)'
  <1>1. /\ Len(events) \in Nat /\ Len(events') = Len(events) + 1
        /\ \A k \in 1..Len(events) : events'[k] = events[k]
    BY Appended DEF TypeOK
  <1>2. PICK j \in 1..Len(events) : events[j].kind = first BY DEF Has
  <1>3. j \in 1..Len(events') /\ events'[j].kind = first BY <1>1, <1>2
  <1>4. \A k \in 1..Len(events') : events'[k].kind = kind => j < k BY <1>1, <1>2 DEF Has
  <1> QED BY <1>3, <1>4 DEF Ahead

(* The steps that take a kind of event from the queue.                     *)
LEMMA HeadTakes ==
    ASSUME TypeOK, SpoolInv, Dispatch
    PROVE  /\ UNCHANGED events \/ Shifts
           /\ ~UNCHANGED events /\ events[1].kind = "Resume" => Resume
           /\ Retire => events[1].kind = "Retire"
           /\ ~UNCHANGED events /\ events[1].kind = "Completed" =>
                Defer \/ DeferFails \/ RelayError \/ IgnoreSemantic \/ Complete
  <1>1. UNCHANGED events \/ Shifts BY DispatchShifts
  <1>2. ASSUME NEW kinds, TakeEvent(kinds), ~UNCHANGED events PROVE events[1].kind \in kinds
    BY <1>2, Taken
  <1>3. {"Resume", "Retire", "Completed"} \cap
          ({"Suspend", "TransportFailure", "RelayClosed", "Ready", "CellStarted"} \cup Lifetime \cup Initialized \cup
           Inputs \cup RuntimeCallbacks) = {}
    BY DEF Lifetime, Initialized, Inputs, RuntimeCallbacks
  <1>4. {"Resume", "Retire"} \cap (Semantic \cup Results) = {}
    BY DEF Semantic, Initialized, Inputs, Results, RuntimeCallbacks
  <1>5. Retire => events[1].kind = "Retire"
    <2> SUFFICES ASSUME Retire PROVE events[1].kind = "Retire" OBVIOUS
    <2>1. TakeEvent({"Retire"}) BY DEF Retire
    <2>2. ~FromSpool
      <3>1. ASSUME FromSpool PROVE FALSE
        <4>1. disp.deferred # <<>> /\ disp.deferred[1].kind = "Retire" BY <2>1, <3>1, Taken
        <4>2. 1 \in 1..Len(disp.deferred) BY <4>1 DEF TypeOK, DispRecord
        <4> QED BY <1>4, <4>1, <4>2 DEF SpoolInv
      <3> QED BY <3>1
    <2> QED BY <2>1, <2>2, Taken
  <1>6. CASE ~UNCHANGED events
    <2>0. ~(ReadyCommitted \/ TakeEnvironment \/ Activate)
      BY <1>6 DEF ReadyCommitted, TakeEnvironment, Activate
    <2>1. CASE Defer \/ DeferFails \/ IgnoreSemantic
      BY <1>1, <1>2, <1>3, <1>4, <1>5, <1>6, <2>1 DEF Defer, DeferFails, IgnoreSemantic, TakeRelay
    <2>2. CASE RelayError
      <3>1. events[1].kind \in Lifetime \cup Semantic BY <1>2, <1>6, <2>2 DEF RelayError, TakeRelay
      <3> QED BY <1>1, <1>3, <1>4, <1>5, <2>2, <3>1
    <2>3. CASE Complete
      <3>1. events[1].kind \in Results BY <1>2, <1>6, <2>3 DEF Complete, TakeRelay
      <3> QED BY <1>1, <1>4, <1>5, <2>3, <3>1
    <2>4. CASE Resume
      <3>1. events[1].kind = "Resume" BY <1>2, <1>6, <2>4 DEF Resume
      <3> QED BY <1>1, <1>5, <2>4, <3>1
    <2>5. CASE Retire BY <1>1, <1>5, <2>5
    <2>6. CASE RelayClosed
      <3>1. TakeEvent({"RelayClosed"}) BY <1>6, <2>6 DEF RelayClosed
      <3> QED BY <1>1, <1>2, <1>5, <1>6, <3>1
    <2>7. CASE RelayLifetime \/ SidebandClosed \/ InterruptResult \/ ShutdownStarted \/ Fatal
      <3>1. events[1].kind \in Lifetime
        <4>1. /\ {"WorkerStarted", "Outcome"} \subseteq Lifetime /\ {"SidebandClosed"} \subseteq Lifetime
              /\ {"InterruptResult"} \subseteq Lifetime /\ {"ShutdownStarted"} \subseteq Lifetime
              /\ {"Fatal", "PartialFrame"} \subseteq Lifetime
          BY DEF Lifetime
        <4> QED BY <1>2, <1>6, <2>7, <4>1
            DEF RelayLifetime, SidebandClosed, InterruptResult, ShutdownStarted, Fatal, TakeRelay
      <3> QED BY <1>1, <1>3, <1>5, <3>1
    <2>8. CASE Ready \/ CellStarted \/ Suspend \/ TransportFailure
      BY <1>1, <1>2, <1>5, <1>6, <2>8 DEF Ready, CellStarted, Suspend, TransportFailure, TakeRelay
    <2>9. CASE BootstrapFinished \/ InputEvent \/ BeginResolveR \/ BeginCallback
      <3>1. events[1].kind \in Initialized \cup Inputs \cup RuntimeCallbacks
        <4>1. {"ResolveR"} \subseteq RuntimeCallbacks /\ CallbackEvents \subseteq RuntimeCallbacks
          BY DEF RuntimeCallbacks, CallbackEvents
        <4> QED BY <1>2, <1>6, <2>9, <4>1
            DEF BootstrapFinished, InputEvent, BeginResolveR, BeginCallback, TakeRelay
      <3> QED BY <1>1, <1>3, <1>5, <3>1
    <2> QED BY <1>1, <2>0, <2>1, <2>2, <2>3, <2>4, <2>5, <2>6, <2>7, <2>8, <2>9 DEF Dispatch
  <1> QED BY <1>1, <1>5, <1>6


(* What the owner's steps do to a reservation and to the queue.            *)
LEMMA HolderCases ==
    ASSUME TypeOK, HolderInv, HolderStep
    PROVE  /\ oper'.suspended = oper.suspended
           /\ owner'.at = "receive" => DispatchCell \/ SendPreparation
           /\ Held /\ ~Held' => disp.at = "done" \/ events' = Append(events, Event("Resume"))
           /\ DispatchCell \/ SendPreparation => UNCHANGED owner.reservation
  <1>0. owner \in OwnerRecord /\ oper \in OperRecord BY DEF TypeOK
  <1>1. CASE DropReservation("free") \/ DropReservation("ended")
    <2>1. PICK label \in {"free", "ended"} : DropReservation(label) BY <1>1
    <2>2. owner'.at = label /\ oper'.suspended = oper.suspended BY <2>1, DropFields
    <2>3. owner.reservation = "Replacing" =>
            disp.at = "done" \/ events' = Append(events, Event("Resume"))
      BY <2>1 DEF DropReservation, DispatcherDone
    <2>4. owner.at # "suspending" \/ ~(ReceiveStartup \/ BeginCell)
      BY DEF ReceiveStartup, BeginCell
    <2>5. owner'.at \notin {"dispatch", "receive", "failed", "prepare_env", "suspending"} BY <2>2
    <2>6. ~DispatchCell /\ ~SendPreparation
      <3>1. DispatchCell => owner'.at \in {"abort", "receive", "failed"} BY <1>0 DEF DispatchCell, Move, OwnerRecord
      <3>2. SendPreparation => owner'.at \in {"receive", "failed"} BY <1>0 DEF SendPreparation, Move, OwnerRecord
      <3> QED BY <2>1, <2>2, <3>1, <3>2
    <2>7. owner.at = "suspending" => FALSE
      BY <1>0, <2>5 DEF HolderStep, OwnerStep, ReceiveStartup, OnReady, CommitReady, MarkReady, BeginCell,
        WaitForBootstrap, DispatchCell, AbortBootstrapCell, ReserveEnvironment, ReserveReplacement,
        ReplacementReserved, LockEnvironment, BeginPreparation, SendPreparation, ReceiveResult,
        OwnerRetires, OwnerRetired, ResolveDeclaration, Admit, OwnerRecord
    <2> QED BY <2>2, <2>3, <2>5, <2>6, <2>7 DEF Held
  <1>2. CASE DispatchCell
    <2>1. oper'.suspended = oper.suspended
      <3>1. "Owner" \in Causes BY DEF Causes
      <3> QED BY <1>2, <3>1, FailedFields DEF DispatchCell
    <2>2. \E label \in {"abort", "receive", "failed"} : Move(label) BY <1>2 DEF DispatchCell
    <2>3. UNCHANGED owner.reservation BY <1>0, <2>2 DEF Move, OwnerRecord
    <2>4. owner.at = "dispatch" BY <1>2 DEF DispatchCell
    <2> QED BY <1>2, <2>1, <2>3, <2>4 DEF Held
  <1>3. CASE SendPreparation
    <2>1. UNCHANGED oper /\ owner.at = "send" BY <1>3 DEF SendPreparation, operation
    <2>2. UNCHANGED owner.reservation BY <1>0, <1>3 DEF SendPreparation, Move, OwnerRecord
    <2> QED BY <1>3, <2>1, <2>2 DEF Held
  <1>4. CASE ReceiveStartup \/ OnReady \/ CommitReady \/ MarkReady \/ BeginCell \/ WaitForBootstrap
             \/ AbortBootstrapCell
    <2>1. oper'.suspended = oper.suspended
      BY <1>0, <1>4 DEF ReceiveStartup, OnReady, CommitReady, MarkReady, BeginCell, WaitForBootstrap,
         AbortBootstrapCell, FailStartup, OperRecord, operation
    <2>2. /\ owner.at \notin Reserves \cup {"suspending", "dispatch"} /\ owner'.at # "receive"
      BY <1>0, <1>4 DEF ReceiveStartup, OnReady, CommitReady, MarkReady, BeginCell, WaitForBootstrap,
         AbortBootstrapCell, FailStartup, Move, OwnerRecord, Reserves
    <2>3. ~DispatchCell /\ ~SendPreparation BY <2>2 DEF DispatchCell, SendPreparation, Reserves
    <2> QED BY <2>1, <2>2, <2>3 DEF Held, HolderInv
  <1>5. CASE ReserveEnvironment \/ ReserveReplacement \/ \E job \in Jobs : Admit(job)
    <2>1. /\ owner.at \in {"reserve", "free"} /\ owner'.at # "receive"
          /\ oper'.suspended = oper.suspended
      BY <1>0, <1>5, AdmitFields DEF ReserveEnvironment, ReserveReplacement, Move, OwnerRecord, OperRecord,
         operation, Admit
    <2>2. ~DispatchCell /\ ~SendPreparation BY <2>1 DEF DispatchCell, SendPreparation
    <2> QED BY <2>1, <2>2 DEF Held, HolderInv, Reserves
  <1>6. CASE ReplacementReserved
    <2>1. /\ owner.at = "suspending" /\ owner'.at = "prepare_env" /\ UNCHANGED oper
          /\ owner.admitted = "Ok" => owner'.reservation = "Replacing"
      BY <1>0, <1>6 DEF ReplacementReserved, OwnerRecord, operation
    <2>2. ~DispatchCell /\ ~SendPreparation BY <2>1 DEF DispatchCell, SendPreparation
    <2> QED BY <2>1, <2>2 DEF Held, HolderInv, Reserves
  <1>7. CASE LockEnvironment \/ ResolveDeclaration \/ OwnerRetires \/ OwnerRetired
    <2>1. \/ DropReservation("free") \/ DropReservation("ended")
          \/ \E label \in {"failed", "resolve", "retire", "begin_prepare"} : Move(label) /\ UNCHANGED oper
      BY <1>7 DEF LockEnvironment, ResolveDeclaration, OwnerRetires, OwnerRetired
    <2>2. owner.at \in {"prepare_env", "resolve", "failed", "retire"}
      BY <1>7 DEF LockEnvironment, ResolveDeclaration, OwnerRetires, OwnerRetired
    <2>3. ~DispatchCell /\ ~SendPreparation BY <2>2 DEF DispatchCell, SendPreparation
    <2>4. CASE \E label \in {"failed", "resolve", "retire", "begin_prepare"} : Move(label) /\ UNCHANGED oper
      <3>1. owner'.at # "receive" /\ UNCHANGED owner.reservation BY <1>0, <2>4 DEF Move, OwnerRecord
      <3> QED BY <2>2, <2>3, <2>4, <3>1 DEF Held
    <2> QED BY <1>1, <2>1, <2>4
  <1>8. CASE BeginPreparation
    <2>1. oper'.suspended = oper.suspended BY <1>8, PreparingFields
    <2>2. /\ owner.at = "begin_prepare" /\ owner'.at # "receive" /\ UNCHANGED owner.reservation
      BY <1>0, <1>8 DEF BeginPreparation, Move, OwnerRecord
    <2>3. ~DispatchCell /\ ~SendPreparation BY <2>2 DEF DispatchCell, SendPreparation
    <2> QED BY <2>1, <2>2, <2>3 DEF Held
  <1>9. CASE ReceiveResult
    <2>1. \/ DropReservation("free")
          \/ owner.at = "receive" /\ owner'.at # "receive" /\ UNCHANGED <<oper, owner.reservation>>
      BY <1>0, <1>9 DEF ReceiveResult, Move, OwnerRecord
    <2>2. ~DispatchCell /\ ~SendPreparation BY <1>9 DEF ReceiveResult, DispatchCell, SendPreparation
    <2> QED BY <1>1, <2>1, <2>2 DEF Held
  <1> QED BY <1>2, <1>3, <1>4, <1>5, <1>6, <1>7, <1>8, <1>9 DEF HolderStep, OwnerStep



(* What the dispatcher's other steps do to an operation.                   *)
LEMMA DispatchKeeps ==
    ASSUME TypeOK, Dispatch \/ Resolve
    PROVE  \/ Suspend \/ Retire \/ ReadyCommitted \/ Resume \/ Complete
           \/ UNCHANGED owner /\ \E cause \in Causes \ {"None"} : FailOperation(cause)
           \/ UNCHANGED <<owner, oper.kind, oper.failure, oper.retiring, oper.suspended>>
  <1>0. {"Protocol", "Result", "Transport", "Sideband", "Fatal", "RelayExit"} \subseteq Causes \ {"None"}
    BY DEF Causes
  <1>d. oper \in OperRecord BY DEF TypeOK
  <1>1. CASE Defer \/ DeferFails \/ RelayError \/ IgnoreSemantic \/ RelayLifetime \/ SidebandClosed
             \/ InterruptResult \/ ShutdownStarted \/ Fatal \/ Ready \/ CellStarted \/ TransportFailure
    BY <1>0, <1>1
    DEF Defer, DeferFails, RelayError, IgnoreSemantic, RelayLifetime, SidebandClosed, InterruptResult,
        ShutdownStarted, Fatal, Ready, CellStarted, TransportFailure, FailDispatch, operation, others
  <1>2. CASE BootstrapFinished \/ InputEvent
    BY <1>d, <1>2, InputFields DEF BootstrapFinished, InputEvent, OperRecord, others
  <1>3. CASE BeginResolveR \/ BeginCallback \/ TakeEnvironment \/ Activate \/ Resolve
    BY <1>0, <1>d, <1>3
    DEF BeginResolveR, BeginCallback, TakeEnvironment, Activate, Resolve, ReplyTo, FailDispatch,
        operation, others, OperRecord
  <1>4. CASE RelayClosed
    BY <1>0, <1>4 DEF RelayClosed, RecordExit, operation, others
  <1> QED BY <1>1, <1>2, <1>3, <1>4 DEF Dispatch

(* Nobody holds a reservation for a cell.                                  *)
LEMMA UnreservedStep ==
    ASSUME TypeOK, EndInv, HolderInv, HolderInv', CellInv, CellInv', UnreservedInv, [Next]_vars
    PROVE  UnreservedInv'
  <1> SUFFICES ASSUME EnsureRunning', oper'.kind = "Cell" PROVE owner'.reservation = "None"
    BY DEF UnreservedInv
  <1>r. EnsureRunning BY RunsOn DEF EndInv
  <1>1. CASE Dispatch \/ Resolve
    <2>1. UNCHANGED owner.reservation BY <1>1, DispatchFrame, ResolveFrame DEF Holding
    <2>2. ~RetireOperation /\ ~\E cause \in Causes \ {"None"} : FailOperation(cause) BY FailStops
    <2>3. oper.kind = "Cell"
      BY <1>1, <2>2, DispatchPlaces, CompletedFields DEF CellStarted
    <2> QED BY <1>r, <2>1, <2>3 DEF UnreservedInv
  <1>2. CASE HolderStep
    <2>1. owner'.at \in {"bootstrap", "dispatch", "abort", "receive"} BY DEF CellInv, PlaceInv
    <2>2. CASE owner'.at # "receive" BY <2>1, <2>2 DEF HolderInv, Reserves
    <2>3. CASE owner'.at = "receive"
      <3>1. DispatchCell \/ SendPreparation BY <1>2, <2>3, HolderCases
      <3>2. UNCHANGED owner.reservation BY <1>2, <3>1, HolderCases
      <3>3. CASE DispatchCell
        <4>1. owner.at = "dispatch" BY <3>3 DEF DispatchCell
        <4> QED BY <3>2, <4>1 DEF HolderInv, Reserves
      <3>4. CASE SendPreparation
        <4>1. owner.at = "send" /\ UNCHANGED oper BY <3>4 DEF SendPreparation, operation
        <4> QED BY <1>r, <4>1 DEF CellInv, PlaceInv
      <3> QED BY <3>1, <3>3, <3>4
    <2> QED BY <2>2, <2>3
  <1>3. CASE ~(Dispatch \/ Resolve \/ HolderStep)
    <2>1. UNCHANGED <<oper, owner>>
      BY <1>3, StepCases, WriterFrame, ReaderFrame, InterruptFrame, AskFrame, TickFrame, WorldFrame
      DEF vars, operation, others
    <2> QED BY <1>r, <2>1 DEF UnreservedInv
  <1> QED BY <1>1, <1>2, <1>3

(* The other threads only add to the queue, and one of them its barrier.   *)
LEMMA QueueGrows ==
    ASSUME TypeOK, [Next]_vars, ~(Dispatch \/ Resolve \/ HolderStep)
    PROVE  /\ UNCHANGED <<oper, owner, disp>>
           /\ \E kinds : Grows(kinds) /\ (~(\E c \in Callers : StartRetire(c)) => "Retire" \notin kinds)
  <1>1. UNCHANGED <<oper, owner, disp>>
    BY StepCases, WriterFrame, ReaderFrame, InterruptFrame, AskFrame, TickFrame, WorldFrame
    DEF vars, operation, others
  <1>2. CASE UNCHANGED events
    <2>1. Grows({}) BY <1>2, GrowsNot
    <2> QED BY <1>1, <2>1
  <1>3. CASE Writer BY <1>1, <1>3, WriterGrows
  <1>4. CASE Reader BY <1>1, <1>4, ReaderGrows
  <1>5. CASE AskStep BY <1>1, <1>5, AskGrows
  <1>6. CASE World
    <2>1. "Retire" \notin Lifetime \cup Semantic
      BY DEF Lifetime, Semantic, Initialized, Inputs, Results, RuntimeCallbacks
    <2> QED BY <1>1, <1>6, <2>1, WorldGrows
  <1>7. CASE (\E i \in Interrupters : Interrupt(i)) \/ Tick \/ UNCHANGED vars
    BY <1>2, <1>7, InterruptFrame, TickFrame DEF vars
  <1> QED BY <1>3, <1>4, <1>5, <1>6, <1>7, StepCases

(* A suspension that nobody holds ends before the next completion.         *)
LEMMA ResumeStep ==
    ASSUME TypeOK, TypeOK', EndInv, HolderInv, SpoolInv, SuspendInv, CellInv, ResumeInv, [Next]_vars
    PROVE  ResumeInv'
  <1> SUFFICES ASSUME EnsureRunning', oper'.suspended, ~Held' PROVE Ahead("Resume", "Completed")'
    BY DEF ResumeInv
  <1>r. EnsureRunning BY RunsOn DEF EndInv
  <1>1. CASE Dispatch
    <2>0. ~RetireOperation /\ ~\E cause \in Causes \ {"None"} : FailOperation(cause) BY FailStops
    <2>s. ~UNCHANGED events => events[1].kind # "Resume"
      <3>1. ~Resume BY DEF Resume, TypeOK, OperRecord
      <3> QED BY <1>1, <3>1, HeadTakes
    <2>1. oper.suspended /\ ~Held
      <3>1. CASE Suspend
        <4>1. owner'.admitted # "Ok" BY <3>1, SuspendFields DEF Held
        <4> QED BY <3>1, <4>1, SuspendFields DEF Held
      <3>2. CASE Retire \/ ReadyCommitted
        <4>1. "Protocol" \in Causes \ {"None"} BY DEF Causes
        <4> QED BY <2>0, <3>2, <4>1 DEF Retire, ReadyCommitted, FailDispatch, operation, Held, others
      <3>3. CASE Complete BY <3>3, CompletedFields DEF Held, Complete, others
      <3>4. CASE Resume BY <3>4 DEF Resume, TypeOK, OperRecord
      <3> QED BY <1>1, <2>0, <3>1, <3>2, <3>3, <3>4, DispatchKeeps DEF Held
    <2>2. Ahead("Resume", "Completed") BY <1>r, <2>1 DEF ResumeInv
    <2>3. CASE UNCHANGED events BY <2>2, <2>3 DEF Ahead
    <2>4. CASE ~UNCHANGED events BY <1>1, <2>2, <2>4, <2>s, HeadTakes, AheadShifts
    <2> QED BY <2>3, <2>4
  <1>2. CASE Resolve
    <2>0. ~\E cause \in Causes \ {"None"} : FailOperation(cause) BY FailStops
    <2>1. ~(Suspend \/ Retire \/ ReadyCommitted \/ Resume \/ Complete)
      BY <1>2 DEF Suspend, Retire, ReadyCommitted, Resume, Complete, TakeRelay, TakeEvent, Resolve
    <2>2. UNCHANGED events /\ oper.suspended /\ ~Held
      BY <1>2, <2>0, <2>1, DispatchKeeps, ResolveFrame DEF Held
    <2> QED BY <1>r, <2>2 DEF ResumeInv, Ahead
  <1>3. CASE HolderStep
    <2>1. oper.suspended BY <1>3, HolderCases
    <2>2. disp.at # "done" BY <1>r DEF EndInv, FailureInv
    <2>3. CASE Held
      <3>1. events' = Append(events, Event("Resume")) BY <1>3, <2>2, <2>3, HolderCases
      <3>2. Clear("Completed")
        <4>1. owner.at = "receive" => oper.kind # "Cell" BY <1>3, <1>r, CellAwaited DEF EndInv, CellInv
        <4> QED BY <1>r, <4>1 DEF CellInv, OnWay, CellEvents
      <3>3. Event("Resume") \in EventRecord /\ Event("Resume").kind = "Resume" BY EventTypes DEF Event
      <3> QED BY <3>1, <3>2, <3>3, AheadAppend DEF Clear
    <2>4. CASE ~Held
      <3>1. Ahead("Resume", "Completed") BY <1>r, <2>1, <2>4 DEF ResumeInv
      <3>2. owner.reservation # "Replacing" BY <2>4 DEF Held
      <3>3. CASE UNCHANGED events BY <3>1, <3>3 DEF Ahead
      <3>4. CASE events' = Append(events, Event("Suspend"))
        <4>1. Event("Suspend") \in EventRecord /\ Event("Suspend").kind \in {"Suspend"} BY EventTypes DEF Event
        <4>2. Grows({"Suspend"}) BY <3>4, <4>1, GrowsOne
        <4> QED BY <3>1, <4>2, AheadGrows
      <3> QED BY <1>3, <3>2, <3>3, <3>4, HolderGrows
    <2> QED BY <2>3, <2>4
  <1>4. CASE ~(Dispatch \/ Resolve \/ HolderStep)
    <2>1. UNCHANGED <<oper, owner>> BY <1>4, QueueGrows
    <2>2. PICK kinds : Grows(kinds) BY <1>4, QueueGrows
    <2>3. Ahead("Resume", "Completed") BY <1>r, <2>1 DEF ResumeInv, Held
    <2> QED BY <2>2, <2>3, AheadGrows
  <1> QED BY <1>1, <1>2, <1>3, <1>4


(* A completed cell stays completed until another one is admitted.         *)
LEMMA OutcomeKept ==
    ASSUME TypeOK, [Next]_vars, cell.outcome = "Completed", ~\E job \in Jobs : Admit(job)
    PROVE  cell'.outcome = "Completed"
  <1>c. cell \in CellRecord BY DEF TypeOK
  <1>f. \A outcome : FinishCell(outcome) = cell BY DEF FinishCell
  <1>1. CASE Dispatch \/ Resolve
    <2>1. CASE (\E cause \in Causes \ {"None"} : FailOperation(cause)) \/ RetireOperation
      BY <1>f, <2>1 DEF FailOperation, RetireOperation
    <2>2. CASE Complete BY <2>2, CompletedFields
    <2>3. CASE CellStarted BY <1>c, <2>3 DEF CellStarted, CellRecord
    <2> QED BY <1>1, <2>1, <2>2, <2>3, DispatchPlaces
  <1>2. CASE HolderStep
    <2>1. CASE BeginCell BY <1>c, <2>1 DEF BeginCell, CellRecord
    <2>2. CASE DispatchCell BY <1>c, <1>f, <2>2 DEF DispatchCell, FailOperation, CellRecord
    <2>3. CASE AbortBootstrapCell BY <1>c, <1>f, <2>3 DEF AbortBootstrapCell, CellRecord
    <2>4. CASE OwnerRetires BY <1>f, <2>4 DEF OwnerRetires
    <2>5. CASE ~(BeginCell \/ DispatchCell \/ AbortBootstrapCell \/ OwnerRetires)
      BY <1>2, <2>5 DEF HolderStep, OwnerStep, ReceiveStartup, OnReady, CommitReady, MarkReady, FailStartup,
         WaitForBootstrap, ReserveEnvironment, ReserveReplacement, ReplacementReserved, LockEnvironment,
         BeginPreparation, SendPreparation, ReceiveResult, OwnerRetired, ResolveDeclaration, operation
    <2> QED BY <2>1, <2>2, <2>3, <2>4, <2>5
  <1>3. CASE AskStep
    <2>1. cell' = cell \/ cell' = [cell EXCEPT !.open = FALSE]
      BY <1>3 DEF AskStep, LifecycleRetire, RetireStep, RequestShutdown, ShutdownReceipt,
         StartRetire, BarrierReached, StopRelay, JoinTasks, operation
    <2> QED BY <1>c, <2>1 DEF CellRecord
  <1>4. CASE \E i \in Interrupters : Interrupt(i) BY <1>c, <1>4 DEF Interrupt, CellRecord
  <1>5. CASE ~(Dispatch \/ Resolve \/ HolderStep \/ AskStep \/ \E i \in Interrupters : Interrupt(i))
    BY <1>5, StepCases, WriterFrame, ReaderFrame, TickFrame, WorldFrame DEF vars, operation
  <1> QED BY <1>1, <1>2, <1>3, <1>4, <1>5

(* Nothing is admitted to a launch that is being finished.                 *)
LEMMA FinishingAdmits ==
    ASSUME TypeOK, RetirementInv, ~retirement.tasks
    PROVE  ~\E job \in Jobs : Admit(job)
  <1> SUFFICES ASSUME NEW job \in Jobs, Admit(job) PROVE FALSE OBVIOUS
  <1>1. owner.at = "free" /\ ~retirement.lifecycle BY DEF Admit
  <1>2. PICK c \in Callers : caller[c] # "idle" BY DEF RetirementInv, AskingInv
  <1>3. CASE c = Owner BY <1>1, <1>2, <1>3 DEF RetirementInv, OwnerAsks
  <1>4. CASE c # Owner BY <1>1, <1>2, <1>4 DEF RetirementInv, AskingInv
  <1> QED BY <1>3, <1>4

(* A completion in front of the barrier is handled, or the launch fails.   *)
LEMMA AheadDispatch ==
    ASSUME TypeOK, TypeOK', EndInv, SpoolInv, SuspendInv, CellInv, UnreservedInv, ResumeInv,
           Dispatch \/ Resolve, EnsureRunning, oper.kind = "Cell", Ahead("Completed", "Retire")
    PROVE  \/ oper'.failure # "None" \/ cell'.outcome = "Completed"
           \/ EnsureRunning' /\ oper'.kind = "Cell" /\ Ahead("Completed", "Retire")'
  <1>1. Has(events, "Completed") BY DEF Ahead, Has
  <1>2. owner.at = "receive" BY <1>1 DEF CellInv, OnWay, Clear, CellEvents
  <1>3. ~Held BY <1>2 DEF UnreservedInv, Held
  <1>f. CASE \E cause \in Causes \ {"None"} : FailOperation(cause)
    <2>1. PICK cause \in Causes \ {"None"} : FailOperation(cause) BY <1>f
    <2> QED BY <2>1, FailedFields DEF TypeOK, OperRecord
  <1>c. CASE Complete
    <2>1. NextEvent.kind = "Completed" BY <1>c, CompleteTakes
    <2>2. oper.result /\ cell.outcome = "None" BY DEF CellInv, PlaceInv
    <2> QED BY <1>c, <2>1, <2>2, CompletedFields
  <1>4. CASE Resolve
    <2>1. ~(Suspend \/ Retire \/ ReadyCommitted \/ Resume \/ Complete)
      BY <1>4 DEF Suspend, Retire, ReadyCommitted, Resume, Complete, TakeRelay, TakeEvent, Resolve
    <2>2. CASE UNCHANGED <<oper.kind, oper.failure, oper.retiring>>
      BY <1>4, <2>2, ResolveFrame DEF EnsureRunning, Ahead
    <2> QED BY <1>4, <1>f, <2>1, <2>2, DispatchKeeps
  <1>5. CASE Dispatch /\ ~Complete /\ ~\E cause \in Causes \ {"None"} : FailOperation(cause)
    <2>0. {"Protocol", "Result"} \subseteq Causes \ {"None"} BY DEF Causes
    <2>1. events[1].kind # "Retire" BY AheadHead
    <2>2. ~Retire BY <1>5, <2>1, HeadTakes
    <2>3. UNCHANGED <<oper.kind, oper.failure, oper.retiring>>
      <3>1. CASE ReadyCommitted
        <4>1. retirement.ready_commit = "Committed" BY <1>2 DEF EndInv, ReadyInv, CommitInv, StartLabels
        <4> QED BY <3>1, <4>1 DEF ReadyCommitted, operation
      <3>2. CASE Suspend BY <3>2, SuspendFields DEF Suspend, TypeOK, OperRecord
      <3>3. CASE Resume BY <3>3 DEF Resume, TypeOK, OperRecord
      <3> QED BY <1>5, <2>2, <3>1, <3>2, <3>3, DispatchKeeps
    <2>4. EnsureRunning' /\ oper'.kind = "Cell" BY <2>3 DEF EnsureRunning
    <2>5. CASE UNCHANGED events BY <2>4, <2>5 DEF Ahead
    <2>6. CASE ~UNCHANGED events
      <3>1. events[1].kind # "Completed"
        <4> SUFFICES ASSUME events[1].kind = "Completed" PROVE FALSE OBVIOUS
        <4>1. Defer \/ DeferFails \/ RelayError \/ IgnoreSemantic BY <1>5, <2>6, HeadTakes
        <4>2. ~oper.suspended BY <1>3, AheadHead DEF ResumeInv
        <4>3. ~Defer BY <4>2 DEF Defer, Deferred
        <4>4. ~DeferFails /\ ~RelayError BY <1>5, <2>0 DEF DeferFails, RelayError, FailDispatch
        <4>5. ~disp.semantic /\ ~disp.retiring BY DEF EndInv, FailureInv, EnsureRunning
        <4>6. ~IgnoreSemantic BY <4>5 DEF IgnoreSemantic, Ignored
        <4> QED BY <4>1, <4>3, <4>4, <4>6
      <3>2. Shifts BY <1>5, <2>6, HeadTakes
      <3> QED BY <2>4, <3>1, <3>2, AheadShifts
    <2> QED BY <2>5, <2>6
  <1> QED BY <1>f, <1>c, <1>4, <1>5

LEMMA AheadStarts ==
    ASSUME TypeOK, TypeOK', RetirementInv, EndInv, AheadInv, NEW c \in Callers, StartRetire(c)
    PROVE  AheadInv'
  <1>1. CASE retirement.result # "None"
    BY <1>1 DEF StartRetire, AheadInv, operation, Ahead, Has, EnsureRunning
  <1>2. CASE retirement.result = "None"
    <2>1. retirement.tasks BY <1>2 DEF StartRetire, RetirementInv, AskingInv
    <2>2. ~Has(events, "Retire") BY <2>1 DEF AheadInv
    <2>3. ~retirement'.tasks BY <1>2 DEF StartRetire, TypeOK, RetirementRecord
    <2>4. UNCHANGED operation BY DEF StartRetire
    <2>5. ghost'.ahead => ~DispatcherDone /\ CompletionAhead BY <1>2 DEF StartRetire, TypeOK
    <2>6. CASE ~DispatcherDone /\ CompletionAhead
      <3>1. EnsureRunning /\ oper.kind = "Cell" BY <2>6 DEF CompletionAhead, EndInv, OperInv
      <3>2. Has(events, "Completed") BY <2>6 DEF CompletionAhead, Has, TypeOK
      <3>3. events' = Append(events, Event("Retire")) /\ Event("Retire") \in EventRecord
        BY <1>2, <2>6, EventTypes DEF StartRetire
      <3>4. Ahead("Completed", "Retire")' BY <2>2, <3>2, <3>3, AheadBarrier
      <3> QED BY <2>3, <2>4, <3>1, <3>4 DEF AheadInv, operation, EnsureRunning
    <2> QED BY <2>3, <2>5, <2>6 DEF AheadInv
  <1> QED BY <1>1, <1>2

LEMMA AheadStep ==
    ASSUME TypeOK, RetirementInv, EndInv, HolderInv, SpoolInv, SuspendInv, CellInv, UnreservedInv,
           ResumeInv, AheadInv, [Next]_vars
    PROVE  AheadInv'
  <1>t. TypeOK' BY TypesStep
  <1>0. CASE \E c \in Callers : StartRetire(c) BY <1>t, <1>0, AheadStarts
  <1>1. CASE ~\E c \in Callers : StartRetire(c)
    <2>0. UNCHANGED ghost.ahead /\ (retirement'.tasks => retirement.tasks)
      <3>1. CASE AskStep
        <4>1. UNCHANGED ghost
          BY <1>1, <3>1 DEF AskStep, LifecycleRetire, RetireStep, RequestShutdown, ShutdownReceipt,
             BarrierReached, StopRelay, JoinTasks
        <4>2. retirement'.tasks = retirement.tasks
          <5>1. CASE \E c \in Callers : StopRelay(c) BY <5>1, StopFrame
          <5>2. ASSUME NEW c \in Retirers, LifecycleRetire(c)
                PROVE  UNCHANGED retirement.tasks
            BY <5>2 DEF LifecycleRetire, TypeOK, RetirementRecord
          <5>3. ASSUME NEW c \in Callers, RequestShutdown(c)
                PROVE  UNCHANGED retirement.tasks
            <6> DEFINE r == [retirement EXCEPT !.requesting = TRUE, !.observed = "Requested",
                                               !.ready_commit = IF @ = "Open" THEN "Retiring" ELSE @]
            <6>0. retirement \in RetirementRecord BY DEF TypeOK
            <6>1. retirement' \in {r, [retirement EXCEPT !.cancelled = @ \/ c # Owner],
                                   [[r EXCEPT !.requesting = FALSE, !.requested = "Always"]
                                       EXCEPT !.cancelled = @ \/ c # Owner]}
              BY <5>3 DEF RequestShutdown, Requested
            <6>2. retirement' = r => UNCHANGED retirement.tasks BY <6>0 DEF RetirementRecord
            <6>3. retirement' = [retirement EXCEPT !.cancelled = @ \/ c # Owner] => UNCHANGED retirement.tasks
              BY <6>0 DEF RetirementRecord
            <6>4. retirement' = [[r EXCEPT !.requesting = FALSE, !.requested = "Always"]
                                    EXCEPT !.cancelled = @ \/ c # Owner] => UNCHANGED retirement.tasks
              BY <6>0 DEF RetirementRecord
            <6> QED BY <6>1, <6>2, <6>3, <6>4
          <5>4. ASSUME NEW c \in Callers, ShutdownReceipt(c)
                PROVE  UNCHANGED retirement.tasks
            BY <5>4 DEF ShutdownReceipt, Requested, TypeOK, RetirementRecord
          <5>5. ASSUME NEW c \in Callers, BarrierReached(c) \/ JoinTasks(c)
                PROVE  UNCHANGED retirement.tasks
            BY <5>5 DEF BarrierReached, JoinTasks, TypeOK, RetirementRecord
          <5> QED BY <1>1, <3>1, <5>1, <5>2, <5>3, <5>4, <5>5 DEF AskStep, RetireStep
        <4> QED BY <4>1, <4>2
      <3>2. CASE Dispatch
        <4>1. UNCHANGED retirement.tasks BY <3>2, DispatchFrame DEF Asking
        <4>2. UNCHANGED ghost \/ Handled(NextEvent) \/ RelayClosed
          BY <3>2 DEF Dispatch, Defer, DeferFails, RelayError, IgnoreSemantic, RelayLifetime, SidebandClosed,
             InterruptResult, ShutdownStarted, Fatal, Ready, ReadyCommitted, BootstrapFinished, CellStarted,
             InputEvent, BeginResolveR, BeginCallback, TakeEnvironment, Activate, Complete, Suspend, Resume,
             TransportFailure, Retire
        <4>3. CASE RelayClosed BY <4>1, <4>3 DEF RelayClosed, TypeOK
        <4>4. CASE Handled(NextEvent) BY <4>1, <4>4 DEF Handled, TypeOK
        <4> QED BY <4>1, <4>2, <4>3, <4>4
      <3>3. CASE ~AskStep /\ ~Dispatch
        <4>1. UNCHANGED ghost
          BY <3>3, StepCases, ResolveFrame, WriterFrame, ReaderFrame, HolderFrame, InterruptFrame, TickFrame,
             WorldFrame DEF vars
        <4>2. CASE HolderStep
          <5>1. CASE OwnerRetires BY <5>1 DEF OwnerRetires, TypeOK, RetirementRecord
          <5>2. CASE ~OwnerRetires BY <4>2, <5>2, HolderFrame DEF Asking
          <5> QED BY <5>1, <5>2
        <4>3. CASE ~HolderStep
          BY <3>3, <4>3, StepCases, ResolveFrame, WriterFrame, ReaderFrame, InterruptFrame, TickFrame, WorldFrame
          DEF vars, Asking, others
        <4> QED BY <4>1, <4>2, <4>3
      <3> QED BY <3>1, <3>2, <3>3
    <2>1. ~Has(events, "Retire") => ~Has(events', "Retire")
      <3>1. CASE Dispatch \/ Resolve
        <4>1. UNCHANGED events \/ Shifts BY <3>1, DispatchShifts, ResolveFrame
        <4>2. Len(events) \in Nat /\ Len(events') \in Nat BY <1>t DEF TypeOK
        <4> QED BY <4>1, <4>2, ShiftHas DEF Shifts
      <3>2. CASE HolderStep
        <4>1. CASE UNCHANGED events BY <4>1
        <4>2. CASE ~UNCHANGED events
          <5>1. PICK e \in {Event("Suspend"), Event("Resume")} : events' = Append(events, e)
            BY <3>2, <4>2, HolderGrows
          <5>2. e \in EventRecord /\ e.kind # "Retire" BY EventTypes DEF Event
          <5> QED BY <5>1, <5>2, AppendHas DEF TypeOK
        <4> QED BY <4>1, <4>2
      <3>3. CASE ~(Dispatch \/ Resolve \/ HolderStep)
        <4>1. PICK kinds : Grows(kinds) /\ "Retire" \notin kinds BY <1>1, <3>3, QueueGrows
        <4> QED BY <1>t, <4>1, GrowsHas
      <3> QED BY <3>1, <3>2, <3>3
    <2>2. ASSUME ghost.ahead
          PROVE  \/ oper'.failure # "None" \/ cell'.outcome = "Completed"
                 \/ EnsureRunning' /\ oper'.kind = "Cell" /\ Ahead("Completed", "Retire")'
      <3>1. CASE oper.failure # "None" BY <3>1, OperStep DEF EndInv, Remembers
      <3>2. CASE cell.outcome = "Completed"
        BY <2>2, <3>2, OutcomeKept, FinishingAdmits DEF AheadInv
      <3>3. CASE EnsureRunning /\ oper.kind = "Cell" /\ Ahead("Completed", "Retire")
        <4>1. CASE Dispatch \/ Resolve BY <1>t, <3>3, <4>1, AheadDispatch
        <4>2. CASE HolderStep
          <5>1. Has(events, "Completed") BY <3>3 DEF Ahead, Has
          <5>2. owner.at = "receive" BY <3>3, <5>1 DEF CellInv, OnWay, Clear, CellEvents
          <5> QED BY <3>3, <4>2, <5>2, CellAwaited DEF EndInv, CellInv
        <4>3. CASE ~(Dispatch \/ Resolve \/ HolderStep)
          <5>1. UNCHANGED oper BY <4>3, QueueGrows
          <5>2. PICK kinds : Grows(kinds) BY <4>3, QueueGrows
          <5> QED BY <1>t, <3>3, <5>1, <5>2, AheadGrows DEF EnsureRunning
        <4> QED BY <4>1, <4>2, <4>3
      <3> QED BY <2>2, <3>1, <3>2, <3>3 DEF AheadInv
    <2> QED BY <2>0, <2>1, <2>2 DEF AheadInv
  <1> QED BY <1>0, <1>1

LEMMA BarrierStep ==
    ASSUME TypeOK, RetirementInv, EndInv, EnvironmentInv, CellInv, BarrierInv, [Next]_vars
    PROVE  BarrierInv'
  <1>1. TypeOK' BY TypesStep
  <1>0. HolderInv /\ SpoolInv /\ SuspendInv BY DEF EnvironmentInv
  <1>2. HolderInv' /\ CellInv' BY <1>0, HolderKept, CellStep
  <1>3. UnreservedInv /\ ResumeInv /\ AheadInv BY DEF BarrierInv
  <1>4. UnreservedInv' BY <1>0, <1>2, <1>3, UnreservedStep
  <1>5. ResumeInv' BY <1>0, <1>1, <1>3, ResumeStep
  <1>6. AheadInv' BY <1>0, <1>3, AheadStep
  <1> QED BY <1>4, <1>5, <1>6 DEF BarrierInv

LEMMA BarrierInit == ASSUME Init PROVE BarrierInv
  <1>1. events = <<>> /\ Len(<<>>) = 0 BY EmptyQueue DEF Init
  <1> QED BY <1>1 DEF Init, BarrierInv, UnreservedInv, ResumeInv, AheadInv, Has

(* The order of the causes of a launch's end, of which OrderedBarrier is   *)
(* the part that a reader of the code relies on.                           *)
THEOREM BarrierHolds == Spec => []BarrierInv
  <1>1. TypeOK /\ RetirementInv /\ EndInv /\ EnvironmentInv /\ CellInv /\ BarrierInv /\ [Next]_vars
          => BarrierInv'
    BY BarrierStep
  <1>2. Init => BarrierInv BY BarrierInit
  <1> QED BY <1>1, <1>2, TypesHold, RetirementHolds, EndHolds, EnvironmentHolds, CellsHold, PTL DEF Spec

(* A completion that was queued before the barrier of retirement completes *)
(* its cell unless the launch fails first, and a relay that ended before   *)
(* anything else went wrong is recorded as the cause.                      *)
THEOREM BarrierOrders == Spec => []OrderedBarrier
  <1>1. EndInv /\ CellInv /\ BarrierInv => OrderedBarrier
    <2> SUFFICES ASSUME EndInv, CellInv, BarrierInv, ghost.ahead, cell.outcome = "Failed", oper.failure = "None"
                 PROVE  FALSE
      BY DEF EndInv, FailureInv, OperInv, OrderedBarrier
    <2>1. EnsureRunning /\ oper.kind = "Cell" BY DEF BarrierInv, AheadInv
    <2> QED BY <2>1 DEF CellInv, PlaceInv
  <1> QED BY <1>1, EndHolds, CellsHold, BarrierHolds, PTL
=============================================================================
