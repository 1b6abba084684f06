---------------------------- MODULE LifecycleProofs ----------------------------
(***************************************************************************)
(* Type correctness of Lifecycle for every set of calls and every bound:   *)
(* lemmas on writing one field of a call or launch, on the helpers of the  *)
(* actions, one lemma per action, and the theorem. Then the first safety   *)
(* theorems: their induction follows the call that owns a restart, what    *)
(* other calls leave alone, and what it does itself; and the skeleton of a *)
(* call: what the place where it is tells of its mode and of what it owns. *)
(*                                                                         *)
(* The second half is about launches: who has the last one, that every     *)
(* earlier one is down, and what a close leaves. A call's step is quiet    *)
(* when it leaves the launches and the registered handle alone; each other *)
(* step gets a lemma of its own.                                           *)
(***************************************************************************)
EXTENDS Lifecycle, TLAPS

LEMMA PcWrite ==
    ASSUME NEW f \in [Ops -> OpRecord], NEW o, NEW x \in Labels
    PROVE  [f EXCEPT ![o].pc = x] \in [Ops -> OpRecord]
  BY DEF OpRecord

LEMMA ModeWrite ==
    ASSUME NEW f \in [Ops -> OpRecord], NEW o, NEW x \in Modes
    PROVE  [f EXCEPT ![o].mode = x] \in [Ops -> OpRecord]
  BY DEF OpRecord

LEMMA GenWrite ==
    ASSUME NEW f \in [Ops -> OpRecord], NEW o, NEW x \in Generations
    PROVE  [f EXCEPT ![o].gen = x] \in [Ops -> OpRecord]
  BY DEF OpRecord

LEMMA TargetWrite ==
    ASSUME NEW f \in [Ops -> OpRecord], NEW o, NEW x \in Launches \cup {NoLaunch}
    PROVE  [f EXCEPT ![o].target = x] \in [Ops -> OpRecord]
  BY DEF OpRecord

LEMMA ResolverWrite ==
    ASSUME NEW f \in [Ops -> OpRecord], NEW o, NEW x \in Ops \cup {NoOp}
    PROVE  [f EXCEPT ![o].resolver = x] \in [Ops -> OpRecord]
  BY DEF OpRecord

LEMMA SelectedWrite ==
    ASSUME NEW f \in [Ops -> OpRecord], NEW o, NEW x \in Launches \cup {NoLaunch}
    PROVE  [f EXCEPT ![o].selected = x] \in [Ops -> OpRecord]
  BY DEF OpRecord

LEMMA ReadyWrite ==
    ASSUME NEW f \in [Ops -> OpRecord], NEW o, NEW x \in BOOLEAN
    PROVE  [f EXCEPT ![o].ready = x] \in [Ops -> OpRecord]
  BY DEF OpRecord

LEMMA PhaseWrite ==
    ASSUME NEW f \in [Ops -> OpRecord], NEW o, NEW x \in Phases
    PROVE  [f EXCEPT ![o].phase = x] \in [Ops -> OpRecord]
  BY DEF OpRecord

LEMMA OutcomeWrite ==
    ASSUME NEW f \in [Ops -> OpRecord], NEW o, NEW x \in CellOutcomes
    PROVE  [f EXCEPT ![o].outcome = x] \in [Ops -> OpRecord]
  BY DEF OpRecord

LEMMA RanOnWrite ==
    ASSUME NEW f \in [Ops -> OpRecord], NEW o, NEW x \in Launches \cup {NoLaunch}
    PROVE  [f EXCEPT ![o].ran_on = x] \in [Ops -> OpRecord]
  BY DEF OpRecord

LEMMA LaunchGenWrite ==
    ASSUME NEW f \in [Launches -> LaunchRecord], NEW l, NEW x \in Generations
    PROVE  [f EXCEPT ![l].gen = x] \in [Launches -> LaunchRecord]
  BY Zenon DEF LaunchRecord

LEMMA LaunchLiveWrite ==
    ASSUME NEW f \in [Launches -> LaunchRecord], NEW l, NEW x \in BOOLEAN
    PROVE  [f EXCEPT ![l].live = x] \in [Launches -> LaunchRecord]
  BY Zenon DEF LaunchRecord

LEMMA LaunchReadyWrite ==
    ASSUME NEW f \in [Launches -> LaunchRecord], NEW l, NEW x \in BOOLEAN
    PROVE  [f EXCEPT ![l].ready = x] \in [Launches -> LaunchRecord]
  BY Zenon DEF LaunchRecord

LEMMA LaunchCommittedWrite ==
    ASSUME NEW f \in [Launches -> LaunchRecord], NEW l, NEW x \in BOOLEAN
    PROVE  [f EXCEPT ![l].committed = x] \in [Launches -> LaunchRecord]
  BY Zenon DEF LaunchRecord

LEMMA LaunchFailedWrite ==
    ASSUME NEW f \in [Launches -> LaunchRecord], NEW l, NEW x \in BOOLEAN
    PROVE  [f EXCEPT ![l].failed = x] \in [Launches -> LaunchRecord]
  BY Zenon DEF LaunchRecord

LEMMA LaunchCleanupWrite ==
    ASSUME NEW f \in [Launches -> LaunchRecord], NEW l, NEW x \in Retirements \cup {"None"}
    PROVE  [f EXCEPT ![l].cleanup = x] \in [Launches -> LaunchRecord]
  BY Zenon DEF LaunchRecord

LEMMA LaunchRInitWrite ==
    ASSUME NEW f \in [Launches -> LaunchRecord], NEW l, NEW x \in {"No", "Begun", "Complete"}
    PROVE  [f EXCEPT ![l].r_init = x] \in [Launches -> LaunchRecord]
  BY Zenon DEF LaunchRecord

LEMMA LaunchStdinWrite ==
    ASSUME NEW f \in [Launches -> LaunchRecord], NEW l, NEW x \in SUBSET Generations
    PROVE  [f EXCEPT ![l].stdin = x] \in [Launches -> LaunchRecord]
  BY Zenon DEF LaunchRecord

LEMMA OpFields ==
    ASSUME OpTypes, NEW o \in Ops
    PROVE  /\ op[o] \in OpRecord
           /\ op[o].gen \in Generations
           /\ op[o].target \in Launches \cup {NoLaunch}
           /\ op[o].resolver \in Ops \cup {NoOp}
           /\ op[o].selected \in Launches \cup {NoLaunch}
           /\ op[o].mode \in Modes
           /\ op[o].ready \in BOOLEAN
           /\ op[o].outcome \in CellOutcomes
  BY DEF OpTypes, OpRecord

LEMMA GotoType ==
    ASSUME OpTypes, NEW o \in Ops, NEW label \in Labels, Goto(o, label)
    PROVE  op' \in [Ops -> OpRecord]
  BY DEF OpTypes, OpRecord, Goto

LEMMA CompleteCellType ==
    ASSUME OpTypes, NEW o \in Ops, NEW outcome \in CellOutcomes,
           NEW label \in Labels, CompleteCell(o, outcome, label)
    PROVE  op' \in [Ops -> OpRecord]
  <1>1. CASE op[o].outcome = "None"
    <2>1. op' = [op EXCEPT ![o].outcome = outcome, ![o].pc = label]
      BY <1>1 DEF CompleteCell, OpTypes
    <2> QED BY <2>1, OutcomeWrite, PcWrite, Zenon DEF OpTypes
  <1>2. CASE op[o].outcome # "None"
    <2>1. op' = [op EXCEPT ![o].outcome = op[o].outcome, ![o].pc = label]
      BY <1>2 DEF CompleteCell, OpTypes
    <2> QED BY <2>1, OpFields, OutcomeWrite, PcWrite, Zenon DEF OpTypes
  <1> QED BY <1>1, <1>2

LEMMA LaunchFields ==
    ASSUME ProcessTypes, NEW l \in Launches
    PROVE  /\ launch[l] \in LaunchRecord
           /\ launch[l].live \in BOOLEAN
           /\ launch[l].cleanup \in Retirements \cup {"None"}
           /\ launch[l].stdin \in SUBSET Generations
  BY DEF ProcessTypes, LaunchRecord

LEMMA RetiredType ==
    ASSUME ProcessTypes, NEW l \in Launches \cup {NoLaunch}, NEW outcome \in Outcomes(l)
    PROVE  Retired(l, outcome) \in [Launches -> LaunchRecord]
  <1>1. CASE l # NoLaunch /\ launch[l].live
    <2>1. outcome \in Retirements /\ l \in Launches
      BY <1>1 DEF Outcomes
    <2>2. Retired(l, outcome) = [launch EXCEPT ![l].live = FALSE, ![l].cleanup = outcome]
      BY <1>1 DEF Retired
    <2>3. launch \in [Launches -> LaunchRecord] BY DEF ProcessTypes
    <2>4. FALSE \in BOOLEAN /\ outcome \in Retirements \cup {"None"} BY <2>1
    <2>5. [launch EXCEPT ![l].live = FALSE] \in [Launches -> LaunchRecord]
      BY <2>1, <2>3, <2>4, LaunchLiveWrite, Zenon
    <2>6. [launch EXCEPT ![l].live = FALSE, ![l].cleanup = outcome] \in [Launches -> LaunchRecord]
      BY <2>1, <2>5, <2>4, LaunchCleanupWrite, Zenon
    <2> QED BY <2>2, <2>6, Zenon
  <1>2. CASE ~(l # NoLaunch /\ launch[l].live)
    BY <1>2 DEF Retired, ProcessTypes
  <1> QED BY <1>1, <1>2

LEMMA ReleaseType ==
    ASSUME NEW W, NEW lock \in [readers : SUBSET Ops, writer : W \cup {NoOp}], NEW o
    PROVE  Release(lock, o) \in [readers : SUBSET Ops, writer : W \cup {NoOp}]
  BY DEF Release

LEMMA DropStartupType ==
    ASSUME LifecycleTypes, NEW o, DropStartup(o)
    PROVE  startup_owner' \subseteq Ops /\ startup_interrupted' \in BOOLEAN
  BY DEF LifecycleTypes, DropStartup

LEMMA ReserveStartupType ==
    ASSUME LifecycleTypes, NEW o \in Ops, ReserveStartup(o)
    PROVE  startup_owner' \subseteq Ops /\ startup_interrupted' \in BOOLEAN
  BY DEF LifecycleTypes, ReserveStartup

LEMMA ReleaseAdmissionType ==
    ASSUME LifecycleTypes, SessionTypes, NEW o, ReleaseAdmission(o)
    PROVE  /\ admission' \in [readers : SUBSET Ops, writer : Controls \cup {NoOp}]
           /\ preparation' \in [readers : SUBSET Ops, writer : Cells \cup {NoOp}]
           /\ controlled_send' \in Controls \cup {NoOp}
  BY ReleaseType DEF LifecycleTypes, SessionTypes, ReleaseAdmission

LEMMA RefuseType == ASSUME TypeOK, NEW o \in Ops, Refuse(o) PROVE TypeOK'
  <1> USE DEF TypeOK
  <1>1. LifecycleTypes' BY ReleaseAdmissionType, DropStartupType DEF Refuse, LifecycleTypes
  <1>2. StartupTypes' BY DEF Refuse, StartupTypes, startup
  <1>3. SessionTypes' BY ReleaseAdmissionType DEF Refuse, SessionTypes, Unlock
  <1>4. ProcessTypes' BY DEF Refuse, ProcessTypes, process
  <1>5. OpTypes'
    <2>1. "done" \in Labels /\ Goto(o, "done") /\ UNCHANGED cancelled BY DEF Refuse, Labels
    <2> QED BY <2>1, GotoType DEF OpTypes
  <1> QED BY <1>1, <1>2, <1>3, <1>4, <1>5

LEMMA PublishType ==
    ASSUME TypeOK, NEW o \in Evaluators, PublishEvaluation(o)
    PROVE  TypeOK'
  <1> USE DEF TypeOK
  <1>0. o \in Ops BY DEF Evaluators, Ops
  <1>1. LifecycleTypes'
    BY <1>0, ReleaseAdmissionType, ReserveStartupType DEF PublishEvaluation, LifecycleTypes
  <1>2. StartupTypes' BY DEF PublishEvaluation, StartupTypes, startup
  <1>3. SessionTypes' BY ReleaseAdmissionType DEF PublishEvaluation, SessionTypes
  <1>4. ProcessTypes' BY DEF PublishEvaluation, ProcessTypes, process
  <1>5. op' = [op EXCEPT ![o].pc = "evaluate", ![o].mode = "Cell", ![o].phase = "Pending"]
    BY DEF PublishEvaluation
  <1>6. op' \in [Ops -> OpRecord]
    <2>1. "evaluate" \in Labels /\ "Cell" \in Modes BY DEF Modes, Labels
    <2>2. "Pending" \in Phases BY DEF Phases
    <2>3. [op EXCEPT ![o].pc = "evaluate", ![o].mode = "Cell"] \in [Ops -> OpRecord]
      BY <1>0, <2>1, PcWrite, ModeWrite, Zenon DEF OpTypes
    <2> QED BY <1>0, <1>5, <2>2, <2>3, PhaseWrite, Zenon
  <1>7. OpTypes' BY <1>6 DEF PublishEvaluation, OpTypes
  <1> QED BY <1>1, <1>2, <1>3, <1>4, <1>7

LEMMA RegisterResolverType ==
    ASSUME TypeOK, NEW o \in Ops, NEW a \in Labels, NEW r \in Labels, RegisterResolver(o, a, r)
    PROVE  resolver_handle' \in Ops \cup {NoOp} /\ OpTypes'
  <1> USE DEF TypeOK
  <1>1. op' \in [Ops -> OpRecord] BY GotoType DEF RegisterResolver
  <1> QED BY <1>1 DEF RegisterResolver, OpTypes, LifecycleTypes

LEMMA LaunchEventType ==
    ASSUME TypeOK, NEW l \in Launches, LaunchEvent(l),
           launch' \in [Launches -> LaunchRecord], r_permitted' \in [Generations -> BOOLEAN]
    PROVE  TypeOK'
  <1> USE DEF TypeOK
  <1>1. LifecycleTypes' BY DEF LaunchEvent, LifecycleTypes, lifecycle
  <1>2. StartupTypes' BY DEF LaunchEvent, StartupTypes
  <1>3. SessionTypes' BY DEF LaunchEvent, SessionTypes, session, locks
  <1>4. ProcessTypes' BY DEF LaunchEvent, ProcessTypes
  <1>5. OpTypes' BY DEF LaunchEvent, OpTypes
  <1> QED BY <1>1, <1>2, <1>3, <1>4, <1>5

LEMMA AfterStartLabel == ASSUME NEW mode PROVE AfterStart(mode) \in Labels
  BY DEF AfterStart, Labels

LEMMA ReleaseStarterType ==
    ASSUME SessionTypes, NEW o \in Ops, ReleaseStarter(o)
    PROVE  /\ worker_lock' \in Ops \cup {NoOp}
           /\ preparation' \in [readers : SUBSET Ops, writer : Cells \cup {NoOp}]
  BY ReleaseType DEF SessionTypes, ReleaseStarter

LEMMA StdinAdd ==
    ASSUME ProcessTypes, NEW l, NEW g \in Generations
    PROVE  [launch EXCEPT ![l].stdin = @ \cup {g}] \in [Launches -> LaunchRecord]
  <1>1. CASE l \in Launches
    <2>1. launch[l].stdin \cup {g} \in SUBSET Generations BY <1>1, LaunchFields
    <2>2. launch \in [Launches -> LaunchRecord] BY DEF ProcessTypes
    <2>3. [launch EXCEPT ![l].stdin = launch[l].stdin \cup {g}] \in [Launches -> LaunchRecord]
      BY <1>1, <2>1, <2>2, LaunchStdinWrite, Zenon
    <2> QED BY <1>1, <2>2, <2>3
  <1>2. CASE l \notin Launches
    BY <1>2 DEF ProcessTypes
  <1> QED BY <1>1, <1>2

LEMMA QueueStartupStdinType ==
    ASSUME TypeOK, NEW o \in Ops, NEW stdin \in BOOLEAN, QueueStartupStdin(o, stdin)
    PROVE  /\ startup_stdin' \subseteq Generations
           /\ unused_default' \in BOOLEAN
           /\ launch' \in [Launches -> LaunchRecord]
  <1> USE DEF TypeOK
  <1>1. op[o].gen \in Generations BY OpFields
  <1>2. startup_stdin' \subseteq Generations BY <1>1 DEF QueueStartupStdin, StartupTypes
  <1>3. unused_default' \in BOOLEAN BY DEF QueueStartupStdin, UseDefault, StartupTypes
  <1>4. launch \in [Launches -> LaunchRecord] BY DEF ProcessTypes
  <1>5. [launch EXCEPT ![stop_handle].stdin = @ \cup {op[o].gen}] \in [Launches -> LaunchRecord]
    BY <1>1, StdinAdd
  <1>6. launch' \in [Launches -> LaunchRecord] BY <1>4, <1>5, Zenon DEF QueueStartupStdin
  <1> QED BY <1>2, <1>3, <1>6

USE DEF TypeOK, LifecycleTypes, StartupTypes, SessionTypes, ProcessTypes,
    OpTypes, lifecycle, startup, session, locks, process

LEMMA EvaluateBlockingType == ASSUME TypeOK, NEW o \in Ops, EvaluateBlocking(o) PROVE TypeOK'
  <1>1. SessionTypes' /\ ProcessTypes' BY DEF EvaluateBlocking
  <1>2. LifecycleTypes' BY OpFields, DropStartupType DEF EvaluateBlocking
  <1>3. StartupTypes' BY OpFields DEF EvaluateBlocking
  <1>4. op' \in [Ops -> OpRecord]
    BY GotoType, CompleteCellType DEF EvaluateBlocking, Labels, CellOutcomes
  <1> QED BY <1>1, <1>2, <1>3, <1>4 DEF EvaluateBlocking

LEMMA LockForCellType == ASSUME TypeOK, NEW o \in Ops, LockForCell(o) PROVE TypeOK'
  <1>1. StartupTypes' /\ ProcessTypes' BY DEF LockForCell
  <1>2. LifecycleTypes' BY OpFields, DropStartupType DEF LockForCell
  <1>3. SessionTypes' BY OpFields DEF LockForCell, Controls
  <1>4. op' \in [Ops -> OpRecord]
    BY GotoType, CompleteCellType DEF LockForCell, Labels, CellOutcomes
  <1> QED BY <1>1, <1>2, <1>3, <1>4 DEF LockForCell

LEMMA DispatchType == ASSUME TypeOK, NEW o \in Ops, Dispatch(o) PROVE TypeOK'
  <1>1. LifecycleTypes' /\ SessionTypes' /\ ProcessTypes' BY DEF Dispatch
  <1>2. StartupTypes' BY OpFields DEF Dispatch, UseDefault
  <1>3. [op EXCEPT ![o].pc = "running", ![o].phase = "Dispatched", ![o].ran_on = running]
           \in [Ops -> OpRecord]
    <2>1. "running" \in Labels /\ "Dispatched" \in Phases /\ running \in Launches \cup
       {NoLaunch}
      BY OpFields DEF Labels, Modes, Phases, Launches, NoLaunch
    <2>2. [op EXCEPT ![o].pc = "running", ![o].phase = "Dispatched"] \in [Ops -> OpRecord]
      BY <2>1, PcWrite, PhaseWrite, Zenon
    <2> QED BY <2>1, <2>2, RanOnWrite, Zenon
  <1>4. op' \in [Ops -> OpRecord] BY <1>3, CompleteCellType DEF Dispatch, Labels, CellOutcomes
  <1> QED BY <1>1, <1>2, <1>4 DEF Dispatch

LEMMA CellFailsType == ASSUME TypeOK, NEW o \in Ops, CellFails(o) PROVE TypeOK'
  <1>1. LifecycleTypes' /\ StartupTypes' /\ SessionTypes' /\ ProcessTypes' BY DEF CellFails
  <1>2. op' \in [Ops -> OpRecord] BY CompleteCellType DEF CellFails, Labels, CellOutcomes
  <1> QED BY <1>1, <1>2 DEF CellFails

LEMMA EvaluateReturnsType == ASSUME TypeOK, NEW o \in Ops, EvaluateReturns(o) PROVE TypeOK'
  <1>1. StartupTypes' /\ ProcessTypes' BY DEF EvaluateReturns
  <1>2. LifecycleTypes' BY OpFields, DropStartupType DEF EvaluateReturns
  <1>3. SessionTypes' BY OpFields DEF EvaluateReturns, Controls
  <1>4. op' \in [Ops -> OpRecord] BY GotoType DEF EvaluateReturns, Labels
  <1> QED BY <1>1, <1>2, <1>3, <1>4 DEF EvaluateReturns

LEMMA ReserveWorkerStartupType ==
    ASSUME TypeOK, NEW o \in Ops, ReserveWorkerStartup(o) PROVE TypeOK'
  <1>1. StartupTypes' /\ ProcessTypes' BY DEF ReserveWorkerStartup
  <1>2. LifecycleTypes' BY OpFields, ReserveStartupType DEF ReserveWorkerStartup
  <1>3. SessionTypes' BY OpFields, ReleaseStarterType DEF ReserveWorkerStartup
  <1>4. [op EXCEPT ![o].pc = AfterStart(op[o].mode), ![o].ready = (op[o].mode = "Restart")]
           \in [Ops -> OpRecord]
    <2>1. (AfterStart(op[o].mode)) \in Labels /\ ((op[o].mode = "Restart")) \in BOOLEAN
      BY OpFields, AfterStartLabel DEF Labels, Modes, Phases, Launches, NoLaunch
    <2> QED BY <2>1, PcWrite, ReadyWrite, Zenon
  <1>5. op' \in [Ops -> OpRecord] BY <1>4, GotoType DEF ReserveWorkerStartup, Labels
  <1> QED BY <1>1, <1>2, <1>3, <1>5 DEF ReserveWorkerStartup

LEMMA LockEnvironmentType == ASSUME TypeOK, NEW o \in Ops, LockEnvironment(o) PROVE TypeOK'
  <1>1. LifecycleTypes' /\ StartupTypes' /\ SessionTypes' /\ ProcessTypes' BY DEF LockEnvironment
  <1>2. op' \in [Ops -> OpRecord] BY GotoType DEF LockEnvironment, Labels
  <1> QED BY <1>1, <1>2 DEF LockEnvironment

LEMMA SpawnType == ASSUME TypeOK, NEW o \in Ops, Spawn(o) PROVE TypeOK'
  <1>1. LifecycleTypes' /\ SessionTypes' BY DEF Spawn
  <1>2. StartupTypes' BY OpFields DEF Spawn
  <1>3. ProcessTypes'
    <2>1. CASE launched < MaxLaunches
      <3>1. launched + 1 \in Launches /\ launched + 1 \in 0..MaxLaunches /\ op[o].gen \in
         Generations
        BY <2>1, OpFields, ConstantsAssumption DEF Launches
      <3>2. TRUE \in BOOLEAN OBVIOUS
      <3>3. [launch EXCEPT ![launched + 1].gen = op[o].gen, ![launched + 1].live = TRUE]
            \in [Launches -> LaunchRecord]
        BY <3>1, <3>2, LaunchGenWrite, LaunchLiveWrite, Zenon
      <3> QED BY <3>1, <3>3 DEF Spawn
    <2>2. CASE ~(launched < MaxLaunches)
      BY <2>2 DEF Spawn
    <2> QED BY <2>1, <2>2
  <1>4. ASSUME launched < MaxLaunches
        PROVE  [op EXCEPT ![o].pc = "register", ![o].target = launched + 1]
               \in [Ops -> OpRecord]
    <2>1. "register" \in Labels /\ launched + 1 \in Launches \cup {NoLaunch}
      BY <1>4, ConstantsAssumption DEF Labels, Launches
    <2> QED BY <2>1, PcWrite, TargetWrite, Zenon
  <1>5. op' \in [Ops -> OpRecord] BY <1>4, GotoType DEF Spawn, Labels
  <1> QED BY <1>1, <1>2, <1>3, <1>5 DEF Spawn

LEMMA RegisterStopHandleType == ASSUME TypeOK, NEW o \in Ops, RegisterStopHandle(o) PROVE TypeOK'
  <1>1. SessionTypes' BY DEF RegisterStopHandle
  <1>2. LifecycleTypes' BY OpFields DEF RegisterStopHandle, Launches, NoLaunch, States, Controls
  <1>3. StartupTypes' BY OpFields DEF RegisterStopHandle, UseDefault
  <1>4. ProcessTypes'
    <2>1. startup_stdin \in SUBSET Generations OBVIOUS
    <2>2. [launch EXCEPT ![op[o].target].stdin = startup_stdin] \in [Launches -> LaunchRecord]
      BY <2>1, LaunchStdinWrite, Zenon
    <2> QED BY <2>2 DEF RegisterStopHandle
  <1>5. op' \in [Ops -> OpRecord] BY GotoType DEF RegisterStopHandle, Labels
  <1> QED BY <1>1, <1>2, <1>3, <1>4, <1>5 DEF RegisterStopHandle

LEMMA AwaitReadyType == ASSUME TypeOK, NEW o \in Ops, AwaitReady(o) PROVE TypeOK'
  <1>1. LifecycleTypes' /\ StartupTypes' /\ SessionTypes' /\ ProcessTypes' BY DEF AwaitReady
  <1>2. op' \in [Ops -> OpRecord] BY GotoType DEF AwaitReady, Labels
  <1> QED BY <1>1, <1>2 DEF AwaitReady

LEMMA OnReadyType == ASSUME TypeOK, NEW o \in Ops, OnReady(o) PROVE TypeOK'
  <1>1. StartupTypes' /\ SessionTypes' /\ ProcessTypes' BY DEF OnReady
  <1>2. LifecycleTypes' BY OpFields DEF OnReady, States, FinishRestart
  <1>3. op' \in [Ops -> OpRecord] BY GotoType DEF OnReady, Labels
  <1> QED BY <1>1, <1>2, <1>3 DEF OnReady

LEMMA ReadyCommitType == ASSUME TypeOK, NEW o \in Ops, ReadyCommit(o) PROVE TypeOK'
  <1>1. LifecycleTypes' /\ StartupTypes' BY DEF ReadyCommit
  <1>2. SessionTypes' BY OpFields, ReleaseStarterType DEF ReadyCommit
  <1>3. ProcessTypes'
    <2>1. TRUE \in BOOLEAN OBVIOUS
    <2>2. [launch EXCEPT ![op[o].target].committed = TRUE] \in [Launches -> LaunchRecord]
      BY <2>1, LaunchCommittedWrite, Zenon
    <2> QED BY <2>2, OpFields DEF ReadyCommit
  <1>4. [op EXCEPT ![o].pc = AfterStart(op[o].mode), ![o].target = NoLaunch, ![o].ready =
     (op[o].mode = "Restart")]
           \in [Ops -> OpRecord]
    <2>1. (AfterStart(op[o].mode)) \in Labels /\ NoLaunch \in Launches \cup {NoLaunch} /\
       ((op[o].mode = "Restart")) \in BOOLEAN
      BY OpFields, AfterStartLabel DEF Labels, Modes, Phases, Launches, NoLaunch
    <2>2. [op EXCEPT ![o].pc = AfterStart(op[o].mode), ![o].target = NoLaunch] \in [Ops ->
       OpRecord]
      BY <2>1, PcWrite, TargetWrite, Zenon
    <2> QED BY <2>1, <2>2, ReadyWrite, Zenon
  <1>5. op' \in [Ops -> OpRecord] BY <1>4, GotoType DEF ReadyCommit, Labels
  <1> QED BY <1>1, <1>2, <1>3, <1>5 DEF ReadyCommit

LEMMA RetireFailedStartType == ASSUME TypeOK, NEW o \in Ops, RetireFailedStart(o) PROVE TypeOK'
  <1>1. LifecycleTypes' /\ StartupTypes' /\ SessionTypes' BY DEF RetireFailedStart
  <1>2. ProcessTypes'
    <2>1. launch' \in [Launches -> LaunchRecord] BY OpFields, RetiredType DEF RetireFailedStart
    <2> QED BY <2>1 DEF RetireFailedStart
  <1>3. [op EXCEPT ![o].pc = "start_failed", ![o].target = NoLaunch]
           \in [Ops -> OpRecord]
    <2>1. "start_failed" \in Labels /\ NoLaunch \in Launches \cup {NoLaunch}
      BY OpFields DEF Labels, Modes, Phases, Launches, NoLaunch
    <2> QED BY <2>1, PcWrite, TargetWrite, Zenon
  <1>4. op' \in [Ops -> OpRecord] BY <1>3 DEF RetireFailedStart, Labels
  <1> QED BY <1>1, <1>2, <1>4 DEF RetireFailedStart

LEMMA StartFailedType == ASSUME TypeOK, NEW o \in Ops, StartFailed(o) PROVE TypeOK'
  <1>1. StartupTypes' /\ ProcessTypes' BY DEF StartFailed
  <1>2. LifecycleTypes' BY OpFields, DropStartupType DEF StartFailed, ClearStopHandle
  <1>3. SessionTypes' BY ReleaseType DEF StartFailed
  <1>4. [op EXCEPT ![o].pc = "finish_restart", ![o].ready = FALSE] \in [Ops -> OpRecord]
    <2>1. "finish_restart" \in Labels /\ FALSE \in BOOLEAN BY DEF Labels
    <2> QED BY <2>1, PcWrite, ReadyWrite, Zenon
  <1>5. AfterStdinFailure(o) \in Labels BY DEF AfterStdinFailure, Labels
  <1>6. \/ CompleteCell(o, "Failed", "done") \/ Goto(o, AfterStdinFailure(o))
        \/ Goto(o, "launch_failed")
        \/ op' = [op EXCEPT ![o].pc = "finish_restart", ![o].ready = FALSE]
    BY DEF StartFailed
  <1>7. op' \in [Ops -> OpRecord]
    BY <1>4, <1>5, <1>6, GotoType, CompleteCellType DEF Labels, CellOutcomes
  <1> QED BY <1>1, <1>2, <1>3, <1>7 DEF StartFailed

LEMMA StopFailedType == ASSUME TypeOK, NEW o \in Ops, StopFailed(o) PROVE TypeOK'
  <1>1. LifecycleTypes' /\ StartupTypes' /\ SessionTypes' BY DEF StopFailed
  <1>2. ProcessTypes'
    <2>1. launch' \in [Launches -> LaunchRecord] BY RetiredType DEF StopFailed
    <2> QED BY <2>1 DEF StopFailed
  <1>3. OpTypes'
    <2>1. op' \in [Ops -> OpRecord] BY GotoType DEF StopFailed, Labels
    <2>2. cancelled' \subseteq Ops BY OpFields DEF StopFailed, StopResolver
    <2> QED BY <2>1, <2>2
  <1> QED BY <1>1, <1>2, <1>3

LEMMA StartReplacementType == ASSUME TypeOK, NEW o \in Ops, StartReplacement(o) PROVE TypeOK'
  <1>1. LifecycleTypes' /\ StartupTypes' /\ ProcessTypes' BY DEF StartReplacement
  <1>2. SessionTypes' BY OpFields DEF StartReplacement, Controls
  <1>3. [op EXCEPT ![o].pc = "reserve", ![o].mode = "Replacement"]
           \in [Ops -> OpRecord]
    <2>1. "reserve" \in Labels /\ "Replacement" \in Modes
      BY OpFields DEF Labels, Modes, Phases, Launches, NoLaunch
    <2> QED BY <2>1, PcWrite, ModeWrite, Zenon
  <1>4. op' \in [Ops -> OpRecord] BY <1>3 DEF StartReplacement, Labels
  <1> QED BY <1>1, <1>2, <1>4 DEF StartReplacement

LEMMA LockForStdinType == ASSUME TypeOK, NEW o \in Ops, LockForStdin(o) PROVE TypeOK'
  <1>1. LifecycleTypes' /\ StartupTypes' /\ ProcessTypes' BY DEF LockForStdin
  <1>2. SessionTypes' BY OpFields DEF LockForStdin, Controls
  <1>3. op' \in [Ops -> OpRecord] BY GotoType DEF LockForStdin, Labels
  <1> QED BY <1>1, <1>2, <1>3 DEF LockForStdin

LEMMA WriteStdinType == ASSUME TypeOK, NEW o \in Ops, WriteStdin(o) PROVE TypeOK'
  <1>1. LifecycleTypes' BY DEF WriteStdin
  <1>2. StartupTypes' BY OpFields DEF WriteStdin, UseDefault
  <1>3. SessionTypes' BY OpFields DEF WriteStdin, Controls
  <1>4. ProcessTypes'
    <2>1. [launch EXCEPT ![running].stdin = @ \cup {op[o].gen}] \in [Launches -> LaunchRecord]
      BY OpFields, StdinAdd
    <2> QED BY <2>1 DEF WriteStdin
  <1>5. AfterStdin(o) \in Labels /\ "stop_failed" \in Labels BY DEF AfterStdin, Labels
  <1>6. op' \in [Ops -> OpRecord] BY <1>5, GotoType DEF WriteStdin
  <1> QED BY <1>1, <1>2, <1>3, <1>4, <1>6 DEF WriteStdin

LEMMA TakeIdleResponseType == ASSUME TypeOK, NEW o \in Ops, TakeIdleResponse(o) PROVE TypeOK'
  <1>1. LifecycleTypes' /\ SessionTypes' /\ ProcessTypes' BY DEF TakeIdleResponse
  <1>2. StartupTypes' BY OpFields DEF TakeIdleResponse
  <1>3. \A label \in Labels : [op EXCEPT ![o].pc = label, ![o].mode = "Poll"] \in [Ops ->
     OpRecord]
    <2>1. "Poll" \in Modes BY DEF Modes
    <2> QED BY <2>1, PcWrite, ModeWrite, Zenon
  <1>4. op' \in [Ops -> OpRecord] BY <1>3 DEF TakeIdleResponse, Labels
  <1> QED BY <1>1, <1>2, <1>4 DEF TakeIdleResponse

LEMMA LockForPollType == ASSUME TypeOK, NEW o \in Ops, LockForPoll(o) PROVE TypeOK'
  <1>1. LifecycleTypes' /\ StartupTypes' /\ ProcessTypes' BY DEF LockForPoll
  <1>2. SessionTypes' BY OpFields DEF LockForPoll, Controls
  <1>3. op' \in [Ops -> OpRecord] BY GotoType DEF LockForPoll, Labels
  <1> QED BY <1>1, <1>2, <1>3 DEF LockForPoll

LEMMA PrelaunchType == ASSUME TypeOK, NEW o \in Ops, Prelaunch(o) PROVE TypeOK'
  <1>1. LifecycleTypes' /\ StartupTypes' /\ SessionTypes' /\ ProcessTypes' BY DEF Prelaunch
  <1>2. [op EXCEPT ![o].pc = "prelaunch", ![o].mode = "Prelaunch"]
           \in [Ops -> OpRecord]
    <2>1. "prelaunch" \in Labels /\ "Prelaunch" \in Modes
      BY OpFields DEF Labels, Modes, Phases, Launches, NoLaunch
    <2> QED BY <2>1, PcWrite, ModeWrite, Zenon
  <1>3. op' \in [Ops -> OpRecord] BY <1>2, GotoType DEF Prelaunch, Labels
  <1> QED BY <1>1, <1>3 DEF Prelaunch

LEMMA ReservePreparationType == ASSUME TypeOK, NEW o \in Ops, ReservePreparation(o) PROVE TypeOK'
  <1>1. LifecycleTypes' /\ StartupTypes' /\ ProcessTypes' BY DEF ReservePreparation
  <1>2. SessionTypes' BY OpFields DEF ReservePreparation, Controls
  <1>3. op' \in [Ops -> OpRecord] BY GotoType DEF ReservePreparation, Labels
  <1> QED BY <1>1, <1>2, <1>3 DEF ReservePreparation

LEMMA LockForPrelaunchType == ASSUME TypeOK, NEW o \in Ops, LockForPrelaunch(o) PROVE TypeOK'
  <1>1. LifecycleTypes' /\ StartupTypes' /\ ProcessTypes' BY DEF LockForPrelaunch
  <1>2. SessionTypes' BY OpFields DEF LockForPrelaunch, Controls
  <1>3. op' \in [Ops -> OpRecord] BY GotoType DEF LockForPrelaunch, Labels
  <1> QED BY <1>1, <1>2, <1>3 DEF LockForPrelaunch

LEMMA PrelaunchReturnsType == ASSUME TypeOK, NEW o \in Ops, PrelaunchReturns(o) PROVE TypeOK'
  <1>1. SessionTypes' /\ ProcessTypes' BY DEF PrelaunchReturns
  <1>2. LifecycleTypes' BY OpFields, DropStartupType DEF PrelaunchReturns
  <1>3. StartupTypes' BY OpFields DEF PrelaunchReturns
  <1>4. op' \in [Ops -> OpRecord] BY GotoType DEF PrelaunchReturns, Labels
  <1> QED BY <1>1, <1>2, <1>3, <1>4 DEF PrelaunchReturns

LEMMA FinishStartupType == ASSUME TypeOK, NEW o \in Ops, FinishStartup(o) PROVE TypeOK'
  <1>1. LifecycleTypes' /\ SessionTypes' /\ ProcessTypes' BY DEF FinishStartup
  <1>2. StartupTypes' BY OpFields DEF FinishStartup
  <1>3. op' \in [Ops -> OpRecord] BY GotoType DEF FinishStartup, Labels
  <1> QED BY <1>1, <1>2, <1>3 DEF FinishStartup

LEMMA CheckPreparationType == ASSUME TypeOK, NEW o \in Ops, CheckPreparation(o) PROVE TypeOK'
  <1>1. LifecycleTypes' /\ StartupTypes' /\ SessionTypes' /\ ProcessTypes' BY DEF CheckPreparation
  <1>2. op' \in [Ops -> OpRecord] BY GotoType DEF CheckPreparation, Labels
  <1> QED BY <1>1, <1>2 DEF CheckPreparation

LEMMA PrepareAdmittedType == ASSUME TypeOK, NEW o \in Ops, PrepareAdmitted(o) PROVE TypeOK'
  <1>1. LifecycleTypes' /\ StartupTypes' /\ ProcessTypes' BY DEF PrepareAdmitted
  <1>2. SessionTypes' BY OpFields DEF PrepareAdmitted, Controls
  <1>3. \A label \in Labels, mode \in Modes, target \in Launches \cup {NoLaunch} :
           [op EXCEPT ![o].pc = label, ![o].mode = mode, ![o].target = target]
           \in [Ops -> OpRecord]
    <2> SUFFICES ASSUME NEW label \in Labels, NEW mode \in Modes,
                        NEW target \in Launches \cup {NoLaunch}
                 PROVE  [op EXCEPT ![o].pc = label, ![o].mode = mode, ![o].target = target]
                        \in [Ops -> OpRecord]
      OBVIOUS
    <2>1. [op EXCEPT ![o].pc = label, ![o].mode = mode] \in [Ops -> OpRecord]
      BY PcWrite, ModeWrite, Zenon
    <2> QED BY <2>1, TargetWrite, Zenon
  <1>4. {"Prepare", "Activate"} \subseteq Modes BY DEF Modes
  <1>5. {"return", "start", "prepare_resolve", "stop_failed"} \subseteq Labels BY DEF Labels
  <1>6. {running, NoLaunch} \subseteq Launches \cup {NoLaunch} OBVIOUS
  <1>7. \/ Goto(o, "return") \/ Goto(o, "start")
        \/ \E label \in {"prepare_resolve", "stop_failed"}, mode \in {"Prepare", "Activate"},
             target \in {running, NoLaunch} :
             op' = [op EXCEPT ![o].pc = label, ![o].mode = mode, ![o].target = target]
    BY Zenon DEF PrepareAdmitted
  <1>8. op' \in [Ops -> OpRecord]
    <2>1. CASE Goto(o, "return") \/ Goto(o, "start") BY <2>1, <1>5, GotoType
    <2>2. CASE ~(Goto(o, "return") \/ Goto(o, "start"))
      <3>1. PICK label \in {"prepare_resolve", "stop_failed"}, mode \in {"Prepare", "Activate"},
                 target \in {running, NoLaunch} :
                 op' = [op EXCEPT ![o].pc = label, ![o].mode = mode, ![o].target = target]
        BY <2>2, <1>7
      <3>2. label \in Labels /\ mode \in Modes /\ target \in Launches \cup {NoLaunch}
        BY <3>1, <1>4, <1>5, <1>6
      <3> QED BY <3>1, <3>2, <1>3, Zenon
    <2> QED BY <2>1, <2>2
  <1> QED BY <1>1, <1>2, <1>8 DEF PrepareAdmitted

LEMMA CommitEnvironmentType == ASSUME TypeOK, NEW o \in Ops, CommitEnvironment(o) PROVE TypeOK'
  <1>1. ProcessTypes' BY DEF CommitEnvironment
  <1>2. LifecycleTypes' BY OpFields DEF CommitEnvironment, Launches, NoLaunch, States, Controls
  <1>3. StartupTypes' BY OpFields DEF CommitEnvironment
  <1>4. SessionTypes' BY OpFields DEF CommitEnvironment, Controls
  <1>5. op' \in [Ops -> OpRecord] BY GotoType DEF CommitEnvironment, Labels
  <1> QED BY <1>1, <1>2, <1>3, <1>4, <1>5 DEF CommitEnvironment

LEMMA RestartCommittedType == ASSUME TypeOK, NEW o \in Ops, RestartCommitted(o) PROVE TypeOK'
  <1>1. LifecycleTypes' /\ StartupTypes' /\ SessionTypes' /\ ProcessTypes' BY DEF RestartCommitted
  <1>2. op' \in [Ops -> OpRecord] BY GotoType DEF RestartCommitted, Labels
  <1> QED BY <1>1, <1>2 DEF RestartCommitted

LEMMA FailRestartType == ASSUME TypeOK, NEW o \in Ops, FailRestart(o) PROVE TypeOK'
  <1>1. StartupTypes' /\ SessionTypes' /\ ProcessTypes' BY DEF FailRestart
  <1>2. LifecycleTypes' BY OpFields DEF FailRestart, Launches, NoLaunch, States, Controls
  <1>3. op' \in [Ops -> OpRecord] BY GotoType DEF FailRestart, Labels
  <1> QED BY <1>1, <1>2, <1>3 DEF FailRestart

LEMMA RestartLaunchType == ASSUME TypeOK, NEW o \in Ops, RestartLaunch(o) PROVE TypeOK'
  <1>1. LifecycleTypes' /\ ProcessTypes' BY DEF RestartLaunch
  <1>2. StartupTypes' BY OpFields DEF RestartLaunch
  <1>3. SessionTypes' BY OpFields DEF RestartLaunch, Controls
  <1>4. op' \in [Ops -> OpRecord] BY GotoType DEF RestartLaunch, Labels
  <1> QED BY <1>1, <1>2, <1>3, <1>4 DEF RestartLaunch

LEMMA RestartReturnsType == ASSUME TypeOK, NEW o \in Ops, RestartReturns(o) PROVE TypeOK'
  <1>1. StartupTypes' /\ SessionTypes' /\ ProcessTypes' BY DEF RestartReturns
  <1>2. LifecycleTypes' BY OpFields DEF RestartReturns, States, FinishRestart
  <1>3. [op EXCEPT ![o].pc = "restarted", ![o].ready = (op[o].ready /\ RestartFinished(o))]
           \in [Ops -> OpRecord]
    <2>1. "restarted" \in Labels /\ ((op[o].ready /\ RestartFinished(o))) \in BOOLEAN
      BY OpFields DEF Labels, Modes, Phases, Launches, NoLaunch
    <2> QED BY <2>1, PcWrite, ReadyWrite, Zenon
  <1>4. op' \in [Ops -> OpRecord] BY <1>3 DEF RestartReturns, Labels
  <1> QED BY <1>1, <1>2, <1>4 DEF RestartReturns

LEMMA AdmitControlledOperationType ==
    ASSUME TypeOK, NEW o \in Ops, AdmitControlledOperation(o) PROVE TypeOK'
  <1>1. LifecycleTypes' /\ ProcessTypes' BY DEF AdmitControlledOperation
  <1>2. StartupTypes' BY OpFields DEF AdmitControlledOperation
  <1>3. SessionTypes' BY DEF AdmitControlledOperation, WriteAdmission, Controls
  <1>4. op' \in [Ops -> OpRecord] BY GotoType DEF AdmitControlledOperation, Labels
  <1> QED BY <1>1, <1>2, <1>3, <1>4 DEF AdmitControlledOperation

LEMMA InterruptStdinType == ASSUME TypeOK, NEW o \in Ops, InterruptStdin(o) PROVE TypeOK'
  <1>1. LifecycleTypes' /\ SessionTypes' BY DEF InterruptStdin
  <1>2. StartupTypes' BY QueueStartupStdinType DEF InterruptStdin
  <1>3. ProcessTypes' BY OpFields, QueueStartupStdinType DEF InterruptStdin
  <1>4. op' \in [Ops -> OpRecord] BY GotoType DEF InterruptStdin, Labels
  <1> QED BY <1>1, <1>2, <1>3, <1>4 DEF InterruptStdin

LEMMA RetryControlledSendType ==
    ASSUME TypeOK, NEW o \in Ops, RetryControlledSend(o) PROVE TypeOK'
  <1>1. StartupTypes' /\ SessionTypes' /\ ProcessTypes' BY DEF RetryControlledSend
  <1>2. LifecycleTypes' BY OpFields DEF RetryControlledSend, Launches, NoLaunch, States, Controls
  <1>3. [op EXCEPT ![o].pc = "continue", ![o].gen = generation]
           \in [Ops -> OpRecord]
    <2>1. "continue" \in Labels /\ generation \in Generations
      BY OpFields DEF Labels, Modes, Phases, Launches, NoLaunch
    <2> QED BY <2>1, PcWrite, GenWrite, Zenon
  <1>4. op' \in [Ops -> OpRecord] BY <1>3, GotoType DEF RetryControlledSend, Labels
  <1> QED BY <1>1, <1>2, <1>4 DEF RetryControlledSend

LEMMA SubmitControlledStdinType ==
    ASSUME TypeOK, NEW o \in Ops, SubmitControlledStdin(o) PROVE TypeOK'
  <1>1. LifecycleTypes' /\ SessionTypes' BY DEF SubmitControlledStdin
  <1>2. StartupTypes' BY OpFields DEF SubmitControlledStdin, UseDefault
  <1>3. ProcessTypes'
    <2>1. CASE launch[op[o].selected].live
      <3>1. [launch EXCEPT ![op[o].selected].stdin = @ \cup {op[o].gen}] \in [Launches ->
         LaunchRecord]
        BY OpFields, StdinAdd
      <3> QED BY <2>1, <3>1 DEF SubmitControlledStdin
    <2>2. CASE ~launch[op[o].selected].live
      <3>1. [launch EXCEPT ![op[o].selected].stdin = @] = launch BY DEF LaunchRecord
      <3> QED BY <2>2, <3>1 DEF SubmitControlledStdin
    <2> QED BY <2>1, <2>2
  <1>4. [op EXCEPT ![o].pc = "lock_stdin", ![o].mode = "Stdin"]
           \in [Ops -> OpRecord]
    <2>1. "lock_stdin" \in Labels /\ "Stdin" \in Modes
      BY OpFields DEF Labels, Modes, Phases, Launches, NoLaunch
    <2> QED BY <2>1, PcWrite, ModeWrite, Zenon
  <1>5. op' \in [Ops -> OpRecord] BY <1>4, GotoType DEF SubmitControlledStdin, Labels
  <1> QED BY <1>1, <1>2, <1>3, <1>5 DEF SubmitControlledStdin

LEMMA EnsureFollowupConnectionType ==
    ASSUME TypeOK, NEW o \in Ops, EnsureFollowupConnection(o) PROVE TypeOK'
  <1>1. LifecycleTypes' /\ StartupTypes' /\ SessionTypes' /\ ProcessTypes' BY DEF EnsureFollowupConnection
  <1>2. op' \in [Ops -> OpRecord] BY GotoType DEF EnsureFollowupConnection, Labels
  <1> QED BY <1>1, <1>2 DEF EnsureFollowupConnection

LEMMA ResolvedPrestartType == ASSUME TypeOK, NEW o \in Ops, ResolvedPrestart(o) PROVE TypeOK'
  <1>1. SessionTypes' /\ ProcessTypes' BY DEF ResolvedPrestart
  <1>2. LifecycleTypes' BY OpFields DEF ResolvedPrestart, ClearResolver
  <1>3. StartupTypes' BY OpFields DEF ResolvedPrestart
  <1>4. op' \in [Ops -> OpRecord] BY GotoType DEF ResolvedPrestart, Labels
  <1> QED BY <1>1, <1>2, <1>3, <1>4 DEF ResolvedPrestart

LEMMA PrepareResolvedType == ASSUME TypeOK, NEW o \in Ops, PrepareResolved(o) PROVE TypeOK'
  <1>1. StartupTypes' /\ SessionTypes' /\ ProcessTypes' BY DEF PrepareResolved
  <1>2. LifecycleTypes' BY OpFields DEF PrepareResolved, ClearResolver
  <1>3. op' \in [Ops -> OpRecord] BY GotoType DEF PrepareResolved, Labels
  <1> QED BY <1>1, <1>2, <1>3 DEF PrepareResolved

LEMMA RestartResolvedType == ASSUME TypeOK, NEW o \in Ops, RestartResolved(o) PROVE TypeOK'
  <1>1. StartupTypes' /\ SessionTypes' /\ ProcessTypes' BY DEF RestartResolved
  <1>2. LifecycleTypes' BY OpFields DEF RestartResolved, ClearResolver
  <1>3. op' \in [Ops -> OpRecord] BY GotoType DEF RestartResolved, Labels
  <1> QED BY <1>1, <1>2, <1>3 DEF RestartResolved

LEMMA AdmitType == ASSUME TypeOK, NEW o \in Ops, Admit(o) PROVE TypeOK'
  <1>1. LifecycleTypes' /\ StartupTypes' /\ ProcessTypes' BY DEF Admit
  <1>2. SessionTypes' BY OpFields DEF Admit, ReadAdmission
  <1>3. [op EXCEPT ![o].pc = "admitted", ![o].gen = generation]
           \in [Ops -> OpRecord]
    <2>1. "admitted" \in Labels /\ generation \in Generations
      BY OpFields DEF Labels, Modes, Phases, Launches, NoLaunch
    <2> QED BY <2>1, PcWrite, GenWrite, Zenon
  <1>4. op' \in [Ops -> OpRecord] BY <1>3 DEF Admit, Labels
  <1> QED BY <1>1, <1>2, <1>4 DEF Admit

LEMMA BeginControlledSendType ==
    ASSUME TypeOK, NEW o \in Ops, BeginControlledSend(o) PROVE TypeOK'
  <1>1. StartupTypes' /\ SessionTypes' /\ ProcessTypes' BY DEF BeginControlledSend
  <1>2. LifecycleTypes' BY OpFields DEF BeginControlledSend, Launches, NoLaunch, States, Controls
  <1>3. [op EXCEPT ![o].pc = IF o \in Restarters THEN "restart" ELSE "interrupt", ![o].gen =
     generation]
           \in [Ops -> OpRecord]
    <2>1. (IF o \in Restarters THEN "restart" ELSE "interrupt") \in Labels /\ generation \in
       Generations
      BY OpFields DEF Labels, Modes, Phases, Launches, NoLaunch
    <2> QED BY <2>1, PcWrite, GenWrite, Zenon
  <1>4. op' \in [Ops -> OpRecord] BY <1>3 DEF BeginControlledSend, Labels
  <1> QED BY <1>1, <1>2, <1>4 DEF BeginControlledSend

LEMMA CloseLifecycleType == ASSUME TypeOK, NEW o \in Ops, CloseLifecycle(o) PROVE TypeOK'
  <1>1. StartupTypes' /\ SessionTypes' /\ ProcessTypes' BY DEF CloseLifecycle
  <1>2. LifecycleTypes' BY OpFields DEF CloseLifecycle, Launches, NoLaunch, States, Controls
  <1>3. [op EXCEPT ![o].pc = "close", ![o].target = stop_handle, ![o].resolver =
     resolver_handle]
           \in [Ops -> OpRecord]
    <2>1. "close" \in Labels /\ stop_handle \in Launches \cup {NoLaunch} /\ resolver_handle \in
       Ops \cup {NoOp}
      BY OpFields DEF Labels, Modes, Phases, Launches, NoLaunch
    <2>2. [op EXCEPT ![o].pc = "close", ![o].target = stop_handle] \in [Ops -> OpRecord]
      BY <2>1, PcWrite, TargetWrite, Zenon
    <2> QED BY <2>1, <2>2, ResolverWrite, Zenon
  <1>4. op' \in [Ops -> OpRecord] BY <1>3 DEF CloseLifecycle, Labels
  <1> QED BY <1>1, <1>2, <1>4 DEF CloseLifecycle

LEMMA CellCompletesType == ASSUME TypeOK, NEW o \in Ops, CellCompletes(o) PROVE TypeOK'
  <1>1. LifecycleTypes' /\ StartupTypes' /\ SessionTypes' /\ ProcessTypes' BY DEF CellCompletes
  <1>2. op' \in [Ops -> OpRecord] BY CompleteCellType DEF CellCompletes, Labels, CellOutcomes
  <1> QED BY <1>1, <1>2 DEF CellCompletes

LEMMA LaunchReadyType == ASSUME TypeOK, NEW l \in Launches, LaunchReady(l) PROVE TypeOK'
  <1>1. TRUE \in BOOLEAN OBVIOUS
  <1>2. launch' \in [Launches -> LaunchRecord]
    BY <1>1, LaunchReadyWrite, Zenon DEF LaunchReady
  <1>3. r_permitted' \in [Generations -> BOOLEAN]
    BY DEF LaunchReady
  <1> QED BY <1>2, <1>3, LaunchEventType DEF LaunchReady

LEMMA LaunchFailsType == ASSUME TypeOK, NEW l \in Launches, LaunchFails(l) PROVE TypeOK'
  <1>1. TRUE \in BOOLEAN OBVIOUS
  <1>2. launch' \in [Launches -> LaunchRecord]
    BY <1>1, LaunchFailedWrite, Zenon DEF LaunchFails
  <1>3. r_permitted' \in [Generations -> BOOLEAN]
    BY DEF LaunchFails
  <1> QED BY <1>2, <1>3, LaunchEventType DEF LaunchFails

LEMMA RInitBeginsType == ASSUME TypeOK, NEW l \in Launches, RInitBegins(l) PROVE TypeOK'
  <1>1. "Begun" \in {"No", "Begun", "Complete"} OBVIOUS
  <1>2. launch' \in [Launches -> LaunchRecord]
    BY <1>1, LaunchRInitWrite, Zenon DEF RInitBegins
  <1>3. r_permitted' \in [Generations -> BOOLEAN]
    BY DEF RInitBegins
  <1> QED BY <1>2, <1>3, LaunchEventType DEF RInitBegins

LEMMA RInitCompletesType == ASSUME TypeOK, NEW l \in Launches, RInitCompletes(l) PROVE TypeOK'
  <1>1. "Complete" \in {"No", "Begun", "Complete"} OBVIOUS
  <1>2. launch' \in [Launches -> LaunchRecord]
    BY <1>1, LaunchRInitWrite, Zenon DEF RInitCompletes
  <1>3. r_permitted' \in [Generations -> BOOLEAN]
    BY DEF RInitCompletes
  <1> QED BY <1>2, <1>3, LaunchEventType DEF RInitCompletes

LEMMA StartEvaluationType == ASSUME TypeOK, NEW o \in Ops, StartEvaluation(o) PROVE TypeOK'
  BY PublishType, RefuseType DEF StartEvaluation, Evaluators

LEMMA StartPreparedEvaluationType ==
    ASSUME TypeOK, NEW o \in Ops, StartPreparedEvaluation(o) PROVE TypeOK'
  BY PublishType, RefuseType DEF StartPreparedEvaluation, Evaluators

LEMMA ReturnType == ASSUME TypeOK, NEW o \in Ops, Return(o) PROVE TypeOK'
  BY RefuseType DEF Return

LEMMA AdmitPreparationType == ASSUME TypeOK, NEW o \in Ops, AdmitPreparation(o) PROVE TypeOK'
  <1>1. CASE preparation = [readers |-> {}, writer |-> NoOp]
    <2>1. LifecycleTypes' BY <1>1 DEF AdmitPreparation
    <2>2. StartupTypes' BY <1>1 DEF AdmitPreparation
    <2>3. SessionTypes' BY <1>1 DEF AdmitPreparation
    <2>4. ProcessTypes' BY <1>1 DEF AdmitPreparation
    <2>5. op' \in [Ops -> OpRecord] BY <1>1, GotoType DEF AdmitPreparation, Labels
    <2>6. OpTypes' BY <1>1, <2>5 DEF AdmitPreparation
    <2> QED BY <2>1, <2>2, <2>3, <2>4, <2>6
  <1>2. CASE preparation # [readers |-> {}, writer |-> NoOp]
    <2>1. Refuse(o) BY <1>2 DEF AdmitPreparation
    <2> QED BY <2>1, RefuseType
  <1> QED BY <1>1, <1>2

LEMMA FollowUpType == ASSUME TypeOK, NEW o \in Ops, FollowUp(o) PROVE TypeOK'
  <1>1. CASE Refuse(o) BY <1>1, RefuseType
  <1>2. CASE PublishEvaluation(o)
    <2>1. o \in Evaluators BY DEF FollowUp, Evaluators, Controls
    <2> QED BY <1>2, <2>1, PublishType
  <1>3. CASE ~Refuse(o) /\ ~PublishEvaluation(o)
    <2>1. /\ op' = [op EXCEPT ![o].pc = "lock_stdin", ![o].mode = "Stdin"]
          /\ UNCHANGED <<lifecycle, startup, session, worker_lock, process, cancelled>>
      BY <1>3 DEF FollowUp
    <2>2. "lock_stdin" \in Labels /\ "Stdin" \in Modes BY DEF Labels, Modes
    <2>3. op' \in [Ops -> OpRecord] BY <2>1, <2>2, PcWrite, ModeWrite, Zenon
    <2>4. LifecycleTypes' BY <2>1
    <2>5. StartupTypes' BY <2>1
    <2>6. SessionTypes' BY <2>1
    <2>7. ProcessTypes' BY <2>1
    <2>8. OpTypes' BY <2>1, <2>3
    <2> QED BY <2>4, <2>5, <2>6, <2>7, <2>8
  <1> QED BY <1>1, <1>2, <1>3

LEMMA ContinueWithCellType == ASSUME TypeOK, NEW o \in Ops, ContinueWithCell(o) PROVE TypeOK'
  <1>1. Refuse(o) \/ PublishEvaluation(o) BY DEF ContinueWithCell
  <1>2. o \in Evaluators BY DEF ContinueWithCell, Evaluators, Controls
  <1> QED BY <1>1, <1>2, PublishType, RefuseType

LEMMA ContinueAfterInterruptType ==
    ASSUME TypeOK, NEW o \in Ops, ContinueAfterInterrupt(o) PROVE TypeOK'
  <1>1. CASE Refuse(o) BY <1>1, RefuseType
  <1>2. CASE ~Refuse(o)
    <2>1. /\ WriteAdmission(o)
          /\ op' = [op EXCEPT ![o].pc = "poll", ![o].mode = "Poll"]
          /\ UNCHANGED <<lifecycle, startup, active, preparation, worker_lock, process,
                         cancelled>>
      BY <1>2 DEF ContinueAfterInterrupt
    <2>2. "poll" \in Labels /\ "Poll" \in Modes BY DEF Labels, Modes
    <2>3. op' \in [Ops -> OpRecord] BY <2>1, <2>2, PcWrite, ModeWrite, Zenon
    <2>4. LifecycleTypes' BY <2>1
    <2>5. StartupTypes' BY <2>1
    <2>6. o \in Controls BY DEF ContinueAfterInterrupt, Controls
    <2>7. SessionTypes' BY <2>1, <2>6 DEF WriteAdmission
    <2>8. ProcessTypes' BY <2>1
    <2>9. OpTypes' BY <2>1, <2>3
    <2> QED BY <2>4, <2>5, <2>7, <2>8, <2>9
  <1> QED BY <1>1, <1>2

LEMMA StartRestartType ==
    ASSUME TypeOK, NEW o \in Ops, NEW resolver \in Ops \cup {NoOp}, NEW label \in Labels,
           StartRestart(o, resolver, label), env_pending' \in BOOLEAN
    PROVE  TypeOK'
  <1>1. generation + 1 \in Generations
    BY ConstantsAssumption DEF StartRestart, Generations
  <1>2. LifecycleTypes' BY <1>1 DEF StartRestart, States
  <1>3. StartupTypes' BY DEF StartRestart
  <1>4. SessionTypes' BY DEF StartRestart
  <1>5. ProcessTypes' BY DEF StartRestart
  <1>6. op' \in [Ops -> OpRecord]
    <2>1. "Restart" \in Modes /\ stop_handle \in Launches \cup {NoLaunch}
      BY DEF Modes
    <2>2. [op EXCEPT ![o].pc = label, ![o].mode = "Restart"] \in [Ops -> OpRecord]
      BY <2>1, PcWrite, ModeWrite, Zenon
    <2>3. [op EXCEPT ![o].pc = label, ![o].mode = "Restart", ![o].gen = generation + 1]
          \in [Ops -> OpRecord]
      BY <1>1, <2>2, GenWrite, Zenon
    <2>4. [op EXCEPT ![o].pc = label, ![o].mode = "Restart", ![o].gen = generation + 1,
                     ![o].target = stop_handle]
          \in [Ops -> OpRecord]
      BY <2>1, <2>3, TargetWrite, Zenon
    <2>5. [op EXCEPT ![o].pc = label, ![o].mode = "Restart", ![o].gen = generation + 1,
                     ![o].target = stop_handle, ![o].resolver = resolver]
          \in [Ops -> OpRecord]
      BY <2>4, ResolverWrite, Zenon
    <2> QED BY <2>5 DEF StartRestart
  <1>7. OpTypes' BY <1>6 DEF StartRestart
  <1> QED BY <1>2, <1>3, <1>4, <1>5, <1>7

LEMMA BeginRestartType == ASSUME TypeOK, NEW o \in Ops, BeginRestart(o) PROVE TypeOK'
  <1>1. CASE Refuse(o) BY <1>1, RefuseType
  <1>2. CASE StartRestart(o, resolver_handle, "shutdown") /\ UNCHANGED env_pending
    <2>1. /\ resolver_handle \in Ops \cup {NoOp} /\ "shutdown" \in Labels
          /\ env_pending' \in BOOLEAN
      BY <1>2 DEF Labels
    <2> QED BY <1>2, <2>1, StartRestartType
  <1> QED BY <1>1, <1>2 DEF BeginRestart

LEMMA CommitRestartType == ASSUME TypeOK, NEW o \in Ops, CommitRestart(o) PROVE TypeOK'
  <1>1. CASE Refuse(o) BY <1>1, RefuseType
  <1>2. CASE env_pending' = FALSE /\ StartRestart(o, NoOp, "restart_committed")
    <2>1. "restart_committed" \in Labels /\ env_pending' \in BOOLEAN BY <1>2 DEF Labels
    <2> QED BY <1>2, <2>1, StartRestartType
  <1> QED BY <1>1, <1>2 DEF CommitRestart

LEMMA ResolvePrestartType == ASSUME TypeOK, NEW o \in Ops, ResolvePrestart(o) PROVE TypeOK'
  <1>1. RegisterResolver(o, "resolving", "start_failed") BY DEF ResolvePrestart
  <1>2. "resolving" \in Labels /\ "start_failed" \in Labels BY DEF Labels
  <1>3. (resolver_handle' \in Ops \cup {NoOp}) /\ OpTypes' BY <1>1, <1>2, RegisterResolverType
  <1>4. LifecycleTypes' BY <1>3 DEF ResolvePrestart
  <1>5. StartupTypes' BY DEF ResolvePrestart
  <1>6. SessionTypes' BY DEF ResolvePrestart
  <1>7. ProcessTypes' BY DEF ResolvePrestart
  <1> QED BY <1>3, <1>4, <1>5, <1>6, <1>7

LEMMA PrepareResolveType == ASSUME TypeOK, NEW o \in Ops, PrepareResolve(o) PROVE TypeOK'
  <1>1. RegisterResolver(o, "preparing", "return") BY DEF PrepareResolve
  <1>2. "preparing" \in Labels /\ "return" \in Labels BY DEF Labels
  <1>3. (resolver_handle' \in Ops \cup {NoOp}) /\ OpTypes' BY <1>1, <1>2, RegisterResolverType
  <1>4. LifecycleTypes' BY <1>3 DEF PrepareResolve
  <1>5. StartupTypes' BY DEF PrepareResolve
  <1>6. SessionTypes' BY DEF PrepareResolve
  <1>7. ProcessTypes' BY DEF PrepareResolve
  <1> QED BY <1>3, <1>4, <1>5, <1>6, <1>7

LEMMA ResolveRestartType == ASSUME TypeOK, NEW o \in Ops, ResolveRestart(o) PROVE TypeOK'
  <1>1. (resolver_handle' \in Ops \cup {NoOp}) /\ OpTypes'
    <2>1. CASE RegisterResolver(o, "restart_resolving", "return")
      BY <2>1, RegisterResolverType DEF Labels
    <2>2. CASE /\ Goto(o, "restart_commit") \/ Goto(o, "return")
               /\ UNCHANGED <<resolver_handle, cancelled>>
      <3>1. op' \in [Ops -> OpRecord] BY <2>2, GotoType DEF Labels
      <3> QED BY <2>2, <3>1
    <2> QED BY <2>1, <2>2 DEF ResolveRestart
  <1>2. LifecycleTypes' BY <1>1 DEF ResolveRestart
  <1>3. StartupTypes' BY DEF ResolveRestart
  <1>4. SessionTypes' BY DEF ResolveRestart
  <1>5. ProcessTypes' BY DEF ResolveRestart
  <1> QED BY <1>1, <1>2, <1>3, <1>4, <1>5

(* An interrupt withholds the pending cell of the active evaluation.       *)
LEMMA SelectInterruptTargetType ==
    ASSUME TypeOK, NEW o \in Ops, NEW controlled \in BOOLEAN, NEW bootstrapping \in BOOLEAN,
           NEW next \in Labels, SelectInterruptTarget(o, controlled, bootstrapping, next)
    PROVE  TypeOK'
  <1>1. LifecycleTypes' BY DEF SelectInterruptTarget
  <1>2. StartupTypes' BY DEF SelectInterruptTarget
  <1>3. SessionTypes' BY DEF SelectInterruptTarget
  <1>4. ProcessTypes' BY DEF SelectInterruptTarget
  <1>5. op' \in [Ops -> OpRecord]
    <2>1. ASSUME NEW f \in [Ops -> OpRecord], NEW label \in Labels, NEW g \in Generations,
                 NEW selected \in Launches \cup {NoLaunch}
          PROVE  [f EXCEPT ![o].pc = label, ![o].gen = g, ![o].selected = selected]
                 \in [Ops -> OpRecord]
      <3>1. [f EXCEPT ![o].pc = label, ![o].gen = g] \in [Ops -> OpRecord]
        BY <2>1, PcWrite, GenWrite, Zenon
      <3> QED BY <2>1, <3>1, SelectedWrite, Zenon
    <2>2. [op EXCEPT ![active].phase = "Withheld"] \in [Ops -> OpRecord]
      <3>1. "Withheld" \in Phases BY DEF Phases
      <3> QED BY <3>1, PhaseWrite, Zenon
    <2> DEFINE evaluation == active # NoOp /\ op[active].gen = generation
               starting == startup_owner # {}
               resolver == resolver_handle # NoOp
               allowed == \/ controlled \/ controlled_send = NoOp
                          \/ /\ state = "Ready"
                             /\ (evaluation /\ op[active].outcome = "None") \/ bootstrapping
               signalled == ~starting /\ ~resolver /\ allowed /\ stop_handle # NoLaunch
               cells == IF evaluation /\ (starting \/ signalled) /\ op[active].phase = "Pending"
                        THEN [op EXCEPT ![active].phase = "Withheld"] ELSE op
               label(ok) == IF ok /\ (starting \/ resolver \/ signalled)
                            THEN next ELSE "return"
               g == IF controlled THEN cells[o].gen ELSE generation
               selected == IF resolver \/ signalled THEN stop_handle ELSE NoLaunch
    <2>3. PICK ok \in BOOLEAN :
               op' = [cells EXCEPT ![o].pc = label(ok), ![o].gen = g, ![o].selected = selected]
      BY Zenon DEF SelectInterruptTarget
    <2>4. cells \in [Ops -> OpRecord] BY <2>2
    <2>5. label(ok) \in Labels BY DEF Labels
    <2>6. g \in Generations BY <2>4 DEF OpRecord
    <2>7. selected \in Launches \cup {NoLaunch} OBVIOUS
    <2> HIDE DEF cells, label, g, selected
    <2> QED BY <2>1, <2>3, <2>4, <2>5, <2>6, <2>7, Zenon
  <1>6. cancelled' \subseteq Ops BY DEF SelectInterruptTarget
  <1>7. OpTypes' BY <1>5, <1>6
  <1> QED BY <1>1, <1>2, <1>3, <1>4, <1>7

LEMMA StopReturnsType ==
    ASSUME TypeOK, NEW o \in Ops, StopReturns(o)
    PROVE  /\ worker_lock' \in Ops \cup {NoOp}
           /\ startup_owner' \subseteq Ops /\ startup_interrupted' \in BOOLEAN
           /\ op' \in [Ops -> OpRecord]
  <1>1. worker_lock' \in Ops \cup {NoOp} BY DEF StopReturns
  <1>2. startup_owner' \subseteq Ops /\ startup_interrupted' \in BOOLEAN
    BY DropStartupType DEF StopReturns
  <1>3. op' \in [Ops -> OpRecord]
    <2> DEFINE outcome == IF op[o].outcome = "None" THEN "Failed" ELSE op[o].outcome
               label == IF op[o].mode = "Stdin" THEN AfterStdinFailure(o) ELSE "return"
    <2>1. /\ outcome \in CellOutcomes /\ label \in Labels /\ "done" \in Labels
          /\ NoLaunch \in Launches \cup {NoLaunch}
      BY OpFields DEF CellOutcomes, Labels, AfterStdinFailure
    <2>2. CASE op[o].mode = "Cell"
      <3>1. op' = [op EXCEPT ![o].outcome = outcome, ![o].pc = "done", ![o].target = NoLaunch]
        BY <2>2, Zenon DEF StopReturns
      <3>2. [op EXCEPT ![o].outcome = outcome, ![o].pc = "done"] \in [Ops -> OpRecord]
        <4> HIDE DEF outcome
        <4> QED BY <2>1, OutcomeWrite, PcWrite, Zenon
      <3> HIDE DEF outcome
      <3> QED BY <2>1, <3>1, <3>2, TargetWrite, Zenon
    <2>3. CASE op[o].mode # "Cell"
      <3>1. op' = [op EXCEPT ![o].pc = label, ![o].target = NoLaunch]
        BY <2>3, Zenon DEF StopReturns
      <3> HIDE DEF label
      <3> QED BY <2>1, <3>1, PcWrite, TargetWrite, Zenon
    <2> QED BY <2>2, <2>3
  <1> QED BY <1>1, <1>2, <1>3

LEMMA StopFailedWorkerType == ASSUME TypeOK, NEW o \in Ops, StopFailedWorker(o) PROVE TypeOK'
  <1>1. StartupTypes' BY DEF StopFailedWorker
  <1>2. ProcessTypes' BY DEF StopFailedWorker
  <1>3. CASE StopReturns(o)
    <2>1. LifecycleTypes' BY <1>3, StopReturnsType DEF StopFailedWorker
    <2>2. SessionTypes'
      BY <1>3, StopReturnsType DEF StopFailedWorker
    <2>3. OpTypes' BY <1>3, StopReturnsType DEF StopFailedWorker
    <2> QED BY <1>1, <1>2, <2>1, <2>2, <2>3
  <1>4. CASE ~StopReturns(o)
    <2>1. /\ op' = [op EXCEPT ![o].pc = "stopping", ![o].target = running,
                              ![o].resolver = resolver_handle]
          /\ UNCHANGED <<worker_lock, startup_owner, startup_interrupted>>
      BY <1>4 DEF StopFailedWorker
    <2>2. /\ "stopping" \in Labels /\ running \in Launches \cup {NoLaunch}
          /\ resolver_handle \in Ops \cup {NoOp}
      BY DEF Labels
    <2>3. [op EXCEPT ![o].pc = "stopping", ![o].target = running] \in [Ops -> OpRecord]
      BY <2>2, PcWrite, TargetWrite, Zenon
    <2>4. op' \in [Ops -> OpRecord] BY <2>1, <2>2, <2>3, ResolverWrite, Zenon
    <2>5. LifecycleTypes' BY <2>1 DEF StopFailedWorker
    <2>6. SessionTypes' BY <2>1 DEF StopFailedWorker
    <2>7. OpTypes' BY <2>4 DEF StopFailedWorker
    <2> QED BY <1>1, <1>2, <2>5, <2>6, <2>7
  <1> QED BY <1>3, <1>4

LEMMA FailedWorkerStoppedType ==
    ASSUME TypeOK, NEW o \in Ops, FailedWorkerStopped(o)
    PROVE  TypeOK'
  <1>1. StartupTypes' BY DEF FailedWorkerStopped
  <1>2. state' \in States /\ stop_handle' \in Launches \cup {NoLaunch}
    BY DEF FailedWorkerStopped, States
  <1>3. CASE StopReturns(o) /\ UNCHANGED worker
    <2>1. LifecycleTypes' BY <1>2, <1>3, StopReturnsType DEF FailedWorkerStopped
    <2>2. SessionTypes'
      BY <1>3, StopReturnsType DEF FailedWorkerStopped
    <2>3. OpTypes' BY <1>3, StopReturnsType DEF FailedWorkerStopped
    <2>4. ProcessTypes' BY <1>3 DEF FailedWorkerStopped
    <2> QED BY <1>1, <2>1, <2>2, <2>3, <2>4
  <1>4. CASE ~(StopReturns(o) /\ UNCHANGED worker)
    <2> DEFINE label == IF op[o].mode = "Cell" THEN "replace" ELSE "prepared"
    <2>1. /\ op' = [op EXCEPT ![o].pc = label, ![o].target = NoLaunch]
          /\ worker' = IF op[o].mode = "Prepare" THEN "Initial" ELSE worker
          /\ UNCHANGED <<worker_lock, startup_owner, startup_interrupted>>
      BY <1>4, Zenon DEF FailedWorkerStopped
    <2>2. label \in Labels /\ NoLaunch \in Launches \cup {NoLaunch} BY DEF Labels
    <2>3. op' \in [Ops -> OpRecord]
      <3> HIDE DEF label
      <3> QED BY <2>1, <2>2, PcWrite, TargetWrite, Zenon
    <2> HIDE DEF label
    <2>4. LifecycleTypes' BY <1>2, <2>1 DEF FailedWorkerStopped
    <2>5. SessionTypes' BY <2>1 DEF FailedWorkerStopped
    <2>6. OpTypes' BY <2>3 DEF FailedWorkerStopped
    <2>7. ProcessTypes' BY <2>1 DEF FailedWorkerStopped
    <2> QED BY <1>1, <2>4, <2>5, <2>6, <2>7
  <1> QED BY <1>3, <1>4

LEMMA ShutdownProcessesType ==
    ASSUME TypeOK, NEW o \in Ops, NEW stopped \in Labels, NEW failed \in Labels,
           ShutdownProcesses(o, stopped, failed)
    PROVE  TypeOK'
  <1>1. LifecycleTypes' BY DEF ShutdownProcesses
  <1>2. StartupTypes' BY DEF ShutdownProcesses
  <1>3. SessionTypes' BY DEF ShutdownProcesses
  <1>4. launch' \in [Launches -> LaunchRecord]
    BY OpFields, RetiredType DEF ShutdownProcesses
  <1>5. ProcessTypes' BY <1>4 DEF ShutdownProcesses
  <1>6. op' \in [Ops -> OpRecord] BY GotoType DEF ShutdownProcesses
  <1>7. cancelled' \subseteq Ops BY OpFields DEF ShutdownProcesses, StopResolver
  <1>8. OpTypes' BY <1>6, <1>7
  <1> QED BY <1>1, <1>2, <1>3, <1>5, <1>8

LEMMA RestartShutdownType == ASSUME TypeOK, NEW o \in Ops, RestartShutdown(o) PROVE TypeOK'
  BY ShutdownProcessesType DEF RestartShutdown, Labels

LEMMA CloseProcessesType == ASSUME TypeOK, NEW o \in Ops, CloseProcesses(o) PROVE TypeOK'
  BY ShutdownProcessesType DEF CloseProcesses, Labels

LEMMA FinishRetirementType ==
    ASSUME ProcessTypes, NEW io \in BOOLEAN, FinishRetirement(io)
    PROVE  /\ launch' \in [Launches -> LaunchRecord]
           /\ worker' \in {"Initial", "Stopped", "Running"}
           /\ running' \in Launches \cup {NoLaunch}
  <1>1. CASE worker = "Running"
    <2>1. PICK outcome \in Outcomes(running) :
             /\ launch' = Retired(running, outcome)
             /\ worker' = IF io THEN "Stopped" ELSE worker
             /\ running' = IF io THEN NoLaunch ELSE running
      BY <1>1 DEF FinishRetirement
    <2> QED BY <2>1, RetiredType
  <1>2. CASE worker # "Running" BY <1>2 DEF FinishRetirement
  <1> QED BY <1>1, <1>2

LEMMA RetireWorkerType == ASSUME TypeOK, NEW o \in Ops, RetireWorker(o) PROVE TypeOK'
  <1>1. LifecycleTypes' BY DEF RetireWorker
  <1>2. StartupTypes' BY DEF RetireWorker
  <1>3. SessionTypes' BY DEF RetireWorker
  <1>4. ProcessTypes' BY FinishRetirementType DEF RetireWorker
  <1>5. op' \in [Ops -> OpRecord] BY GotoType DEF RetireWorker, Labels
  <1>6. OpTypes' BY <1>5 DEF RetireWorker
  <1> QED BY <1>1, <1>2, <1>3, <1>4, <1>6

LEMMA CloseWorkerType == ASSUME TypeOK, NEW o \in Ops, CloseWorker(o) PROVE TypeOK'
  <1>1. LifecycleTypes' BY DEF CloseWorker
  <1>2. StartupTypes' BY DEF CloseWorker
  <1>3. SessionTypes' BY DEF CloseWorker
  <1>4. ProcessTypes' BY FinishRetirementType DEF CloseWorker
  <1>5. op' \in [Ops -> OpRecord] BY GotoType DEF CloseWorker, Labels
  <1>6. OpTypes' BY <1>5 DEF CloseWorker
  <1> QED BY <1>1, <1>2, <1>3, <1>4, <1>6

LEMMA ReplaceWorkerType == ASSUME TypeOK, NEW o \in Ops, ReplaceWorker(o) PROVE TypeOK'
  <1>1. LifecycleTypes' BY DEF ReplaceWorker
  <1>2. StartupTypes' BY DEF ReplaceWorker
  <1>3. SessionTypes' BY DEF ReplaceWorker
  <1>4. /\ launch' \in [Launches -> LaunchRecord]
        /\ worker' \in {"Initial", "Stopped", "Running"}
        /\ running' \in Launches \cup {NoLaunch}
    <2>1. CASE \E io \in BOOLEAN : FinishRetirement(io) BY <2>1, FinishRetirementType
    <2>2. CASE ~\E io \in BOOLEAN : FinishRetirement(io)
      <3>1. UNCHANGED <<launch, running>> /\ worker' \in {worker, "Stopped"}
        BY <2>2 DEF ReplaceWorker
      <3> QED BY <3>1
    <2> QED BY <2>1, <2>2
  <1>5. ProcessTypes' BY <1>4 DEF ReplaceWorker
  <1>6. op' \in [Ops -> OpRecord] BY GotoType DEF ReplaceWorker, Labels
  <1>7. OpTypes' BY <1>6 DEF ReplaceWorker
  <1> QED BY <1>1, <1>2, <1>3, <1>5, <1>7

LEMMA StartPollType == ASSUME TypeOK, NEW o \in Ops, StartPoll(o) PROVE TypeOK'
  <1>1. CASE Refuse(o) BY <1>1, RefuseType
  <1>2. CASE ~Refuse(o)
    <2>1. /\ UNCHANGED <<lifecycle, startup_permitted, r_permitted, startup_failed,
                         startup_done, env_pending, active, worker_lock, worker, running,
                         launched, cancelled>>
          /\ \E stdin \in BOOLEAN :
               IF startup_done
               THEN /\ preparation' = [preparation EXCEPT !.readers = @ \cup {o}]
                    /\ op' = [op EXCEPT ![o].pc = IF stdin THEN "lock_stdin" ELSE "poll",
                                        ![o].mode = IF stdin THEN "Stdin" ELSE "Poll"]
                    /\ UNCHANGED <<admission, startup_stdin, launch, unused_default>>
               ELSE /\ admission' = Release(admission, o)
                    /\ UNCHANGED preparation
                    /\ op' = [op EXCEPT ![o].pc = IF stdin /\ ~ensure_startup(o)
                                                  THEN "return" ELSE "poll",
                                        ![o].mode = "Poll"]
                    /\ QueueStartupStdin(o, stdin)
      BY <1>2, Zenon DEF StartPoll
    <2>2. /\ preparation' \in [readers : SUBSET Ops, writer : Cells \cup {NoOp}]
          /\ admission' \in [readers : SUBSET Ops, writer : Controls \cup {NoOp}]
      BY <2>1, ReleaseType
    <2>3. /\ startup_stdin' \subseteq Generations /\ unused_default' \in BOOLEAN
          /\ launch' \in [Launches -> LaunchRecord]
      BY <2>1, QueueStartupStdinType
    <2>4. op' \in [Ops -> OpRecord]
      <3>1. \A label \in Labels, mode \in Modes :
              [op EXCEPT ![o].pc = label, ![o].mode = mode] \in [Ops -> OpRecord]
        BY PcWrite, ModeWrite, Zenon
      <3>2. {"lock_stdin", "poll", "return"} \subseteq Labels /\ {"Stdin", "Poll"} \subseteq Modes
        BY DEF Labels, Modes
      <3>3. \E label \in Labels, mode \in Modes :
              op' = [op EXCEPT ![o].pc = label, ![o].mode = mode]
        BY <2>1, <3>2
      <3>4. PICK label \in Labels, mode \in Modes :
              op' = [op EXCEPT ![o].pc = label, ![o].mode = mode]
        BY <3>3
      <3>5. [op EXCEPT ![o].pc = label, ![o].mode = mode] \in [Ops -> OpRecord]
        BY <3>1, Zenon
      <3> QED BY <3>4, <3>5, Zenon
    <2>5. LifecycleTypes' BY <2>1
    <2>6. StartupTypes' BY <2>1, <2>3
    <2>7. SessionTypes' BY <2>1, <2>2
    <2>8. ProcessTypes' BY <2>1, <2>3
    <2>9. OpTypes' BY <2>1, <2>4
    <2> QED BY <2>5, <2>6, <2>7, <2>8, <2>9
  <1> QED BY <1>1, <1>2

HIDE DEF TypeOK, LifecycleTypes, StartupTypes, SessionTypes, ProcessTypes,
    OpTypes, lifecycle, startup, session, locks, process

LEMMA InterruptBlockingType == ASSUME TypeOK, NEW o \in Ops, InterruptBlocking(o) PROVE TypeOK'
  BY SelectInterruptTargetType DEF InterruptBlocking, Labels

LEMMA InterruptStandaloneType ==
    ASSUME TypeOK, NEW o \in Ops, InterruptStandalone(o) PROVE TypeOK'
  BY SelectInterruptTargetType DEF InterruptStandalone, Labels

LEMMA InterruptStartupType == ASSUME TypeOK, NEW o \in Ops, InterruptStartup(o) PROVE TypeOK'
  BY SelectInterruptTargetType DEF InterruptStartup, Labels

(***************************************************************************)
(* The initial values are well typed.                                      *)
(***************************************************************************)
LEMMA InitType == ASSUME Init PROVE TypeOK
  <1>0. 0 \in Generations /\ 0 \in 0..MaxLaunches
    BY ConstantsAssumption DEF Generations
  <1>1. LifecycleTypes
    <2>1. Prelaunchers \subseteq Ops BY DEF Ops
    <2> QED BY <1>0, <2>1 DEF Init, LifecycleTypes, States
  <1>2. StartupTypes
    <2>1. unused_default \in BOOLEAN /\ env_pending \in BOOLEAN
      BY ConstantsAssumption DEF Init
    <2>2. startup_done \in BOOLEAN BY DEF Init
    <2> QED BY <2>1, <2>2 DEF Init, StartupTypes
  <1>3. SessionTypes BY DEF Init, SessionTypes
  <1>4. ProcessTypes BY <1>0 DEF Init, ProcessTypes, LaunchRecord
  <1>5. OpTypes
    <2>1. /\ "idle" \in Labels /\ "None" \in Modes /\ "None" \in Phases
          /\ "None" \in CellOutcomes
      BY DEF Labels, Modes, Phases, CellOutcomes
    <2> QED BY <1>0, <2>1 DEF Init, OpTypes, OpRecord
  <1> QED BY <1>1, <1>2, <1>3, <1>4, <1>5 DEF TypeOK

LEMMA ReapType == ASSUME TypeOK, Reap PROVE TypeOK'
  <1> USE DEF TypeOK
  <1>1. LifecycleTypes' BY DEF Reap, LifecycleTypes, lifecycle
  <1>2. StartupTypes' BY DEF Reap, StartupTypes, startup
  <1>3. SessionTypes' BY DEF Reap, SessionTypes, locks
  <1>4. ProcessTypes' BY DEF Reap, ProcessTypes, process
  <1>5. OpTypes' BY DEF Reap, OpTypes
  <1> QED BY <1>1, <1>2, <1>3, <1>4, <1>5

LEMMA StutterType == ASSUME TypeOK, UNCHANGED vars PROVE TypeOK'
  <1> USE DEF TypeOK, vars
  <1>1. LifecycleTypes' BY DEF LifecycleTypes, lifecycle
  <1>2. StartupTypes' BY DEF StartupTypes, startup
  <1>3. SessionTypes' BY DEF SessionTypes, session, locks
  <1>4. ProcessTypes' BY DEF ProcessTypes, process
  <1>5. OpTypes' BY DEF OpTypes
  <1> QED BY <1>1, <1>2, <1>3, <1>4, <1>5

(* Every step of a server thread keeps the types.                          *)
LEMMA StepType == ASSUME TypeOK, NEW o \in Ops, Step(o) PROVE TypeOK'
  BY Zenon, StartEvaluationType, EvaluateBlockingType, LockForCellType, DispatchType,
     CellFailsType, EvaluateReturnsType, ReserveWorkerStartupType, LockEnvironmentType,
     ResolvePrestartType, SpawnType, RegisterStopHandleType, AwaitReadyType, OnReadyType,
     ReadyCommitType, RetireFailedStartType, StartFailedType, StopFailedWorkerType,
     StopFailedType, FailedWorkerStoppedType, StartReplacementType, StartPollType,
     LockForStdinType, WriteStdinType, TakeIdleResponseType, LockForPollType, ReturnType,
     PrelaunchType, ReservePreparationType, LockForPrelaunchType, PrelaunchReturnsType,
     FinishStartupType, AdmitPreparationType, CheckPreparationType, PrepareAdmittedType,
     PrepareResolveType, CommitEnvironmentType, StartPreparedEvaluationType, BeginRestartType,
     ResolveRestartType, CommitRestartType, RestartCommittedType, RestartShutdownType,
     RetireWorkerType, FailRestartType, ReplaceWorkerType, RestartLaunchType,
     RestartReturnsType, AdmitControlledOperationType, FollowUpType, InterruptBlockingType,
     InterruptStdinType, RetryControlledSendType, SubmitControlledStdinType,
     EnsureFollowupConnectionType, ContinueAfterInterruptType, ContinueWithCellType,
     CloseProcessesType, CloseWorkerType
     DEF Step

LEMMA NextType == ASSUME TypeOK, [Next]_vars PROVE TypeOK'
  <1>1. ASSUME NEW o \in Ops, Step(o) PROVE TypeOK' BY <1>1, StepType
  <1>2. ASSUME NEW o \in Ops, Settle(o) PROVE TypeOK'
    BY <1>2, ResolvedPrestartType, PrepareResolvedType, RestartResolvedType DEF Settle
  <1>3. ASSUME NEW o \in Ops, Arrive(o) PROVE TypeOK'
    BY <1>3, AdmitType, BeginControlledSendType, CloseLifecycleType, InterruptStandaloneType,
       InterruptStartupType DEF Arrive
  <1>4. ASSUME NEW o \in Ops, CellCompletes(o) PROVE TypeOK' BY <1>4, CellCompletesType
  <1>5. ASSUME NEW l \in Launches, WorkerStep(l) PROVE TypeOK'
    BY <1>5, LaunchReadyType, LaunchFailsType, RInitBeginsType, RInitCompletesType
       DEF WorkerStep
  <1>6. CASE Reap BY <1>6, ReapType
  <1>7. CASE Terminated BY <1>7, StutterType DEF Terminated
  <1>8. CASE UNCHANGED vars BY <1>8, StutterType
  <1> QED BY <1>1, <1>2, <1>3, <1>4, <1>5, <1>6, <1>7, <1>8 DEF Next

(* Every variable keeps its type for any number of calls, launches and     *)
(* restarts: in particular the write lock of admission is only ever a      *)
(* control's, the active evaluation a cell's or a control's, and every     *)
(* call is at a label of the model.                                        *)
THEOREM TypeCorrect == Spec => []TypeOK
  <1>1. Init => TypeOK BY InitType
  <1>2. TypeOK /\ [Next]_vars => TypeOK' BY NextType
  <1> QED BY <1>1, <1>2, PTL DEF Spec

-----------------------------------------------------------------------------

(***************************************************************************)
(* What a step of one call leaves alone: a closed session stays closed,    *)
(* only a restart's own begin makes it restarting, and while it restarts   *)
(* neither its generation, nor another call that owns admission, nor where *)
(* another call is, changes.                                               *)
(***************************************************************************)
Acts(o) == Step(o) \/ Settle(o) \/ Arrive(o) \/ CellCompletes(o)

(* r is the restart that settles this session.                             *)
SettlingRestart(r) ==
    /\ controlled_send = r
    /\ Current(r)
    /\ op[r].mode = "Restart"
    /\ op[r].pc \in Settling

KeepsOwner(o) ==
    /\ state = "ShuttingDown" => state' = "ShuttingDown"
    /\ state # "Restarting" => state' # "Restarting"
    /\ state = "Restarting" =>
          /\ generation' = generation
          /\ controlled_send # o => controlled_send' = controlled_send
          /\ \A q \in Ops \ {o} : /\ op'[q].pc = op[q].pc
                                  /\ op'[q].mode = op[q].mode
                                  /\ op'[q].gen = op[q].gen

LEMMA SelectInterruptTargetKeeps ==
    ASSUME op \in [Ops -> OpRecord], NEW o \in Ops, NEW controlled, NEW bootstrapping, NEW next,
           SelectInterruptTarget(o, controlled, bootstrapping, next)
    PROVE  KeepsOwner(o)
  <1> DEFINE withheld == [op EXCEPT ![active].phase = "Withheld"]
  <1>1. \E cells \in {op, withheld} : \E label, gen, selected :
          op' = [cells EXCEPT ![o].pc = label, ![o].gen = gen, ![o].selected = selected]
    <2> DEFINE evaluation == active # NoOp /\ op[active].gen = generation
               starting == startup_owner # {}
               resolver == resolver_handle # NoOp
               allowed == \/ controlled \/ controlled_send = NoOp
                          \/ /\ state = "Ready"
                             /\ (evaluation /\ op[active].outcome = "None") \/ bootstrapping
               signalled == ~starting /\ ~resolver /\ allowed /\ stop_handle # NoLaunch
               cells == IF evaluation /\ (starting \/ signalled) /\ op[active].phase = "Pending"
                        THEN withheld ELSE op
               label(ok) == IF ok /\ (starting \/ resolver \/ signalled)
                            THEN next ELSE "return"
               g == IF controlled THEN cells[o].gen ELSE generation
               selected == IF resolver \/ signalled THEN stop_handle ELSE NoLaunch
    <2>1. PICK ok \in BOOLEAN :
               op' = [cells EXCEPT ![o].pc = label(ok), ![o].gen = g, ![o].selected = selected]
      BY Zenon DEF SelectInterruptTarget
    <2>2. cells \in {op, withheld} OBVIOUS
    <2> HIDE DEF cells, label, g, selected
    <2> QED BY <2>1, <2>2, Zenon
  <1>2. ASSUME NEW q \in Ops
        PROVE  /\ withheld[q].pc = op[q].pc /\ withheld[q].mode = op[q].mode
               /\ withheld[q].gen = op[q].gen
    <2>1. op[q] \in OpRecord OBVIOUS
    <2>2. CASE q = active
      <3>1. withheld[q] = [op[q] EXCEPT !.phase = "Withheld"] BY <2>2
      <3> QED BY <2>1, <3>1 DEF OpRecord
    <2>3. CASE q # active BY <2>3
    <2> QED BY <2>2, <2>3
  <1>3. /\ DOMAIN withheld = Ops /\ DOMAIN op = Ops OBVIOUS
  <1>4. ASSUME NEW q \in Ops \ {o}
        PROVE  op'[q].pc = op[q].pc /\ op'[q].mode = op[q].mode /\ op'[q].gen = op[q].gen
    <2>1. PICK cells \in {op, withheld} : \E label, gen, selected :
            op' = [cells EXCEPT ![o].pc = label, ![o].gen = gen, ![o].selected = selected]
      BY <1>1
    <2>2. DOMAIN cells = Ops BY <1>3
    <2>3. op'[q] = cells[q]
      <3> HIDE DEF withheld
      <3> QED BY <2>1, <2>2
    <2> QED BY <2>3, <1>2
  <1>5. state' = state /\ generation' = generation /\ controlled_send' = controlled_send
    BY DEF SelectInterruptTarget
  <1> QED BY <1>4, <1>5 DEF KeepsOwner

LEMMA StartEvaluationKeeps ==
    ASSUME op \in [Ops -> OpRecord], NEW o \in Ops, StartEvaluation(o) PROVE KeepsOwner(o)
  BY DEF KeepsOwner, StartEvaluation, DropStartup, Goto, PublishEvaluation, Refuse,
     ReleaseAdmission, ReserveStartup, Unlock

LEMMA EvaluateBlockingKeeps ==
    ASSUME op \in [Ops -> OpRecord], NEW o \in Ops, EvaluateBlocking(o) PROVE KeepsOwner(o)
  BY DEF KeepsOwner, EvaluateBlocking, CompleteCell, DropStartup, Goto

LEMMA LockForCellKeeps ==
    ASSUME op \in [Ops -> OpRecord], NEW o \in Ops, LockForCell(o) PROVE KeepsOwner(o)
  BY DEF KeepsOwner, LockForCell, CompleteCell, DropStartup, Goto

LEMMA DispatchKeeps ==
    ASSUME op \in [Ops -> OpRecord], NEW o \in Ops, Dispatch(o) PROVE KeepsOwner(o)
  BY DEF KeepsOwner, Dispatch, CompleteCell, lifecycle

LEMMA CellFailsKeeps ==
    ASSUME op \in [Ops -> OpRecord], NEW o \in Ops, CellFails(o) PROVE KeepsOwner(o)
  BY DEF KeepsOwner, CellFails, CompleteCell, lifecycle

LEMMA EvaluateReturnsKeeps ==
    ASSUME op \in [Ops -> OpRecord], NEW o \in Ops, EvaluateReturns(o) PROVE KeepsOwner(o)
  BY DEF KeepsOwner, EvaluateReturns, DropStartup, Goto

LEMMA ReserveWorkerStartupKeeps ==
    ASSUME op \in [Ops -> OpRecord], NEW o \in Ops, ReserveWorkerStartup(o) PROVE KeepsOwner(o)
  BY DEF KeepsOwner, ReserveWorkerStartup, Goto, ReleaseStarter, ReserveStartup

LEMMA LockEnvironmentKeeps ==
    ASSUME op \in [Ops -> OpRecord], NEW o \in Ops, LockEnvironment(o) PROVE KeepsOwner(o)
  BY DEF KeepsOwner, LockEnvironment, Goto, lifecycle

LEMMA ResolvePrestartKeeps ==
    ASSUME op \in [Ops -> OpRecord], NEW o \in Ops, ResolvePrestart(o) PROVE KeepsOwner(o)
  BY DEF KeepsOwner, ResolvePrestart, Goto, RegisterResolver

LEMMA SpawnKeeps ==
    ASSUME op \in [Ops -> OpRecord], NEW o \in Ops, Spawn(o) PROVE KeepsOwner(o)
  BY DEF KeepsOwner, Spawn, Goto, lifecycle

LEMMA RegisterStopHandleKeeps ==
    ASSUME op \in [Ops -> OpRecord], NEW o \in Ops, RegisterStopHandle(o) PROVE KeepsOwner(o)
  BY DEF KeepsOwner, RegisterStopHandle, Goto

LEMMA AwaitReadyKeeps ==
    ASSUME op \in [Ops -> OpRecord], NEW o \in Ops, AwaitReady(o) PROVE KeepsOwner(o)
  BY DEF KeepsOwner, AwaitReady, Goto, lifecycle

LEMMA OnReadyKeeps ==
    ASSUME op \in [Ops -> OpRecord], NEW o \in Ops, OnReady(o) PROVE KeepsOwner(o)
  BY DEF KeepsOwner, OnReady, Goto, FinishRestart

LEMMA ReadyCommitKeeps ==
    ASSUME op \in [Ops -> OpRecord], NEW o \in Ops, ReadyCommit(o) PROVE KeepsOwner(o)
  BY DEF KeepsOwner, ReadyCommit, Goto, ReleaseStarter, lifecycle

LEMMA RetireFailedStartKeeps ==
    ASSUME op \in [Ops -> OpRecord], NEW o \in Ops, RetireFailedStart(o) PROVE KeepsOwner(o)
  BY DEF KeepsOwner, RetireFailedStart, lifecycle

LEMMA StartFailedKeeps ==
    ASSUME op \in [Ops -> OpRecord], NEW o \in Ops, StartFailed(o) PROVE KeepsOwner(o)
  BY DEF KeepsOwner, StartFailed, CompleteCell, DropStartup, Goto

LEMMA StopFailedWorkerKeeps ==
    ASSUME op \in [Ops -> OpRecord], NEW o \in Ops, StopFailedWorker(o) PROVE KeepsOwner(o)
  BY DEF KeepsOwner, StopFailedWorker, DropStartup, StopReturns

LEMMA StopFailedKeeps ==
    ASSUME op \in [Ops -> OpRecord], NEW o \in Ops, StopFailed(o) PROVE KeepsOwner(o)
  BY DEF KeepsOwner, StopFailed, Goto, lifecycle

LEMMA FailedWorkerStoppedKeeps ==
    ASSUME op \in [Ops -> OpRecord], NEW o \in Ops, FailedWorkerStopped(o) PROVE KeepsOwner(o)
  BY DEF KeepsOwner, FailedWorkerStopped, DropStartup, StopReturns

LEMMA StartReplacementKeeps ==
    ASSUME op \in [Ops -> OpRecord], NEW o \in Ops, StartReplacement(o) PROVE KeepsOwner(o)
  BY DEF KeepsOwner, StartReplacement, lifecycle

LEMMA StartPollKeeps ==
    ASSUME op \in [Ops -> OpRecord], NEW o \in Ops, StartPoll(o) PROVE KeepsOwner(o)
  BY DEF KeepsOwner, StartPoll, DropStartup, Goto, QueueStartupStdin, Refuse, ReleaseAdmission,
     Unlock, lifecycle

LEMMA LockForStdinKeeps ==
    ASSUME op \in [Ops -> OpRecord], NEW o \in Ops, LockForStdin(o) PROVE KeepsOwner(o)
  BY DEF KeepsOwner, LockForStdin, Goto, lifecycle

LEMMA WriteStdinKeeps ==
    ASSUME op \in [Ops -> OpRecord], NEW o \in Ops, WriteStdin(o) PROVE KeepsOwner(o)
  BY DEF KeepsOwner, WriteStdin, Goto, lifecycle

LEMMA TakeIdleResponseKeeps ==
    ASSUME op \in [Ops -> OpRecord], NEW o \in Ops, TakeIdleResponse(o) PROVE KeepsOwner(o)
  BY DEF KeepsOwner, TakeIdleResponse, lifecycle

LEMMA LockForPollKeeps ==
    ASSUME op \in [Ops -> OpRecord], NEW o \in Ops, LockForPoll(o) PROVE KeepsOwner(o)
  BY DEF KeepsOwner, LockForPoll, Goto, lifecycle

LEMMA ReturnKeeps ==
    ASSUME op \in [Ops -> OpRecord], NEW o \in Ops, Return(o) PROVE KeepsOwner(o)
  BY DEF KeepsOwner, Return, DropStartup, Goto, Refuse, ReleaseAdmission, Unlock

LEMMA PrelaunchKeeps ==
    ASSUME op \in [Ops -> OpRecord], NEW o \in Ops, Prelaunch(o) PROVE KeepsOwner(o)
  BY DEF KeepsOwner, Prelaunch, Goto, lifecycle

LEMMA ReservePreparationKeeps ==
    ASSUME op \in [Ops -> OpRecord], NEW o \in Ops, ReservePreparation(o) PROVE KeepsOwner(o)
  BY DEF KeepsOwner, ReservePreparation, Goto, lifecycle

LEMMA LockForPrelaunchKeeps ==
    ASSUME op \in [Ops -> OpRecord], NEW o \in Ops, LockForPrelaunch(o) PROVE KeepsOwner(o)
  BY DEF KeepsOwner, LockForPrelaunch, Goto, lifecycle

LEMMA PrelaunchReturnsKeeps ==
    ASSUME op \in [Ops -> OpRecord], NEW o \in Ops, PrelaunchReturns(o) PROVE KeepsOwner(o)
  BY DEF KeepsOwner, PrelaunchReturns, DropStartup, Goto

LEMMA FinishStartupKeeps ==
    ASSUME op \in [Ops -> OpRecord], NEW o \in Ops, FinishStartup(o) PROVE KeepsOwner(o)
  BY DEF KeepsOwner, FinishStartup, Goto, lifecycle

LEMMA AdmitPreparationKeeps ==
    ASSUME op \in [Ops -> OpRecord], NEW o \in Ops, AdmitPreparation(o) PROVE KeepsOwner(o)
  BY DEF KeepsOwner, AdmitPreparation, DropStartup, Goto, Refuse, ReleaseAdmission, Unlock,
     lifecycle

LEMMA CheckPreparationKeeps ==
    ASSUME op \in [Ops -> OpRecord], NEW o \in Ops, CheckPreparation(o) PROVE KeepsOwner(o)
  BY DEF KeepsOwner, CheckPreparation, Goto, lifecycle

LEMMA PrepareAdmittedKeeps ==
    ASSUME op \in [Ops -> OpRecord], NEW o \in Ops, PrepareAdmitted(o) PROVE KeepsOwner(o)
  BY DEF KeepsOwner, PrepareAdmitted, Goto, lifecycle

LEMMA PrepareResolveKeeps ==
    ASSUME op \in [Ops -> OpRecord], NEW o \in Ops, PrepareResolve(o) PROVE KeepsOwner(o)
  BY DEF KeepsOwner, PrepareResolve, Goto, RegisterResolver

LEMMA CommitEnvironmentKeeps ==
    ASSUME op \in [Ops -> OpRecord], NEW o \in Ops, CommitEnvironment(o) PROVE KeepsOwner(o)
  BY DEF KeepsOwner, CommitEnvironment, Goto

LEMMA StartPreparedEvaluationKeeps ==
    ASSUME op \in [Ops -> OpRecord], NEW o \in Ops, StartPreparedEvaluation(o) PROVE KeepsOwner(o)
  BY DEF KeepsOwner, StartPreparedEvaluation, DropStartup, Goto, PublishEvaluation, Refuse,
     ReleaseAdmission, ReserveStartup, Unlock

LEMMA ResolveRestartKeeps ==
    ASSUME op \in [Ops -> OpRecord], NEW o \in Ops, ResolveRestart(o) PROVE KeepsOwner(o)
  BY DEF KeepsOwner, ResolveRestart, Goto, RegisterResolver

LEMMA RestartCommittedKeeps ==
    ASSUME op \in [Ops -> OpRecord], NEW o \in Ops, RestartCommitted(o) PROVE KeepsOwner(o)
  BY DEF KeepsOwner, RestartCommitted, Goto, lifecycle

LEMMA RestartShutdownKeeps ==
    ASSUME op \in [Ops -> OpRecord], NEW o \in Ops, RestartShutdown(o) PROVE KeepsOwner(o)
  BY DEF KeepsOwner, RestartShutdown, Goto, ShutdownProcesses, lifecycle

LEMMA RetireWorkerKeeps ==
    ASSUME op \in [Ops -> OpRecord], NEW o \in Ops, RetireWorker(o) PROVE KeepsOwner(o)
  BY DEF KeepsOwner, RetireWorker, Goto, lifecycle

LEMMA FailRestartKeeps ==
    ASSUME op \in [Ops -> OpRecord], NEW o \in Ops, FailRestart(o) PROVE KeepsOwner(o)
  BY DEF KeepsOwner, FailRestart, Goto

LEMMA ReplaceWorkerKeeps ==
    ASSUME op \in [Ops -> OpRecord], NEW o \in Ops, ReplaceWorker(o) PROVE KeepsOwner(o)
  BY DEF KeepsOwner, ReplaceWorker, Goto

LEMMA RestartLaunchKeeps ==
    ASSUME op \in [Ops -> OpRecord], NEW o \in Ops, RestartLaunch(o) PROVE KeepsOwner(o)
  BY DEF KeepsOwner, RestartLaunch, Goto, lifecycle

LEMMA RestartReturnsKeeps ==
    ASSUME op \in [Ops -> OpRecord], NEW o \in Ops, RestartReturns(o) PROVE KeepsOwner(o)
  BY DEF KeepsOwner, RestartReturns, FinishRestart

LEMMA AdmitControlledOperationKeeps ==
    ASSUME op \in [Ops -> OpRecord], NEW o \in Ops, AdmitControlledOperation(o)
    PROVE  KeepsOwner(o)
  BY DEF KeepsOwner, AdmitControlledOperation, Goto, lifecycle

LEMMA FollowUpKeeps ==
    ASSUME op \in [Ops -> OpRecord], NEW o \in Ops, FollowUp(o) PROVE KeepsOwner(o)
  BY DEF KeepsOwner, FollowUp, DropStartup, Goto, PublishEvaluation, Refuse, ReleaseAdmission,
     ReserveStartup, Unlock, lifecycle

LEMMA InterruptBlockingKeeps ==
    ASSUME op \in [Ops -> OpRecord], NEW o \in Ops, InterruptBlocking(o) PROVE KeepsOwner(o)
  BY SelectInterruptTargetKeeps DEF InterruptBlocking

LEMMA InterruptStdinKeeps ==
    ASSUME op \in [Ops -> OpRecord], NEW o \in Ops, InterruptStdin(o) PROVE KeepsOwner(o)
  BY DEF KeepsOwner, InterruptStdin, Goto, QueueStartupStdin, lifecycle

LEMMA RetryControlledSendKeeps ==
    ASSUME op \in [Ops -> OpRecord], NEW o \in Ops, RetryControlledSend(o) PROVE KeepsOwner(o)
  BY DEF KeepsOwner, RetryControlledSend, Goto

LEMMA SubmitControlledStdinKeeps ==
    ASSUME op \in [Ops -> OpRecord], NEW o \in Ops, SubmitControlledStdin(o) PROVE KeepsOwner(o)
  BY DEF KeepsOwner, SubmitControlledStdin, Goto, lifecycle

LEMMA EnsureFollowupConnectionKeeps ==
    ASSUME op \in [Ops -> OpRecord], NEW o \in Ops, EnsureFollowupConnection(o)
    PROVE  KeepsOwner(o)
  BY DEF KeepsOwner, EnsureFollowupConnection, Goto, lifecycle

LEMMA ContinueAfterInterruptKeeps ==
    ASSUME op \in [Ops -> OpRecord], NEW o \in Ops, ContinueAfterInterrupt(o) PROVE KeepsOwner(o)
  BY DEF KeepsOwner, ContinueAfterInterrupt, DropStartup, Goto, Refuse, ReleaseAdmission,
     Unlock, lifecycle

LEMMA ContinueWithCellKeeps ==
    ASSUME op \in [Ops -> OpRecord], NEW o \in Ops, ContinueWithCell(o) PROVE KeepsOwner(o)
  BY DEF KeepsOwner, ContinueWithCell, DropStartup, Goto, PublishEvaluation, Refuse,
     ReleaseAdmission, ReserveStartup, Unlock

LEMMA CloseProcessesKeeps ==
    ASSUME op \in [Ops -> OpRecord], NEW o \in Ops, CloseProcesses(o) PROVE KeepsOwner(o)
  BY DEF KeepsOwner, CloseProcesses, Goto, ShutdownProcesses, lifecycle

LEMMA CloseWorkerKeeps ==
    ASSUME op \in [Ops -> OpRecord], NEW o \in Ops, CloseWorker(o) PROVE KeepsOwner(o)
  BY DEF KeepsOwner, CloseWorker, Goto, lifecycle

LEMMA ResolvedPrestartKeeps ==
    ASSUME op \in [Ops -> OpRecord], NEW o \in Ops, ResolvedPrestart(o) PROVE KeepsOwner(o)
  BY DEF KeepsOwner, ResolvedPrestart, ClearResolver, Goto

LEMMA PrepareResolvedKeeps ==
    ASSUME op \in [Ops -> OpRecord], NEW o \in Ops, PrepareResolved(o) PROVE KeepsOwner(o)
  BY DEF KeepsOwner, PrepareResolved, ClearResolver, Goto

LEMMA RestartResolvedKeeps ==
    ASSUME op \in [Ops -> OpRecord], NEW o \in Ops, RestartResolved(o) PROVE KeepsOwner(o)
  BY DEF KeepsOwner, RestartResolved, ClearResolver, Goto

LEMMA AdmitKeeps ==
    ASSUME op \in [Ops -> OpRecord], NEW o \in Ops, Admit(o) PROVE KeepsOwner(o)
  BY DEF KeepsOwner, Admit, lifecycle

LEMMA BeginControlledSendKeeps ==
    ASSUME op \in [Ops -> OpRecord], NEW o \in Ops, BeginControlledSend(o) PROVE KeepsOwner(o)
  BY DEF KeepsOwner, BeginControlledSend

LEMMA CloseLifecycleKeeps ==
    ASSUME op \in [Ops -> OpRecord], NEW o \in Ops, CloseLifecycle(o) PROVE KeepsOwner(o)
  BY DEF KeepsOwner, CloseLifecycle

LEMMA InterruptStandaloneKeeps ==
    ASSUME op \in [Ops -> OpRecord], NEW o \in Ops, InterruptStandalone(o) PROVE KeepsOwner(o)
  BY SelectInterruptTargetKeeps DEF InterruptStandalone

LEMMA InterruptStartupKeeps ==
    ASSUME op \in [Ops -> OpRecord], NEW o \in Ops, InterruptStartup(o) PROVE KeepsOwner(o)
  BY SelectInterruptTargetKeeps DEF InterruptStartup

LEMMA CellCompletesKeeps ==
    ASSUME op \in [Ops -> OpRecord], NEW o \in Ops, CellCompletes(o) PROVE KeepsOwner(o)
  BY DEF KeepsOwner, CellCompletes, CompleteCell, lifecycle

(* A restart begins settling its session in one step: it takes the next    *)
(* generation and keeps the admission it owns.                             *)
LEMMA StartRestartSettles ==
    ASSUME op \in [Ops -> OpRecord], NEW o \in Ops, ensure_controlled_generation(o),
           NEW resolver, NEW label \in {"shutdown", "restart_committed"},
           StartRestart(o, resolver, label)
    PROVE  controlled_send' = o /\ op'[o].gen = generation'
           /\ op'[o].mode = "Restart" /\ op'[o].pc \in Settling
  <1>1. op[o] \in OpRecord OBVIOUS
  <1> QED BY <1>1 DEF StartRestart, ensure_controlled_generation, Settling, OpRecord

LEMMA BeginRestartSettles ==
    ASSUME op \in [Ops -> OpRecord], NEW o \in Ops, BeginRestart(o) \/ CommitRestart(o),
           state' = "Restarting"
    PROVE  \/ o \in Restarters /\ SettlingRestart(o)'
           \/ KeepsOwner(o)
  <1>1. CASE Refuse(o)
    BY <1>1 DEF Refuse, KeepsOwner, ReleaseAdmission, Goto
  <1>2. CASE ~Refuse(o)
    <2>1. /\ o \in Restarters /\ ensure_controlled_generation(o)
          /\ \/ StartRestart(o, resolver_handle, "shutdown")
             \/ StartRestart(o, NoOp, "restart_committed")
      BY <1>2 DEF BeginRestart, CommitRestart
    <2> QED BY <2>1, StartRestartSettles DEF SettlingRestart, Current
  <1> QED BY <1>1, <1>2

LEMMA BeginRestartKeeps ==
    ASSUME NEW o \in Ops, BeginRestart(o) \/ CommitRestart(o), state = "ShuttingDown"
    PROVE  state' = "ShuttingDown"
  BY DEF BeginRestart, CommitRestart, Refuse, ensure_controlled_generation, ensure_generation

(* Every other step of a call keeps the owner.                             *)
LEMMA CallKeeps ==
    ASSUME op \in [Ops -> OpRecord], NEW o \in Ops,
           Acts(o)
    PROVE  KeepsOwner(o) \/ BeginRestart(o) \/ CommitRestart(o)
  BY Zenon, StartEvaluationKeeps, EvaluateBlockingKeeps, LockForCellKeeps, DispatchKeeps,
     CellFailsKeeps, EvaluateReturnsKeeps, ReserveWorkerStartupKeeps, LockEnvironmentKeeps,
     ResolvePrestartKeeps, SpawnKeeps, RegisterStopHandleKeeps, AwaitReadyKeeps, OnReadyKeeps,
     ReadyCommitKeeps, RetireFailedStartKeeps, StartFailedKeeps, StopFailedWorkerKeeps,
     StopFailedKeeps, FailedWorkerStoppedKeeps, StartReplacementKeeps, StartPollKeeps,
     LockForStdinKeeps, WriteStdinKeeps, TakeIdleResponseKeeps, LockForPollKeeps, ReturnKeeps,
     PrelaunchKeeps, ReservePreparationKeeps, LockForPrelaunchKeeps, PrelaunchReturnsKeeps,
     FinishStartupKeeps, AdmitPreparationKeeps, CheckPreparationKeeps, PrepareAdmittedKeeps,
     PrepareResolveKeeps, CommitEnvironmentKeeps, StartPreparedEvaluationKeeps,
     ResolveRestartKeeps, RestartCommittedKeeps, RestartShutdownKeeps, RetireWorkerKeeps,
     FailRestartKeeps, ReplaceWorkerKeeps, RestartLaunchKeeps, RestartReturnsKeeps,
     AdmitControlledOperationKeeps, FollowUpKeeps, InterruptBlockingKeeps, InterruptStdinKeeps,
     RetryControlledSendKeeps, SubmitControlledStdinKeeps, EnsureFollowupConnectionKeeps,
     ContinueAfterInterruptKeeps, ContinueWithCellKeeps, CloseProcessesKeeps, CloseWorkerKeeps,
     ResolvedPrestartKeeps, PrepareResolvedKeeps, RestartResolvedKeeps, AdmitKeeps,
     BeginControlledSendKeeps, CloseLifecycleKeeps, InterruptStandaloneKeeps,
     InterruptStartupKeeps, CellCompletesKeeps
     DEF Acts, Step, Settle, Arrive

(***************************************************************************)
(* What the restart itself does until it settles.                          *)
(***************************************************************************)
LEMMA RestartCommittedSettles ==
    ASSUME op \in [Ops -> OpRecord], NEW o \in Ops, RestartCommitted(o),
           SettlingRestart(o), state = "Restarting"
    PROVE  state' # "Restarting" \/ SettlingRestart(o)'
  <1>1. op[o] \in OpRecord OBVIOUS
  <1> QED BY <1>1 DEF SettlingRestart, Current, Settling, OpRecord, RestartCommitted, Goto,
         lifecycle, At, Holds

LEMMA RestartShutdownSettles ==
    ASSUME op \in [Ops -> OpRecord], NEW o \in Ops, RestartShutdown(o),
           SettlingRestart(o), state = "Restarting"
    PROVE  state' # "Restarting" \/ SettlingRestart(o)'
  <1>1. op[o] \in OpRecord OBVIOUS
  <1> QED BY <1>1 DEF SettlingRestart, Current, Settling, OpRecord, RestartShutdown, Goto,
         ShutdownProcesses, lifecycle, At, Holds

LEMMA RetireWorkerSettles ==
    ASSUME op \in [Ops -> OpRecord], NEW o \in Ops, RetireWorker(o),
           SettlingRestart(o), state = "Restarting"
    PROVE  state' # "Restarting" \/ SettlingRestart(o)'
  <1>1. op[o] \in OpRecord OBVIOUS
  <1> QED BY <1>1 DEF SettlingRestart, Current, Settling, OpRecord, RetireWorker, Goto,
         lifecycle, At, Holds

LEMMA FailRestartSettles ==
    ASSUME op \in [Ops -> OpRecord], NEW o \in Ops, FailRestart(o),
           SettlingRestart(o), state = "Restarting"
    PROVE  state' # "Restarting" \/ SettlingRestart(o)'
  <1>1. op[o] \in OpRecord OBVIOUS
  <1> QED BY <1>1 DEF SettlingRestart, Current, Settling, OpRecord, FailRestart, Goto, At, Holds

LEMMA ReplaceWorkerSettles ==
    ASSUME op \in [Ops -> OpRecord], NEW o \in Ops, ReplaceWorker(o),
           SettlingRestart(o), state = "Restarting"
    PROVE  state' # "Restarting" \/ SettlingRestart(o)'
  <1>1. op[o] \in OpRecord OBVIOUS
  <1> QED BY <1>1 DEF SettlingRestart, Current, Settling, OpRecord, ReplaceWorker, Goto, At,
         Holds

LEMMA RestartLaunchSettles ==
    ASSUME op \in [Ops -> OpRecord], NEW o \in Ops, RestartLaunch(o),
           SettlingRestart(o), state = "Restarting"
    PROVE  state' # "Restarting" \/ SettlingRestart(o)'
  <1>1. op[o] \in OpRecord OBVIOUS
  <1> QED BY <1>1 DEF SettlingRestart, Current, Settling, OpRecord, RestartLaunch, Goto,
         lifecycle, At, Holds

LEMMA ReserveWorkerStartupSettles ==
    ASSUME op \in [Ops -> OpRecord], NEW o \in Ops, ReserveWorkerStartup(o),
           SettlingRestart(o), state = "Restarting"
    PROVE  state' # "Restarting" \/ SettlingRestart(o)'
  <1>1. op[o] \in OpRecord OBVIOUS
  <1> QED BY <1>1 DEF SettlingRestart, Current, Settling, OpRecord, ReserveWorkerStartup, Goto,
         ReleaseStarter, ReserveStartup, AfterStart, At, Holds

LEMMA LockEnvironmentSettles ==
    ASSUME op \in [Ops -> OpRecord], NEW o \in Ops, LockEnvironment(o),
           SettlingRestart(o), state = "Restarting"
    PROVE  state' # "Restarting" \/ SettlingRestart(o)'
  <1>1. op[o] \in OpRecord OBVIOUS
  <1> QED BY <1>1 DEF SettlingRestart, Current, Settling, OpRecord, LockEnvironment, Goto,
         lifecycle, At, Holds

LEMMA ResolvePrestartSettles ==
    ASSUME op \in [Ops -> OpRecord], NEW o \in Ops, ResolvePrestart(o),
           SettlingRestart(o), state = "Restarting"
    PROVE  state' # "Restarting" \/ SettlingRestart(o)'
  <1>1. op[o] \in OpRecord OBVIOUS
  <1> QED BY <1>1 DEF SettlingRestart, Current, Settling, OpRecord, ResolvePrestart, Goto,
         RegisterResolver, At, Holds

LEMMA ResolvedPrestartSettles ==
    ASSUME op \in [Ops -> OpRecord], NEW o \in Ops, ResolvedPrestart(o),
           SettlingRestart(o), state = "Restarting"
    PROVE  state' # "Restarting" \/ SettlingRestart(o)'
  <1>1. op[o] \in OpRecord OBVIOUS
  <1> QED BY <1>1 DEF SettlingRestart, Current, Settling, OpRecord, ResolvedPrestart,
         ClearResolver, Goto, At, Holds

LEMMA SpawnSettles ==
    ASSUME op \in [Ops -> OpRecord], NEW o \in Ops, Spawn(o),
           SettlingRestart(o), state = "Restarting"
    PROVE  state' # "Restarting" \/ SettlingRestart(o)'
  <1>1. op[o] \in OpRecord OBVIOUS
  <1> QED BY <1>1 DEF SettlingRestart, Current, Settling, OpRecord, Spawn, Goto, lifecycle, At,
         Holds

LEMMA RegisterStopHandleSettles ==
    ASSUME op \in [Ops -> OpRecord], NEW o \in Ops, RegisterStopHandle(o),
           SettlingRestart(o), state = "Restarting"
    PROVE  state' # "Restarting" \/ SettlingRestart(o)'
  <1>1. op[o] \in OpRecord OBVIOUS
  <1> QED BY <1>1 DEF SettlingRestart, Current, Settling, OpRecord, RegisterStopHandle, Goto,
         At, Holds

LEMMA AwaitReadySettles ==
    ASSUME op \in [Ops -> OpRecord], NEW o \in Ops, AwaitReady(o),
           SettlingRestart(o), state = "Restarting"
    PROVE  state' # "Restarting" \/ SettlingRestart(o)'
  <1>1. op[o] \in OpRecord OBVIOUS
  <1> QED BY <1>1 DEF SettlingRestart, Current, Settling, OpRecord, AwaitReady, Goto, lifecycle,
         At, Holds

LEMMA OnReadySettles ==
    ASSUME op \in [Ops -> OpRecord], NEW o \in Ops, OnReady(o),
           SettlingRestart(o), state = "Restarting"
    PROVE  state' # "Restarting" \/ SettlingRestart(o)'
  <1>1. op[o] \in OpRecord OBVIOUS
  <1> QED BY <1>1 DEF SettlingRestart, Current, Settling, OpRecord, OnReady, Goto,
         FinishRestart, At, Holds

LEMMA RetireFailedStartSettles ==
    ASSUME op \in [Ops -> OpRecord], NEW o \in Ops, RetireFailedStart(o),
           SettlingRestart(o), state = "Restarting"
    PROVE  state' # "Restarting" \/ SettlingRestart(o)'
  <1>1. op[o] \in OpRecord OBVIOUS
  <1> QED BY <1>1 DEF SettlingRestart, Current, Settling, OpRecord, RetireFailedStart,
         lifecycle, At, Holds

LEMMA StartFailedSettles ==
    ASSUME op \in [Ops -> OpRecord], NEW o \in Ops, StartFailed(o),
           SettlingRestart(o), state = "Restarting"
    PROVE  state' # "Restarting" \/ SettlingRestart(o)'
  <1>1. op[o] \in OpRecord OBVIOUS
  <1> QED BY <1>1 DEF SettlingRestart, Current, Settling, OpRecord, StartFailed, CompleteCell,
         DropStartup, Goto, At, Holds

LEMMA RestartReturnsSettles ==
    ASSUME op \in [Ops -> OpRecord], NEW o \in Ops, RestartReturns(o),
           SettlingRestart(o), state = "Restarting"
    PROVE  state' # "Restarting" \/ SettlingRestart(o)'
  <1>1. op[o] \in OpRecord OBVIOUS
  <1> QED BY <1>1 DEF SettlingRestart, Current, Settling, OpRecord, RestartReturns,
         FinishRestart, At, Holds

LEMMA SettlingSteps ==
    ASSUME NEW o \in Ops, op[o].pc \in Settling, op[o].mode = "Restart",
           Acts(o)
    PROVE  \/ RestartCommitted(o) \/ RestartShutdown(o) \/ RetireWorker(o) \/ FailRestart(o)
           \/ ReplaceWorker(o) \/ RestartLaunch(o) \/ ReserveWorkerStartup(o)
           \/ LockEnvironment(o) \/ ResolvePrestart(o) \/ ResolvedPrestart(o) \/ Spawn(o)
           \/ RegisterStopHandle(o) \/ AwaitReady(o) \/ OnReady(o) \/ RetireFailedStart(o)
           \/ StartFailed(o) \/ RestartReturns(o)
  <1> USE DEF Settling, At, Holds
  <1>1. ~StartEvaluation(o) BY DEF StartEvaluation
  <1>2. ~EvaluateBlocking(o) BY DEF EvaluateBlocking, StartupAwaited
  <1>3. ~LockForCell(o) BY DEF LockForCell
  <1>4. ~Dispatch(o) BY DEF Dispatch
  <1>5. ~CellFails(o) BY DEF CellFails
  <1>6. ~EvaluateReturns(o) BY DEF EvaluateReturns
  <1>7. ~ReadyCommit(o) BY DEF ReadyCommit
  <1>8. ~StopFailedWorker(o) BY DEF StopFailedWorker
  <1>9. ~StopFailed(o) BY DEF StopFailed
  <1>10. ~FailedWorkerStopped(o) BY DEF FailedWorkerStopped
  <1>11. ~StartReplacement(o) BY DEF StartReplacement
  <1>12. ~StartPoll(o) BY DEF StartPoll
  <1>13. ~LockForStdin(o) BY DEF LockForStdin
  <1>14. ~WriteStdin(o) BY DEF WriteStdin
  <1>15. ~TakeIdleResponse(o) BY DEF TakeIdleResponse
  <1>16. ~LockForPoll(o) BY DEF LockForPoll
  <1>17. ~Return(o) BY DEF Return
  <1>18. ~Prelaunch(o) BY DEF Prelaunch
  <1>19. ~ReservePreparation(o) BY DEF ReservePreparation
  <1>20. ~LockForPrelaunch(o) BY DEF LockForPrelaunch
  <1>21. ~PrelaunchReturns(o) BY DEF PrelaunchReturns
  <1>22. ~FinishStartup(o) BY DEF FinishStartup
  <1>23. ~AdmitPreparation(o) BY DEF AdmitPreparation
  <1>24. ~CheckPreparation(o) BY DEF CheckPreparation
  <1>25. ~PrepareAdmitted(o) BY DEF PrepareAdmitted
  <1>26. ~PrepareResolve(o) BY DEF PrepareResolve
  <1>27. ~CommitEnvironment(o) BY DEF CommitEnvironment
  <1>28. ~StartPreparedEvaluation(o) BY DEF StartPreparedEvaluation
  <1>29. ~BeginRestart(o) BY DEF BeginRestart
  <1>30. ~ResolveRestart(o) BY DEF ResolveRestart
  <1>31. ~CommitRestart(o) BY DEF CommitRestart
  <1>32. ~AdmitControlledOperation(o) BY DEF AdmitControlledOperation
  <1>33. ~FollowUp(o) BY DEF FollowUp
  <1>34. ~InterruptBlocking(o) BY DEF InterruptBlocking
  <1>35. ~InterruptStdin(o) BY DEF InterruptStdin
  <1>36. ~RetryControlledSend(o) BY DEF RetryControlledSend
  <1>37. ~SubmitControlledStdin(o) BY DEF SubmitControlledStdin
  <1>38. ~EnsureFollowupConnection(o) BY DEF EnsureFollowupConnection
  <1>39. ~ContinueAfterInterrupt(o) BY DEF ContinueAfterInterrupt
  <1>40. ~ContinueWithCell(o) BY DEF ContinueWithCell
  <1>41. ~CloseProcesses(o) BY DEF CloseProcesses
  <1>42. ~CloseWorker(o) BY DEF CloseWorker
  <1>43. ~PrepareResolved(o) BY DEF PrepareResolved
  <1>44. ~RestartResolved(o) BY DEF RestartResolved
  <1>45. ~Admit(o) BY DEF Admit
  <1>46. ~BeginControlledSend(o) BY DEF BeginControlledSend
  <1>47. ~CloseLifecycle(o) BY DEF CloseLifecycle
  <1>48. ~InterruptStandalone(o) BY DEF InterruptStandalone
  <1>49. ~InterruptStartup(o) BY DEF InterruptStartup
  <1>50. ~CellCompletes(o) BY DEF CellCompletes
  <1> HIDE DEF Settling, At, Holds
  <1> QED BY Zenon, <1>1, <1>2, <1>3, <1>4, <1>5, <1>6, <1>7, <1>8, <1>9, <1>10, <1>11, <1>12,
         <1>13, <1>14, <1>15, <1>16, <1>17, <1>18, <1>19, <1>20, <1>21, <1>22, <1>23, <1>24,
         <1>25, <1>26, <1>27, <1>28, <1>29, <1>30, <1>31, <1>32, <1>33, <1>34, <1>35, <1>36,
         <1>37, <1>38, <1>39, <1>40, <1>41, <1>42, <1>43, <1>44, <1>45, <1>46, <1>47, <1>48,
         <1>49, <1>50
     DEF Acts, Step, Settle, Arrive

LEMMA OwnerSettles ==
    ASSUME op \in [Ops -> OpRecord], NEW o \in Ops, SettlingRestart(o), state = "Restarting",
           Acts(o)
    PROVE  state' # "Restarting" \/ SettlingRestart(o)'
  <1>1. op[o].pc \in Settling /\ op[o].mode = "Restart" BY DEF SettlingRestart
  <1> QED BY Zenon, <1>1, SettlingSteps, RestartCommittedSettles, RestartShutdownSettles,
         RetireWorkerSettles, FailRestartSettles, ReplaceWorkerSettles, RestartLaunchSettles,
         ReserveWorkerStartupSettles, LockEnvironmentSettles, ResolvePrestartSettles,
         ResolvedPrestartSettles, SpawnSettles, RegisterStopHandleSettles, AwaitReadySettles,
         OnReadySettles, RetireFailedStartSettles, StartFailedSettles, RestartReturnsSettles

(* Launches, the reaped slot and stuttering touch no call.                 *)
Silent == UNCHANGED <<state, generation, controlled_send, op>>

LEMMA NextCases ==
    ASSUME [Next]_vars
    PROVE  \/ \E o \in Ops : Acts(o)
           \/ Silent
  <1>1. ASSUME NEW l \in Launches, WorkerStep(l) PROVE Silent
    BY <1>1 DEF WorkerStep, LaunchReady, LaunchFails, RInitBegins, RInitCompletes, LaunchEvent,
                Silent, lifecycle
  <1>2. Reap => Silent BY DEF Reap, Silent, lifecycle
  <1>3. UNCHANGED vars => Silent BY DEF vars, Silent, lifecycle
  <1> QED BY <1>1, <1>2, <1>3 DEF Next, Terminated, Acts

(***************************************************************************)
(* The theorems.                                                           *)
(***************************************************************************)
LEMMA OwnedStep == ASSUME TypeOK, RestartIsOwned, [Next]_vars PROVE RestartIsOwned'
  <1> USE DEF TypeOK, OpTypes
  <1> SUFFICES ASSUME state' = "Restarting"
               PROVE  \E r \in Restarters : SettlingRestart(r)'
    BY DEF RestartIsOwned, SettlingRestart
  <1>1. CASE Silent
    <2>1. PICK r \in Restarters : SettlingRestart(r)
      BY <1>1 DEF Silent, RestartIsOwned, SettlingRestart
    <2> QED BY <1>1, <2>1 DEF Silent, SettlingRestart, Current
  <1>2. ASSUME NEW o \in Ops, Acts(o)
        PROVE  \E r \in Restarters : SettlingRestart(r)'
    <2>1. CASE KeepsOwner(o)
      <3>1. state = "Restarting" BY <2>1 DEF KeepsOwner
      <3>2. PICK r \in Restarters : SettlingRestart(r)
        BY <3>1 DEF RestartIsOwned, SettlingRestart
      <3>3. r \in Ops BY DEF Ops, Controls
      <3>4. CASE r = o BY <1>2, <3>1, <3>2, <3>3, <3>4, OwnerSettles
      <3>5. CASE r # o
        BY <2>1, <3>1, <3>2, <3>3, <3>5 DEF KeepsOwner, SettlingRestart, Current
      <3> QED BY <3>4, <3>5
    <2>2. CASE ~KeepsOwner(o)
      <3>1. BeginRestart(o) \/ CommitRestart(o) BY <1>2, <2>2, CallKeeps
      <3> QED BY <2>2, <3>1, BeginRestartSettles
    <2> QED BY <2>1, <2>2
  <1> QED BY <1>1, <1>2, NextCases

(* A restarting session always has its restart: the call that owns         *)
(* admission for the current generation and has not settled. No interrupt, *)
(* failed worker, startup task or shutdown can leave a session restarting  *)
(* with nobody to finish it (begin_restart to finish_restart).             *)
THEOREM RestartOwned == Spec => []RestartIsOwned
  <1>1. Init => RestartIsOwned BY DEF Init, RestartIsOwned
  <1>2. TypeOK /\ RestartIsOwned /\ [Next]_vars => RestartIsOwned' BY OwnedStep
  <1> QED BY <1>1, <1>2, TypeCorrect, PTL DEF Spec

(* No step of any call reopens a session that close_lifecycle, a failed    *)
(* restart or an unconfirmed retirement closed.                            *)
THEOREM StaysClosed == Spec => ClosedStaysClosed
  <1>1. TypeOK /\ [Next]_vars => [state = "ShuttingDown" => state' = "ShuttingDown"]_vars
    <2> SUFFICES ASSUME TypeOK, [Next]_vars, state = "ShuttingDown"
                 PROVE  state' = "ShuttingDown"
      OBVIOUS
    <2>1. CASE Silent BY <2>1 DEF Silent
    <2>2. ASSUME NEW o \in Ops, Acts(o)
          PROVE  state' = "ShuttingDown"
      <3>1. KeepsOwner(o) \/ BeginRestart(o) \/ CommitRestart(o)
        BY <2>2, CallKeeps DEF TypeOK, OpTypes
      <3> QED BY <3>1, BeginRestartKeeps DEF KeepsOwner
    <2> QED BY <2>1, <2>2, NextCases
  <1> QED BY <1>1, TypeCorrect, PTL DEF Spec, ClosedStaysClosed

(* Where a call is, in the groups the arguments below need: it starts a    *)
(* worker, has a launch in hand that is not the worker yet, uses the       *)
(* running worker, or in any case owns the worker mutex.                   *)
Launching == {"environment", "resolve", "resolving", "spawn"}
Registered == {"await_ready", "on_ready", "ready_commit"}
Holding == Registered \cup {"register", "retire_start"}
Starting == {"reserve", "start_failed"} \cup Launching \cup Holding
Using == {"dispatch", "running", "write", "stop_failed", "stopping"}
Owning == Starting \cup Using \cup {"completed", "stopped", "replace", "prepare_resolve",
                                    "preparing", "prepared"}
Restarts == {"restart_committed", "shutdown", "retire_worker", "fail_restart",
             "replace_worker", "settle", "finish_restart", "restarted", "follow_up"}

(* The mode of a call tells what it starts or stops the worker for.        *)
ModeFits(o) ==
    /\ op[o].pc \in {"evaluate", "lock", "dispatch", "running", "replace"} => op[o].mode = "Cell"
    /\ op[o].pc \in {"lock_stdin", "write"} => op[o].mode = "Stdin"
    /\ op[o].pc \in {"prelaunch", "prelaunch_lock", "launched"} => op[o].mode = "Prelaunch"
    /\ op[o].pc \in Restarts => op[o].mode = "Restart"
    /\ op[o].pc \in Starting =>
          op[o].mode \in {"Cell", "Replacement", "Stdin", "Prelaunch", "Restart"}
    /\ op[o].pc \in {"prepare_resolve", "preparing", "prepared"} => op[o].mode = "Prepare"
    /\ op[o].pc = "lock_poll" => op[o].mode = "Poll"
    /\ op[o].pc \in {"stop_failed", "stopping", "stopped"} =>
          op[o].mode \in {"Cell", "Stdin", "Poll", "Prepare", "Activate"}

(* A call that starts, uses or stops the worker owns the worker mutex.     *)
OwnsWorker(o) == op[o].pc \in Owning => worker_lock = o

(* A restart until it returns, and a control that interrupts, owns         *)
(* admission.                                                              *)
Controlling(o) ==
    \/ op[o].mode = "Restart" /\ op[o].pc \notin {"return", "done"}
    \/ op[o].pc \in {"restart", "restart_resolving", "restart_commit", "interrupt",
                     "interrupted"}
OwnsAdmission(o) == Controlling(o) => controlled_send = o

Skeleton(o) ==
    /\ ModeFits(o)
    /\ OwnsWorker(o)
    /\ OwnsAdmission(o)
    /\ op[o].gen <= generation

(* A step of o leaves the other calls where they are, and what they own.   *)
Same(q) ==
    /\ op'[q].pc = op[q].pc /\ op'[q].mode = op[q].mode /\ op'[q].gen = op[q].gen
    /\ op'[q].target = op[q].target /\ op'[q].selected = op[q].selected
    /\ op'[q].ran_on = op[q].ran_on
Alone(o) ==
    /\ \A q \in Ops \ {o} : Same(q)
    /\ worker_lock \notin {o, NoOp} => worker_lock' = worker_lock
    /\ controlled_send \notin {o, NoOp} => controlled_send' = controlled_send
    /\ generation <= generation'

(* An interrupt may withhold the active cell; otherwise it only moves      *)
(* itself.                                                                 *)
LEMMA SelectInterruptTargetMoves ==
    ASSUME op \in [Ops -> OpRecord], op' \in [Ops -> OpRecord], NEW o \in Ops,
           NEW controlled, NEW bootstrapping, NEW next,
           SelectInterruptTarget(o, controlled, bootstrapping, next)
    PROVE  /\ \A q \in Ops \ {o} : Same(q)
           /\ op'[o].pc \in {next, "return"} /\ op'[o].mode = op[o].mode
           /\ op'[o].gen = IF controlled THEN op[o].gen ELSE generation
           /\ op'[o].target = op[o].target /\ op'[o].ran_on = op[o].ran_on
           /\ op'[o].selected \in {stop_handle, NoLaunch}
           /\ UNCHANGED <<state, generation, controlled_send, stop_handle, startup, session,
                          worker_lock, process>>
  <1> DEFINE withheld == [op EXCEPT ![active].phase = "Withheld"]
             evaluation == active # NoOp /\ op[active].gen = generation
             starting == startup_owner # {}
             resolver == resolver_handle # NoOp
             allowed == \/ controlled \/ controlled_send = NoOp
                        \/ /\ state = "Ready"
                           /\ (evaluation /\ op[active].outcome = "None") \/ bootstrapping
             signalled == ~starting /\ ~resolver /\ allowed /\ stop_handle # NoLaunch
             cells == IF evaluation /\ (starting \/ signalled) /\ op[active].phase = "Pending"
                      THEN withheld ELSE op
             label(ok) == IF ok /\ (starting \/ resolver \/ signalled) THEN next ELSE "return"
             g == IF controlled THEN cells[o].gen ELSE generation
             selected == IF resolver \/ signalled THEN stop_handle ELSE NoLaunch
  <1>1. PICK ok \in BOOLEAN :
             op' = [cells EXCEPT ![o].pc = label(ok), ![o].gen = g, ![o].selected = selected]
    BY Zenon DEF SelectInterruptTarget
  <1>2. ASSUME NEW q \in Ops
        PROVE  /\ cells[q].pc = op[q].pc /\ cells[q].mode = op[q].mode
               /\ cells[q].gen = op[q].gen /\ cells[q].target = op[q].target
               /\ cells[q].selected = op[q].selected /\ cells[q].ran_on = op[q].ran_on
               /\ cells[q] \in OpRecord
    <2>1. op[q] \in OpRecord OBVIOUS
    <2>2. CASE q = active /\ cells # op
      <3>1. cells[q] = [op[q] EXCEPT !.phase = "Withheld"] BY <2>2
      <3> QED BY <2>1, <3>1 DEF OpRecord, Phases
    <2>3. CASE q # active \/ cells = op BY <2>3
    <2> QED BY <2>2, <2>3
  <1>3. DOMAIN cells = Ops OBVIOUS
  <1> HIDE DEF cells
  <1>4. ASSUME NEW q \in Ops \ {o} PROVE Same(q)
    <2>1. op'[q] = cells[q] BY <1>1, <1>3
    <2> QED BY <2>1, <1>2 DEF Same
  <1>5. op'[o] = [cells[o] EXCEPT !.pc = label(ok), !.gen = g, !.selected = selected]
    <2> HIDE DEF label, g, selected
    <2> QED BY <1>1, <1>3
  <1>6. /\ label(ok) \in {next, "return"} /\ selected \in {stop_handle, NoLaunch}
        /\ g = IF controlled THEN op[o].gen ELSE generation
    BY <1>2
  <1>7. /\ op'[o].pc = label(ok) /\ op'[o].mode = op[o].mode /\ op'[o].gen = g
        /\ op'[o].target = op[o].target /\ op'[o].ran_on = op[o].ran_on
        /\ op'[o].selected = selected
    <2> HIDE DEF label, g, selected
    <2> QED BY <1>2, <1>5 DEF OpRecord
  <1>8. UNCHANGED <<state, generation, controlled_send, stop_handle, startup, session,
                    worker_lock, process>>
    BY DEF SelectInterruptTarget
  <1> HIDE DEF label, g, selected
  <1> QED BY <1>4, <1>6, <1>7, <1>8

LEMMA SubmitControlledStdinCalls ==
    ASSUME op' \in [Ops -> OpRecord], op \in [Ops -> OpRecord], NEW o \in Ops, SubmitControlledStdin(o)
    PROVE  \/ \E label \in {"grace", "return"} : op' = [op EXCEPT ![o].pc = label]
           \/ op' = [op EXCEPT ![o].pc = "lock_stdin", ![o].mode = "Stdin"]
  <1> DEFINE live == launch[op[o].selected].live
  <1>1. \/ op' = [op EXCEPT ![o].pc = "grace"]
        \/ op' = [op EXCEPT ![o].pc = IF live THEN "grace" ELSE "return"]
        \/ op' = [op EXCEPT ![o].pc = "lock_stdin", ![o].mode = "Stdin"]
        \/ op' = [op EXCEPT ![o].pc = "return"]
    BY Zenon DEF SubmitControlledStdin, Goto
  <1> HIDE DEF live
  <1> QED BY <1>1

LEMMA SubmitControlledStdinMovesTo ==
    ASSUME op' \in [Ops -> OpRecord], op \in [Ops -> OpRecord], NEW o \in Ops, SubmitControlledStdin(o)
    PROVE  op'[o].pc \in {"grace", "return", "lock_stdin"}
  <1>1. CASE \E label \in {"grace", "return"} : op' = [op EXCEPT ![o].pc = label] BY <1>1
  <1>2. CASE op' = [op EXCEPT ![o].pc = "lock_stdin", ![o].mode = "Stdin"]
    <2>1. op[o] \in OpRecord /\ DOMAIN op = Ops BY Zenon
    <2>2. "pc" \in DOMAIN op[o] BY <2>1 DEF OpRecord
    <2> QED BY <1>2, <2>1, <2>2
  <1> QED BY <1>1, <1>2, SubmitControlledStdinCalls

USE DEF TypeOK, OpTypes, LifecycleTypes, Generations, OpRecord, Alone, Same,
    Skeleton, ModeFits, OwnsWorker, OwnsAdmission, Controlling, Starting,
    Launching, Registered, Holding, Using, Owning, Restarts, At, Goto,
    lifecycle

LEMMA StartEvaluationSkeleton ==
    ASSUME TypeOK, TypeOK', NEW o \in Ops, Skeleton(o), StartEvaluation(o)
    PROVE  Skeleton(o)' /\ Alone(o)
  <1>1. op[o] \in OpRecord /\ op'[o] \in OpRecord OBVIOUS
  <1>2. Alone(o)
    BY DEF NoLaunch, DropStartup, ReserveStartup, ReleaseAdmission, Unlock, Refuse,
       PublishEvaluation, StartEvaluation
  <1>3. Skeleton(o)'
    BY <1>1 DEF NoLaunch, DropStartup, ReserveStartup, ReleaseAdmission, Unlock, Refuse,
       PublishEvaluation, StartEvaluation
  <1> QED BY <1>2, <1>3

LEMMA EvaluateBlockingSkeleton ==
    ASSUME TypeOK, TypeOK', NEW o \in Ops, Skeleton(o), EvaluateBlocking(o)
    PROVE  Skeleton(o)' /\ Alone(o)
  <1>1. op[o] \in OpRecord /\ op'[o] \in OpRecord OBVIOUS
  <1>2. Alone(o)
    BY DEF DropStartup, CompleteCell, StartupAwaited, EvaluateBlocking
  <1>3. /\ op'[o].pc \in {"done", "lock"} /\ op'[o].mode = "Cell" /\ op'[o].gen = op[o].gen
        /\ UNCHANGED <<generation, controlled_send, worker_lock>>
    BY <1>1 DEF EvaluateBlocking, CompleteCell, StartupAwaited
  <1>4. Skeleton(o)'
    BY <1>3
  <1> QED BY <1>2, <1>4

LEMMA LockForCellSkeleton ==
    ASSUME TypeOK, TypeOK', NEW o \in Ops, Skeleton(o), LockForCell(o)
    PROVE  Skeleton(o)' /\ Alone(o)
  <1>1. op[o] \in OpRecord /\ op'[o] \in OpRecord OBVIOUS
  <1>2. Alone(o)
    BY DEF DropStartup, CompleteCell, LockForCell
  <1>3. Skeleton(o)'
    BY <1>1 DEF DropStartup, CompleteCell, LockForCell
  <1> QED BY <1>2, <1>3

LEMMA DispatchSkeleton ==
    ASSUME TypeOK, TypeOK', NEW o \in Ops, Skeleton(o), Dispatch(o)
    PROVE  Skeleton(o)' /\ Alone(o)
  <1>1. op[o] \in OpRecord /\ op'[o] \in OpRecord OBVIOUS
  <1>2. Alone(o)
    BY DEF CompleteCell, Dispatch
  <1>3. Skeleton(o)'
    BY <1>1 DEF CompleteCell, Dispatch
  <1> QED BY <1>2, <1>3

LEMMA CellFailsSkeleton ==
    ASSUME TypeOK, TypeOK', NEW o \in Ops, Skeleton(o), CellFails(o)
    PROVE  Skeleton(o)' /\ Alone(o)
  <1>1. op[o] \in OpRecord /\ op'[o] \in OpRecord OBVIOUS
  <1>2. Alone(o)
    BY DEF CompleteCell, CellFails
  <1>3. Skeleton(o)'
    BY <1>1 DEF CompleteCell, CellFails
  <1> QED BY <1>2, <1>3

LEMMA EvaluateReturnsSkeleton ==
    ASSUME TypeOK, TypeOK', NEW o \in Ops, Skeleton(o), EvaluateReturns(o)
    PROVE  Skeleton(o)' /\ Alone(o)
  <1>1. op[o] \in OpRecord /\ op'[o] \in OpRecord OBVIOUS
  <1>2. Alone(o)
    BY DEF DropStartup, EvaluateReturns
  <1>3. Skeleton(o)'
    BY <1>1 DEF DropStartup, EvaluateReturns
  <1> QED BY <1>2, <1>3

LEMMA ReserveWorkerStartupSkeleton ==
    ASSUME TypeOK, TypeOK', NEW o \in Ops, Skeleton(o), ReserveWorkerStartup(o)
    PROVE  Skeleton(o)' /\ Alone(o)
  <1>1. op[o] \in OpRecord /\ op'[o] \in OpRecord OBVIOUS
  <1>2. Alone(o)
    BY DEF NoLaunch, ReserveStartup, AfterStart, Holds, ReleaseStarter,
       ReserveWorkerStartup
  <1>3. Skeleton(o)'
    BY <1>1 DEF NoLaunch, ReserveStartup, AfterStart, Holds, ReleaseStarter,
       ReserveWorkerStartup
  <1> QED BY <1>2, <1>3

LEMMA LockEnvironmentSkeleton ==
    ASSUME TypeOK, TypeOK', NEW o \in Ops, Skeleton(o), LockEnvironment(o)
    PROVE  Skeleton(o)' /\ Alone(o)
  <1>1. op[o] \in OpRecord /\ op'[o] \in OpRecord OBVIOUS
  <1>2. Alone(o)
    BY DEF Holds, LockEnvironment
  <1>3. Skeleton(o)'
    BY <1>1 DEF Holds, LockEnvironment
  <1> QED BY <1>2, <1>3

LEMMA ResolvePrestartSkeleton ==
    ASSUME TypeOK, TypeOK', NEW o \in Ops, Skeleton(o), ResolvePrestart(o)
    PROVE  Skeleton(o)' /\ Alone(o)
  <1>1. op[o] \in OpRecord /\ op'[o] \in OpRecord OBVIOUS
  <1>2. Alone(o)
    BY DEF Holds, RegisterResolver, ResolvePrestart
  <1>3. Skeleton(o)'
    BY <1>1 DEF Holds, RegisterResolver, ResolvePrestart
  <1> QED BY <1>2, <1>3

LEMMA SpawnSkeleton ==
    ASSUME TypeOK, TypeOK', NEW o \in Ops, Skeleton(o), Spawn(o)
    PROVE  Skeleton(o)' /\ Alone(o)
  <1>1. op[o] \in OpRecord /\ op'[o] \in OpRecord OBVIOUS
  <1>2. Alone(o)
    BY DEF Holds, Spawn
  <1>3. Skeleton(o)'
    BY <1>1 DEF Holds, Spawn
  <1> QED BY <1>2, <1>3

LEMMA RegisterStopHandleSkeleton ==
    ASSUME TypeOK, TypeOK', NEW o \in Ops, Skeleton(o), RegisterStopHandle(o)
    PROVE  Skeleton(o)' /\ Alone(o)
  <1>1. op[o] \in OpRecord /\ op'[o] \in OpRecord OBVIOUS
  <1>2. Alone(o)
    BY DEF Holds, RegisterStopHandle
  <1>3. Skeleton(o)'
    BY <1>1 DEF Holds, RegisterStopHandle
  <1> QED BY <1>2, <1>3

LEMMA AwaitReadySkeleton ==
    ASSUME TypeOK, TypeOK', NEW o \in Ops, Skeleton(o), AwaitReady(o)
    PROVE  Skeleton(o)' /\ Alone(o)
  <1>1. op[o] \in OpRecord /\ op'[o] \in OpRecord OBVIOUS
  <1>2. Alone(o)
    BY DEF Holds, AwaitReady
  <1>3. Skeleton(o)'
    BY <1>1 DEF Holds, AwaitReady
  <1> QED BY <1>2, <1>3

LEMMA OnReadySkeleton ==
    ASSUME TypeOK, TypeOK', NEW o \in Ops, Skeleton(o), OnReady(o)
    PROVE  Skeleton(o)' /\ Alone(o)
  <1>1. op[o] \in OpRecord /\ op'[o] \in OpRecord OBVIOUS
  <1>2. Alone(o)
    BY DEF Holds, FinishRestart, OnReady
  <1>3. Skeleton(o)'
    BY <1>1 DEF Holds, FinishRestart, OnReady
  <1> QED BY <1>2, <1>3

LEMMA ReadyCommitSkeleton ==
    ASSUME TypeOK, TypeOK', NEW o \in Ops, Skeleton(o), ReadyCommit(o)
    PROVE  Skeleton(o)' /\ Alone(o)
  <1>1. op[o] \in OpRecord /\ op'[o] \in OpRecord OBVIOUS
  <1>2. Alone(o)
    BY DEF NoLaunch, AfterStart, Holds, ReleaseStarter, ReadyCommit
  <1>3. Skeleton(o)'
    BY <1>1 DEF NoLaunch, AfterStart, Holds, ReleaseStarter, ReadyCommit
  <1> QED BY <1>2, <1>3

LEMMA RetireFailedStartSkeleton ==
    ASSUME TypeOK, TypeOK', NEW o \in Ops, Skeleton(o), RetireFailedStart(o)
    PROVE  Skeleton(o)' /\ Alone(o)
  <1>1. op[o] \in OpRecord /\ op'[o] \in OpRecord OBVIOUS
  <1>2. Alone(o)
    BY DEF NoLaunch, Holds, RetireFailedStart
  <1>3. Skeleton(o)'
    BY <1>1 DEF NoLaunch, Holds, RetireFailedStart
  <1> QED BY <1>2, <1>3

LEMMA StartFailedSkeleton ==
    ASSUME TypeOK, TypeOK', NEW o \in Ops, Skeleton(o), StartFailed(o)
    PROVE  Skeleton(o)' /\ Alone(o)
  <1>1. op[o] \in OpRecord /\ op'[o] \in OpRecord OBVIOUS
  <1>2. Alone(o)
    BY DEF NoLaunch, DropStartup, CompleteCell, Holds, AfterStdinFailure,
       ClearStopHandle, StartFailed
  <1>3. Skeleton(o)'
    BY <1>1 DEF NoLaunch, DropStartup, CompleteCell, Holds, AfterStdinFailure,
       ClearStopHandle, StartFailed
  <1> QED BY <1>2, <1>3

LEMMA StopFailedWorkerSkeleton ==
    ASSUME TypeOK, TypeOK', NEW o \in Ops, Skeleton(o), StopFailedWorker(o)
    PROVE  Skeleton(o)' /\ Alone(o)
  <1>1. op[o] \in OpRecord /\ op'[o] \in OpRecord OBVIOUS
  <1>2. Alone(o)
    BY DEF NoLaunch, DropStartup, Holds, AfterStdinFailure, StopReturns,
       StopFailedWorker
  <1>3. Skeleton(o)'
    BY <1>1 DEF NoLaunch, DropStartup, Holds, AfterStdinFailure, StopReturns,
       StopFailedWorker
  <1> QED BY <1>2, <1>3

LEMMA StopFailedSkeleton ==
    ASSUME TypeOK, TypeOK', NEW o \in Ops, Skeleton(o), StopFailed(o)
    PROVE  Skeleton(o)' /\ Alone(o)
  <1>1. op[o] \in OpRecord /\ op'[o] \in OpRecord OBVIOUS
  <1>2. Alone(o)
    BY DEF NoLaunch, Holds, StopResolver, StopFailed
  <1>3. Skeleton(o)'
    BY <1>1 DEF NoLaunch, Holds, StopResolver, StopFailed
  <1> QED BY <1>2, <1>3

LEMMA FailedWorkerStoppedSkeleton ==
    ASSUME TypeOK, TypeOK', NEW o \in Ops, Skeleton(o), FailedWorkerStopped(o)
    PROVE  Skeleton(o)' /\ Alone(o)
  <1>1. op[o] \in OpRecord /\ op'[o] \in OpRecord OBVIOUS
  <1>2. Alone(o)
    BY DEF NoLaunch, DropStartup, Holds, AfterStdinFailure, StopReturns,
       FailedWorkerStopped
  <1>3. Skeleton(o)'
    BY <1>1 DEF NoLaunch, DropStartup, Holds, AfterStdinFailure, StopReturns,
       FailedWorkerStopped
  <1> QED BY <1>2, <1>3

LEMMA StartReplacementSkeleton ==
    ASSUME TypeOK, TypeOK', NEW o \in Ops, Skeleton(o), StartReplacement(o)
    PROVE  Skeleton(o)' /\ Alone(o)
  <1>1. op[o] \in OpRecord /\ op'[o] \in OpRecord OBVIOUS
  <1>2. Alone(o)
    BY DEF Holds, StartReplacement
  <1>3. Skeleton(o)'
    BY <1>1 DEF Holds, StartReplacement
  <1> QED BY <1>2, <1>3

LEMMA StartPollSkeleton ==
    ASSUME TypeOK, TypeOK', NEW o \in Ops, Skeleton(o), StartPoll(o)
    PROVE  Skeleton(o)' /\ Alone(o)
  <1>1. op[o] \in OpRecord /\ op'[o] \in OpRecord OBVIOUS
  <1>2. CASE Refuse(o)
    <2>1. Alone(o)
      BY <1>2 DEF Refuse, ReleaseAdmission, Unlock
    <2>2. Skeleton(o)'
      BY <1>1, <1>2 DEF Refuse, ReleaseAdmission, Unlock
    <2> QED BY <2>1, <2>2
  <1>3. CASE ~Refuse(o)
    <2>1. \E label \in {"lock_stdin", "poll", "return"}, mode \in {"Stdin", "Poll"} :
             /\ op' = [op EXCEPT ![o].pc = label, ![o].mode = mode]
             /\ label = "lock_stdin" => mode = "Stdin"
      BY <1>3, Zenon DEF StartPoll
    <2>2. PICK label \in {"lock_stdin", "poll", "return"}, mode \in {"Stdin", "Poll"} :
             /\ op' = [op EXCEPT ![o].pc = label, ![o].mode = mode]
             /\ label = "lock_stdin" => mode = "Stdin"
      BY <2>1
    <2>3. UNCHANGED <<generation, controlled_send, worker_lock>>
      BY <1>3, Zenon DEF StartPoll
    <2>4. Alone(o) BY <2>2, <2>3
    <2>5. op'[o].pc = label /\ op'[o].mode = mode /\ op'[o].gen = op[o].gen
      BY <1>1, <2>2
    <2>6. Skeleton(o)'
      BY <2>2, <2>3, <2>5
    <2> QED BY <2>4, <2>6
  <1> QED BY <1>2, <1>3

LEMMA LockForStdinSkeleton ==
    ASSUME TypeOK, TypeOK', NEW o \in Ops, Skeleton(o), LockForStdin(o)
    PROVE  Skeleton(o)' /\ Alone(o)
  <1>1. op[o] \in OpRecord /\ op'[o] \in OpRecord OBVIOUS
  <1>2. Alone(o)
    BY DEF LockForStdin
  <1>3. Skeleton(o)'
    BY <1>1 DEF LockForStdin
  <1> QED BY <1>2, <1>3

LEMMA WriteStdinSkeleton ==
    ASSUME TypeOK, TypeOK', NEW o \in Ops, Skeleton(o), WriteStdin(o)
    PROVE  Skeleton(o)' /\ Alone(o)
  <1>1. op[o] \in OpRecord /\ op'[o] \in OpRecord OBVIOUS
  <1>2. Alone(o)
    BY DEF Holds, AfterStdin, WriteStdin
  <1>3. Skeleton(o)'
    BY <1>1 DEF Holds, AfterStdin, WriteStdin
  <1> QED BY <1>2, <1>3

LEMMA TakeIdleResponseSkeleton ==
    ASSUME TypeOK, TypeOK', NEW o \in Ops, Skeleton(o), TakeIdleResponse(o)
    PROVE  Skeleton(o)' /\ Alone(o)
  <1>1. op[o] \in OpRecord /\ op'[o] \in OpRecord OBVIOUS
  <1>2. Alone(o)
    BY DEF TakeIdleResponse
  <1>3. Skeleton(o)'
    BY <1>1 DEF TakeIdleResponse
  <1> QED BY <1>2, <1>3

LEMMA LockForPollSkeleton ==
    ASSUME TypeOK, TypeOK', NEW o \in Ops, Skeleton(o), LockForPoll(o)
    PROVE  Skeleton(o)' /\ Alone(o)
  <1>1. op[o] \in OpRecord /\ op'[o] \in OpRecord OBVIOUS
  <1>2. Alone(o)
    BY DEF LockForPoll
  <1>3. Skeleton(o)'
    BY <1>1 DEF LockForPoll
  <1> QED BY <1>2, <1>3

LEMMA ReturnSkeleton ==
    ASSUME TypeOK, TypeOK', NEW o \in Ops, Skeleton(o), Return(o)
    PROVE  Skeleton(o)' /\ Alone(o)
  <1>1. op[o] \in OpRecord /\ op'[o] \in OpRecord OBVIOUS
  <1>2. Alone(o)
    BY DEF DropStartup, ReleaseAdmission, Unlock, Refuse, Return
  <1>3. Skeleton(o)'
    BY <1>1 DEF DropStartup, ReleaseAdmission, Unlock, Refuse, Return
  <1> QED BY <1>2, <1>3

LEMMA PrelaunchSkeleton ==
    ASSUME TypeOK, TypeOK', NEW o \in Ops, Skeleton(o), Prelaunch(o)
    PROVE  Skeleton(o)' /\ Alone(o)
  <1>1. op[o] \in OpRecord /\ op'[o] \in OpRecord OBVIOUS
  <1>2. Alone(o)
    BY DEF Prelaunch
  <1>3. Skeleton(o)'
    BY <1>1 DEF Prelaunch
  <1> QED BY <1>2, <1>3

LEMMA ReservePreparationSkeleton ==
    ASSUME TypeOK, TypeOK', NEW o \in Ops, Skeleton(o), ReservePreparation(o)
    PROVE  Skeleton(o)' /\ Alone(o)
  <1>1. op[o] \in OpRecord /\ op'[o] \in OpRecord OBVIOUS
  <1>2. Alone(o)
    BY DEF ReservePreparation
  <1>3. Skeleton(o)'
    BY <1>1 DEF ReservePreparation
  <1> QED BY <1>2, <1>3

LEMMA LockForPrelaunchSkeleton ==
    ASSUME TypeOK, TypeOK', NEW o \in Ops, Skeleton(o), LockForPrelaunch(o)
    PROVE  Skeleton(o)' /\ Alone(o)
  <1>1. op[o] \in OpRecord /\ op'[o] \in OpRecord OBVIOUS
  <1>2. Alone(o)
    BY DEF LockForPrelaunch
  <1>3. Skeleton(o)'
    BY <1>1 DEF LockForPrelaunch
  <1> QED BY <1>2, <1>3

LEMMA PrelaunchReturnsSkeleton ==
    ASSUME TypeOK, TypeOK', NEW o \in Ops, Skeleton(o), PrelaunchReturns(o)
    PROVE  Skeleton(o)' /\ Alone(o)
  <1>1. op[o] \in OpRecord /\ op'[o] \in OpRecord OBVIOUS
  <1>2. Alone(o)
    BY DEF DropStartup, PrelaunchReturns
  <1>3. Skeleton(o)'
    BY <1>1 DEF DropStartup, PrelaunchReturns
  <1> QED BY <1>2, <1>3

LEMMA FinishStartupSkeleton ==
    ASSUME TypeOK, TypeOK', NEW o \in Ops, Skeleton(o), FinishStartup(o)
    PROVE  Skeleton(o)' /\ Alone(o)
  <1>1. op[o] \in OpRecord /\ op'[o] \in OpRecord OBVIOUS
  <1>2. Alone(o)
    BY DEF FinishStartup
  <1>3. Skeleton(o)'
    BY <1>1 DEF FinishStartup
  <1> QED BY <1>2, <1>3

LEMMA AdmitPreparationSkeleton ==
    ASSUME TypeOK, TypeOK', NEW o \in Ops, Skeleton(o), AdmitPreparation(o)
    PROVE  Skeleton(o)' /\ Alone(o)
  <1>1. op[o] \in OpRecord /\ op'[o] \in OpRecord OBVIOUS
  <1>2. Alone(o)
    BY DEF DropStartup, ReleaseAdmission, Unlock, Refuse, AdmitPreparation
  <1>3. Skeleton(o)'
    BY <1>1 DEF DropStartup, ReleaseAdmission, Unlock, Refuse, AdmitPreparation
  <1> QED BY <1>2, <1>3

LEMMA CheckPreparationSkeleton ==
    ASSUME TypeOK, TypeOK', NEW o \in Ops, Skeleton(o), CheckPreparation(o)
    PROVE  Skeleton(o)' /\ Alone(o)
  <1>1. op[o] \in OpRecord /\ op'[o] \in OpRecord OBVIOUS
  <1>2. Alone(o)
    BY DEF CheckPreparation
  <1>3. Skeleton(o)'
    BY <1>1 DEF CheckPreparation
  <1> QED BY <1>2, <1>3

LEMMA PrepareAdmittedSkeleton ==
    ASSUME TypeOK, TypeOK', NEW o \in Ops, Skeleton(o), PrepareAdmitted(o)
    PROVE  Skeleton(o)' /\ Alone(o)
  <1>1. op[o] \in OpRecord /\ op'[o] \in OpRecord OBVIOUS
  <1>2. Alone(o)
    BY DEF NoLaunch, PrepareAdmitted
  <1>3. Skeleton(o)'
    BY <1>1 DEF NoLaunch, PrepareAdmitted
  <1> QED BY <1>2, <1>3

LEMMA PrepareResolveSkeleton ==
    ASSUME TypeOK, TypeOK', NEW o \in Ops, Skeleton(o), PrepareResolve(o)
    PROVE  Skeleton(o)' /\ Alone(o)
  <1>1. op[o] \in OpRecord /\ op'[o] \in OpRecord OBVIOUS
  <1>2. Alone(o)
    BY DEF Holds, RegisterResolver, PrepareResolve
  <1>3. Skeleton(o)'
    BY <1>1 DEF Holds, RegisterResolver, PrepareResolve
  <1> QED BY <1>2, <1>3

LEMMA CommitEnvironmentSkeleton ==
    ASSUME TypeOK, TypeOK', NEW o \in Ops, Skeleton(o), CommitEnvironment(o)
    PROVE  Skeleton(o)' /\ Alone(o)
  <1>1. op[o] \in OpRecord /\ op'[o] \in OpRecord OBVIOUS
  <1>2. Alone(o)
    BY DEF Holds, CommitEnvironment
  <1>3. Skeleton(o)'
    BY <1>1 DEF Holds, CommitEnvironment
  <1> QED BY <1>2, <1>3

LEMMA StartPreparedEvaluationSkeleton ==
    ASSUME TypeOK, TypeOK', NEW o \in Ops, Skeleton(o), StartPreparedEvaluation(o)
    PROVE  Skeleton(o)' /\ Alone(o)
  <1>1. op[o] \in OpRecord /\ op'[o] \in OpRecord OBVIOUS
  <1>2. Alone(o)
    BY DEF NoLaunch, DropStartup, ReserveStartup, ReleaseAdmission, Unlock, Refuse,
       PublishEvaluation, StartPreparedEvaluation
  <1>3. Skeleton(o)'
    BY <1>1 DEF NoLaunch, DropStartup, ReserveStartup, ReleaseAdmission, Unlock, Refuse,
       PublishEvaluation, StartPreparedEvaluation
  <1> QED BY <1>2, <1>3

LEMMA BeginRestartSkeleton ==
    ASSUME TypeOK, TypeOK', NEW o \in Ops, Skeleton(o), BeginRestart(o)
    PROVE  Skeleton(o)' /\ Alone(o)
  <1>1. op[o] \in OpRecord /\ op'[o] \in OpRecord OBVIOUS
  <1>2. Alone(o)
    BY DEF NoLaunch, DropStartup, ReleaseAdmission, Unlock, Refuse, StartRestart,
       BeginRestart
  <1>3. Skeleton(o)'
    BY <1>1 DEF NoLaunch, DropStartup, ReleaseAdmission, Unlock, Refuse, StartRestart,
       BeginRestart
  <1> QED BY <1>2, <1>3

LEMMA ResolveRestartSkeleton ==
    ASSUME TypeOK, TypeOK', NEW o \in Ops, Skeleton(o), ResolveRestart(o)
    PROVE  Skeleton(o)' /\ Alone(o)
  <1>1. op[o] \in OpRecord /\ op'[o] \in OpRecord OBVIOUS
  <1>2. Alone(o)
    BY DEF RegisterResolver, ResolveRestart
  <1>3. Skeleton(o)'
    BY <1>1 DEF RegisterResolver, ResolveRestart
  <1> QED BY <1>2, <1>3

LEMMA CommitRestartSkeleton ==
    ASSUME TypeOK, TypeOK', NEW o \in Ops, Skeleton(o), CommitRestart(o)
    PROVE  Skeleton(o)' /\ Alone(o)
  <1>1. op[o] \in OpRecord /\ op'[o] \in OpRecord OBVIOUS
  <1>2. Alone(o)
    BY DEF DropStartup, ReleaseAdmission, Unlock, Refuse, StartRestart, CommitRestart
  <1>3. Skeleton(o)'
    BY <1>1 DEF DropStartup, ReleaseAdmission, Unlock, Refuse, StartRestart,
       CommitRestart
  <1> QED BY <1>2, <1>3

LEMMA RestartCommittedSkeleton ==
    ASSUME TypeOK, TypeOK', NEW o \in Ops, Skeleton(o), RestartCommitted(o)
    PROVE  Skeleton(o)' /\ Alone(o)
  <1>1. op[o] \in OpRecord /\ op'[o] \in OpRecord OBVIOUS
  <1>2. Alone(o)
    BY DEF RestartCommitted
  <1>3. Skeleton(o)'
    BY <1>1 DEF RestartCommitted
  <1> QED BY <1>2, <1>3

LEMMA RestartShutdownSkeleton ==
    ASSUME TypeOK, TypeOK', NEW o \in Ops, Skeleton(o), RestartShutdown(o)
    PROVE  Skeleton(o)' /\ Alone(o)
  <1>1. op[o] \in OpRecord /\ op'[o] \in OpRecord OBVIOUS
  <1>2. Alone(o)
    BY DEF StopResolver, ShutdownProcesses, RestartShutdown
  <1>3. Skeleton(o)'
    BY <1>1 DEF StopResolver, ShutdownProcesses, RestartShutdown
  <1> QED BY <1>2, <1>3

LEMMA RetireWorkerSkeleton ==
    ASSUME TypeOK, TypeOK', NEW o \in Ops, Skeleton(o), RetireWorker(o)
    PROVE  Skeleton(o)' /\ Alone(o)
  <1>1. op[o] \in OpRecord /\ op'[o] \in OpRecord OBVIOUS
  <1>2. Alone(o)
    BY DEF RetireWorker
  <1>3. Skeleton(o)'
    BY <1>1 DEF RetireWorker
  <1> QED BY <1>2, <1>3

LEMMA FailRestartSkeleton ==
    ASSUME TypeOK, TypeOK', NEW o \in Ops, Skeleton(o), FailRestart(o)
    PROVE  Skeleton(o)' /\ Alone(o)
  <1>1. op[o] \in OpRecord /\ op'[o] \in OpRecord OBVIOUS
  <1>2. Alone(o)
    BY DEF FailRestart
  <1>3. Skeleton(o)'
    BY <1>1 DEF FailRestart
  <1> QED BY <1>2, <1>3

LEMMA ReplaceWorkerSkeleton ==
    ASSUME TypeOK, TypeOK', NEW o \in Ops, Skeleton(o), ReplaceWorker(o)
    PROVE  Skeleton(o)' /\ Alone(o)
  <1>1. op[o] \in OpRecord /\ op'[o] \in OpRecord OBVIOUS
  <1>2. Alone(o)
    BY DEF NoLaunch, ReplaceWorker
  <1>3. Skeleton(o)'
    BY <1>1 DEF NoLaunch, ReplaceWorker
  <1> QED BY <1>2, <1>3

LEMMA RestartLaunchSkeleton ==
    ASSUME TypeOK, TypeOK', NEW o \in Ops, Skeleton(o), RestartLaunch(o)
    PROVE  Skeleton(o)' /\ Alone(o)
  <1>1. op[o] \in OpRecord /\ op'[o] \in OpRecord OBVIOUS
  <1>2. Alone(o)
    BY DEF RestartLaunch
  <1>3. Skeleton(o)'
    BY <1>1 DEF RestartLaunch
  <1> QED BY <1>2, <1>3

LEMMA RestartReturnsSkeleton ==
    ASSUME TypeOK, TypeOK', NEW o \in Ops, Skeleton(o), RestartReturns(o)
    PROVE  Skeleton(o)' /\ Alone(o)
  <1>1. op[o] \in OpRecord /\ op'[o] \in OpRecord OBVIOUS
  <1>2. Alone(o)
    BY DEF FinishRestart, RestartReturns
  <1>3. Skeleton(o)'
    BY <1>1 DEF FinishRestart, RestartReturns
  <1> QED BY <1>2, <1>3

LEMMA AdmitControlledOperationSkeleton ==
    ASSUME TypeOK, TypeOK', NEW o \in Ops, Skeleton(o), AdmitControlledOperation(o)
    PROVE  Skeleton(o)' /\ Alone(o)
  <1>1. op[o] \in OpRecord /\ op'[o] \in OpRecord OBVIOUS
  <1>2. Alone(o)
    BY DEF WriteAdmission, AdmitControlledOperation
  <1>3. Skeleton(o)'
    BY <1>1 DEF WriteAdmission, AdmitControlledOperation
  <1> QED BY <1>2, <1>3

LEMMA FollowUpSkeleton ==
    ASSUME TypeOK, TypeOK', NEW o \in Ops, Skeleton(o), FollowUp(o)
    PROVE  Skeleton(o)' /\ Alone(o)
  <1>1. op[o] \in OpRecord /\ op'[o] \in OpRecord OBVIOUS
  <1>2. Alone(o)
    BY DEF NoLaunch, DropStartup, ReserveStartup, ReleaseAdmission, Unlock, Refuse,
       PublishEvaluation, FollowUp
  <1>3. Skeleton(o)'
    BY <1>1 DEF NoLaunch, DropStartup, ReserveStartup, ReleaseAdmission, Unlock, Refuse,
       PublishEvaluation, FollowUp
  <1> QED BY <1>2, <1>3

LEMMA InterruptBlockingSkeleton ==
    ASSUME TypeOK, TypeOK', NEW o \in Ops, Skeleton(o), InterruptBlocking(o)
    PROVE  Skeleton(o)' /\ Alone(o)
  <1>1. /\ op[o].pc = "interrupt"
        /\ \E bootstrapping \in BOOLEAN, next \in {"interrupted"} :
              SelectInterruptTarget(o, TRUE, bootstrapping, next)
    BY Zenon DEF InterruptBlocking
  <1>2. PICK bootstrapping \in BOOLEAN, next \in {"interrupted"} :
           SelectInterruptTarget(o, TRUE, bootstrapping, next)
    BY <1>1
  <1>3. /\ \A q \in Ops \ {o} : Same(q)
        /\ op'[o].pc \in {next, "return"} /\ op'[o].mode = op[o].mode
        /\ op'[o].gen = IF TRUE THEN op[o].gen ELSE generation
        /\ UNCHANGED <<generation, controlled_send, worker_lock>>
    BY <1>2, SelectInterruptTargetMoves
  <1>4. Alone(o) BY <1>3
  <1>5. Skeleton(o)'
    BY <1>1, <1>2, <1>3 DEF InterruptBlocking
  <1> QED BY <1>4, <1>5

LEMMA InterruptStdinSkeleton ==
    ASSUME TypeOK, TypeOK', NEW o \in Ops, Skeleton(o), InterruptStdin(o)
    PROVE  Skeleton(o)' /\ Alone(o)
  <1>1. op[o] \in OpRecord /\ op'[o] \in OpRecord OBVIOUS
  <1>2. Alone(o)
    BY DEF NoLaunch, QueueStartupStdin, InterruptStdin
  <1>3. Skeleton(o)'
    BY <1>1 DEF NoLaunch, QueueStartupStdin, InterruptStdin
  <1> QED BY <1>2, <1>3

LEMMA RetryControlledSendSkeleton ==
    ASSUME TypeOK, TypeOK', NEW o \in Ops, Skeleton(o), RetryControlledSend(o)
    PROVE  Skeleton(o)' /\ Alone(o)
  <1>1. op[o] \in OpRecord /\ op'[o] \in OpRecord OBVIOUS
  <1>2. Alone(o)
    BY DEF RetryControlledSend
  <1>3. Skeleton(o)'
    BY <1>1 DEF RetryControlledSend
  <1> QED BY <1>2, <1>3

LEMMA SubmitControlledStdinSkeleton ==
    ASSUME TypeOK, TypeOK', NEW o \in Ops, Skeleton(o), SubmitControlledStdin(o)
    PROVE  Skeleton(o)' /\ Alone(o)
  <1>1. op[o] \in OpRecord /\ op'[o] \in OpRecord OBVIOUS
  <1>2. \/ \E label \in {"grace", "return"} : op' = [op EXCEPT ![o].pc = label]
        \/ op' = [op EXCEPT ![o].pc = "lock_stdin", ![o].mode = "Stdin"]
    BY SubmitControlledStdinCalls
  <1>3. UNCHANGED <<generation, controlled_send, worker_lock>>
    BY Zenon DEF SubmitControlledStdin
  <1>4. Alone(o) BY <1>2, <1>3
  <1>5. op[o].pc = "interrupted" BY DEF SubmitControlledStdin
  <1>6. Skeleton(o)'
    BY <1>1, <1>2, <1>3, <1>5
  <1> QED BY <1>4, <1>6

LEMMA EnsureFollowupConnectionSkeleton ==
    ASSUME TypeOK, TypeOK', NEW o \in Ops, Skeleton(o), EnsureFollowupConnection(o)
    PROVE  Skeleton(o)' /\ Alone(o)
  <1>1. op[o] \in OpRecord /\ op'[o] \in OpRecord OBVIOUS
  <1>2. Alone(o)
    BY DEF NoLaunch, EnsureFollowupConnection
  <1>3. Skeleton(o)'
    BY <1>1 DEF NoLaunch, EnsureFollowupConnection
  <1> QED BY <1>2, <1>3

LEMMA ContinueAfterInterruptSkeleton ==
    ASSUME TypeOK, TypeOK', NEW o \in Ops, Skeleton(o), ContinueAfterInterrupt(o)
    PROVE  Skeleton(o)' /\ Alone(o)
  <1>1. op[o] \in OpRecord /\ op'[o] \in OpRecord OBVIOUS
  <1>2. Alone(o)
    BY DEF DropStartup, ReleaseAdmission, WriteAdmission, Unlock, Refuse,
       ContinueAfterInterrupt
  <1>3. Skeleton(o)'
    BY <1>1 DEF DropStartup, ReleaseAdmission, WriteAdmission, Unlock, Refuse,
       ContinueAfterInterrupt
  <1> QED BY <1>2, <1>3

LEMMA ContinueWithCellSkeleton ==
    ASSUME TypeOK, TypeOK', NEW o \in Ops, Skeleton(o), ContinueWithCell(o)
    PROVE  Skeleton(o)' /\ Alone(o)
  <1>1. op[o] \in OpRecord /\ op'[o] \in OpRecord OBVIOUS
  <1>2. Alone(o)
    BY DEF NoLaunch, DropStartup, ReserveStartup, ReleaseAdmission, Unlock, Refuse,
       PublishEvaluation, ContinueWithCell
  <1>3. Skeleton(o)'
    BY <1>1 DEF NoLaunch, DropStartup, ReserveStartup, ReleaseAdmission, Unlock, Refuse,
       PublishEvaluation, ContinueWithCell
  <1> QED BY <1>2, <1>3

LEMMA CloseProcessesSkeleton ==
    ASSUME TypeOK, TypeOK', NEW o \in Ops, Skeleton(o), CloseProcesses(o)
    PROVE  Skeleton(o)' /\ Alone(o)
  <1>1. op[o] \in OpRecord /\ op'[o] \in OpRecord OBVIOUS
  <1>2. Alone(o)
    BY DEF StopResolver, ShutdownProcesses, CloseProcesses
  <1>3. Skeleton(o)'
    BY <1>1 DEF StopResolver, ShutdownProcesses, CloseProcesses
  <1> QED BY <1>2, <1>3

LEMMA CloseWorkerSkeleton ==
    ASSUME TypeOK, TypeOK', NEW o \in Ops, Skeleton(o), CloseWorker(o)
    PROVE  Skeleton(o)' /\ Alone(o)
  <1>1. op[o] \in OpRecord /\ op'[o] \in OpRecord OBVIOUS
  <1>2. Alone(o)
    BY DEF CloseWorker
  <1>3. Skeleton(o)'
    BY <1>1 DEF CloseWorker
  <1> QED BY <1>2, <1>3

LEMMA ResolvedPrestartSkeleton ==
    ASSUME TypeOK, TypeOK', NEW o \in Ops, Skeleton(o), ResolvedPrestart(o)
    PROVE  Skeleton(o)' /\ Alone(o)
  <1>1. op[o] \in OpRecord /\ op'[o] \in OpRecord OBVIOUS
  <1>2. Alone(o)
    BY DEF Holds, ClearResolver, ResolvedPrestart
  <1>3. Skeleton(o)'
    BY <1>1 DEF Holds, ClearResolver, ResolvedPrestart
  <1> QED BY <1>2, <1>3

LEMMA PrepareResolvedSkeleton ==
    ASSUME TypeOK, TypeOK', NEW o \in Ops, Skeleton(o), PrepareResolved(o)
    PROVE  Skeleton(o)' /\ Alone(o)
  <1>1. op[o] \in OpRecord /\ op'[o] \in OpRecord OBVIOUS
  <1>2. Alone(o)
    BY DEF NoLaunch, Holds, ClearResolver, PrepareResolved
  <1>3. Skeleton(o)'
    BY <1>1 DEF NoLaunch, Holds, ClearResolver, PrepareResolved
  <1> QED BY <1>2, <1>3

LEMMA RestartResolvedSkeleton ==
    ASSUME TypeOK, TypeOK', NEW o \in Ops, Skeleton(o), RestartResolved(o)
    PROVE  Skeleton(o)' /\ Alone(o)
  <1>1. op[o] \in OpRecord /\ op'[o] \in OpRecord OBVIOUS
  <1>2. Alone(o)
    BY DEF ClearResolver, RestartResolved
  <1>3. Skeleton(o)'
    BY <1>1 DEF ClearResolver, RestartResolved
  <1> QED BY <1>2, <1>3

LEMMA AdmitSkeleton ==
    ASSUME TypeOK, TypeOK', NEW o \in Ops, Skeleton(o), Admit(o)
    PROVE  Skeleton(o)' /\ Alone(o)
  <1>1. op[o] \in OpRecord /\ op'[o] \in OpRecord OBVIOUS
  <1>2. Alone(o)
    BY DEF ReadAdmission, Admit
  <1>3. Skeleton(o)'
    BY <1>1 DEF ReadAdmission, Admit
  <1> QED BY <1>2, <1>3

LEMMA BeginControlledSendSkeleton ==
    ASSUME TypeOK, TypeOK', NEW o \in Ops, Skeleton(o), BeginControlledSend(o)
    PROVE  Skeleton(o)' /\ Alone(o)
  <1>1. op[o] \in OpRecord /\ op'[o] \in OpRecord OBVIOUS
  <1>2. Alone(o)
    BY DEF BeginControlledSend
  <1>3. Skeleton(o)'
    BY <1>1 DEF BeginControlledSend
  <1> QED BY <1>2, <1>3

LEMMA CloseLifecycleSkeleton ==
    ASSUME TypeOK, TypeOK', NEW o \in Ops, Skeleton(o), CloseLifecycle(o)
    PROVE  Skeleton(o)' /\ Alone(o)
  <1>1. op[o] \in OpRecord /\ op'[o] \in OpRecord OBVIOUS
  <1>2. Alone(o)
    BY DEF CloseLifecycle
  <1>3. Skeleton(o)'
    BY <1>1 DEF CloseLifecycle
  <1> QED BY <1>2, <1>3

LEMMA InterruptStandaloneSkeleton ==
    ASSUME TypeOK, TypeOK', NEW o \in Ops, Skeleton(o), InterruptStandalone(o)
    PROVE  Skeleton(o)' /\ Alone(o)
  <1>1. /\ op[o].pc = "idle"
        /\ \E bootstrapping \in BOOLEAN, next \in {"standalone"} :
              SelectInterruptTarget(o, FALSE, bootstrapping, next)
    BY Zenon DEF InterruptStandalone
  <1>2. PICK bootstrapping \in BOOLEAN, next \in {"standalone"} :
           SelectInterruptTarget(o, FALSE, bootstrapping, next)
    BY <1>1
  <1>3. /\ \A q \in Ops \ {o} : Same(q)
        /\ op'[o].pc \in {next, "return"} /\ op'[o].mode = op[o].mode
        /\ op'[o].gen = IF FALSE THEN op[o].gen ELSE generation
        /\ UNCHANGED <<generation, controlled_send, worker_lock>>
    BY <1>2, SelectInterruptTargetMoves
  <1>4. Alone(o) BY <1>3
  <1>5. Skeleton(o)'
    BY <1>1, <1>2, <1>3 DEF InterruptStandalone
  <1> QED BY <1>4, <1>5

LEMMA InterruptStartupSkeleton ==
    ASSUME TypeOK, TypeOK', NEW o \in Ops, Skeleton(o), InterruptStartup(o)
    PROVE  Skeleton(o)' /\ Alone(o)
  <1>1. /\ op[o].pc = "idle"
        /\ \E bootstrapping \in BOOLEAN, next \in {"startup_stdin", "return"} :
              SelectInterruptTarget(o, FALSE, bootstrapping, next)
    BY Zenon DEF InterruptStartup
  <1>2. PICK bootstrapping \in BOOLEAN, next \in {"startup_stdin", "return"} :
           SelectInterruptTarget(o, FALSE, bootstrapping, next)
    BY <1>1
  <1>3. /\ \A q \in Ops \ {o} : Same(q)
        /\ op'[o].pc \in {next, "return"} /\ op'[o].mode = op[o].mode
        /\ op'[o].gen = IF FALSE THEN op[o].gen ELSE generation
        /\ UNCHANGED <<generation, controlled_send, worker_lock>>
    BY <1>2, SelectInterruptTargetMoves
  <1>4. Alone(o) BY <1>3
  <1>5. Skeleton(o)'
    BY <1>1, <1>2, <1>3 DEF InterruptStartup
  <1> QED BY <1>4, <1>5

LEMMA CellCompletesSkeleton ==
    ASSUME TypeOK, TypeOK', NEW o \in Ops, Skeleton(o), CellCompletes(o)
    PROVE  Skeleton(o)' /\ Alone(o)
  <1>1. op[o] \in OpRecord /\ op'[o] \in OpRecord OBVIOUS
  <1>2. Alone(o)
    BY DEF CompleteCell, CellCompletes
  <1>3. Skeleton(o)'
    BY <1>1 DEF CompleteCell, CellCompletes
  <1> QED BY <1>2, <1>3

(* A step of a call keeps its own skeleton and leaves the others alone.    *)
LEMMA CallSkeleton ==
    ASSUME TypeOK, TypeOK', NEW o \in Ops, Skeleton(o), Acts(o)
    PROVE  Skeleton(o)' /\ Alone(o)
  <1> HIDE DEF TypeOK, Skeleton, Alone, OpRecord
  <1> QED
    BY Zenon, StartEvaluationSkeleton, EvaluateBlockingSkeleton, LockForCellSkeleton,
       DispatchSkeleton, CellFailsSkeleton, EvaluateReturnsSkeleton,
       ReserveWorkerStartupSkeleton, LockEnvironmentSkeleton, ResolvePrestartSkeleton,
       SpawnSkeleton, RegisterStopHandleSkeleton, AwaitReadySkeleton, OnReadySkeleton,
       ReadyCommitSkeleton, RetireFailedStartSkeleton, StartFailedSkeleton,
       StopFailedWorkerSkeleton, StopFailedSkeleton, FailedWorkerStoppedSkeleton,
       StartReplacementSkeleton, StartPollSkeleton, LockForStdinSkeleton,
       WriteStdinSkeleton, TakeIdleResponseSkeleton, LockForPollSkeleton, ReturnSkeleton,
       PrelaunchSkeleton, ReservePreparationSkeleton, LockForPrelaunchSkeleton,
       PrelaunchReturnsSkeleton, FinishStartupSkeleton, AdmitPreparationSkeleton,
       CheckPreparationSkeleton, PrepareAdmittedSkeleton, PrepareResolveSkeleton,
       CommitEnvironmentSkeleton, StartPreparedEvaluationSkeleton, BeginRestartSkeleton,
       ResolveRestartSkeleton, CommitRestartSkeleton, RestartCommittedSkeleton,
       RestartShutdownSkeleton, RetireWorkerSkeleton, FailRestartSkeleton,
       ReplaceWorkerSkeleton, RestartLaunchSkeleton, RestartReturnsSkeleton,
       AdmitControlledOperationSkeleton, FollowUpSkeleton, InterruptBlockingSkeleton,
       InterruptStdinSkeleton, RetryControlledSendSkeleton, SubmitControlledStdinSkeleton,
       EnsureFollowupConnectionSkeleton, ContinueAfterInterruptSkeleton,
       ContinueWithCellSkeleton, CloseProcessesSkeleton, CloseWorkerSkeleton,
       ResolvedPrestartSkeleton, PrepareResolvedSkeleton, RestartResolvedSkeleton,
       AdmitSkeleton, BeginControlledSendSkeleton, CloseLifecycleSkeleton,
       InterruptStandaloneSkeleton, InterruptStartupSkeleton, CellCompletesSkeleton
       DEF Acts, Step, Settle, Arrive

(* What a call owns, nobody else takes from it.                            *)
LEMMA OthersSkeleton ==
    ASSUME TypeOK, TypeOK', NEW o \in Ops, Alone(o), NEW q \in Ops \ {o}, Skeleton(q)
    PROVE  Skeleton(q)'
  <1>1. Same(q) OBVIOUS
  <1>2. q # NoOp BY ConstantsAssumption
  <1>3. ModeFits(q)' BY <1>1
  <1>4. OwnsWorker(q)' BY <1>1, <1>2
  <1>5. OwnsAdmission(q)' BY <1>1, <1>2
  <1>6. (op[q].gen <= generation)'
    <2>1. op[q].gen \in Nat /\ generation \in Nat /\ generation' \in Nat
      BY OpFields
    <2> QED BY <1>1, <2>1
  <1> QED BY <1>3, <1>4, <1>5, <1>6

HIDE DEF TypeOK, OpTypes, LifecycleTypes, Generations, OpRecord, Alone, Same,
    Skeleton, ModeFits, OwnsWorker, OwnsAdmission, Controlling, Starting,
    Launching, Registered, Holding, Using, Owning, Restarts, At, Goto,
    lifecycle

SkeletonInv == \A o \in Ops : Skeleton(o)

LEMMA SkeletonStep == ASSUME TypeOK, TypeOK', SkeletonInv, [Next]_vars PROVE SkeletonInv'
  <1>1. CASE Silent /\ UNCHANGED worker_lock
    BY <1>1 DEF Silent, SkeletonInv, Skeleton, ModeFits, OwnsWorker, OwnsAdmission, Controlling
  <1>2. ASSUME NEW o \in Ops, Acts(o)
        PROVE  SkeletonInv'
    <2>1. Skeleton(o)' /\ Alone(o) BY <1>2, CallSkeleton DEF SkeletonInv
    <2> QED BY <2>1, OthersSkeleton DEF SkeletonInv
  <1>3. (\E o \in Ops : Acts(o)) \/ (Silent /\ UNCHANGED worker_lock)
    <2>1. ASSUME NEW l \in Launches, WorkerStep(l) PROVE Silent /\ UNCHANGED worker_lock
      BY <2>1 DEF WorkerStep, LaunchReady, LaunchFails, RInitBegins, RInitCompletes, LaunchEvent,
                  Silent, lifecycle
    <2>2. Reap => Silent /\ UNCHANGED worker_lock BY DEF Reap, Silent, lifecycle
    <2>3. UNCHANGED vars => Silent /\ UNCHANGED worker_lock BY DEF vars, Silent, lifecycle
    <2> QED BY <2>1, <2>2, <2>3 DEF Next, Terminated, Acts
  <1> QED BY <1>1, <1>2, <1>3

LEMMA SkeletonInit == ASSUME Init PROVE SkeletonInv
  BY ConstantsAssumption DEF Init, SkeletonInv, Skeleton, ModeFits, OwnsWorker, OwnsAdmission,
     Controlling, Starting, Launching, Registered, Holding, Using, Owning, Restarts, Generations

(* Mutual exclusion: every call that starts, uses, stops or prepares the   *)
(* worker owns the worker mutex, and every control that interrupts or      *)
(* restarts owns admission, whatever the mode it came in.                  *)
THEOREM SkeletonHolds == Spec => []SkeletonInv
  <1>1. TypeOK /\ TypeOK' /\ SkeletonInv /\ [Next]_vars => SkeletonInv' BY SkeletonStep
  <1> QED BY <1>1, SkeletonInit, TypeCorrect, PTL DEF Spec

(***************************************************************************)
(* Who has the last launch.                                                *)
(***************************************************************************)
Restarting(o) == state = "Restarting" /\ op[o].mode = "Restart"
BeforeBarrier == {"restart_committed", "shutdown", "replace_worker"}
BehindBarrier == {"settle", "finish_restart"} \cup (Starting \ {"ready_commit"})
Busy == Launching \cup Holding \cup {"stopping", "stopped"}
Nobody(labels) == \A q \in Ops : op[q].pc \notin labels

Cleared(l) ==
    /\ ~launch[l].live
    /\ launch[l].committed => launch[l].cleanup \in {"Clean", "Unclean"}
LastCleared == launched # 0 => Cleared(launched)

(* A call of the generation that a restart began can only be the restart.  *)
NotYetAdmitted(o) ==
    state = "Restarting" /\ Current(o) /\ controlled_send # o =>
        op[o].pc \in {"standalone", "return", "done"}

(* The launch in hand is the last one, of the call's generation, and it    *)
(* becomes the worker only while it lives.                                 *)
HasLaunch(o) ==
    /\ op[o].pc \in Holding =>
          /\ worker # "Running" /\ launched # 0 /\ op[o].target = launched
          /\ ~launch[launched].committed /\ launch[launched].gen = op[o].gen
    /\ op[o].pc \in Registered => stop_handle = launched
    /\ op[o].pc \in Registered \cup {"register"} /\ (state = "Ready" \/ Restarting(o)) =>
          launch[launched].live

(* A call launches behind the barrier, and gives up a worker it stopped.   *)
MayLaunch(o) ==
    /\ op[o].pc \in Launching => worker # "Running" /\ LastCleared
    /\ op[o].pc \in {"start_failed", "replace", "stopped"} => worker # "Running"
UsesWorker(o) ==
    /\ op[o].pc \in Using => worker = "Running"
    /\ op[o].pc \in {"prepare_resolve", "preparing"} /\ op[o].target # NoLaunch =>
          worker = "Running"
Stops(o) ==
    /\ op[o].pc \in {"stopping", "stopped"} =>
          op[o].target = launched /\ launched # 0 /\ stop_handle = launched
    /\ op[o].pc = "stopped" => ~launch[launched].live

(* In a ready session only calls of its generation change the worker.      *)
IsCurrent(o) ==
    state = "Ready" =>
        /\ op[o].pc \in Busy => Current(o)
        /\ op[o].pc = "start_failed" => Current(o) \/ stop_handle = NoLaunch

(* A restart begins with the registered launch, ...                        *)
BeforeReplacement(o) ==
    /\ op[o].mode = "Restart" /\ op[o].pc \in BeforeBarrier =>
          op[o].target <= launched /\ (state = "Restarting" => op[o].target = stop_handle)
    /\ op[o].pc = "replace_worker" /\ op[o].target # NoLaunch =>
          /\ ~launch[op[o].target].live
          /\ launch[op[o].target].cleanup \in {"Clean", "BadIO"}
(* ... and behind the barrier it is alone with the worker.                 *)
BehindReplacement(o) ==
    /\ Restarting(o) /\ op[o].pc \in BehindBarrier =>
          /\ worker # "Running"
          /\ op[o].pc \notin Registered \cup {"retire_start", "start_failed"} =>
                stop_handle = NoLaunch
          /\ stop_handle # NoLaunch =>
                stop_handle = launched /\ launch[launched].gen = generation
          /\ op[o].pc \notin Holding => LastCleared
          /\ \A q \in Ops \ {o} : op[q].pc \notin Busy
    /\ op[o].mode = "Restart" =>
          /\ op[o].pc \in Settling \ {"finish_restart"} => state # "Ready"
          /\ op[o].pc = "ready_commit" => state # "Restarting"

CallInv(o) ==
    /\ NotYetAdmitted(o)
    /\ HasLaunch(o)
    /\ MayLaunch(o)
    /\ UsesWorker(o)
    /\ Stops(o)
    /\ IsCurrent(o)
    /\ BeforeReplacement(o)
    /\ BehindReplacement(o)

(* Only the last launch may live; it is the worker, and then registered,   *)
(* or some call's launch in hand.                                          *)
Unlaunched == \A l \in Launches : l > launched => ~launch[l].live /\ ~launch[l].committed
Earlier == \A l \in Launches : l < launched => Cleared(l)
RunningIsLast ==
    worker = "Running" => running = launched /\ launched # 0 /\ stop_handle = launched
LiveIsHeld ==
    launched # 0 /\ launch[launched].live => worker = "Running" \/ ~Nobody(Holding)
(* A ready session without a worker is behind the barrier, and has nothing *)
(* registered; a restarting one has at most the launch to retire.          *)
ReadyIsCleared ==
    state = "Ready" /\ worker # "Running" /\ Nobody(Holding \cup {"stopped"}) => LastCleared
ReadyIsUnregistered ==
    state = "Ready" /\ worker # "Running"
    /\ Nobody(Registered \cup {"retire_start", "start_failed", "stopped"}) =>
        stop_handle = NoLaunch
ReadyIsCurrent ==
    state = "Ready" /\ stop_handle # NoLaunch =>
        stop_handle = launched /\ launch[launched].gen = generation
RestartKnows ==
    state = "Restarting" /\ worker # "Running" /\ Nobody(Holding) =>
        LastCleared \/ stop_handle = launched
RegisteredIsLaunched == stop_handle <= launched

LaunchInv ==
    /\ Unlaunched
    /\ Earlier
    /\ RunningIsLast
    /\ LiveIsHeld
    /\ ReadyIsCleared
    /\ ReadyIsUnregistered
    /\ ReadyIsCurrent
    /\ RestartKnows
    /\ RegisteredIsLaunched

(* A step that leaves the worker, its launches and the lifecycle alone.    *)
SameLaunch(l) ==
    /\ launch'[l].gen = launch[l].gen /\ launch'[l].live = launch[l].live
    /\ launch'[l].committed = launch[l].committed /\ launch'[l].cleanup = launch[l].cleanup
SameWorker ==
    /\ UNCHANGED <<state, generation, stop_handle, worker, running, launched>>
    /\ \A l \in Launches : SameLaunch(l)
Quiet(o) ==
    /\ SameWorker
    /\ op[o].pc \notin Holding \cup {"start_failed", "stopped"}
    /\ op'[o].pc \notin Holding \cup {"stopped"}
    /\ op'[o].pc \in Busy \ {op[o].pc} =>
          op[o].pc \in Busy \/ state # "Restarting" \/ controlled_send = o

LEMMA LaunchedType == ASSUME TypeOK PROVE launched \in Nat /\ (launched # 0 => launched \in Launches)
  BY ConstantsAssumption DEF TypeOK, ProcessTypes, Launches

LEMMA SameCleared ==
    ASSUME TypeOK, TypeOK', SameWorker
    PROVE  /\ \A l \in Launches : Cleared(l)' = Cleared(l)
           /\ LastCleared' = LastCleared
  <1>1. ASSUME NEW l \in Launches PROVE Cleared(l)' = Cleared(l)
    <2>1. SameLaunch(l) BY DEF SameWorker
    <2> QED BY <2>1 DEF Cleared, SameLaunch
  <1> QED BY <1>1, LaunchedType DEF LastCleared, SameWorker

(* What a call relies on outlasts a step that leaves it and the worker      *)
(* alone, if no other call becomes busy behind a restart's back.           *)
LEMMA UndisturbedCall ==
    ASSUME TypeOK, TypeOK', SameWorker, NEW q \in Ops, Same(q), CallInv(q),
           controlled_send = q => controlled_send' = q,
           Restarting(q) /\ op[q].pc \in BehindBarrier =>
              \A p \in Ops \ {q} : op'[p].pc \in Busy => op[p].pc \in Busy
    PROVE  CallInv(q)'
  <1>1. launched # 0 => SameLaunch(launched) BY LaunchedType DEF SameWorker
  <1>2. LastCleared' = LastCleared BY SameCleared
  <1>3. NotYetAdmitted(q)' BY DEF CallInv, NotYetAdmitted, Same, SameWorker, Current
  <1>4. HasLaunch(q)'
    BY <1>1 DEF CallInv, HasLaunch, Same, SameWorker, SameLaunch, Restarting, Holding
  <1>5. MayLaunch(q)' BY <1>2 DEF CallInv, MayLaunch, Same, SameWorker
  <1>6. UsesWorker(q)' BY DEF CallInv, UsesWorker, Same, SameWorker
  <1>7. Stops(q)' BY <1>1 DEF CallInv, Stops, Same, SameWorker, SameLaunch
  <1>8. IsCurrent(q)' BY DEF CallInv, IsCurrent, Same, SameWorker, Current
  <1>9. BeforeReplacement(q)'
    <2>1. op[q].target # NoLaunch => SameLaunch(op[q].target)
      BY OpFields DEF SameWorker, TypeOK
    <2> QED BY <2>1 DEF CallInv, BeforeReplacement, Same, SameWorker, SameLaunch
  <1>10. BehindReplacement(q)'
    <2>1. stop_handle # NoLaunch /\ stop_handle = launched => SameLaunch(launched)
      BY <1>1 DEF NoLaunch
    <2>2. Restarting(q)' = Restarting(q) BY DEF Restarting, Same, SameWorker
    <2>3. CASE Restarting(q) /\ op[q].pc \in BehindBarrier
      <3>1. \A p \in Ops \ {q} : op'[p].pc \notin Busy
        BY <2>3 DEF CallInv, BehindReplacement
      <3> QED BY <1>2, <2>1, <2>2, <2>3, <3>1
           DEF CallInv, BehindReplacement, Same, SameWorker, SameLaunch
    <2>4. CASE ~(Restarting(q) /\ op[q].pc \in BehindBarrier)
      BY <2>2, <2>4 DEF CallInv, BehindReplacement, Same, SameWorker
    <2> QED BY <2>3, <2>4
  <1> QED BY <1>3, <1>4, <1>5, <1>6, <1>7, <1>8, <1>9, <1>10 DEF CallInv

(* A quiet step keeps what other calls rely on ...                         *)
LEMMA QuietOthers ==
    ASSUME TypeOK, TypeOK', NEW o \in Ops, Quiet(o), Alone(o), SkeletonInv,
           NEW q \in Ops \ {o}, CallInv(q)
    PROVE  CallInv(q)'
  <1>1. Same(q) /\ q # NoOp BY ConstantsAssumption DEF Alone
  <1>2. SameWorker BY DEF Quiet
  <1>3. controlled_send = q => controlled_send' = q BY <1>1 DEF Alone
  <1>4. ASSUME Restarting(q), op[q].pc \in BehindBarrier, NEW p \in Ops \ {q}, op'[p].pc \in Busy
        PROVE  op[p].pc \in Busy
    <2>1. controlled_send = q
      BY <1>4 DEF SkeletonInv, Skeleton, OwnsAdmission, Controlling, Restarting, BehindBarrier,
             Starting, Launching, Registered, Holding
    <2>2. CASE p = o BY <1>4, <2>1, <2>2 DEF Quiet, Restarting
    <2>3. CASE p # o BY <1>4, <2>3 DEF Alone, Same
    <2> QED BY <2>2, <2>3
  <1> QED BY <1>1, <1>2, <1>3, <1>4, UndisturbedCall

(* What a call relies on outlasts the retirement of a launch by another    *)
(* call, in a session that is not ready.                                   *)
LEMMA StrandedCall ==
    ASSUME TypeOK, TypeOK', NEW q \in Ops, Same(q), CallInv(q), state # "Ready",
           Restarting(q) => op[q].pc \in {"return", "done"},
           UNCHANGED <<state, generation, controlled_send, stop_handle, worker, launched>>,
           \A l \in Launches :
              /\ launch'[l].gen = launch[l].gen /\ launch'[l].committed = launch[l].committed
              /\ ~launch[l].live => SameLaunch(l)
    PROVE  CallInv(q)'
  <1>1. LastCleared => LastCleared'
    BY LaunchedType DEF LastCleared, Cleared, SameLaunch
  <1>2. Restarting(q)' = Restarting(q) BY DEF Restarting, Same
  <1>3. NotYetAdmitted(q)' BY DEF CallInv, NotYetAdmitted, Same, Current
  <1>4. HasLaunch(q)'
    BY <1>2, LaunchedType DEF CallInv, HasLaunch, Same, Holding, Registered
  <1>5. MayLaunch(q)' BY <1>1 DEF CallInv, MayLaunch, Same
  <1>6. UsesWorker(q)' BY DEF CallInv, UsesWorker, Same
  <1>7. Stops(q)' BY LaunchedType DEF CallInv, Stops, Same, SameLaunch
  <1>8. IsCurrent(q)' BY DEF IsCurrent
  <1>9. BeforeReplacement(q)'
    <2>1. op[q].target # NoLaunch => op[q].target \in Launches BY OpFields DEF TypeOK
    <2> QED BY <2>1 DEF CallInv, BeforeReplacement, Same, SameLaunch
  <1>10. BehindReplacement(q)'
    BY <1>2 DEF CallInv, BehindReplacement, Same, BehindBarrier, Settling, Starting, Launching,
       Holding, Registered
  <1> QED BY <1>3, <1>4, <1>5, <1>6, <1>7, <1>8, <1>9, <1>10 DEF CallInv

(* A call that does not own the worker relies on nothing that its owner    *)
(* changes, unless it restarts the worker.                                 *)
LEMMA BystandingCall ==
    ASSUME TypeOK, TypeOK', NEW q \in Ops, Same(q), CallInv(q), Skeleton(q), op[q].pc \notin Owning,
           state' \in {state, "ShuttingDown"}, UNCHANGED <<generation, controlled_send>>,
           launched <= launched',
           \A l \in Launches : l <= launched /\ ~launch[l].live => SameLaunch(l),
           Restarting(q) => op[q].pc \notin BehindBarrier,
           Restarting(q) /\ op[q].pc \in BeforeBarrier => stop_handle' = stop_handle
    PROVE  CallInv(q)'
  <1>1. op'[q].pc \notin Owning /\ (Restarting(q)' => Restarting(q)) BY DEF Restarting, Same
  <1>2. NotYetAdmitted(q)' BY DEF CallInv, NotYetAdmitted, Same, Current
  <1>3. HasLaunch(q)' BY <1>1 DEF HasLaunch, Owning, Starting, Holding, Registered
  <1>4. MayLaunch(q)' BY <1>1 DEF MayLaunch, Owning, Starting
  <1>5. UsesWorker(q)' BY <1>1 DEF UsesWorker, Owning
  <1>6. Stops(q)' BY <1>1 DEF Stops, Owning, Using
  <1>7. IsCurrent(q)' BY <1>1 DEF IsCurrent, Busy, Owning, Starting, Using
  <1>8. BeforeReplacement(q)'
    <2>1. op[q].target # NoLaunch => op[q].target \in Launches BY OpFields DEF TypeOK
    <2>2. launched \in Nat /\ launched' \in Nat BY DEF TypeOK, ProcessTypes
    <2>3. op[q].mode = "Restart" /\ op[q].pc \in BeforeBarrier =>
             op'[q].target <= launched' /\ (state' = "Restarting" => op'[q].target = stop_handle')
      BY <2>1, <2>2 DEF CallInv, BeforeReplacement, Same, Restarting, Launches, NoLaunch
    <2>4. CASE op[q].pc = "replace_worker" /\ op[q].target # NoLaunch
      <3>1. op[q].mode = "Restart" BY <2>4 DEF Skeleton, ModeFits, Restarts
      <3>2. SameLaunch(op[q].target)
        BY <2>1, <2>4, <3>1 DEF CallInv, BeforeReplacement, BeforeBarrier
      <3> QED BY <2>3, <2>4, <3>2 DEF CallInv, BeforeReplacement, Same, SameLaunch
    <2>5. CASE ~(op[q].pc = "replace_worker" /\ op[q].target # NoLaunch)
      BY <2>3, <2>5 DEF BeforeReplacement, Same
    <2> QED BY <2>4, <2>5
  <1>9. BehindReplacement(q)' BY <1>1 DEF CallInv, BehindReplacement, Same
  <1> QED BY <1>2, <1>3, <1>4, <1>5, <1>6, <1>7, <1>8, <1>9 DEF CallInv

(* ... and what is known of the launches, if nobody takes or gives one up. *)
LEMMA UndisturbedLaunches ==
    ASSUME TypeOK, TypeOK', SameWorker, LaunchInv,
           Nobody(Holding)' = Nobody(Holding),
           Nobody(Holding \cup {"stopped"})' => Nobody(Holding \cup {"stopped"}),
           Nobody(Registered \cup {"retire_start", "start_failed", "stopped"})' =>
              Nobody(Registered \cup {"retire_start", "start_failed", "stopped"})
    PROVE  LaunchInv'
  <1>1. launched # 0 => SameLaunch(launched) BY LaunchedType DEF SameWorker
  <1>2. LastCleared' = LastCleared /\ \A l \in Launches : Cleared(l)' = Cleared(l)
    BY SameCleared
  <1>3. Unlaunched' BY DEF LaunchInv, Unlaunched, SameWorker, SameLaunch
  <1>4. Earlier' BY <1>2 DEF LaunchInv, Earlier, SameWorker
  <1>5. RunningIsLast' BY DEF LaunchInv, RunningIsLast, SameWorker
  <1>6. LiveIsHeld' BY <1>1 DEF LaunchInv, LiveIsHeld, SameWorker, SameLaunch
  <1>7. ReadyIsCleared' BY <1>2 DEF LaunchInv, ReadyIsCleared, SameWorker
  <1>8. ReadyIsUnregistered' BY DEF LaunchInv, ReadyIsUnregistered, SameWorker
  <1>9. ReadyIsCurrent' BY <1>1 DEF LaunchInv, ReadyIsCurrent, SameWorker, SameLaunch, NoLaunch
  <1>10. RestartKnows' BY <1>2 DEF LaunchInv, RestartKnows, SameWorker
  <1>11. RegisteredIsLaunched' BY DEF LaunchInv, RegisteredIsLaunched, SameWorker
  <1> QED BY <1>3, <1>4, <1>5, <1>6, <1>7, <1>8, <1>9, <1>10, <1>11 DEF LaunchInv

(* ... or if somebody retires one in a session that is not ready.          *)
LEMMA StrandedLaunches ==
    ASSUME TypeOK, TypeOK', LaunchInv, state # "Ready", Nobody(Holding)' <=> Nobody(Holding),
           UNCHANGED <<state, generation, stop_handle, worker, running, launched>>,
           \A l \in Launches :
              /\ launch'[l].gen = launch[l].gen /\ launch'[l].committed = launch[l].committed
              /\ ~launch[l].live => SameLaunch(l)
              /\ launch'[l].live => launch[l].live
    PROVE  LaunchInv'
  <1>1. \A l \in Launches : Cleared(l) => Cleared(l)' BY DEF Cleared, SameLaunch
  <1>2. LastCleared => LastCleared' BY <1>1, LaunchedType DEF LastCleared
  <1>3. Unlaunched' BY DEF LaunchInv, Unlaunched
  <1>4. Earlier' BY <1>1 DEF LaunchInv, Earlier
  <1>5. RunningIsLast' BY DEF LaunchInv, RunningIsLast
  <1>6. LiveIsHeld' BY LaunchedType DEF LaunchInv, LiveIsHeld
  <1>7. ReadyIsCleared' /\ ReadyIsUnregistered' /\ ReadyIsCurrent'
    BY DEF ReadyIsCleared, ReadyIsUnregistered, ReadyIsCurrent
  <1>8. RestartKnows' BY <1>2 DEF LaunchInv, RestartKnows
  <1>9. RegisteredIsLaunched' BY DEF LaunchInv, RegisteredIsLaunched
  <1> QED BY <1>3, <1>4, <1>5, <1>6, <1>7, <1>8, <1>9 DEF LaunchInv

LEMMA QuietLaunches ==
    ASSUME TypeOK, TypeOK', NEW o \in Ops, Quiet(o), Alone(o), LaunchInv
    PROVE  LaunchInv'
  <1>1. \A q \in Ops \ {o} : op'[q].pc = op[q].pc BY DEF Alone, Same
  <1>2. /\ Nobody(Holding \cup {"stopped"})' => Nobody(Holding \cup {"stopped"})
        /\ Nobody(Registered \cup {"retire_start", "start_failed", "stopped"})' =>
           Nobody(Registered \cup {"retire_start", "start_failed", "stopped"})
    BY <1>1 DEF Nobody, Quiet, Holding
  <1>3. Nobody(Holding)' = Nobody(Holding)
    <2>1. Nobody(Holding)' => Nobody(Holding) BY <1>1 DEF Nobody, Quiet
    <2>2. Nobody(Holding) => Nobody(Holding)' BY <1>1 DEF Nobody, Quiet
    <2>3. Nobody(Holding) \in BOOLEAN /\ Nobody(Holding)' \in BOOLEAN BY DEF Nobody
    <2> QED BY <2>1, <2>2, <2>3
  <1> QED BY <1>2, <1>3, UndisturbedLaunches DEF Quiet

(* Where nothing is known of the worker.                                   *)
Calm == Labels \ (Starting \cup Using \cup BeforeBarrier \cup
           {"stopped", "replace", "prepare_resolve", "preparing", "settle", "finish_restart",
            "retire_worker", "fail_restart"})

LEMMA CalmCall ==
    ASSUME NEW o \in Ops, SameWorker, op[o].pc \notin Holding \cup {"start_failed", "stopped"},
           op'[o].pc \in Calm, NotYetAdmitted(o)'
    PROVE  Quiet(o) /\ CallInv(o)'
  <1> USE DEF Calm, Starting, Launching, Holding, Registered, Using, BeforeBarrier, Busy
  <1>1. Quiet(o) BY DEF Quiet
  <1>2. HasLaunch(o)' /\ MayLaunch(o)' /\ UsesWorker(o)' /\ Stops(o)' /\ IsCurrent(o)'
    BY DEF HasLaunch, MayLaunch, UsesWorker, Stops, IsCurrent
  <1>3. BeforeReplacement(o)' /\ BehindReplacement(o)'
    BY DEF BeforeReplacement, BehindReplacement, BehindBarrier, Settling
  <1> QED BY <1>1, <1>2, <1>3 DEF CallInv

(* Input of a launch leaves what matters of the launches alone.            *)
LEMMA StdinOnly ==
    ASSUME ProcessTypes, NEW l \in Launches, NEW S, launch' = [launch EXCEPT ![l].stdin = S]
    PROVE  \A m \in Launches : SameLaunch(m)
  BY DEF ProcessTypes, LaunchRecord, SameLaunch

LEMMA SameLaunches == ASSUME launch' = launch PROVE \A m \in Launches : SameLaunch(m)
  BY DEF SameLaunch

LEMMA WorkerUntouched ==
    ASSUME UNCHANGED <<state, generation, stop_handle, worker, running, launched, launch>>
    PROVE  SameWorker
  BY DEF SameWorker, SameLaunch

LEMMA QueueStartupStdinSame ==
    ASSUME TypeOK, NEW o \in Ops, NEW stdin \in BOOLEAN, QueueStartupStdin(o, stdin)
    PROVE  \A l \in Launches : SameLaunch(l)
  <1> DEFINE written == launch[stop_handle].stdin \cup {op[o].gen}
             direct == stdin /\ ensure_startup(o) /\ stop_handle # NoLaunch
  <1>1. launch' = IF direct /\ launch[stop_handle].live
                  THEN [launch EXCEPT ![stop_handle].stdin = written] ELSE launch
    BY Zenon DEF QueueStartupStdin
  <1> HIDE DEF written
  <1>2. direct => stop_handle \in Launches BY DEF TypeOK, LifecycleTypes
  <1> HIDE DEF direct
  <1> QED BY <1>1, <1>2, StdinOnly, SameLaunches DEF TypeOK

USE DEF TypeOK, OpTypes, OpRecord, SameLaunch, At, Goto, process, lifecycle,
    Labels, Starting, Launching, Registered, Using, BeforeBarrier, Current,
    Skeleton, ModeFits, ensure_generation, ensure_startup,
    ensure_ordinary_generation, ensure_controlled_generation

LEMMA StartEvaluationQuiet ==
    ASSUME TypeOK, TypeOK', NEW o \in Ops, Skeleton(o), CallInv(o), LaunchInv, StartEvaluation(o)
    PROVE  Quiet(o) /\ CallInv(o)'
  <1>1. op[o] \in OpRecord /\ op'[o] \in OpRecord OBVIOUS
  <1>2. SameWorker
    BY <1>1 DEF SameWorker, DropStartup, ReserveStartup, ReleaseAdmission, Unlock,
       Refuse, PublishEvaluation, StartEvaluation
  <1>3. op[o].pc \notin Holding \cup {"start_failed", "stopped"} /\ op'[o].pc \in Calm
    BY <1>1 DEF Calm, Holding, DropStartup, ReserveStartup, ReleaseAdmission, Unlock,
       Refuse, PublishEvaluation, StartEvaluation
  <1>4. NotYetAdmitted(o)'
    BY <1>1 DEF CallInv, NotYetAdmitted, DropStartup, ReserveStartup, ReleaseAdmission,
       Unlock, Refuse, PublishEvaluation, StartEvaluation
  <1> QED BY <1>2, <1>3, <1>4, CalmCall

LEMMA EvaluateBlockingQuiet ==
    ASSUME TypeOK, TypeOK', NEW o \in Ops, Skeleton(o), CallInv(o), LaunchInv, EvaluateBlocking(o)
    PROVE  Quiet(o) /\ CallInv(o)'
  <1>1. op[o] \in OpRecord /\ op'[o] \in OpRecord OBVIOUS
  <1>2. SameWorker
    BY <1>1 DEF SameWorker, DropStartup, CompleteCell, EvaluateBlocking, StartupAwaited
  <1>3. op[o].pc \notin Holding \cup {"start_failed", "stopped"} /\ op'[o].pc \in Calm
    <2>1. op[o].pc = "evaluate" BY DEF EvaluateBlocking, StartupAwaited
    <2>2. op'[o].pc \in {"done", "lock"} BY <1>1 DEF EvaluateBlocking, CompleteCell
    <2> QED BY <2>1, <2>2 DEF Calm, Holding
  <1>4. NotYetAdmitted(o)'
    BY <1>1 DEF CallInv, NotYetAdmitted, DropStartup, CompleteCell, EvaluateBlocking,
       StartupAwaited
  <1> QED BY <1>2, <1>3, <1>4, CalmCall

LEMMA EvaluateReturnsQuiet ==
    ASSUME TypeOK, TypeOK', NEW o \in Ops, Skeleton(o), CallInv(o), LaunchInv, EvaluateReturns(o)
    PROVE  Quiet(o) /\ CallInv(o)'
  <1>1. op[o] \in OpRecord /\ op'[o] \in OpRecord OBVIOUS
  <1>2. SameWorker
    BY <1>1 DEF SameWorker, DropStartup, EvaluateReturns
  <1>3. op[o].pc \notin Holding \cup {"start_failed", "stopped"} /\ op'[o].pc \in Calm
    BY <1>1 DEF Calm, Holding, DropStartup, EvaluateReturns
  <1>4. NotYetAdmitted(o)'
    BY <1>1 DEF CallInv, NotYetAdmitted, DropStartup, EvaluateReturns
  <1> QED BY <1>2, <1>3, <1>4, CalmCall

LEMMA StartPollQuiet ==
    ASSUME TypeOK, TypeOK', NEW o \in Ops, Skeleton(o), CallInv(o), LaunchInv, StartPoll(o)
    PROVE  Quiet(o) /\ CallInv(o)'
  <1>1. op[o] \in OpRecord /\ op'[o] \in OpRecord OBVIOUS
  <1>2. SameWorker
    <2>1. UNCHANGED <<state, generation, stop_handle, worker, running, launched>>
      BY DEF StartPoll, Refuse
    <2>2. \A l \in Launches : SameLaunch(l)
      <3>1. CASE \E stdin \in BOOLEAN : QueueStartupStdin(o, stdin)
        BY <3>1, QueueStartupStdinSame
      <3>2. CASE ~\E stdin \in BOOLEAN : QueueStartupStdin(o, stdin)
        <4>1. launch' = launch BY <3>2 DEF StartPoll, Refuse
        <4> QED BY <4>1, SameLaunches
      <3> QED BY <3>1, <3>2
    <2> QED BY <2>1, <2>2 DEF SameWorker
  <1>3. op[o].pc \notin Holding \cup {"start_failed", "stopped"} /\ op'[o].pc \in Calm
    <2>1. op[o].pc = "admitted" BY DEF StartPoll
    <2>2. CASE Refuse(o) BY <1>1, <2>1, <2>2 DEF Refuse, Calm, Holding
    <2>3. CASE ~Refuse(o)
      <3>1. \E label \in {"lock_stdin", "poll", "return"}, mode \in {"Stdin", "Poll"} :
               op' = [op EXCEPT ![o].pc = label, ![o].mode = mode]
        BY <2>3, Zenon DEF StartPoll
      <3>2. op'[o].pc \in {"lock_stdin", "poll", "return"} BY <1>1, <3>1
      <3> QED BY <2>1, <3>2 DEF Calm, Holding
    <2> QED BY <2>2, <2>3
  <1>4. NotYetAdmitted(o)'
    BY <1>1 DEF CallInv, NotYetAdmitted, DropStartup, ReleaseAdmission, Unlock, Refuse,
       QueueStartupStdin, StartPoll
  <1> QED BY <1>2, <1>3, <1>4, CalmCall

LEMMA TakeIdleResponseQuiet ==
    ASSUME TypeOK, TypeOK', NEW o \in Ops, Skeleton(o), CallInv(o), LaunchInv, TakeIdleResponse(o)
    PROVE  Quiet(o) /\ CallInv(o)'
  <1>1. op[o] \in OpRecord /\ op'[o] \in OpRecord OBVIOUS
  <1>2. SameWorker BY WorkerUntouched DEF TakeIdleResponse
  <1>3. op[o].pc \notin Holding \cup {"start_failed", "stopped"} /\ op'[o].pc \in Calm
    <2>1. op[o].pc = "poll" /\ op'[o].pc \in {"lock_poll", "return"}
      BY ONLY op \in [Ops -> OpRecord], TakeIdleResponse(o), o \in Ops DEF TakeIdleResponse
    <2> QED BY ONLY <2>1 DEF Calm, Holding
  <1>4. NotYetAdmitted(o)'
    <2>1. /\ op[o].pc = "poll" /\ op'[o].gen = op[o].gen
          /\ UNCHANGED <<state, generation, controlled_send>>
      BY ONLY op \in [Ops -> OpRecord], TakeIdleResponse(o), o \in Ops DEF TakeIdleResponse
    <2>2. ~(state = "Restarting" /\ Current(o) /\ controlled_send # o)
      BY ONLY CallInv(o), <2>1 DEF CallInv, NotYetAdmitted
    <2> QED BY ONLY <2>1, <2>2 DEF NotYetAdmitted
  <1> QED BY <1>2, <1>3, <1>4, CalmCall

LEMMA ReturnQuiet ==
    ASSUME TypeOK, TypeOK', NEW o \in Ops, Skeleton(o), CallInv(o), LaunchInv, Return(o)
    PROVE  Quiet(o) /\ CallInv(o)'
  <1>1. op[o] \in OpRecord /\ op'[o] \in OpRecord OBVIOUS
  <1>2. SameWorker
    BY <1>1 DEF SameWorker, DropStartup, ReleaseAdmission, Unlock, Refuse, Return
  <1>3. op[o].pc \notin Holding \cup {"start_failed", "stopped"} /\ op'[o].pc \in Calm
    BY <1>1 DEF Calm, Holding, DropStartup, ReleaseAdmission, Unlock, Refuse, Return
  <1>4. NotYetAdmitted(o)'
    BY <1>1 DEF CallInv, NotYetAdmitted, DropStartup, ReleaseAdmission, Unlock, Refuse,
       Return
  <1> QED BY <1>2, <1>3, <1>4, CalmCall

LEMMA PrelaunchQuiet ==
    ASSUME TypeOK, TypeOK', NEW o \in Ops, Skeleton(o), CallInv(o), LaunchInv, Prelaunch(o)
    PROVE  Quiet(o) /\ CallInv(o)'
  <1>1. op[o] \in OpRecord /\ op'[o] \in OpRecord OBVIOUS
  <1>2. SameWorker
    BY <1>1 DEF SameWorker, Prelaunch
  <1>3. op[o].pc \notin Holding \cup {"start_failed", "stopped"} /\ op'[o].pc \in Calm
    BY <1>1 DEF Calm, Holding, Prelaunch
  <1>4. NotYetAdmitted(o)'
    BY <1>1 DEF CallInv, NotYetAdmitted, Prelaunch
  <1> QED BY <1>2, <1>3, <1>4, CalmCall

LEMMA ReservePreparationQuiet ==
    ASSUME TypeOK, TypeOK', NEW o \in Ops, Skeleton(o), CallInv(o), LaunchInv, ReservePreparation(o)
    PROVE  Quiet(o) /\ CallInv(o)'
  <1>1. op[o] \in OpRecord /\ op'[o] \in OpRecord OBVIOUS
  <1>2. SameWorker
    BY <1>1 DEF SameWorker, ReservePreparation
  <1>3. op[o].pc \notin Holding \cup {"start_failed", "stopped"} /\ op'[o].pc \in Calm
    BY <1>1 DEF Calm, Holding, ReservePreparation
  <1>4. NotYetAdmitted(o)'
    BY <1>1 DEF CallInv, NotYetAdmitted, ReservePreparation
  <1> QED BY <1>2, <1>3, <1>4, CalmCall

LEMMA PrelaunchReturnsQuiet ==
    ASSUME TypeOK, TypeOK', NEW o \in Ops, Skeleton(o), CallInv(o), LaunchInv, PrelaunchReturns(o)
    PROVE  Quiet(o) /\ CallInv(o)'
  <1>1. op[o] \in OpRecord /\ op'[o] \in OpRecord OBVIOUS
  <1>2. SameWorker
    BY <1>1 DEF SameWorker, DropStartup, PrelaunchReturns
  <1>3. op[o].pc \notin Holding \cup {"start_failed", "stopped"} /\ op'[o].pc \in Calm
    BY <1>1 DEF Calm, Holding, DropStartup, PrelaunchReturns
  <1>4. NotYetAdmitted(o)'
    BY <1>1 DEF CallInv, NotYetAdmitted, DropStartup, PrelaunchReturns
  <1> QED BY <1>2, <1>3, <1>4, CalmCall

LEMMA FinishStartupQuiet ==
    ASSUME TypeOK, TypeOK', NEW o \in Ops, Skeleton(o), CallInv(o), LaunchInv, FinishStartup(o)
    PROVE  Quiet(o) /\ CallInv(o)'
  <1>1. op[o] \in OpRecord /\ op'[o] \in OpRecord OBVIOUS
  <1>2. SameWorker
    BY <1>1 DEF SameWorker, FinishStartup
  <1>3. op[o].pc \notin Holding \cup {"start_failed", "stopped"} /\ op'[o].pc \in Calm
    BY <1>1 DEF Calm, Holding, FinishStartup
  <1>4. NotYetAdmitted(o)'
    BY <1>1 DEF CallInv, NotYetAdmitted, FinishStartup
  <1> QED BY <1>2, <1>3, <1>4, CalmCall

LEMMA AdmitPreparationQuiet ==
    ASSUME TypeOK, TypeOK', NEW o \in Ops, Skeleton(o), CallInv(o), LaunchInv, AdmitPreparation(o)
    PROVE  Quiet(o) /\ CallInv(o)'
  <1>1. op[o] \in OpRecord /\ op'[o] \in OpRecord OBVIOUS
  <1>2. SameWorker
    BY <1>1 DEF SameWorker, DropStartup, ReleaseAdmission, Unlock, Refuse,
       AdmitPreparation
  <1>3. op[o].pc \notin Holding \cup {"start_failed", "stopped"} /\ op'[o].pc \in Calm
    BY <1>1 DEF Calm, Holding, DropStartup, ReleaseAdmission, Unlock, Refuse,
       AdmitPreparation
  <1>4. NotYetAdmitted(o)'
    BY <1>1 DEF CallInv, NotYetAdmitted, DropStartup, ReleaseAdmission, Unlock, Refuse,
       AdmitPreparation
  <1> QED BY <1>2, <1>3, <1>4, CalmCall

LEMMA CheckPreparationQuiet ==
    ASSUME TypeOK, TypeOK', NEW o \in Ops, Skeleton(o), CallInv(o), LaunchInv, CheckPreparation(o)
    PROVE  Quiet(o) /\ CallInv(o)'
  <1>1. op[o] \in OpRecord /\ op'[o] \in OpRecord OBVIOUS
  <1>2. SameWorker
    BY <1>1 DEF SameWorker, CheckPreparation
  <1>3. op[o].pc \notin Holding \cup {"start_failed", "stopped"} /\ op'[o].pc \in Calm
    BY <1>1 DEF Calm, Holding, CheckPreparation
  <1>4. NotYetAdmitted(o)'
    BY <1>1 DEF CallInv, NotYetAdmitted, CheckPreparation
  <1> QED BY <1>2, <1>3, <1>4, CalmCall

LEMMA CommitEnvironmentQuiet ==
    ASSUME TypeOK, TypeOK', NEW o \in Ops, Skeleton(o), CallInv(o), LaunchInv, CommitEnvironment(o)
    PROVE  Quiet(o) /\ CallInv(o)'
  <1>1. op[o] \in OpRecord /\ op'[o] \in OpRecord OBVIOUS
  <1>2. SameWorker
    BY <1>1 DEF SameWorker, Holds, CommitEnvironment
  <1>3. op[o].pc \notin Holding \cup {"start_failed", "stopped"} /\ op'[o].pc \in Calm
    BY <1>1 DEF Calm, Holding, Holds, CommitEnvironment
  <1>4. NotYetAdmitted(o)'
    BY <1>1 DEF CallInv, NotYetAdmitted, Holds, CommitEnvironment
  <1> QED BY <1>2, <1>3, <1>4, CalmCall

LEMMA StartPreparedEvaluationQuiet ==
    ASSUME TypeOK, TypeOK', NEW o \in Ops, Skeleton(o), CallInv(o), LaunchInv, StartPreparedEvaluation(o)
    PROVE  Quiet(o) /\ CallInv(o)'
  <1>1. op[o] \in OpRecord /\ op'[o] \in OpRecord OBVIOUS
  <1>2. SameWorker
    BY <1>1 DEF SameWorker, DropStartup, ReserveStartup, ReleaseAdmission, Unlock,
       Refuse, PublishEvaluation, StartPreparedEvaluation
  <1>3. op[o].pc \notin Holding \cup {"start_failed", "stopped"} /\ op'[o].pc \in Calm
    BY <1>1 DEF Calm, Holding, DropStartup, ReserveStartup, ReleaseAdmission, Unlock,
       Refuse, PublishEvaluation, StartPreparedEvaluation
  <1>4. NotYetAdmitted(o)'
    BY <1>1 DEF CallInv, NotYetAdmitted, DropStartup, ReserveStartup, ReleaseAdmission,
       Unlock, Refuse, PublishEvaluation, StartPreparedEvaluation
  <1> QED BY <1>2, <1>3, <1>4, CalmCall

LEMMA ResolveRestartQuiet ==
    ASSUME TypeOK, TypeOK', NEW o \in Ops, Skeleton(o), CallInv(o), LaunchInv, ResolveRestart(o)
    PROVE  Quiet(o) /\ CallInv(o)'
  <1>1. op[o] \in OpRecord /\ op'[o] \in OpRecord OBVIOUS
  <1>2. SameWorker
    BY <1>1 DEF SameWorker, RegisterResolver, ResolveRestart
  <1>3. op[o].pc \notin Holding \cup {"start_failed", "stopped"} /\ op'[o].pc \in Calm
    BY <1>1 DEF Calm, Holding, RegisterResolver, ResolveRestart
  <1>4. NotYetAdmitted(o)'
    BY <1>1 DEF CallInv, NotYetAdmitted, RegisterResolver, ResolveRestart
  <1> QED BY <1>2, <1>3, <1>4, CalmCall

LEMMA AdmitControlledOperationQuiet ==
    ASSUME TypeOK, TypeOK', NEW o \in Ops, Skeleton(o), CallInv(o), LaunchInv, AdmitControlledOperation(o)
    PROVE  Quiet(o) /\ CallInv(o)'
  <1>1. op[o] \in OpRecord /\ op'[o] \in OpRecord OBVIOUS
  <1>2. SameWorker
    BY <1>1 DEF SameWorker, WriteAdmission, AdmitControlledOperation
  <1>3. op[o].pc \notin Holding \cup {"start_failed", "stopped"} /\ op'[o].pc \in Calm
    BY <1>1 DEF Calm, Holding, WriteAdmission, AdmitControlledOperation
  <1>4. NotYetAdmitted(o)'
    BY <1>1 DEF CallInv, NotYetAdmitted, WriteAdmission, AdmitControlledOperation
  <1> QED BY <1>2, <1>3, <1>4, CalmCall

LEMMA FollowUpQuiet ==
    ASSUME TypeOK, TypeOK', NEW o \in Ops, Skeleton(o), CallInv(o), LaunchInv, FollowUp(o)
    PROVE  Quiet(o) /\ CallInv(o)'
  <1>1. op[o] \in OpRecord /\ op'[o] \in OpRecord OBVIOUS
  <1>2. SameWorker
    BY <1>1 DEF SameWorker, DropStartup, ReserveStartup, ReleaseAdmission, Unlock,
       Refuse, PublishEvaluation, FollowUp
  <1>3. op[o].pc \notin Holding \cup {"start_failed", "stopped"} /\ op'[o].pc \in Calm
    BY <1>1 DEF Calm, Holding, DropStartup, ReserveStartup, ReleaseAdmission, Unlock,
       Refuse, PublishEvaluation, FollowUp
  <1>4. NotYetAdmitted(o)'
    BY <1>1 DEF CallInv, NotYetAdmitted, DropStartup, ReserveStartup, ReleaseAdmission,
       Unlock, Refuse, PublishEvaluation, FollowUp
  <1> QED BY <1>2, <1>3, <1>4, CalmCall

LEMMA InterruptStdinQuiet ==
    ASSUME TypeOK, TypeOK', NEW o \in Ops, Skeleton(o), CallInv(o), LaunchInv, InterruptStdin(o)
    PROVE  Quiet(o) /\ CallInv(o)'
  <1>1. op[o] \in OpRecord /\ op'[o] \in OpRecord OBVIOUS
  <1>2. SameWorker
    BY <1>1 DEF SameWorker, QueueStartupStdin, InterruptStdin
  <1>3. op[o].pc \notin Holding \cup {"start_failed", "stopped"} /\ op'[o].pc \in Calm
    BY <1>1 DEF Calm, Holding, QueueStartupStdin, InterruptStdin
  <1>4. NotYetAdmitted(o)'
    BY <1>1 DEF CallInv, NotYetAdmitted, QueueStartupStdin, InterruptStdin
  <1> QED BY <1>2, <1>3, <1>4, CalmCall

LEMMA RetryControlledSendQuiet ==
    ASSUME TypeOK, TypeOK', NEW o \in Ops, Skeleton(o), CallInv(o), LaunchInv, RetryControlledSend(o)
    PROVE  Quiet(o) /\ CallInv(o)'
  <1>1. op[o] \in OpRecord /\ op'[o] \in OpRecord OBVIOUS
  <1>2. SameWorker
    BY <1>1 DEF SameWorker, RetryControlledSend
  <1>3. op[o].pc \notin Holding \cup {"start_failed", "stopped"} /\ op'[o].pc \in Calm
    BY <1>1 DEF Calm, Holding, RetryControlledSend
  <1>4. NotYetAdmitted(o)'
    BY <1>1 DEF CallInv, NotYetAdmitted, RetryControlledSend
  <1> QED BY <1>2, <1>3, <1>4, CalmCall

LEMMA SubmitControlledStdinQuiet ==
    ASSUME TypeOK, TypeOK', NEW o \in Ops, Skeleton(o), CallInv(o), LaunchInv, SubmitControlledStdin(o)
    PROVE  Quiet(o) /\ CallInv(o)'
  <1>1. op[o] \in OpRecord /\ op'[o] \in OpRecord OBVIOUS
  <1>2. SameWorker
    <2>1. UNCHANGED <<state, generation, stop_handle, worker, running, launched>>
      BY DEF SubmitControlledStdin
    <2>2. \A l \in Launches : SameLaunch(l)
      <3> DEFINE sel == op[o].selected
                 written == IF launch[sel].live THEN launch[sel].stdin \cup {op[o].gen}
                                                ELSE launch[sel].stdin
      <3>1. \/ launch' = launch
            \/ sel # NoLaunch /\ launch' = [launch EXCEPT ![sel].stdin = written]
        BY Zenon DEF SubmitControlledStdin
      <3>2. sel \in Launches \cup {NoLaunch} BY OpFields
      <3> HIDE DEF written, sel
      <3> QED BY <3>1, <3>2, StdinOnly, SameLaunches
    <2> QED BY <2>1, <2>2 DEF SameWorker
  <1>3. op[o].pc \notin Holding \cup {"start_failed", "stopped"} /\ op'[o].pc \in Calm
    <2>1. op[o].pc = "interrupted" BY DEF SubmitControlledStdin
    <2>2. op \in [Ops -> OpRecord] /\ op' \in [Ops -> OpRecord] OBVIOUS
    <2>3. op'[o].pc \in {"grace", "return", "lock_stdin"}
      BY ONLY <2>2, SubmitControlledStdinMovesTo, o \in Ops, SubmitControlledStdin(o)
    <2> QED BY <2>1, <2>3 DEF Calm, Holding
  <1>4. NotYetAdmitted(o)'
    BY <1>1 DEF CallInv, NotYetAdmitted, SubmitControlledStdin
  <1> QED BY <1>2, <1>3, <1>4, CalmCall

LEMMA EnsureFollowupConnectionQuiet ==
    ASSUME TypeOK, TypeOK', NEW o \in Ops, Skeleton(o), CallInv(o), LaunchInv, EnsureFollowupConnection(o)
    PROVE  Quiet(o) /\ CallInv(o)'
  <1>1. op[o] \in OpRecord /\ op'[o] \in OpRecord OBVIOUS
  <1>2. SameWorker
    BY <1>1 DEF SameWorker, EnsureFollowupConnection
  <1>3. op[o].pc \notin Holding \cup {"start_failed", "stopped"} /\ op'[o].pc \in Calm
    BY <1>1 DEF Calm, Holding, EnsureFollowupConnection
  <1>4. NotYetAdmitted(o)'
    BY <1>1 DEF CallInv, NotYetAdmitted, EnsureFollowupConnection
  <1> QED BY <1>2, <1>3, <1>4, CalmCall

LEMMA ContinueAfterInterruptQuiet ==
    ASSUME TypeOK, TypeOK', NEW o \in Ops, Skeleton(o), CallInv(o), LaunchInv, ContinueAfterInterrupt(o)
    PROVE  Quiet(o) /\ CallInv(o)'
  <1>1. op[o] \in OpRecord /\ op'[o] \in OpRecord OBVIOUS
  <1>2. SameWorker
    BY <1>1 DEF SameWorker, DropStartup, ReleaseAdmission, WriteAdmission, Unlock,
       Refuse, ContinueAfterInterrupt
  <1>3. op[o].pc \notin Holding \cup {"start_failed", "stopped"} /\ op'[o].pc \in Calm
    BY <1>1 DEF Calm, Holding, DropStartup, ReleaseAdmission, WriteAdmission, Unlock,
       Refuse, ContinueAfterInterrupt
  <1>4. NotYetAdmitted(o)'
    BY <1>1 DEF CallInv, NotYetAdmitted, DropStartup, ReleaseAdmission, WriteAdmission,
       Unlock, Refuse, ContinueAfterInterrupt
  <1> QED BY <1>2, <1>3, <1>4, CalmCall

LEMMA ContinueWithCellQuiet ==
    ASSUME TypeOK, TypeOK', NEW o \in Ops, Skeleton(o), CallInv(o), LaunchInv, ContinueWithCell(o)
    PROVE  Quiet(o) /\ CallInv(o)'
  <1>1. op[o] \in OpRecord /\ op'[o] \in OpRecord OBVIOUS
  <1>2. SameWorker
    BY <1>1 DEF SameWorker, DropStartup, ReserveStartup, ReleaseAdmission, Unlock,
       Refuse, PublishEvaluation, ContinueWithCell
  <1>3. op[o].pc \notin Holding \cup {"start_failed", "stopped"} /\ op'[o].pc \in Calm
    BY <1>1 DEF Calm, Holding, DropStartup, ReserveStartup, ReleaseAdmission, Unlock,
       Refuse, PublishEvaluation, ContinueWithCell
  <1>4. NotYetAdmitted(o)'
    BY <1>1 DEF CallInv, NotYetAdmitted, DropStartup, ReserveStartup, ReleaseAdmission,
       Unlock, Refuse, PublishEvaluation, ContinueWithCell
  <1> QED BY <1>2, <1>3, <1>4, CalmCall

LEMMA RestartResolvedQuiet ==
    ASSUME TypeOK, TypeOK', NEW o \in Ops, Skeleton(o), CallInv(o), LaunchInv, RestartResolved(o)
    PROVE  Quiet(o) /\ CallInv(o)'
  <1>1. op[o] \in OpRecord /\ op'[o] \in OpRecord OBVIOUS
  <1>2. SameWorker
    BY <1>1 DEF SameWorker, ClearResolver, RestartResolved
  <1>3. op[o].pc \notin Holding \cup {"start_failed", "stopped"} /\ op'[o].pc \in Calm
    BY <1>1 DEF Calm, Holding, ClearResolver, RestartResolved
  <1>4. NotYetAdmitted(o)'
    BY <1>1 DEF CallInv, NotYetAdmitted, ClearResolver, RestartResolved
  <1> QED BY <1>2, <1>3, <1>4, CalmCall

LEMMA AdmitQuiet ==
    ASSUME TypeOK, TypeOK', NEW o \in Ops, Skeleton(o), CallInv(o), LaunchInv, Admit(o)
    PROVE  Quiet(o) /\ CallInv(o)'
  <1>1. op[o] \in OpRecord /\ op'[o] \in OpRecord OBVIOUS
  <1>2. SameWorker
    BY <1>1 DEF SameWorker, ReadAdmission, Admit
  <1>3. op[o].pc \notin Holding \cup {"start_failed", "stopped"} /\ op'[o].pc \in Calm
    BY <1>1 DEF Calm, Holding, ReadAdmission, Admit
  <1>4. NotYetAdmitted(o)'
    BY <1>1 DEF CallInv, NotYetAdmitted, ReadAdmission, Admit
  <1> QED BY <1>2, <1>3, <1>4, CalmCall

LEMMA BeginControlledSendQuiet ==
    ASSUME TypeOK, TypeOK', NEW o \in Ops, Skeleton(o), CallInv(o), LaunchInv, BeginControlledSend(o)
    PROVE  Quiet(o) /\ CallInv(o)'
  <1>1. op[o] \in OpRecord /\ op'[o] \in OpRecord OBVIOUS
  <1>2. SameWorker
    BY <1>1 DEF SameWorker, BeginControlledSend
  <1>3. op[o].pc \notin Holding \cup {"start_failed", "stopped"} /\ op'[o].pc \in Calm
    BY <1>1 DEF Calm, Holding, BeginControlledSend
  <1>4. NotYetAdmitted(o)'
    BY <1>1 DEF CallInv, NotYetAdmitted, BeginControlledSend
  <1> QED BY <1>2, <1>3, <1>4, CalmCall

LEMMA CellCompletesQuiet ==
    ASSUME TypeOK, TypeOK', NEW o \in Ops, Skeleton(o), CallInv(o), LaunchInv, CellCompletes(o)
    PROVE  Quiet(o) /\ CallInv(o)'
  <1>1. op[o] \in OpRecord /\ op'[o] \in OpRecord OBVIOUS
  <1>2. SameWorker BY WorkerUntouched DEF CellCompletes
  <1>3. op[o].pc \notin Holding \cup {"start_failed", "stopped"} /\ op'[o].pc \in Calm
    <2>1. op[o].pc = "running" /\ op'[o].pc = "completed"
      BY ONLY op \in [Ops -> OpRecord], CellCompletes(o), o \in Ops DEF CompleteCell,
         CellCompletes
    <2> QED BY ONLY <2>1 DEF Calm, Holding
  <1>4. NotYetAdmitted(o)'
    <2>1. /\ op[o].pc = "running" /\ op'[o].gen = op[o].gen
          /\ UNCHANGED <<state, generation, controlled_send>>
      BY ONLY op \in [Ops -> OpRecord], CellCompletes(o), o \in Ops DEF CompleteCell, CellCompletes
    <2>2. ~(state = "Restarting" /\ Current(o) /\ controlled_send # o)
      BY ONLY CallInv(o), <2>1 DEF CallInv, NotYetAdmitted
    <2> QED BY ONLY <2>1, <2>2 DEF NotYetAdmitted
  <1> QED BY <1>2, <1>3, <1>4, CalmCall

LEMMA InterruptBlockingQuiet ==
    ASSUME TypeOK, TypeOK', NEW o \in Ops, Skeleton(o), CallInv(o), LaunchInv, InterruptBlocking(o)
    PROVE  Quiet(o) /\ CallInv(o)'
  <1>1. /\ op[o].pc = "interrupt"
        /\ \E bootstrapping \in BOOLEAN, next \in {"interrupted"} :
              /\ SelectInterruptTarget(o, TRUE, bootstrapping, next)
              /\ next = "startup_stdin" => state = "Ready"
    BY Zenon DEF InterruptBlocking
  <1>2. PICK bootstrapping \in BOOLEAN, next \in {"interrupted"} :
           /\ SelectInterruptTarget(o, TRUE, bootstrapping, next)
           /\ next = "startup_stdin" => state = "Ready"
    BY <1>1
  <1>3. op'[o].pc \in {next, "return"} BY <1>2, SelectInterruptTargetMoves
  <1>4. UNCHANGED controlled_send /\ UNCHANGED process /\ UNCHANGED <<state, generation, stop_handle>>
    BY <1>2 DEF SelectInterruptTarget
  <1>5. SameWorker BY <1>4, SameLaunches DEF SameWorker
  <1>6. op[o].pc \notin Holding \cup {"start_failed", "stopped"} /\ op'[o].pc \in Calm
    BY <1>1, <1>3 DEF Calm, Holding
  <1>7. NotYetAdmitted(o)'
    BY <1>1, <1>2, <1>3, <1>4 DEF NotYetAdmitted, OwnsAdmission, Controlling
  <1> QED BY <1>5, <1>6, <1>7, CalmCall

LEMMA InterruptStandaloneQuiet ==
    ASSUME TypeOK, TypeOK', NEW o \in Ops, Skeleton(o), CallInv(o), LaunchInv, InterruptStandalone(o)
    PROVE  Quiet(o) /\ CallInv(o)'
  <1>1. /\ op[o].pc = "idle"
        /\ \E bootstrapping \in BOOLEAN, next \in {"standalone"} :
              /\ SelectInterruptTarget(o, FALSE, bootstrapping, next)
              /\ next = "startup_stdin" => state = "Ready"
    BY Zenon DEF InterruptStandalone
  <1>2. PICK bootstrapping \in BOOLEAN, next \in {"standalone"} :
           /\ SelectInterruptTarget(o, FALSE, bootstrapping, next)
           /\ next = "startup_stdin" => state = "Ready"
    BY <1>1
  <1>3. op'[o].pc \in {next, "return"} BY <1>2, SelectInterruptTargetMoves
  <1>4. UNCHANGED controlled_send /\ UNCHANGED process /\ UNCHANGED <<state, generation, stop_handle>>
    BY <1>2 DEF SelectInterruptTarget
  <1>5. SameWorker BY <1>4, SameLaunches DEF SameWorker
  <1>6. op[o].pc \notin Holding \cup {"start_failed", "stopped"} /\ op'[o].pc \in Calm
    BY <1>1, <1>3 DEF Calm, Holding
  <1>7. NotYetAdmitted(o)'
    BY <1>1, <1>2, <1>3, <1>4 DEF NotYetAdmitted, OwnsAdmission, Controlling
  <1> QED BY <1>5, <1>6, <1>7, CalmCall

LEMMA InterruptStartupQuiet ==
    ASSUME TypeOK, TypeOK', NEW o \in Ops, Skeleton(o), CallInv(o), LaunchInv, InterruptStartup(o)
    PROVE  Quiet(o) /\ CallInv(o)'
  <1>1. /\ op[o].pc = "idle"
        /\ \E bootstrapping \in BOOLEAN, next \in {"startup_stdin", "return"} :
              /\ SelectInterruptTarget(o, FALSE, bootstrapping, next)
              /\ next = "startup_stdin" => state = "Ready"
    BY Zenon DEF InterruptStartup
  <1>2. PICK bootstrapping \in BOOLEAN, next \in {"startup_stdin", "return"} :
           /\ SelectInterruptTarget(o, FALSE, bootstrapping, next)
           /\ next = "startup_stdin" => state = "Ready"
    BY <1>1
  <1>3. op'[o].pc \in {next, "return"} BY <1>2, SelectInterruptTargetMoves
  <1>4. UNCHANGED controlled_send /\ UNCHANGED process /\ UNCHANGED <<state, generation, stop_handle>>
    BY <1>2 DEF SelectInterruptTarget
  <1>5. SameWorker BY <1>4, SameLaunches DEF SameWorker
  <1>6. op[o].pc \notin Holding \cup {"start_failed", "stopped"} /\ op'[o].pc \in Calm
    BY <1>1, <1>3 DEF Calm, Holding
  <1>7. NotYetAdmitted(o)'
    BY <1>1, <1>2, <1>3, <1>4 DEF NotYetAdmitted, OwnsAdmission, Controlling
  <1> QED BY <1>5, <1>6, <1>7, CalmCall

(* Nobody else is where the worker mutex is needed.                        *)
LEMMA OwnerAlone ==
    ASSUME SkeletonInv, NEW o \in Ops, worker_lock \in {o, NoOp}
    PROVE  \A q \in Ops \ {o} : op[q].pc \notin Owning
  BY ConstantsAssumption DEF SkeletonInv, OwnsWorker

LEMMA LockForCellQuiet ==
    ASSUME TypeOK, TypeOK', NEW o \in Ops, Skeleton(o), CallInv(o), LaunchInv, LockForCell(o)
    PROVE  Quiet(o) /\ CallInv(o)'
  <1>1. op[o] \in OpRecord /\ op'[o] \in OpRecord OBVIOUS
  <1>2. SameWorker
    BY <1>1 DEF SameWorker, DropStartup, CompleteCell, LockForCell
  <1>3. LastCleared' = LastCleared BY <1>2, SameCleared
  <1>4. Quiet(o)
    BY <1>1, <1>2 DEF CallInv, NotYetAdmitted, Quiet, Holding, BehindBarrier, Busy,
       DropStartup, CompleteCell, LockForCell
  <1>5. /\ NotYetAdmitted(o)' /\ HasLaunch(o)' /\ MayLaunch(o)' /\ UsesWorker(o)'
        /\ Stops(o)' /\ IsCurrent(o)' /\ BeforeReplacement(o)' /\ BehindReplacement(o)'
    BY <1>1, <1>2, <1>3 DEF CallInv, NotYetAdmitted, SameWorker, Holding, BehindBarrier,
       Busy, DropStartup, CompleteCell, LockForCell, MayLaunch, UsesWorker, LaunchInv,
       RunningIsLast, Restarting, HasLaunch, ReadyIsCleared, Stops, IsCurrent,
       BeforeReplacement, BehindReplacement, Settling
  <1> QED BY <1>4, <1>5 DEF CallInv

LEMMA DispatchQuiet ==
    ASSUME TypeOK, TypeOK', NEW o \in Ops, Skeleton(o), CallInv(o), LaunchInv, Dispatch(o)
    PROVE  Quiet(o) /\ CallInv(o)'
  <1>1. op[o] \in OpRecord /\ op'[o] \in OpRecord OBVIOUS
  <1>2. SameWorker
    BY <1>1 DEF SameWorker, CompleteCell, Dispatch
  <1>3. LastCleared' = LastCleared BY <1>2, SameCleared
  <1>4. Quiet(o)
    BY <1>1, <1>2 DEF CallInv, NotYetAdmitted, Quiet, Holding, BehindBarrier, Busy,
       CompleteCell, Dispatch
  <1>5. /\ NotYetAdmitted(o)' /\ HasLaunch(o)' /\ MayLaunch(o)' /\ UsesWorker(o)'
        /\ Stops(o)' /\ IsCurrent(o)' /\ BeforeReplacement(o)' /\ BehindReplacement(o)'
    BY <1>1, <1>2, <1>3 DEF CallInv, NotYetAdmitted, SameWorker, Holding, BehindBarrier,
       Busy, CompleteCell, Dispatch, MayLaunch, UsesWorker, LaunchInv, RunningIsLast,
       Restarting, HasLaunch, ReadyIsCleared, Stops, IsCurrent, BeforeReplacement,
       BehindReplacement, Settling
  <1> QED BY <1>4, <1>5 DEF CallInv

LEMMA ReserveWorkerStartupQuiet ==
    ASSUME TypeOK, TypeOK', NEW o \in Ops, SkeletonInv, RestartIsOwned,
           CallInv(o), LaunchInv, ReserveWorkerStartup(o)
    PROVE  Quiet(o) /\ CallInv(o)'
  <1>1. op[o] \in OpRecord /\ op'[o] \in OpRecord OBVIOUS
  <1> USE DEF SkeletonInv
  <1>2. \A q \in Ops \ {o} : op[q].pc \notin Owning
    BY OwnerAlone DEF ReserveWorkerStartup, Holds
  <1>3. SameWorker
    BY <1>1 DEF SameWorker, ReserveStartup, AfterStart, Holds, ReleaseStarter,
       ReserveWorkerStartup
  <1>4. LastCleared' = LastCleared BY <1>3, SameCleared
  <1>5. Quiet(o)
    BY <1>1, <1>3 DEF CallInv, NotYetAdmitted, Quiet, Holding, BehindBarrier, Busy,
       ReserveStartup, AfterStart, Holds, ReleaseStarter, ReserveWorkerStartup
  <1>6. MayLaunch(o)'
    <2>1. op[o].pc = "reserve" BY DEF ReserveWorkerStartup, Holds
    <2>2. Nobody(Holding \cup {"stopped"})
      BY <1>2, <2>1 DEF Nobody, Holding, Owning
    <2>3. CASE worker = "Running"
      <3>1. op'[o].pc \notin Launching \cup {"start_failed", "replace", "stopped"}
        BY <1>1, <2>3 DEF ReserveWorkerStartup, AfterStart
      <3> QED BY <3>1 DEF MayLaunch
    <2>4. CASE worker # "Running" /\ ensure_startup(o)
      <3>1. LastCleared
        <4>1. CASE state = "Ready" BY <2>2, <2>4, <4>1 DEF LaunchInv, ReadyIsCleared
        <4>2. CASE state = "Restarting"
          <5>1. controlled_send = o
            BY <2>1, <2>4, <4>2 DEF CallInv, NotYetAdmitted
          <5>2. op[o].mode = "Restart" BY <4>2, <5>1 DEF RestartIsOwned
          <5> QED BY <2>1, <4>2, <5>2 DEF CallInv, BehindReplacement, Restarting,
             BehindBarrier, Holding
        <4> QED BY <2>4, <4>1, <4>2 DEF LifecycleTypes, States
      <3> QED BY <1>1, <1>3, <1>4, <2>4, <3>1 DEF SameWorker, MayLaunch
    <2>5. CASE worker # "Running" /\ ~ensure_startup(o)
      <3>1. op'[o].pc = "start_failed"
        BY <1>1, <2>5 DEF ReserveWorkerStartup
      <3> QED BY <1>3, <2>5, <3>1 DEF MayLaunch, SameWorker
    <2> QED BY <2>3, <2>4, <2>5
  <1>7. IsCurrent(o)'
    <2>1. op[o].pc = "reserve" BY DEF ReserveWorkerStartup, Holds
    <2>2. Nobody(Registered \cup {"retire_start", "start_failed", "stopped"})
      BY <1>2, <2>1 DEF Nobody, Holding, Owning
    <2>3. CASE worker = "Running"
      <3>1. op'[o].pc \notin Busy \cup {"start_failed"}
        BY <1>1, <2>3 DEF ReserveWorkerStartup, AfterStart, Busy, Holding
      <3> QED BY <3>1 DEF IsCurrent
    <2>4. CASE worker # "Running" /\ ensure_startup(o)
      <3>1. op'[o].pc = "environment" /\ op'[o].gen = op[o].gen
        BY <1>1, <2>4 DEF ReserveWorkerStartup
      <3> QED BY <1>3, <2>4, <3>1 DEF IsCurrent, SameWorker
    <2>5. CASE worker # "Running" /\ ~ensure_startup(o)
      <3>1. op'[o].pc = "start_failed"
        BY <1>1, <2>5 DEF ReserveWorkerStartup
      <3> QED BY <1>3, <2>2, <2>5, <3>1 DEF IsCurrent, SameWorker, Busy, Holding,
         LaunchInv, ReadyIsUnregistered
    <2> QED BY <2>3, <2>4, <2>5
  <1>8. /\ NotYetAdmitted(o)' /\ HasLaunch(o)' /\ UsesWorker(o)' /\ Stops(o)'
         /\ BeforeReplacement(o)' /\ BehindReplacement(o)'
    BY <1>1, <1>3, <1>4 DEF CallInv, NotYetAdmitted, SameWorker, Holding, BehindBarrier,
       Busy, ReserveStartup, AfterStart, Holds, ReleaseStarter, ReserveWorkerStartup,
       MayLaunch, UsesWorker, LaunchInv, RunningIsLast, Restarting, HasLaunch, Stops,
       BeforeReplacement, BehindReplacement, Settling
  <1> QED BY <1>5, <1>6, <1>7, <1>8 DEF CallInv

LEMMA LockEnvironmentQuiet ==
    ASSUME TypeOK, TypeOK', NEW o \in Ops, Skeleton(o), CallInv(o), LaunchInv, LockEnvironment(o)
    PROVE  Quiet(o) /\ CallInv(o)'
  <1>1. op[o] \in OpRecord /\ op'[o] \in OpRecord OBVIOUS
  <1>2. SameWorker
    BY <1>1 DEF SameWorker, Holds, LockEnvironment
  <1>3. LastCleared' = LastCleared BY <1>2, SameCleared
  <1>4. Quiet(o)
    BY <1>1, <1>2 DEF CallInv, NotYetAdmitted, Quiet, Holding, BehindBarrier, Busy,
       Holds, LockEnvironment
  <1>5. /\ NotYetAdmitted(o)' /\ HasLaunch(o)' /\ MayLaunch(o)' /\ UsesWorker(o)'
        /\ Stops(o)' /\ IsCurrent(o)' /\ BeforeReplacement(o)' /\ BehindReplacement(o)'
    BY <1>1, <1>2, <1>3 DEF CallInv, NotYetAdmitted, SameWorker, Holding, BehindBarrier,
       Busy, Holds, LockEnvironment, MayLaunch, UsesWorker, LaunchInv, RunningIsLast,
       Restarting, HasLaunch, ReadyIsCleared, Stops, IsCurrent, BeforeReplacement,
       BehindReplacement, Settling
  <1> QED BY <1>4, <1>5 DEF CallInv

LEMMA ResolvePrestartQuiet ==
    ASSUME TypeOK, TypeOK', NEW o \in Ops, Skeleton(o), CallInv(o), LaunchInv, ResolvePrestart(o)
    PROVE  Quiet(o) /\ CallInv(o)'
  <1>1. op[o] \in OpRecord /\ op'[o] \in OpRecord OBVIOUS
  <1>2. SameWorker
    BY <1>1 DEF SameWorker, Holds, RegisterResolver, ResolvePrestart
  <1>3. LastCleared' = LastCleared BY <1>2, SameCleared
  <1>4. Quiet(o)
    BY <1>1, <1>2 DEF CallInv, NotYetAdmitted, Quiet, Holding, BehindBarrier, Busy,
       Holds, RegisterResolver, ResolvePrestart
  <1>5. /\ NotYetAdmitted(o)' /\ HasLaunch(o)' /\ MayLaunch(o)' /\ UsesWorker(o)'
        /\ Stops(o)' /\ IsCurrent(o)' /\ BeforeReplacement(o)' /\ BehindReplacement(o)'
    BY <1>1, <1>2, <1>3 DEF CallInv, NotYetAdmitted, SameWorker, Holding, BehindBarrier,
       Busy, Holds, RegisterResolver, ResolvePrestart, MayLaunch, UsesWorker, LaunchInv,
       RunningIsLast, Restarting, HasLaunch, ReadyIsCleared, Stops, IsCurrent,
       BeforeReplacement, BehindReplacement, Settling
  <1> QED BY <1>4, <1>5 DEF CallInv

LEMMA ResolvedPrestartQuiet ==
    ASSUME TypeOK, TypeOK', NEW o \in Ops, Skeleton(o), CallInv(o), LaunchInv, ResolvedPrestart(o)
    PROVE  Quiet(o) /\ CallInv(o)'
  <1>1. op[o] \in OpRecord /\ op'[o] \in OpRecord OBVIOUS
  <1>2. SameWorker
    BY <1>1 DEF SameWorker, Holds, ClearResolver, ResolvedPrestart
  <1>3. LastCleared' = LastCleared BY <1>2, SameCleared
  <1>4. Quiet(o)
    BY <1>1, <1>2 DEF CallInv, NotYetAdmitted, Quiet, Holding, BehindBarrier, Busy,
       Holds, ClearResolver, ResolvedPrestart
  <1>5. /\ NotYetAdmitted(o)' /\ HasLaunch(o)' /\ MayLaunch(o)' /\ UsesWorker(o)'
        /\ Stops(o)' /\ IsCurrent(o)' /\ BeforeReplacement(o)' /\ BehindReplacement(o)'
    BY <1>1, <1>2, <1>3 DEF CallInv, NotYetAdmitted, SameWorker, Holding, BehindBarrier,
       Busy, Holds, ClearResolver, ResolvedPrestart, MayLaunch, UsesWorker, LaunchInv,
       RunningIsLast, Restarting, HasLaunch, ReadyIsCleared, Stops, IsCurrent,
       BeforeReplacement, BehindReplacement, Settling
  <1> QED BY <1>4, <1>5 DEF CallInv

LEMMA StopFailedWorkerQuiet ==
    ASSUME TypeOK, TypeOK', NEW o \in Ops, Skeleton(o), CallInv(o), LaunchInv, StopFailedWorker(o)
    PROVE  Quiet(o) /\ CallInv(o)'
  <1>1. op[o] \in OpRecord /\ op'[o] \in OpRecord OBVIOUS
  <1>2. SameWorker
    BY <1>1 DEF SameWorker, DropStartup, Holds, AfterStdinFailure, StopReturns,
       StopFailedWorker
  <1>3. LastCleared' = LastCleared BY <1>2, SameCleared
  <1>4. Quiet(o)
    BY <1>1, <1>2 DEF CallInv, NotYetAdmitted, Quiet, Holding, BehindBarrier, Busy,
       DropStartup, Holds, AfterStdinFailure, StopReturns, StopFailedWorker
  <1>5. /\ NotYetAdmitted(o)' /\ HasLaunch(o)' /\ MayLaunch(o)' /\ UsesWorker(o)'
        /\ Stops(o)' /\ IsCurrent(o)' /\ BeforeReplacement(o)' /\ BehindReplacement(o)'
    BY <1>1, <1>2, <1>3 DEF CallInv, NotYetAdmitted, SameWorker, Holding, BehindBarrier,
       Busy, DropStartup, Holds, AfterStdinFailure, StopReturns, StopFailedWorker,
       MayLaunch, UsesWorker, LaunchInv, RunningIsLast, Restarting, HasLaunch,
       ReadyIsCleared, Stops, IsCurrent, BeforeReplacement, BehindReplacement, Settling
  <1> QED BY <1>4, <1>5 DEF CallInv

LEMMA StartReplacementQuiet ==
    ASSUME TypeOK, TypeOK', NEW o \in Ops, Skeleton(o), CallInv(o), LaunchInv, StartReplacement(o)
    PROVE  Quiet(o) /\ CallInv(o)'
  <1>1. op[o] \in OpRecord /\ op'[o] \in OpRecord OBVIOUS
  <1>2. SameWorker
    BY <1>1 DEF SameWorker, Holds, StartReplacement
  <1>3. LastCleared' = LastCleared BY <1>2, SameCleared
  <1>4. Quiet(o)
    BY <1>1, <1>2 DEF CallInv, NotYetAdmitted, Quiet, Holding, BehindBarrier, Busy,
       Holds, StartReplacement
  <1>5. /\ NotYetAdmitted(o)' /\ HasLaunch(o)' /\ MayLaunch(o)' /\ UsesWorker(o)'
        /\ Stops(o)' /\ IsCurrent(o)' /\ BeforeReplacement(o)' /\ BehindReplacement(o)'
    BY <1>1, <1>2, <1>3 DEF CallInv, NotYetAdmitted, SameWorker, Holding, BehindBarrier,
       Busy, Holds, StartReplacement, MayLaunch, UsesWorker, LaunchInv, RunningIsLast,
       Restarting, HasLaunch, ReadyIsCleared, Stops, IsCurrent, BeforeReplacement,
       BehindReplacement, Settling
  <1> QED BY <1>4, <1>5 DEF CallInv

LEMMA LockForStdinQuiet ==
    ASSUME TypeOK, TypeOK', NEW o \in Ops, Skeleton(o), CallInv(o), LaunchInv, LockForStdin(o)
    PROVE  Quiet(o) /\ CallInv(o)'
  <1>1. op[o] \in OpRecord /\ op'[o] \in OpRecord OBVIOUS
  <1>2. SameWorker
    BY <1>1 DEF SameWorker, LockForStdin
  <1>3. LastCleared' = LastCleared BY <1>2, SameCleared
  <1>4. Quiet(o)
    BY <1>1, <1>2 DEF CallInv, NotYetAdmitted, Quiet, Holding, BehindBarrier, Busy,
       LockForStdin
  <1>5. /\ NotYetAdmitted(o)' /\ HasLaunch(o)' /\ MayLaunch(o)' /\ UsesWorker(o)'
        /\ Stops(o)' /\ IsCurrent(o)' /\ BeforeReplacement(o)' /\ BehindReplacement(o)'
    BY <1>1, <1>2, <1>3 DEF CallInv, NotYetAdmitted, SameWorker, Holding, BehindBarrier,
       Busy, LockForStdin, MayLaunch, UsesWorker, LaunchInv, RunningIsLast, Restarting,
       HasLaunch, ReadyIsCleared, Stops, IsCurrent, BeforeReplacement,
       BehindReplacement, Settling
  <1> QED BY <1>4, <1>5 DEF CallInv

LEMMA WriteStdinQuiet ==
    ASSUME TypeOK, TypeOK', NEW o \in Ops, Skeleton(o), CallInv(o), LaunchInv, WriteStdin(o)
    PROVE  Quiet(o) /\ CallInv(o)'
  <1>1. op[o] \in OpRecord /\ op'[o] \in OpRecord OBVIOUS
  <1>2. SameWorker
    <2> DEFINE written == launch[running].stdin \cup {op[o].gen}
    <2>1. UNCHANGED <<state, generation, stop_handle, worker, running, launched>>
      BY DEF WriteStdin
    <2>2. launch' = launch \/ launch' = [launch EXCEPT ![running].stdin = written]
      BY Zenon DEF WriteStdin
    <2>3. running \in Launches
      BY LaunchedType DEF WriteStdin, Holds, CallInv, UsesWorker, LaunchInv,
         RunningIsLast
    <2> HIDE DEF written
    <2> QED BY <2>1, <2>2, <2>3, StdinOnly, SameLaunches DEF SameWorker
  <1>3. LastCleared' = LastCleared BY <1>2, SameCleared
  <1>4. Quiet(o)
    BY <1>1, <1>2 DEF CallInv, NotYetAdmitted, Quiet, Holding, BehindBarrier, Busy,
       Holds, AfterStdin, WriteStdin
  <1>5. /\ NotYetAdmitted(o)' /\ HasLaunch(o)' /\ MayLaunch(o)' /\ UsesWorker(o)'
        /\ Stops(o)' /\ IsCurrent(o)' /\ BeforeReplacement(o)' /\ BehindReplacement(o)'
    BY <1>1, <1>2, <1>3 DEF CallInv, NotYetAdmitted, SameWorker, Holding, BehindBarrier,
       Busy, Holds, AfterStdin, WriteStdin, MayLaunch, UsesWorker, LaunchInv,
       RunningIsLast, Restarting, HasLaunch, ReadyIsCleared, Stops, IsCurrent,
       BeforeReplacement, BehindReplacement, Settling
  <1> QED BY <1>4, <1>5 DEF CallInv

LEMMA LockForPollQuiet ==
    ASSUME TypeOK, TypeOK', NEW o \in Ops, Skeleton(o), CallInv(o), LaunchInv, LockForPoll(o)
    PROVE  Quiet(o) /\ CallInv(o)'
  <1>1. op[o] \in OpRecord /\ op'[o] \in OpRecord OBVIOUS
  <1>2. SameWorker
    BY <1>1 DEF SameWorker, LockForPoll
  <1>3. LastCleared' = LastCleared BY <1>2, SameCleared
  <1>4. Quiet(o)
    BY <1>1, <1>2 DEF CallInv, NotYetAdmitted, Quiet, Holding, BehindBarrier, Busy,
       LockForPoll
  <1>5. /\ NotYetAdmitted(o)' /\ HasLaunch(o)' /\ MayLaunch(o)' /\ UsesWorker(o)'
        /\ Stops(o)' /\ IsCurrent(o)' /\ BeforeReplacement(o)' /\ BehindReplacement(o)'
    BY <1>1, <1>2, <1>3 DEF CallInv, NotYetAdmitted, SameWorker, Holding, BehindBarrier,
       Busy, LockForPoll, MayLaunch, UsesWorker, LaunchInv, RunningIsLast, Restarting,
       HasLaunch, ReadyIsCleared, Stops, IsCurrent, BeforeReplacement,
       BehindReplacement, Settling
  <1> QED BY <1>4, <1>5 DEF CallInv

LEMMA LockForPrelaunchQuiet ==
    ASSUME TypeOK, TypeOK', NEW o \in Ops, Skeleton(o), CallInv(o), LaunchInv, LockForPrelaunch(o)
    PROVE  Quiet(o) /\ CallInv(o)'
  <1>1. op[o] \in OpRecord /\ op'[o] \in OpRecord OBVIOUS
  <1>2. SameWorker
    BY <1>1 DEF SameWorker, LockForPrelaunch
  <1>3. LastCleared' = LastCleared BY <1>2, SameCleared
  <1>4. Quiet(o)
    BY <1>1, <1>2 DEF CallInv, NotYetAdmitted, Quiet, Holding, BehindBarrier, Busy,
       LockForPrelaunch
  <1>5. /\ NotYetAdmitted(o)' /\ HasLaunch(o)' /\ MayLaunch(o)' /\ UsesWorker(o)'
        /\ Stops(o)' /\ IsCurrent(o)' /\ BeforeReplacement(o)' /\ BehindReplacement(o)'
    BY <1>1, <1>2, <1>3 DEF CallInv, NotYetAdmitted, SameWorker, Holding, BehindBarrier,
       Busy, LockForPrelaunch, MayLaunch, UsesWorker, LaunchInv, RunningIsLast,
       Restarting, HasLaunch, ReadyIsCleared, Stops, IsCurrent, BeforeReplacement,
       BehindReplacement, Settling
  <1> QED BY <1>4, <1>5 DEF CallInv

LEMMA PrepareAdmittedQuiet ==
    ASSUME TypeOK, TypeOK', NEW o \in Ops, Skeleton(o), CallInv(o), LaunchInv, PrepareAdmitted(o)
    PROVE  Quiet(o) /\ CallInv(o)'
  <1>1. op[o] \in OpRecord /\ op'[o] \in OpRecord OBVIOUS
  <1>2. SameWorker
    BY <1>1 DEF SameWorker, PrepareAdmitted
  <1>3. LastCleared' = LastCleared BY <1>2, SameCleared
  <1>4. Quiet(o)
    BY <1>1, <1>2 DEF CallInv, NotYetAdmitted, Quiet, Holding, BehindBarrier, Busy,
       PrepareAdmitted
  <1>5. /\ NotYetAdmitted(o)' /\ HasLaunch(o)' /\ MayLaunch(o)' /\ UsesWorker(o)'
        /\ Stops(o)' /\ IsCurrent(o)' /\ BeforeReplacement(o)' /\ BehindReplacement(o)'
    BY <1>1, <1>2, <1>3 DEF CallInv, NotYetAdmitted, SameWorker, Holding, BehindBarrier,
       Busy, PrepareAdmitted, MayLaunch, UsesWorker, LaunchInv, RunningIsLast,
       Restarting, HasLaunch, ReadyIsCleared, Stops, IsCurrent, BeforeReplacement,
       BehindReplacement, Settling
  <1> QED BY <1>4, <1>5 DEF CallInv

LEMMA PrepareResolveQuiet ==
    ASSUME TypeOK, TypeOK', NEW o \in Ops, Skeleton(o), CallInv(o), LaunchInv, PrepareResolve(o)
    PROVE  Quiet(o) /\ CallInv(o)'
  <1>1. op[o] \in OpRecord /\ op'[o] \in OpRecord OBVIOUS
  <1>2. SameWorker
    BY <1>1 DEF SameWorker, Holds, RegisterResolver, PrepareResolve
  <1>3. LastCleared' = LastCleared BY <1>2, SameCleared
  <1>4. Quiet(o)
    BY <1>1, <1>2 DEF CallInv, NotYetAdmitted, Quiet, Holding, BehindBarrier, Busy,
       Holds, RegisterResolver, PrepareResolve
  <1>5. /\ NotYetAdmitted(o)' /\ HasLaunch(o)' /\ MayLaunch(o)' /\ UsesWorker(o)'
        /\ Stops(o)' /\ IsCurrent(o)' /\ BeforeReplacement(o)' /\ BehindReplacement(o)'
    BY <1>1, <1>2, <1>3 DEF CallInv, NotYetAdmitted, SameWorker, Holding, BehindBarrier,
       Busy, Holds, RegisterResolver, PrepareResolve, MayLaunch, UsesWorker, LaunchInv,
       RunningIsLast, Restarting, HasLaunch, ReadyIsCleared, Stops, IsCurrent,
       BeforeReplacement, BehindReplacement, Settling
  <1> QED BY <1>4, <1>5 DEF CallInv

LEMMA PrepareResolvedQuiet ==
    ASSUME TypeOK, TypeOK', NEW o \in Ops, Skeleton(o), CallInv(o), LaunchInv, PrepareResolved(o)
    PROVE  Quiet(o) /\ CallInv(o)'
  <1>1. op[o] \in OpRecord /\ op'[o] \in OpRecord OBVIOUS
  <1>2. SameWorker
    BY <1>1 DEF SameWorker, Holds, ClearResolver, PrepareResolved
  <1>3. LastCleared' = LastCleared BY <1>2, SameCleared
  <1>4. Quiet(o)
    BY <1>1, <1>2 DEF CallInv, NotYetAdmitted, Quiet, Holding, BehindBarrier, Busy,
       Holds, ClearResolver, PrepareResolved
  <1>5. /\ NotYetAdmitted(o)' /\ HasLaunch(o)' /\ MayLaunch(o)' /\ UsesWorker(o)'
        /\ Stops(o)' /\ IsCurrent(o)' /\ BeforeReplacement(o)' /\ BehindReplacement(o)'
    BY <1>1, <1>2, <1>3 DEF CallInv, NotYetAdmitted, SameWorker, Holding, BehindBarrier,
       Busy, Holds, ClearResolver, PrepareResolved, MayLaunch, UsesWorker, LaunchInv,
       RunningIsLast, Restarting, HasLaunch, ReadyIsCleared, Stops, IsCurrent,
       BeforeReplacement, BehindReplacement, Settling
  <1> QED BY <1>4, <1>5 DEF CallInv

LEMMA RestartCommittedQuiet ==
    ASSUME TypeOK, TypeOK', NEW o \in Ops, Skeleton(o), CallInv(o), LaunchInv, RestartCommitted(o)
    PROVE  Quiet(o) /\ CallInv(o)'
  <1>1. op[o] \in OpRecord /\ op'[o] \in OpRecord OBVIOUS
  <1>2. SameWorker
    BY <1>1 DEF SameWorker, RestartCommitted
  <1>3. LastCleared' = LastCleared BY <1>2, SameCleared
  <1>4. Quiet(o)
    BY <1>1, <1>2 DEF CallInv, NotYetAdmitted, Quiet, Holding, BehindBarrier, Busy,
       RestartCommitted
  <1>5. /\ NotYetAdmitted(o)' /\ HasLaunch(o)' /\ MayLaunch(o)' /\ UsesWorker(o)'
        /\ Stops(o)' /\ IsCurrent(o)' /\ BeforeReplacement(o)' /\ BehindReplacement(o)'
    BY <1>1, <1>2, <1>3 DEF CallInv, NotYetAdmitted, SameWorker, Holding, BehindBarrier,
       Busy, RestartCommitted, MayLaunch, UsesWorker, LaunchInv, RunningIsLast,
       Restarting, HasLaunch, ReadyIsCleared, Stops, IsCurrent, BeforeReplacement,
       BehindReplacement, Settling
  <1> QED BY <1>4, <1>5 DEF CallInv

LEMMA RestartLaunchQuiet ==
    ASSUME TypeOK, TypeOK', NEW o \in Ops, Skeleton(o), CallInv(o), LaunchInv, RestartLaunch(o)
    PROVE  Quiet(o) /\ CallInv(o)'
  <1>1. op[o] \in OpRecord /\ op'[o] \in OpRecord OBVIOUS
  <1>2. SameWorker
    BY <1>1 DEF SameWorker, RestartLaunch
  <1>3. LastCleared' = LastCleared BY <1>2, SameCleared
  <1>4. Quiet(o)
    BY <1>1, <1>2 DEF CallInv, NotYetAdmitted, Quiet, Holding, BehindBarrier, Busy,
       RestartLaunch
  <1>5. /\ NotYetAdmitted(o)' /\ HasLaunch(o)' /\ MayLaunch(o)' /\ UsesWorker(o)'
        /\ Stops(o)' /\ IsCurrent(o)' /\ BeforeReplacement(o)' /\ BehindReplacement(o)'
    BY <1>1, <1>2, <1>3 DEF CallInv, NotYetAdmitted, SameWorker, Holding, BehindBarrier,
       Busy, RestartLaunch, MayLaunch, UsesWorker, LaunchInv, RunningIsLast, Restarting,
       HasLaunch, ReadyIsCleared, Stops, IsCurrent, BeforeReplacement,
       BehindReplacement, Settling
  <1> QED BY <1>4, <1>5 DEF CallInv

LEMMA CellFailsQuiet ==
    ASSUME TypeOK, TypeOK', NEW o \in Ops, Skeleton(o), CallInv(o), LaunchInv, CellFails(o)
    PROVE  Quiet(o) /\ CallInv(o)'
  <1>1. op[o] \in OpRecord /\ op'[o] \in OpRecord OBVIOUS
  <1>2. SameWorker
    BY <1>1 DEF SameWorker, CompleteCell, CellFails
  <1>3. LastCleared' = LastCleared BY <1>2, SameCleared
  <1>4. /\ op[o].pc = "running" /\ op'[o].pc = "stop_failed"
        /\ op'[o].gen = op[o].gen /\ op'[o].mode = op[o].mode /\ op'[o].target = op[o].target
    <2> DEFINE outcome == IF op[o].outcome = "None" THEN "Failed" ELSE op[o].outcome
    <2>1. op[o].pc = "running" /\ op' = [op EXCEPT ![o].outcome = outcome, ![o].pc = "stop_failed"]
      BY DEF CellFails, CompleteCell
    <2> HIDE DEF outcome
    <2> QED BY <1>1, <2>1
  <1>5. controlled_send' = controlled_send BY DEF CellFails
  <1>6. Quiet(o)
    BY <1>1, <1>2, <1>4, <1>5 DEF CallInv, NotYetAdmitted, Quiet, Holding, BehindBarrier, Busy
  <1>7. /\ NotYetAdmitted(o)' /\ HasLaunch(o)' /\ MayLaunch(o)' /\ UsesWorker(o)'
        /\ Stops(o)' /\ IsCurrent(o)' /\ BeforeReplacement(o)' /\ BehindReplacement(o)'
    BY <1>1, <1>2, <1>3, <1>4, <1>5 DEF CallInv, NotYetAdmitted, SameWorker, Holding,
       BehindBarrier, Busy, MayLaunch, UsesWorker, LaunchInv, RunningIsLast, Restarting,
       HasLaunch, ReadyIsCleared, Stops, IsCurrent, BeforeReplacement, BehindReplacement, Settling
  <1> QED BY <1>6, <1>7 DEF CallInv

HIDE DEF TypeOK, OpTypes, OpRecord, SameLaunch, At, Goto, process, lifecycle,
    Labels, Starting, Launching, Registered, Using, BeforeBarrier, Current,
    Skeleton, ModeFits, ensure_generation, ensure_startup,
    ensure_ordinary_generation, ensure_controlled_generation

(* Connection shutdown goes its own way, and closes the lifecycle first.   *)
Closing == {"close", "close_worker"}
Closes(o) ==
    /\ op[o].pc \in Closing => o \in Closers
    /\ o \in Closers => op[o].pc \in Closing \cup {"idle", "done"}
    /\ o \in Closers /\ op[o].pc # "idle" => state = "ShuttingDown"
Closed(o) == CloseLifecycle(o) \/ CloseProcesses(o) \/ CloseWorker(o)

(* No other step is a closer's, and after the close none begins a launch.  *)
Late(o) ==
    /\ op[o].pc \notin Closing \cup {"done"} /\ op'[o].pc \notin Closing
    /\ op[o].pc = "idle" => o \notin Closers
    /\ state = "ShuttingDown" /\ op'[o].pc \in Launching \cup Holding =>
          op[o].pc \in Launching \cup Holding

LEMMA OthersLate ==
    ASSUME TypeOK, TypeOK', NEW o \in Ops, Acts(o), ~Closed(o), Skeleton(o)
    PROVE  Late(o)
  <1> USE DEF TypeOK, OpTypes
  <1>1. op[o] \in OpRecord /\ op'[o] \in OpRecord OBVIOUS
  <1>2. o \in Closers => o \notin Cells \cup Polls \cup Restarters \cup Interrupters \cup Prelaunchers
    BY ConstantsAssumption DEF Controls
  <1> USE <1>1, <1>2 DEF At, Goto, Holds, Launching, Holding, Registered, Closing, Late, OpRecord
  <1>3. CASE StartEvaluation(o)
    BY <1>3 DEF DropStartup, ReserveStartup, ReleaseAdmission, Unlock, Refuse, PublishEvaluation,
       StartEvaluation, ensure_startup, ensure_ordinary_generation
  <1>4. CASE EvaluateBlocking(o)
    <2>1. op[o].pc = "evaluate" BY <1>4 DEF EvaluateBlocking, StartupAwaited
    <2>2. op'[o].pc \in {"done", "lock"}
      BY <1>4 DEF EvaluateBlocking, CompleteCell
    <2> QED BY <2>1, <2>2
  <1>5. CASE LockForCell(o) BY <1>5 DEF DropStartup, CompleteCell, LockForCell, ensure_generation
  <1>6. CASE Dispatch(o) BY <1>6 DEF CompleteCell, Dispatch
  <1>7. CASE CellFails(o) BY <1>7 DEF CompleteCell, CellFails
  <1>8. CASE EvaluateReturns(o) BY <1>8 DEF DropStartup, EvaluateReturns
  <1>9. CASE ReserveWorkerStartup(o)
    BY <1>9 DEF ReserveStartup, AfterStart, ReleaseStarter, ReserveWorkerStartup, ensure_startup
  <1>10. CASE LockEnvironment(o) BY <1>10 DEF LockEnvironment
  <1>11. CASE ResolvePrestart(o) BY <1>11 DEF RegisterResolver, ResolvePrestart, ensure_startup
  <1>12. CASE Spawn(o) BY <1>12 DEF Spawn
  <1>13. CASE RegisterStopHandle(o) BY <1>13 DEF RegisterStopHandle, CanRegister
  <1>14. CASE AwaitReady(o) BY <1>14 DEF AwaitReady
  <1>15. CASE OnReady(o) BY <1>15 DEF FinishRestart, OnReady
  <1>16. CASE ReadyCommit(o) BY <1>16 DEF AfterStart, ReleaseStarter, ReadyCommit
  <1>17. CASE RetireFailedStart(o) BY <1>17 DEF RetireFailedStart
  <1>18. CASE StartFailed(o)
    BY <1>18 DEF DropStartup, CompleteCell, AfterStdinFailure, ClearStopHandle, StartFailed,
       ensure_generation
  <1>19. CASE StopFailedWorker(o)
    BY <1>19 DEF DropStartup, AfterStdinFailure, StopReturns, StopFailedWorker, ensure_generation
  <1>20. CASE StopFailed(o) BY <1>20 DEF StopResolver, StopFailed
  <1>21. CASE FailedWorkerStopped(o)
    BY <1>21 DEF DropStartup, AfterStdinFailure, StopReturns, FailedWorkerStopped,
       ensure_generation
  <1>22. CASE StartReplacement(o) BY <1>22 DEF StartReplacement
  <1>23. CASE StartPoll(o)
    <2>1. op[o].pc = "admitted" BY <1>23 DEF StartPoll
    <2>2. CASE Refuse(o) BY <2>1, <2>2 DEF Refuse
    <2>3. CASE ~Refuse(o)
      <3>1. \E label \in {"lock_stdin", "poll", "return"}, mode \in {"Stdin", "Poll"} :
               op' = [op EXCEPT ![o].pc = label, ![o].mode = mode]
        BY <1>23, <2>3, Zenon DEF StartPoll
      <3>2. op'[o].pc \in {"lock_stdin", "poll", "return"} BY <3>1
      <3> QED BY <2>1, <3>2
    <2> QED BY <2>2, <2>3
  <1>24. CASE LockForStdin(o) BY <1>24 DEF LockForStdin, ensure_generation
  <1>25. CASE WriteStdin(o) BY <1>25 DEF AfterStdin, WriteStdin
  <1>26. CASE TakeIdleResponse(o) BY <1>26 DEF TakeIdleResponse, ensure_generation
  <1>27. CASE LockForPoll(o) BY <1>27 DEF LockForPoll, ensure_generation
  <1>28. CASE Return(o) BY <1>28 DEF DropStartup, ReleaseAdmission, Unlock, Refuse, Return
  <1>29. CASE Prelaunch(o) BY <1>29 DEF Prelaunch, ensure_startup
  <1>30. CASE ReservePreparation(o) BY <1>30 DEF ReservePreparation
  <1>31. CASE LockForPrelaunch(o) BY <1>31 DEF LockForPrelaunch
  <1>32. CASE PrelaunchReturns(o) BY <1>32 DEF DropStartup, PrelaunchReturns, ensure_generation
  <1>33. CASE FinishStartup(o) BY <1>33 DEF FinishStartup
  <1>34. CASE AdmitPreparation(o)
    BY <1>34 DEF DropStartup, ReleaseAdmission, Unlock, Refuse, AdmitPreparation
  <1>35. CASE CheckPreparation(o) BY <1>35 DEF CheckPreparation, ensure_generation
  <1>36. CASE PrepareAdmitted(o) BY <1>36 DEF PrepareAdmitted, ensure_generation
  <1>37. CASE PrepareResolve(o) BY <1>37 DEF RegisterResolver, PrepareResolve, ensure_startup
  <1>38. CASE CommitEnvironment(o) BY <1>38 DEF CommitEnvironment, ensure_generation
  <1>39. CASE StartPreparedEvaluation(o)
    BY <1>39 DEF DropStartup, ReserveStartup, ReleaseAdmission, Unlock, Refuse, PublishEvaluation,
       StartPreparedEvaluation, ensure_startup, ensure_ordinary_generation
  <1>40. CASE BeginRestart(o)
    BY <1>40 DEF DropStartup, ReleaseAdmission, Unlock, Refuse, StartRestart, BeginRestart,
       ensure_controlled_generation
  <1>41. CASE ResolveRestart(o)
    BY <1>41 DEF RegisterResolver, ResolveRestart, ensure_generation, ensure_startup
  <1>42. CASE CommitRestart(o)
    BY <1>42 DEF DropStartup, ReleaseAdmission, Unlock, Refuse, StartRestart, CommitRestart,
       ensure_controlled_generation
  <1>43. CASE RestartCommitted(o) BY <1>43 DEF RestartCommitted
  <1>44. CASE RestartShutdown(o) BY <1>44 DEF StopResolver, ShutdownProcesses, RestartShutdown
  <1>45. CASE RetireWorker(o) BY <1>45 DEF RetireWorker
  <1>46. CASE FailRestart(o) BY <1>46 DEF FailRestart
  <1>47. CASE ReplaceWorker(o) BY <1>47 DEF ReplaceWorker
  <1>48. CASE RestartLaunch(o) BY <1>48 DEF RestartLaunch
  <1>49. CASE RestartReturns(o) BY <1>49 DEF FinishRestart, RestartReturns
  <1>50. CASE AdmitControlledOperation(o) BY <1>50 DEF WriteAdmission, AdmitControlledOperation
  <1>51. CASE FollowUp(o)
    BY <1>51 DEF DropStartup, ReserveStartup, ReleaseAdmission, Unlock, Refuse, PublishEvaluation,
       FollowUp, ensure_startup, ensure_controlled_generation
  <1>52. CASE InterruptBlocking(o)
    <2>1. PICK bootstrapping \in BOOLEAN, next \in {"interrupted"} :
             SelectInterruptTarget(o, TRUE, bootstrapping, next)
      BY <1>52, Zenon DEF InterruptBlocking
    <2>2. op'[o].pc \in {next, "return"} BY <2>1, SelectInterruptTargetMoves
    <2> QED BY <1>52, <2>2 DEF InterruptBlocking
  <1>53. CASE InterruptStdin(o) BY <1>53 DEF QueueStartupStdin, InterruptStdin, ensure_startup
  <1>54. CASE RetryControlledSend(o) BY <1>54 DEF RetryControlledSend
  <1>55. CASE SubmitControlledStdin(o)
    <2>1. op[o].pc = "interrupted" BY <1>55 DEF SubmitControlledStdin
    <2>2. op'[o].pc \in {"grace", "return", "lock_stdin"} BY <1>55, SubmitControlledStdinMovesTo
    <2> QED BY <2>1, <2>2
  <1>56. CASE EnsureFollowupConnection(o) BY <1>56 DEF EnsureFollowupConnection
  <1>57. CASE ContinueAfterInterrupt(o)
    BY <1>57 DEF DropStartup, ReleaseAdmission, WriteAdmission, Unlock, Refuse,
       ContinueAfterInterrupt, ensure_controlled_generation
  <1>58. CASE ContinueWithCell(o)
    BY <1>58 DEF DropStartup, ReserveStartup, ReleaseAdmission, Unlock, Refuse, PublishEvaluation,
       ContinueWithCell, ensure_startup, ensure_controlled_generation
  <1>59. CASE ResolvedPrestart(o) BY <1>59 DEF ClearResolver, ResolvedPrestart, ensure_startup
  <1>60. CASE PrepareResolved(o) BY <1>60 DEF ClearResolver, PrepareResolved
  <1>61. CASE RestartResolved(o) BY <1>61 DEF ClearResolver, RestartResolved
  <1>62. CASE Admit(o) BY <1>62 DEF ReadAdmission, Admit
  <1>63. CASE BeginControlledSend(o) BY <1>63 DEF BeginControlledSend, Controls
  <1>64. CASE InterruptStandalone(o)
    <2>1. PICK bootstrapping \in BOOLEAN, next \in {"standalone"} :
             SelectInterruptTarget(o, FALSE, bootstrapping, next)
      BY <1>64, Zenon DEF InterruptStandalone
    <2>2. op'[o].pc \in {next, "return"} BY <2>1, SelectInterruptTargetMoves
    <2> QED BY <1>64, <2>2 DEF InterruptStandalone
  <1>65. CASE InterruptStartup(o)
    <2>1. PICK bootstrapping \in BOOLEAN, next \in {"startup_stdin", "return"} :
             SelectInterruptTarget(o, FALSE, bootstrapping, next)
      BY <1>65, Zenon DEF InterruptStartup
    <2>2. op'[o].pc \in {next, "return"} BY <2>1, SelectInterruptTargetMoves
    <2> QED BY <1>65, <2>2 DEF InterruptStartup
  <1>66. CASE CellCompletes(o) BY <1>66 DEF CompleteCell, CellCompletes
  <1> HIDE DEF TypeOK, OpTypes, OpRecord, Late
  <1> QED BY ZenonT(60), <1>3, <1>4, <1>5, <1>6, <1>7, <1>8, <1>9, <1>10, <1>11, <1>12,
     <1>13, <1>14, <1>15, <1>16, <1>17, <1>18, <1>19, <1>20, <1>21, <1>22, <1>23, <1>24,
     <1>25, <1>26, <1>27, <1>28, <1>29, <1>30, <1>31, <1>32, <1>33, <1>34, <1>35, <1>36,
     <1>37, <1>38, <1>39, <1>40, <1>41, <1>42, <1>43, <1>44, <1>45, <1>46, <1>47, <1>48,
     <1>49, <1>50, <1>51, <1>52, <1>53, <1>54, <1>55, <1>56, <1>57, <1>58, <1>59, <1>60,
     <1>61, <1>62, <1>63, <1>64, <1>65, <1>66 DEF Acts, Step, Settle, Arrive, Closed

ClosesInv == \A o \in Ops : Closes(o)

LEMMA ClosesStep == ASSUME TypeOK, TypeOK', SkeletonInv, ClosesInv, [Next]_vars PROVE ClosesInv'
  <1>1. ASSUME NEW o \in Ops, Acts(o) PROVE ClosesInv'
    <2>1. Alone(o) BY <1>1, CallSkeleton DEF SkeletonInv
    <2>2. state = "ShuttingDown" => state' = "ShuttingDown" 
      BY <1>1, CallKeeps DEF KeepsOwner, TypeOK, OpTypes, BeginRestart, CommitRestart,
         StartRestart, Refuse, ensure_generation, ensure_controlled_generation
    <2>3. ASSUME NEW q \in Ops \ {o} PROVE Closes(q)'
      BY <2>1, <2>2, <2>3 DEF ClosesInv, Closes, Alone, Same
    <2>4. Closes(o)'
      <3>1. CASE Closed(o)
        BY <1>1, <2>2, <3>1 DEF Closed, CloseLifecycle, CloseProcesses, CloseWorker, ShutdownProcesses,
           At, Goto, Closing, ClosesInv, Closes, TypeOK, OpTypes, OpRecord
      <3>2. CASE ~Closed(o)
        <4>1. Late(o) BY <1>1, <3>2, OthersLate DEF SkeletonInv
        <4>2. o \notin Closers BY <4>1 DEF Late, ClosesInv, Closes, Closing
        <4> QED BY <4>1, <4>2 DEF Late, Closes
      <3> QED BY <3>1, <3>2
    <2> QED BY <2>3, <2>4 DEF ClosesInv
  <1>2. CASE Silent BY <1>2 DEF Silent, ClosesInv, Closes
  <1> QED BY <1>1, <1>2, NextCases

LEMMA ClosesInit == ASSUME Init PROVE ClosesInv
  BY DEF Init, ClosesInv, Closes, Closing

(* A launch begins where it is spawned, and nowhere else.                  *)
NoNewLaunch(o) ==
    op[o].pc # "spawn" =>
        launched' = launched /\ \A l \in Launches : launch'[l].live => launch[l].live

CallsInv == \A q \in Ops : CallInv(q)

LEMMA RetiredMoves ==
    ASSUME ProcessTypes, ProcessTypes', NEW l \in Launches \cup {NoLaunch}, NEW outcome \in Outcomes(l),
           launch' = Retired(l, outcome)
    PROVE  \A m \in Launches :
              /\ launch'[m].gen = launch[m].gen /\ launch'[m].committed = launch[m].committed
              /\ m # l => SameLaunch(m)
              /\ m = l => ~launch'[m].live /\ launch'[m].cleanup = outcome
              /\ m = l /\ ~launch[m].live => SameLaunch(m)
  <1>1. \A m \in Launches : launch[m] \in LaunchRecord /\ launch'[m] \in LaunchRecord
    BY DEF ProcessTypes
  <1>2. CASE l # NoLaunch /\ launch[l].live
    <2>1. launch' = [launch EXCEPT ![l].live = FALSE, ![l].cleanup = outcome]
      BY <1>2 DEF Retired
    <2>2. l \in Launches BY <1>2
    <2>3. \A m \in Launches : m # l => launch'[m] = launch[m] BY <2>1 DEF ProcessTypes
    <2>4. launch'[l] = [launch[l] EXCEPT !.live = FALSE, !.cleanup = outcome]
      BY <2>1, <2>2 DEF ProcessTypes
    <2>5. /\ ~launch'[l].live /\ launch'[l].cleanup = outcome
          /\ launch'[l].gen = launch[l].gen /\ launch'[l].committed = launch[l].committed
      BY <1>1, <2>2, <2>4 DEF LaunchRecord
    <2> QED BY <1>2, <2>3, <2>5 DEF SameLaunch
  <1>3. CASE ~(l # NoLaunch /\ launch[l].live)
    <2>1. launch' = launch BY <1>3 DEF Retired
    <2>2. l # NoLaunch => outcome = launch[l].cleanup BY <1>3 DEF Outcomes
    <2> QED BY <1>1, <1>3, <2>1, <2>2 DEF LaunchRecord, SameLaunch, NoLaunch, Launches
  <1> QED BY <1>2, <1>3

USE DEF LaunchInv, Unlaunched, Earlier, RunningIsLast, LiveIsHeld,
    ReadyIsCleared, ReadyIsUnregistered, ReadyIsCurrent, RestartKnows,
    RegisteredIsLaunched, CallInv, NotYetAdmitted, HasLaunch, MayLaunch,
    UsesWorker, Stops, IsCurrent, BeforeReplacement, BehindReplacement,
    Starting, Launching, Holding, Registered, Using, Owning, BeforeBarrier,
    BehindBarrier, Busy, Settling, Current, NoLaunch, Cleared, LastCleared,
    Restarting, Nobody, LaunchRecord, Launches, Skeleton, ModeFits

LEMMA SpawnCalls ==
    ASSUME TypeOK, TypeOK', SkeletonInv, SkeletonInv', ClosesInv, RestartIsOwned, CallsInv,
           LaunchInv, NEW o \in Ops, Spawn(o)
    PROVE  CallsInv' /\ LaunchInv' /\ NoNewLaunch(o)
  <1> USE DEF TypeOK, OpTypes, ProcessTypes, LifecycleTypes
  <1>1. \A q \in Ops : op[q] \in OpRecord /\ op'[q] \in OpRecord OBVIOUS
  <1>2. \A l \in Launches : launch[l] \in LaunchRecord /\ launch'[l] \in LaunchRecord OBVIOUS
  <1>3. \A q \in Ops \ {o} : op[q].pc \notin Owning
    BY OwnerAlone DEF Holds, Spawn
  <1>4. \A q \in Ops \ {o} : Same(q) /\ CallInv(q) /\ Skeleton(q) /\ Skeleton(q)'
    BY <1>1 DEF Same, CallsInv, SkeletonInv, lifecycle, At, Goto, Holds, Spawn, process
  <1>5. CallInv(o) /\ Skeleton(o) /\ Skeleton(o)'
    <2> HIDE DEF TypeOK, CallInv, Skeleton
    <2> QED BY DEF CallsInv, SkeletonInv
  <1>6. LaunchInv'
    BY SMTT(40), <1>1, <1>2, <1>3, <1>4, <1>5 DEF Same, lifecycle, At, Goto, Holds,
       Spawn, process, ensure_generation, ensure_startup, ensure_controlled_generation,
       OpRecord
  <1>7. CallInv(o)'
    BY SMTT(40), <1>1, <1>2, <1>3, <1>4, <1>5 DEF RestartIsOwned, lifecycle, At, Goto, Holds,
       Spawn, process, ensure_generation, ensure_startup, ensure_controlled_generation,
       OpRecord
  <1>8. ASSUME NEW q \in Ops \ {o} PROVE CallInv(q)'
    <2>1. Same(q) /\ CallInv(q) /\ Skeleton(q) /\ op[q].pc \notin Owning BY <1>3, <1>4
    <2>2. op[o].pc = "spawn" /\ UNCHANGED <<state, generation, controlled_send, stop_handle>>
      BY DEF Spawn, Holds, At, lifecycle
    <2>3. launched <= launched' /\ \A l \in Launches : l <= launched => launch'[l] = launch[l]
      BY DEF Spawn
    <2>4. Restarting(q) => op[q].pc \notin BehindBarrier BY <2>1, <2>2
    <2>5. \A l \in Launches : l <= launched => SameLaunch(l) BY <2>3 DEF SameLaunch
    <2> HIDE DEF TypeOK, CallInv, Restarting, Skeleton, SameLaunch, BehindBarrier, BeforeBarrier, Owning
    <2> QED BY <2>1, <2>2, <2>3, <2>4, <2>5, BystandingCall
  <1>9. NoNewLaunch(o)
    BY <1>1, <1>2, <1>3, <1>4, <1>5 DEF NoNewLaunch, lifecycle, At, Goto, Holds, Spawn,
       process, ensure_generation, ensure_startup, ensure_controlled_generation,
       OpRecord
  <1> HIDE DEF TypeOK, LaunchInv, CallInv
  <1> QED BY <1>6, <1>7, <1>8, <1>9 DEF CallsInv

LEMMA RegisterStopHandleCalls ==
    ASSUME TypeOK, TypeOK', SkeletonInv, SkeletonInv', ClosesInv, RestartIsOwned, CallsInv,
           LaunchInv, NEW o \in Ops, RegisterStopHandle(o)
    PROVE  CallsInv' /\ LaunchInv' /\ NoNewLaunch(o)
  <1> USE DEF TypeOK, OpTypes, ProcessTypes, LifecycleTypes
  <1>1. \A q \in Ops : op[q] \in OpRecord /\ op'[q] \in OpRecord OBVIOUS
  <1>2. \A l \in Launches : launch[l] \in LaunchRecord /\ launch'[l] \in LaunchRecord OBVIOUS
  <1>3. \A q \in Ops \ {o} : op[q].pc \notin Owning
    BY OwnerAlone DEF Holds, RegisterStopHandle
  <1>4. \A q \in Ops \ {o} : Same(q) /\ CallInv(q) /\ Skeleton(q) /\ Skeleton(q)'
    BY <1>1 DEF Same, CallsInv, SkeletonInv, At, Goto, Holds, RegisterStopHandle,
       process, CanRegister
  <1>5. CallInv(o) /\ Skeleton(o) /\ Skeleton(o)'
    <2> HIDE DEF TypeOK, CallInv, Skeleton
    <2> QED BY DEF CallsInv, SkeletonInv
  <1>6. LaunchInv'
    BY SMTT(40), <1>1, <1>2, <1>3, <1>4, <1>5 DEF Same, At, Goto, Holds,
       RegisterStopHandle, process, CanRegister, ensure_generation, ensure_startup,
       ensure_controlled_generation, OpRecord
  <1>7. BehindReplacement(o)'
    <2>1. /\ op[o].pc = "register" /\ op'[o].pc \in {"await_ready", "retire_start"}
          /\ op'[o].mode = op[o].mode /\ op[o].target = launched /\ launch[launched].gen = op[o].gen
          /\ op'[o].pc = "await_ready" => stop_handle' = launched
          /\ op'[o].pc # "await_ready" => stop_handle' = stop_handle
          /\ UNCHANGED <<state, generation, worker, launched, controlled_send>>
      BY <1>1, <1>2, <1>3, <1>4, <1>5 DEF RegisterStopHandle, Holds, At, Goto, OpRecord
    <2>2. launched \in Launches /\ launch'[launched].gen = launch[launched].gen
      BY <1>1, <1>2, <1>3, <1>4, <1>5, <2>1, LaunchedType DEF RegisterStopHandle
    <2>3. op'[o].pc = "await_ready" /\ Restarting(o) => op[o].gen = generation
      BY SMTT(40), <2>1, <1>5 DEF OwnsAdmission, Controlling, RestartIsOwned
    <2> QED BY <1>1, <1>2, <1>3, <1>4, <1>5, <2>1, <2>2, <2>3 DEF Same
  <1>8. NotYetAdmitted(o)' /\ HasLaunch(o)' /\ MayLaunch(o)' /\ UsesWorker(o)' /\ Stops(o)' /\ IsCurrent(o)' /\ BeforeReplacement(o)'
    BY SMTT(40), <1>1, <1>2, <1>3, <1>4, <1>5 DEF RestartIsOwned, At, Goto, Holds,
       RegisterStopHandle, process, CanRegister, ensure_generation, ensure_startup,
       ensure_controlled_generation, OpRecord
  <1>9. ASSUME NEW q \in Ops \ {o} PROVE CallInv(q)'
    BY SMTT(40), <1>1, <1>2, <1>3, <1>4, <1>5 DEF Same, OwnsAdmission, Controlling,
       RestartIsOwned, At, Goto, Holds, RegisterStopHandle, process, CanRegister,
       ensure_generation, ensure_startup, ensure_controlled_generation, OpRecord
  <1>10. NoNewLaunch(o)
    BY <1>1, <1>2, <1>3, <1>4, <1>5 DEF NoNewLaunch, At, Goto, Holds,
       RegisterStopHandle, process, CanRegister, ensure_generation, ensure_startup,
       ensure_controlled_generation, OpRecord
  <1>11. CallInv(o)'
    <2> HIDE DEF TypeOK, NotYetAdmitted, HasLaunch, MayLaunch, UsesWorker, Stops, IsCurrent,
                 BeforeReplacement, BehindReplacement
    <2> QED BY <1>7, <1>8
  <1> HIDE DEF TypeOK, LaunchInv, CallInv
  <1> QED BY <1>6, <1>9, <1>10, <1>11 DEF CallsInv

LEMMA AwaitReadyCalls ==
    ASSUME TypeOK, TypeOK', SkeletonInv, SkeletonInv', ClosesInv, RestartIsOwned, CallsInv,
           LaunchInv, NEW o \in Ops, AwaitReady(o)
    PROVE  CallsInv' /\ LaunchInv' /\ NoNewLaunch(o)
  <1> USE DEF TypeOK, OpTypes, ProcessTypes, LifecycleTypes
  <1>1. \A q \in Ops : op[q] \in OpRecord /\ op'[q] \in OpRecord OBVIOUS
  <1>2. \A l \in Launches : launch[l] \in LaunchRecord /\ launch'[l] \in LaunchRecord OBVIOUS
  <1>3. \A q \in Ops \ {o} : op[q].pc \notin Owning
    BY OwnerAlone DEF Holds, AwaitReady
  <1>4. \A q \in Ops \ {o} : Same(q) /\ CallInv(q) /\ Skeleton(q) /\ Skeleton(q)'
    BY SMTT(40), <1>1 DEF Same, CallsInv, SkeletonInv, lifecycle, At, Goto, Holds, AwaitReady,
       process
  <1>5. CallInv(o) /\ Skeleton(o) /\ Skeleton(o)'
    <2> HIDE DEF TypeOK, CallInv, Skeleton
    <2> QED BY DEF CallsInv, SkeletonInv
  <1>6. LaunchInv'
    BY SMTT(40), <1>1, <1>2, <1>3, <1>4, <1>5 DEF Same, lifecycle, At, Goto, Holds,
       AwaitReady, process, ensure_generation, ensure_startup,
       ensure_controlled_generation, Restarts, ClosesInv, Closes, Closing, Generations,
       OpRecord
  <1>7. CallInv(o)'
    BY SMTT(40), <1>1, <1>2, <1>3, <1>4, <1>5 DEF RestartIsOwned, lifecycle, At, Goto,
       Holds, AwaitReady, process, ensure_generation, ensure_startup,
       ensure_controlled_generation, Restarts, ClosesInv, Closes, Closing, Generations,
       OpRecord
  <1>8. ASSUME NEW q \in Ops \ {o} PROVE CallInv(q)'
    <2>1. UNCHANGED <<state, generation, stop_handle, worker, running, launched, launch, controlled_send>>
      BY DEF AwaitReady, lifecycle, process
    <2>2. op[o].pc = "await_ready" BY DEF AwaitReady, Holds, At
    <2>3. ASSUME NEW p \in Ops, op'[p].pc \in Busy PROVE op[p].pc \in Busy
      <3>1. CASE p = o BY <2>2, <3>1
      <3>2. CASE p # o BY <1>4, <2>3, <3>2 DEF Same
      <3> QED BY <3>1, <3>2
    <2>4. SameWorker BY <2>1, WorkerUntouched
    <2>5. Same(q) /\ CallInv(q) BY <1>4
    <2> HIDE DEF TypeOK, CallInv, Busy, BehindBarrier, Restarting
    <2> QED BY <2>1, <2>3, <2>4, <2>5, UndisturbedCall
  <1>9. NoNewLaunch(o)
    BY <1>1, <1>2, <1>3, <1>4, <1>5 DEF NoNewLaunch, lifecycle, At, Goto, Holds,
       AwaitReady, process, ensure_generation, ensure_startup,
       ensure_controlled_generation, Restarts, ClosesInv, Closes, Closing, Generations,
       OpRecord
  <1> HIDE DEF TypeOK, LaunchInv, CallInv
  <1> QED BY <1>6, <1>7, <1>8, <1>9 DEF CallsInv

LEMMA OnReadyCalls ==
    ASSUME TypeOK, TypeOK', SkeletonInv, SkeletonInv', ClosesInv, RestartIsOwned, CallsInv,
           LaunchInv, NEW o \in Ops, OnReady(o)
    PROVE  CallsInv' /\ LaunchInv' /\ NoNewLaunch(o)
  <1> USE DEF TypeOK, OpTypes, ProcessTypes, LifecycleTypes
  <1>1. \A q \in Ops : op[q] \in OpRecord /\ op'[q] \in OpRecord OBVIOUS
  <1>2. \A l \in Launches : launch[l] \in LaunchRecord /\ launch'[l] \in LaunchRecord OBVIOUS
  <1>3. op[o].pc = "on_ready" /\ worker_lock = o BY DEF OnReady, Holds, At
  <1>4. \A q \in Ops \ {o} : op[q].pc \notin Owning BY <1>3, OwnerAlone
  <1>5. /\ op'[o].pc \in {"ready_commit", "retire_start"} /\ op'[o].mode = op[o].mode
        /\ op'[o].gen = op[o].gen /\ op'[o].target = op[o].target
        /\ UNCHANGED <<generation, controlled_send, stop_handle, launched, launch, worker, running>>
    BY <1>1 DEF OnReady, Goto, process, OpRecord
  <1>6. op[o].mode = "Restart" => controlled_send = o
    BY <1>3 DEF SkeletonInv, OwnsAdmission, Controlling
  <1>7. op[o].mode = "Restart" /\ state = "Restarting" => Current(o)
    BY <1>6 DEF RestartIsOwned
  <1>8. \/ /\ state' = state
           /\ op[o].mode # "Restart" \/ state # "Restarting"
           /\ op[o].mode = "Restart" /\ state = "Ready" => op'[o].pc = "ready_commit"
        \/ /\ op[o].mode = "Restart" /\ state = "Restarting" /\ state' = "Ready"
           /\ op'[o].pc = "ready_commit"
    BY <1>1, <1>7 DEF OnReady, Goto, FinishRestart, RestartFinished, OpRecord, States
  <1>9. \A q \in Ops \ {o} : Same(q) /\ CallInv(q) /\ Skeleton(q) /\ Skeleton(q)'
    BY SMTT(40), CallSkeleton DEF Acts, Step, Settle, Arrive, Alone, CallsInv, SkeletonInv
  <1>10. CallInv(o) /\ Skeleton(o) /\ Skeleton(o)'
    <2> HIDE DEF TypeOK, CallInv, Skeleton
    <2> QED BY DEF CallsInv, SkeletonInv
  <1>11. LaunchInv'
    BY SMTT(40), <1>1, <1>2, <1>3, <1>4, <1>5, <1>6, <1>7, <1>8, <1>9, <1>10 DEF Same,
       SameLaunch, Restarts, ClosesInv, Closes
  <1>12. CallInv(o)'
    BY <1>1, <1>2, <1>3, <1>4, <1>5, <1>6, <1>7, <1>8, <1>9, <1>10 DEF RestartIsOwned,
       SameLaunch, Restarts, ClosesInv, Closes, OpRecord
  <1>13. ASSUME NEW q \in Ops \ {o} PROVE CallInv(q)'
    <2>1. Same(q) /\ CallInv(q) /\ Skeleton(q) /\ op[q].pc \notin Owning BY <1>4, <1>9
    <2>2. \A l \in Launches : SameLaunch(l) BY <1>5 DEF SameLaunch
    <2>3. CASE state' = state
      <3>1. SameWorker BY <1>5, <2>2, <2>3 DEF SameWorker
      <3>2. ASSUME NEW p \in Ops, op'[p].pc \in Busy PROVE op[p].pc \in Busy
        <4>1. CASE p = o BY <1>3, <4>1
        <4>2. CASE p # o BY <1>9, <3>2, <4>2 DEF Same
        <4> QED BY <4>1, <4>2
      <3>3. controlled_send' = controlled_send BY <1>5
      <3> HIDE DEF TypeOK, CallInv, Busy, BehindBarrier, Restarting, SameWorker, Same
      <3> QED BY <2>1, <3>1, <3>2, <3>3, UndisturbedCall
    <2>4. CASE state' # state
      <3>1. /\ state' = "Ready" /\ controlled_send = o
            /\ UNCHANGED <<generation, controlled_send, launched>>
        BY <1>5, <1>6, <1>8, <2>4
      <3>2. op[q].mode = "Restart" => op[q].pc \in {"return", "done"}
        BY <2>1, <3>1 DEF Skeleton, OwnsAdmission, Controlling
      <3>3. op'[q].pc = op[q].pc /\ op'[q].mode = op[q].mode /\ op'[q].target = op[q].target
        BY <2>1 DEF Same
      <3>4. op[q].pc # "replace_worker" BY <2>1, <3>2 DEF Skeleton, ModeFits, Restarts
      <3>5. NotYetAdmitted(q)' BY <3>1 DEF NotYetAdmitted
      <3>6. HasLaunch(q)' BY <2>1, <3>3 DEF HasLaunch, Owning, Starting, Holding, Registered
      <3>7. MayLaunch(q)' BY <2>1, <3>3 DEF MayLaunch, Owning, Starting
      <3>8. UsesWorker(q)' BY <2>1, <3>3 DEF UsesWorker, Owning
      <3>9. Stops(q)' BY <2>1, <3>3 DEF Stops, Owning, Using
      <3>10. IsCurrent(q)' BY <2>1, <3>3 DEF IsCurrent, Busy, Owning, Starting, Using
      <3>11. BeforeReplacement(q)' BY <3>2, <3>3, <3>4 DEF BeforeReplacement, BeforeBarrier
      <3>12. BehindReplacement(q)' BY <3>1, <3>2, <3>3 DEF BehindReplacement, Restarting, Settling
      <3> QED BY <3>5, <3>6, <3>7, <3>8, <3>9, <3>10, <3>11, <3>12 DEF CallInv
    <2> QED BY <2>3, <2>4
  <1>14. NoNewLaunch(o) BY <1>1, <1>2, <1>3, <1>4, <1>5, <1>6, <1>7, <1>8, <1>9, <1>10 DEF NoNewLaunch, SameLaunch
  <1> HIDE DEF TypeOK, LaunchInv, CallInv
  <1> QED BY <1>11, <1>12, <1>13, <1>14 DEF CallsInv

LEMMA ReadyCommitCalls ==
    ASSUME TypeOK, TypeOK', SkeletonInv, SkeletonInv', ClosesInv, RestartIsOwned, CallsInv,
           LaunchInv, NEW o \in Ops, ReadyCommit(o)
    PROVE  CallsInv' /\ LaunchInv' /\ NoNewLaunch(o)
  <1> USE DEF TypeOK, OpTypes, ProcessTypes, LifecycleTypes
  <1>1. \A q \in Ops : op[q] \in OpRecord /\ op'[q] \in OpRecord OBVIOUS
  <1>2. \A l \in Launches : launch[l] \in LaunchRecord /\ launch'[l] \in LaunchRecord OBVIOUS
  <1>3. op[o].pc = "ready_commit" /\ worker_lock = o BY DEF ReadyCommit, Holds, At
  <1>4. \A q \in Ops \ {o} : op[q].pc \notin Owning BY <1>3, OwnerAlone
  <1>5. op[o].target = launched /\ launched \in Launches
    BY <1>3, LaunchedType DEF CallsInv
  <1>6. /\ op'[o].mode = op[o].mode /\ op'[o].gen = op[o].gen
        /\ UNCHANGED <<state, generation, controlled_send, stop_handle, launched>>
    BY <1>1 DEF ReadyCommit, Goto, lifecycle, OpRecord
  <1>7. \/ /\ launch[launched].live
           /\ launch' = [launch EXCEPT ![launched].committed = TRUE]
           /\ worker' = "Running" /\ running' = launched
           /\ op'[o].pc = AfterStart(op[o].mode) /\ op'[o].target = NoLaunch
        \/ /\ ~launch[launched].live
           /\ launch' = launch
           /\ UNCHANGED <<worker, running>>
           /\ op'[o].pc = "retire_start" /\ op'[o].target = launched
    BY <1>1, <1>5 DEF ReadyCommit, Goto, OpRecord
  <1>8. CallInv(o) /\ Skeleton(o) /\ Skeleton(o)'
    <2> HIDE DEF TypeOK, CallInv, Skeleton
    <2> QED BY DEF CallsInv, SkeletonInv
  <1>9. \A l \in Launches :
           /\ launch'[l].gen = launch[l].gen /\ launch'[l].live = launch[l].live
           /\ l # launched => SameLaunch(l)
           /\ worker' # "Running" \/ worker = "Running" => launch'[l].committed = launch[l].committed
    <2>1. CASE launch[launched].live
      <3>1. /\ launch' = [launch EXCEPT ![launched].committed = TRUE]
            /\ worker' = "Running"
        BY <1>7, <2>1
      <3>2. \A l \in Launches :
               /\ launch'[l].gen = launch[l].gen /\ launch'[l].live = launch[l].live
               /\ l # launched => launch'[l] = launch[l]
        BY <1>5, <3>1
      <3>3. worker # "Running"
        BY <1>3, <1>8
      <3> QED BY <3>1, <3>2, <3>3 DEF SameLaunch
    <2>2. CASE ~launch[launched].live
      <3>1. launch' = launch BY <1>7, <2>2
      <3> QED BY <3>1 DEF SameLaunch
    <2> QED BY <2>1, <2>2
  <1>10. \A q \in Ops \ {o} : Same(q) /\ CallInv(q) /\ Skeleton(q) /\ Skeleton(q)'
    BY SMTT(40), CallSkeleton DEF Acts, Step, Settle, Arrive, Alone, CallsInv, SkeletonInv
  <1>11. LaunchInv'
    BY SMTT(40), <1>1, <1>2, <1>3, <1>4, <1>5, <1>6, <1>7, <1>9, <1>10, <1>8 DEF Same,
       AfterStart, SameLaunch, Restarts, ClosesInv, Closes
  <1>12. CallInv(o)'
    BY <1>1, <1>2, <1>3, <1>4, <1>5, <1>6, <1>7, <1>9, <1>10, <1>8 DEF RestartIsOwned,
       AfterStart, SameLaunch, Restarts, ClosesInv, Closes, OpRecord
  <1>13. ASSUME NEW q \in Ops \ {o} PROVE CallInv(q)'
    <2>1. Same(q) /\ CallInv(q) /\ Skeleton(q) /\ op[q].pc \notin Owning BY <1>4, <1>10
    <2>2. Restarting(q) => op[q].pc \notin BehindBarrier BY <1>3, <2>1
    <2>3. \A l \in Launches : ~launch[l].live => SameLaunch(l) BY <1>7, <1>9 DEF SameLaunch
    <2>4. launched <= launched' BY <1>6
    <2> HIDE DEF TypeOK, CallInv, Restarting, Skeleton, SameLaunch, BehindBarrier, BeforeBarrier, Owning
    <2> QED BY <1>6, <2>1, <2>2, <2>3, <2>4, BystandingCall
  <1>14. NoNewLaunch(o) BY <1>1, <1>2, <1>3, <1>4, <1>5, <1>6, <1>7, <1>9, <1>10, <1>8 DEF NoNewLaunch, SameLaunch
  <1> HIDE DEF TypeOK, LaunchInv, CallInv
  <1> QED BY <1>11, <1>12, <1>13, <1>14 DEF CallsInv

LEMMA RetireFailedStartCalls ==
    ASSUME TypeOK, TypeOK', SkeletonInv, SkeletonInv', ClosesInv, RestartIsOwned, CallsInv,
           LaunchInv, NEW o \in Ops, RetireFailedStart(o)
    PROVE  CallsInv' /\ LaunchInv' /\ NoNewLaunch(o)
  <1> USE DEF TypeOK, OpTypes, ProcessTypes, LifecycleTypes
  <1>1. \A q \in Ops : op[q] \in OpRecord /\ op'[q] \in OpRecord OBVIOUS
  <1>2. \A l \in Launches : launch[l] \in LaunchRecord /\ launch'[l] \in LaunchRecord OBVIOUS
  <1>3. op[o].pc = "retire_start" /\ worker_lock = o BY DEF RetireFailedStart, Holds, At
  <1>4. \A q \in Ops \ {o} : op[q].pc \notin Owning BY <1>3, OwnerAlone
  <1>5. op[o].target = launched /\ launched \in Launches
    BY <1>3, LaunchedType DEF CallsInv
  <1>6. /\ op'[o].pc = "start_failed" /\ op'[o].mode = op[o].mode /\ op'[o].gen = op[o].gen
        /\ op'[o].target = NoLaunch
        /\ UNCHANGED <<state, generation, controlled_send, stop_handle, worker, running, launched>>
    BY <1>1 DEF RetireFailedStart, lifecycle, OpRecord
  <1>7. \A l \in Launches :
           /\ launch'[l].gen = launch[l].gen /\ launch'[l].committed = launch[l].committed
           /\ l # launched => SameLaunch(l)
           /\ l = launched => ~launch'[l].live
           /\ ~launch[l].live => SameLaunch(l)
    BY <1>5, RetiredMoves DEF RetireFailedStart
  <1>8. \A q \in Ops \ {o} : Same(q) /\ CallInv(q) /\ Skeleton(q) /\ Skeleton(q)'
    BY SMTT(40), CallSkeleton DEF Acts, Step, Settle, Arrive, Alone, CallsInv, SkeletonInv
  <1>9. CallInv(o) /\ Skeleton(o) /\ Skeleton(o)'
    <2> HIDE DEF TypeOK, CallInv, Skeleton
    <2> QED BY DEF CallsInv, SkeletonInv
  <1>10. LaunchInv'
    BY SMTT(40), <1>1, <1>2, <1>3, <1>4, <1>5, <1>6, <1>7, <1>8, <1>9 DEF Same,
       SameLaunch, Restarts, ClosesInv, Closes
  <1>11. CallInv(o)'
    BY <1>1, <1>2, <1>3, <1>4, <1>5, <1>6, <1>7, <1>8, <1>9 DEF RestartIsOwned,
       SameLaunch, Restarts, ClosesInv, Closes, OpRecord, Same
  <1>12. ASSUME NEW q \in Ops \ {o} PROVE CallInv(q)'
    BY SMTT(40), <1>1, <1>2, <1>3, <1>4, <1>5, <1>6, <1>7, <1>8, <1>9 DEF Same,
       OwnsAdmission, Controlling, RestartIsOwned, SameLaunch, Restarts, ClosesInv,
       Closes, OpRecord
  <1>13. NoNewLaunch(o) BY <1>1, <1>2, <1>3, <1>4, <1>5, <1>6, <1>7, <1>8, <1>9 DEF NoNewLaunch, SameLaunch
  <1> HIDE DEF TypeOK, LaunchInv, CallInv
  <1> QED BY <1>10, <1>11, <1>12, <1>13 DEF CallsInv

LEMMA StartFailedCalls ==
    ASSUME TypeOK, TypeOK', SkeletonInv, SkeletonInv', ClosesInv, RestartIsOwned, CallsInv,
           LaunchInv, NEW o \in Ops, StartFailed(o)
    PROVE  CallsInv' /\ LaunchInv' /\ NoNewLaunch(o)
  <1> USE DEF TypeOK, OpTypes, ProcessTypes, LifecycleTypes
  <1>1. \A q \in Ops : op[q] \in OpRecord /\ op'[q] \in OpRecord OBVIOUS
  <1>2. \A l \in Launches : launch[l] \in LaunchRecord /\ launch'[l] \in LaunchRecord OBVIOUS
  <1>3. \A q \in Ops \ {o} : op[q].pc \notin Owning
    BY OwnerAlone DEF Holds, StartFailed
  <1>4. \A q \in Ops \ {o} : Same(q) /\ CallInv(q) /\ Skeleton(q) /\ Skeleton(q)'
    BY <1>1 DEF Same, CallsInv, SkeletonInv, At, Goto, DropStartup, CompleteCell, Holds,
       AfterStdinFailure, ClearStopHandle, StartFailed, process
  <1>5. CallInv(o) /\ Skeleton(o) /\ Skeleton(o)'
    <2> HIDE DEF TypeOK, CallInv, Skeleton
    <2> QED BY DEF CallsInv, SkeletonInv
  <1>6. LaunchInv'
    BY SMTT(40), <1>1, <1>2, <1>3, <1>4, <1>5 DEF Same, At, Goto, DropStartup,
       CompleteCell, Holds, AfterStdinFailure, ClearStopHandle, StartFailed, process,
       ensure_generation, ensure_startup, ensure_controlled_generation, OpRecord
  <1>7. CallInv(o)'
    BY <1>1, <1>2, <1>3, <1>4, <1>5 DEF RestartIsOwned, At, Goto, DropStartup,
       CompleteCell, Holds, AfterStdinFailure, ClearStopHandle, StartFailed, process,
       ensure_generation, ensure_startup, ensure_controlled_generation, OpRecord
  <1>8. ASSUME NEW q \in Ops \ {o} PROVE CallInv(q)'
    BY SMTT(40), <1>1, <1>2, <1>3, <1>4, <1>5 DEF Same, OwnsAdmission, Controlling,
       RestartIsOwned, At, Goto, DropStartup, CompleteCell, Holds, AfterStdinFailure,
       ClearStopHandle, StartFailed, process, ensure_generation, ensure_startup,
       ensure_controlled_generation, OpRecord
  <1>9. NoNewLaunch(o)
    BY <1>1, <1>2, <1>3, <1>4, <1>5 DEF NoNewLaunch, At, Goto, DropStartup,
       CompleteCell, Holds, AfterStdinFailure, ClearStopHandle, StartFailed, process,
       ensure_generation, ensure_startup, ensure_controlled_generation, OpRecord
  <1> HIDE DEF TypeOK, LaunchInv, CallInv
  <1> QED BY <1>6, <1>7, <1>8, <1>9 DEF CallsInv

LEMMA StopFailedCalls ==
    ASSUME TypeOK, TypeOK', SkeletonInv, SkeletonInv', ClosesInv, RestartIsOwned, CallsInv,
           LaunchInv, NEW o \in Ops, StopFailed(o)
    PROVE  CallsInv' /\ LaunchInv' /\ NoNewLaunch(o)
  <1> USE DEF TypeOK, OpTypes, ProcessTypes, LifecycleTypes
  <1>1. \A q \in Ops : op[q] \in OpRecord /\ op'[q] \in OpRecord OBVIOUS
  <1>2. \A l \in Launches : launch[l] \in LaunchRecord /\ launch'[l] \in LaunchRecord OBVIOUS
  <1>3. op[o].pc = "stopping" /\ worker_lock = o BY DEF StopFailed, Holds, At
  <1>4. \A q \in Ops \ {o} : op[q].pc \notin Owning BY <1>3, OwnerAlone
  <1>5. /\ worker = "Running" /\ running = launched /\ launched \in Launches
        /\ stop_handle = launched /\ op[o].target = launched
    BY <1>3, LaunchedType DEF CallsInv
  <1>6. /\ op'[o].pc = "stopped" /\ op'[o].mode = op[o].mode /\ op'[o].gen = op[o].gen
        /\ op'[o].target = op[o].target /\ worker' = "Stopped"
        /\ UNCHANGED <<state, generation, controlled_send, stop_handle, launched>>
    BY <1>1 DEF StopFailed, Goto, lifecycle, OpRecord
  <1>7. \A l \in Launches :
           /\ launch'[l].gen = launch[l].gen /\ launch'[l].committed = launch[l].committed
           /\ l # launched \/ ~launch[l].live => SameLaunch(l)
           /\ l = launched => ~launch'[l].live
    BY <1>5, RetiredMoves DEF StopFailed
  <1>8. \A q \in Ops \ {o} : Same(q) /\ CallInv(q) /\ Skeleton(q) /\ Skeleton(q)'
    BY CallSkeleton DEF Acts, Step, Settle, Arrive, Alone, CallsInv, SkeletonInv
  <1>9. CallInv(o) /\ Skeleton(o) /\ Skeleton(o)'
    <2> HIDE DEF TypeOK, CallInv, Skeleton
    <2> QED BY DEF CallsInv, SkeletonInv
  <1>10. LaunchInv'
    BY SMTT(40), <1>5, <1>6, <1>7 DEF SameLaunch
  <1>11. CallInv(o)'
    BY <1>3, <1>5, <1>6, <1>7, <1>9
  <1>12. ASSUME NEW q \in Ops \ {o} PROVE CallInv(q)'
    BY SMTT(40), <1>4, <1>5, <1>6, <1>7, <1>8 DEF Same, SameLaunch, OpRecord
  <1>13. NoNewLaunch(o) BY <1>6, <1>7 DEF NoNewLaunch, SameLaunch
  <1> HIDE DEF TypeOK, LaunchInv, CallInv
  <1> QED BY <1>10, <1>11, <1>12, <1>13 DEF CallsInv

LEMMA FailedWorkerStoppedCalls ==
    ASSUME TypeOK, TypeOK', SkeletonInv, SkeletonInv', ClosesInv, RestartIsOwned, CallsInv,
           LaunchInv, NEW o \in Ops, FailedWorkerStopped(o)
    PROVE  CallsInv' /\ LaunchInv' /\ NoNewLaunch(o)
  <1> USE DEF TypeOK, OpTypes, ProcessTypes, LifecycleTypes
  <1>1. \A q \in Ops : op[q] \in OpRecord /\ op'[q] \in OpRecord OBVIOUS
  <1>2. \A l \in Launches : launch[l] \in LaunchRecord /\ launch'[l] \in LaunchRecord OBVIOUS
  <1>3. op[o].pc = "stopped" /\ worker_lock = o BY DEF FailedWorkerStopped, Holds, At
  <1>4. \A q \in Ops \ {o} : op[q].pc \notin Owning BY <1>3, OwnerAlone
  <1>5. /\ op[o].target = launched /\ launched \in Launches /\ worker # "Running"
        /\ stop_handle = launched /\ ~launch[launched].live
    BY <1>3, LaunchedType DEF CallsInv
  <1>6. /\ op'[o].pc \in {"replace", "prepared", "done", "poll", "return"}
        /\ op'[o].gen = op[o].gen /\ op'[o].target = NoLaunch /\ op'[o].mode = op[o].mode
        /\ worker' # "Running"
        /\ UNCHANGED <<generation, controlled_send, launched, launch, running>>
    BY <1>1, <1>5 DEF FailedWorkerStopped, StopReturns, AfterStdinFailure, OpRecord
  <1>7. LET current == state = "Ready" /\ Current(o)
            cleanup == launch[launched].cleanup
        IN /\ stop_handle' = IF current /\ can_replace(cleanup) THEN NoLaunch ELSE stop_handle
           /\ state' = IF current /\ ~can_replace(cleanup) THEN "ShuttingDown" ELSE state
    BY <1>5 DEF FailedWorkerStopped, ensure_generation
  <1>8. ModeFits(o) BY DEF SkeletonInv
  <1>9. \A q \in Ops \ {o} : Same(q) /\ CallInv(q) /\ Skeleton(q) /\ Skeleton(q)'
    BY SMTT(40), CallSkeleton DEF Acts, Step, Settle, Arrive, Alone, CallsInv, SkeletonInv
  <1>10. CallInv(o) /\ Skeleton(o) /\ Skeleton(o)'
    <2> HIDE DEF TypeOK, CallInv, Skeleton
    <2> QED BY DEF CallsInv, SkeletonInv
  <1>11. LaunchInv'
    BY SMTT(40), <1>1, <1>2, <1>3, <1>4, <1>5, <1>6, <1>7, <1>8, <1>9, <1>10 DEF Same,
       can_replace, SameLaunch, Restarts, ClosesInv, Closes
  <1>12. CallInv(o)'
    BY <1>1, <1>2, <1>3, <1>4, <1>5, <1>6, <1>7, <1>8, <1>9, <1>10 DEF RestartIsOwned,
       can_replace, SameLaunch, Restarts, ClosesInv, Closes, OpRecord
  <1>13. ASSUME NEW q \in Ops \ {o} PROVE CallInv(q)'
    <2>1. Same(q) /\ CallInv(q) /\ Skeleton(q) /\ op[q].pc \notin Owning BY <1>4, <1>9
    <2>2. Restarting(q) => op[q].pc \notin BehindBarrier BY <1>3, <2>1
    <2>3. \A l \in Launches : SameLaunch(l) BY <1>6, SameLaunches
    <2>4. state' \in {state, "ShuttingDown"} /\ (Restarting(q) => stop_handle' = stop_handle) BY <1>7
    <2>5. launched <= launched' /\ UNCHANGED <<generation, controlled_send>> BY <1>6
    <2> HIDE DEF TypeOK, CallInv, Restarting, Skeleton, SameLaunch, BehindBarrier, BeforeBarrier, Owning
    <2> QED BY <2>1, <2>2, <2>3, <2>4, <2>5, BystandingCall
  <1>14. NoNewLaunch(o) BY <1>1, <1>2, <1>3, <1>4, <1>5, <1>6, <1>7, <1>8, <1>9, <1>10 DEF NoNewLaunch, SameLaunch
  <1> HIDE DEF TypeOK, LaunchInv, CallInv
  <1> QED BY <1>11, <1>12, <1>13, <1>14 DEF CallsInv

LEMMA StartRestartCalls ==
    ASSUME TypeOK, TypeOK', SkeletonInv, SkeletonInv', ClosesInv, RestartIsOwned, CallsInv,
           LaunchInv, NEW o \in Ops, NEW label \in {"shutdown", "restart_committed"},
           NEW resolver, StartRestart(o, resolver, label), state = "Ready", controlled_send = o,
           op[o].pc \in {"restart", "restart_commit"}, Alone(o)
    PROVE  CallsInv' /\ LaunchInv' /\ NoNewLaunch(o)
  <1> USE DEF TypeOK, OpTypes, ProcessTypes, LifecycleTypes
  <1>1. \A q \in Ops : op[q] \in OpRecord /\ op'[q] \in OpRecord OBVIOUS
  <1>2. \A l \in Launches : launch[l] \in LaunchRecord /\ launch'[l] \in LaunchRecord OBVIOUS
  <1>3. /\ op'[o].pc = label /\ op'[o].mode = "Restart" /\ op'[o].gen = generation'
        /\ op'[o].target = stop_handle
        /\ generation' = generation + 1 /\ state' = "Restarting"
        /\ UNCHANGED <<controlled_send, stop_handle, launched, launch, worker, running>>
    BY <1>1 DEF StartRestart, process, OpRecord
  <1>4. \A q \in Ops : op[q].gen # generation + 1
    BY ConstantsAssumption, OpFields DEF SkeletonInv, Generations
  <1>5. \A q \in Ops \ {o} : ~Controlling(q)
    BY DEF SkeletonInv, OwnsAdmission
  <1>6. \A q \in Ops \ {o} : Same(q) /\ CallInv(q) /\ Skeleton(q) /\ Skeleton(q)'
    BY DEF Alone, CallsInv, SkeletonInv
  <1>7. CallInv(o) /\ Skeleton(o) /\ Skeleton(o)'
    <2> HIDE DEF TypeOK, CallInv, Skeleton
    <2> QED BY DEF CallsInv, SkeletonInv
  <1>8. LaunchInv'
    BY SMTT(40), <1>1, <1>2, <1>3, <1>4, <1>5, <1>6, <1>7 DEF Same, SameLaunch,
       Restarts, ClosesInv, Closes
  <1>9. CallInv(o)'
    BY <1>1, <1>2, <1>3, <1>4, <1>5, <1>6, <1>7 DEF RestartIsOwned, SameLaunch,
       Restarts, ClosesInv, Closes, OpRecord
  <1>10. ASSUME NEW q \in Ops \ {o} PROVE CallInv(q)'
    BY SMTT(40), <1>1, <1>2, <1>3, <1>4, <1>5, <1>6, <1>7 DEF Same, OwnsAdmission,
       Controlling, RestartIsOwned, SameLaunch, Restarts, ClosesInv, Closes, OpRecord
  <1>11. NoNewLaunch(o) BY <1>1, <1>2, <1>3, <1>4, <1>5, <1>6, <1>7 DEF NoNewLaunch, SameLaunch
  <1> HIDE DEF TypeOK, LaunchInv, CallInv
  <1> QED BY <1>8, <1>9, <1>10, <1>11 DEF CallsInv

LEMMA RestartShutdownCalls ==
    ASSUME TypeOK, TypeOK', SkeletonInv, SkeletonInv', ClosesInv, RestartIsOwned, CallsInv,
           LaunchInv, NEW o \in Ops, RestartShutdown(o)
    PROVE  CallsInv' /\ LaunchInv' /\ NoNewLaunch(o)
  <1> USE DEF TypeOK, OpTypes, ProcessTypes, LifecycleTypes
  <1>1. \A q \in Ops : op[q] \in OpRecord /\ op'[q] \in OpRecord OBVIOUS
  <1>2. \A l \in Launches : launch[l] \in LaunchRecord /\ launch'[l] \in LaunchRecord OBVIOUS
  <1>3. op[o].pc = "shutdown" BY DEF RestartShutdown, At
  <1>4. PICK outcome \in Outcomes(op[o].target) :
           /\ launch' = Retired(op[o].target, outcome)
           /\ op'[o].pc = "replace_worker" => process_result(outcome) \/ "replace_worker" = "retire_worker"
    BY <1>1 DEF RestartShutdown, ShutdownProcesses, Goto, OpRecord
  <1>5. /\ op'[o].pc \in {"replace_worker", "retire_worker"} /\ op'[o].mode = op[o].mode
        /\ op'[o].gen = op[o].gen /\ op'[o].target = op[o].target
    BY <1>1 DEF RestartShutdown, ShutdownProcesses, Goto, OpRecord
  <1>6. /\ UNCHANGED <<state, generation, controlled_send, stop_handle, worker, running, launched>>
        /\ \A l \in Launches :
              /\ launch'[l].gen = launch[l].gen /\ launch'[l].committed = launch[l].committed
              /\ l # op[o].target => SameLaunch(l)
              /\ l = op[o].target => ~launch'[l].live /\ launch'[l].cleanup = outcome
              /\ ~launch[l].live => SameLaunch(l)
    <2>1. op[o].target \in Launches \cup {NoLaunch} BY <1>1 DEF OpRecord
    <2> QED BY <1>4, <2>1, RetiredMoves DEF RestartShutdown, ShutdownProcesses, lifecycle
  <1>7. \A q \in Ops \ {o} : Same(q) /\ CallInv(q) /\ Skeleton(q) /\ Skeleton(q)'
    BY CallSkeleton DEF Acts, Step, Settle, Arrive, Alone, CallsInv, SkeletonInv
  <1>8. CallInv(o) /\ Skeleton(o) /\ Skeleton(o)'
    <2> HIDE DEF CallInv, Skeleton
    <2> QED BY DEF CallsInv, SkeletonInv
  <1>r. /\ op[o].mode = "Restart" /\ state # "Ready" /\ controlled_send = o
        /\ op[o].target <= launched /\ (state = "Restarting" => op[o].target = stop_handle)
    BY <1>3, <1>8 DEF Restarts, OwnsAdmission, Controlling
  <1>9. LaunchInv'
    <2>1. \A l \in Launches : launch'[l].live => launch[l].live
      BY <1>2, <1>6 DEF SameLaunch, LaunchRecord
    <2>2. Nobody(Holding)' <=> Nobody(Holding) BY <1>3, <1>5, <1>7 DEF Same
    <2> HIDE DEF TypeOK, LaunchInv, SameLaunch, Nobody, Holding
    <2> QED BY <1>6, <1>r, <2>1, <2>2, StrandedLaunches
  <1>10. CallInv(o)'
    <2>1. op[o].target # NoLaunch => op[o].target \in Launches BY <1>1 DEF OpRecord
    <2>2. op'[o].pc = "replace_worker" /\ op[o].target # NoLaunch =>
             /\ ~launch'[op[o].target].live
             /\ launch'[op[o].target].cleanup \in {"Clean", "BadIO"}
      BY <1>4, <1>5, <1>6, <2>1 DEF process_result
    <2>3. BeforeReplacement(o)' BY <1>5, <1>6, <1>r, <2>2
    <2>4. BehindReplacement(o)' BY <1>5, <1>6, <1>r
    <2>5. NotYetAdmitted(o)' BY <1>6, <1>r
    <2>6. HasLaunch(o)' /\ MayLaunch(o)' /\ UsesWorker(o)' /\ Stops(o)' /\ IsCurrent(o)' BY <1>5
    <2> HIDE DEF TypeOK, NotYetAdmitted, HasLaunch, MayLaunch, UsesWorker, Stops, IsCurrent,
                 BeforeReplacement, BehindReplacement
    <2> QED BY <2>3, <2>4, <2>5, <2>6
  <1>11. ASSUME NEW q \in Ops \ {o} PROVE CallInv(q)'
    <2>1. Same(q) /\ CallInv(q) /\ Skeleton(q) BY <1>7
    <2>2. Restarting(q) => op[q].pc \in {"return", "done"}
      BY <1>r, <2>1 DEF OwnsAdmission, Controlling
    <2> HIDE DEF TypeOK, CallInv, Restarting, Skeleton, SameLaunch
    <2> QED BY <1>6, <1>r, <2>1, <2>2, StrandedCall
  <1>12. NoNewLaunch(o) BY <1>1, <1>2, <1>3, <1>4, <1>5, <1>6, <1>7, <1>8 DEF NoNewLaunch, SameLaunch
  <1> HIDE DEF TypeOK, LaunchInv, CallInv
  <1> QED BY <1>9, <1>10, <1>11, <1>12 DEF CallsInv

LEMMA RetireWorkerCalls ==
    ASSUME TypeOK, TypeOK', SkeletonInv, SkeletonInv', ClosesInv, RestartIsOwned, CallsInv,
           LaunchInv, NEW o \in Ops, RetireWorker(o)
    PROVE  CallsInv' /\ LaunchInv' /\ NoNewLaunch(o)
  <1> USE DEF TypeOK, OpTypes, ProcessTypes, LifecycleTypes
  <1>1. \A q \in Ops : op[q] \in OpRecord /\ op'[q] \in OpRecord OBVIOUS
  <1>2. \A l \in Launches : launch[l] \in LaunchRecord /\ launch'[l] \in LaunchRecord OBVIOUS
  <1>3. op[o].pc = "retire_worker" /\ worker_lock = NoOp BY DEF RetireWorker, At
  <1>4. \A q \in Ops : op[q].pc \notin Owning
    BY <1>3, OwnerAlone
  <1>5. /\ op'[o].pc = "fail_restart" /\ op'[o].mode = op[o].mode /\ op'[o].gen = op[o].gen
        /\ op'[o].target = op[o].target
        /\ UNCHANGED <<state, generation, controlled_send, stop_handle, launched>>
    BY <1>1 DEF RetireWorker, Goto, lifecycle, OpRecord
  <1>6. state # "Ready"
    BY <1>3 DEF SkeletonInv, Restarts, CallsInv
  <1>7. worker = "Running" => running = launched /\ launched \in Launches /\ stop_handle = launched
    BY LaunchedType
  <1>8. /\ worker' = "Running" => worker = "Running" /\ running' = running
        /\ worker # "Running" => worker' = worker /\ running' = running
        /\ \A l \in Launches :
              /\ launch'[l].gen = launch[l].gen /\ launch'[l].committed = launch[l].committed
              /\ ~launch[l].live => SameLaunch(l)
              /\ l # launched \/ worker # "Running" => SameLaunch(l)
              /\ l = launched /\ worker = "Running" => ~launch'[l].live
    <2>1. CASE worker # "Running"
      <3>1. UNCHANGED <<launch, worker, running>> BY <2>1 DEF RetireWorker, FinishRetirement
      <3> QED BY <2>1, <3>1 DEF SameLaunch
    <2>2. CASE worker = "Running"
      <3>1. PICK outcome \in Outcomes(running), io \in BOOLEAN :
               /\ launch' = Retired(running, outcome)
               /\ worker' = IF io THEN "Stopped" ELSE worker
               /\ running' = IF io THEN NoLaunch ELSE running
        BY <2>2 DEF RetireWorker, FinishRetirement
      <3> QED BY <1>7, <2>2, <3>1, RetiredMoves
    <2> QED BY <2>1, <2>2
  <1>9. \A q \in Ops \ {o} : Same(q) /\ CallInv(q) /\ Skeleton(q) /\ Skeleton(q)'
    BY SMTT(40), CallSkeleton DEF Acts, Step, Settle, Arrive, Alone, CallsInv, SkeletonInv
  <1>10. CallInv(o) /\ Skeleton(o) /\ Skeleton(o)'
    <2> HIDE DEF TypeOK, CallInv, Skeleton
    <2> QED BY DEF CallsInv, SkeletonInv
  <1>11. LaunchInv'
    BY SMTT(40), <1>1, <1>2, <1>3, <1>4, <1>5, <1>6, <1>7, <1>8, <1>9, <1>10 DEF Same,
       SameLaunch, Restarts, ClosesInv, Closes
  <1>12. CallInv(o)'
    BY <1>1, <1>2, <1>3, <1>4, <1>5, <1>6, <1>7, <1>8, <1>9, <1>10 DEF RestartIsOwned,
       SameLaunch, Restarts, ClosesInv, Closes, OpRecord
  <1>13. ASSUME NEW q \in Ops \ {o} PROVE CallInv(q)'
    BY SMTT(40), <1>1, <1>2, <1>3, <1>4, <1>5, <1>6, <1>7, <1>8, <1>9, <1>10 DEF Same,
       OwnsAdmission, Controlling, RestartIsOwned, SameLaunch, Restarts, ClosesInv,
       Closes, OpRecord
  <1>14. NoNewLaunch(o) BY <1>1, <1>2, <1>3, <1>4, <1>5, <1>6, <1>7, <1>8, <1>9, <1>10 DEF NoNewLaunch, SameLaunch
  <1> HIDE DEF TypeOK, LaunchInv, CallInv
  <1> QED BY <1>11, <1>12, <1>13, <1>14 DEF CallsInv

LEMMA FailRestartCalls ==
    ASSUME TypeOK, TypeOK', SkeletonInv, SkeletonInv', ClosesInv, RestartIsOwned, CallsInv,
           LaunchInv, NEW o \in Ops, FailRestart(o)
    PROVE  CallsInv' /\ LaunchInv' /\ NoNewLaunch(o)
  <1> USE DEF TypeOK, OpTypes, ProcessTypes, LifecycleTypes
  <1>1. \A q \in Ops : op[q] \in OpRecord /\ op'[q] \in OpRecord OBVIOUS
  <1>2. \A l \in Launches : launch[l] \in LaunchRecord /\ launch'[l] \in LaunchRecord OBVIOUS
  <1>3. \A q \in Ops \ {o} : Same(q) /\ CallInv(q) /\ Skeleton(q) /\ Skeleton(q)'
    BY <1>1 DEF Same, CallsInv, SkeletonInv, At, Goto, FailRestart, process
  <1>4. CallInv(o) /\ Skeleton(o) /\ Skeleton(o)'
    <2> HIDE DEF TypeOK, CallInv, Skeleton
    <2> QED BY DEF CallsInv, SkeletonInv
  <1>5. LaunchInv'
    BY SMTT(40), <1>1, <1>2, <1>3, <1>4 DEF Same, At, Goto, FailRestart, process,
       ensure_generation, ensure_startup, ensure_controlled_generation, Restarts,
       ClosesInv, Closes, Closing, Generations, OpRecord
  <1>6. CallInv(o)'
    BY <1>1, <1>2, <1>3, <1>4 DEF RestartIsOwned, At, Goto, FailRestart, process,
       ensure_generation, ensure_startup, ensure_controlled_generation, Restarts,
       ClosesInv, Closes, Closing, Generations, OpRecord
  <1>7. ASSUME NEW q \in Ops \ {o} PROVE CallInv(q)'
    BY SMTT(40), <1>1, <1>2, <1>3, <1>4 DEF Same, OwnsAdmission, Controlling,
       RestartIsOwned, At, Goto, FailRestart, process, ensure_generation,
       ensure_startup, ensure_controlled_generation, Restarts, ClosesInv, Closes,
       Closing, Generations, OpRecord
  <1>8. NoNewLaunch(o)
    BY <1>1, <1>2, <1>3, <1>4 DEF NoNewLaunch, At, Goto, FailRestart, process,
       ensure_generation, ensure_startup, ensure_controlled_generation, Restarts,
       ClosesInv, Closes, Closing, Generations, OpRecord
  <1> HIDE DEF TypeOK, LaunchInv, CallInv
  <1> QED BY <1>5, <1>6, <1>7, <1>8 DEF CallsInv

LEMMA ReplaceWorkerCalls ==
    ASSUME TypeOK, TypeOK', SkeletonInv, SkeletonInv', ClosesInv, RestartIsOwned, CallsInv,
           LaunchInv, NEW o \in Ops, ReplaceWorker(o)
    PROVE  CallsInv' /\ LaunchInv' /\ NoNewLaunch(o)
  <1> USE DEF TypeOK, OpTypes, ProcessTypes, LifecycleTypes
  <1>1. \A q \in Ops : op[q] \in OpRecord /\ op'[q] \in OpRecord OBVIOUS
  <1>2. \A l \in Launches : launch[l] \in LaunchRecord /\ launch'[l] \in LaunchRecord OBVIOUS
  <1>3. op[o].pc = "replace_worker" /\ worker_lock = NoOp BY DEF ReplaceWorker, At
  <1>4. \A q \in Ops : op[q].pc \notin Owning
    BY <1>3, OwnerAlone
  <1>5. /\ op'[o].mode = op[o].mode /\ op'[o].gen = op[o].gen /\ op'[o].target = op[o].target
        /\ UNCHANGED <<state, generation, controlled_send, launched>>
    BY <1>1 DEF ReplaceWorker, Goto, OpRecord
  <1>6. state = "Restarting" /\ worker = "Running" =>
           /\ op[o].target = launched /\ running = launched /\ launched \in Launches
           /\ ~launch[launched].live /\ launch[launched].cleanup \in {"Clean", "BadIO"}
    BY <1>3, LaunchedType DEF CallsInv, SkeletonInv, Restarts
  <1>7. launch' = launch
    <2>1. CASE state = "Restarting" /\ worker = "Running"
      <3>1. \A outcome : Retired(running, outcome) = launch BY <1>6, <2>1 DEF Retired
      <3> QED BY <2>1, <3>1 DEF ReplaceWorker, FinishRetirement
    <2>2. CASE ~(state = "Restarting" /\ worker = "Running") BY <2>2 DEF ReplaceWorker
    <2> QED BY <2>1, <2>2
  <1>8. \/ /\ op'[o].pc = "fail_restart"
           /\ UNCHANGED <<stop_handle, worker, running>>
        \/ /\ op'[o].pc = "settle" /\ state = "Restarting"
           /\ stop_handle' = NoLaunch /\ worker' = "Stopped"
           /\ op[o].target # NoLaunch => launch[op[o].target].cleanup \in {"Clean", "Unclean"}
    <2>1. CASE state # "Restarting" BY <1>1, <2>1 DEF ReplaceWorker, Goto, OpRecord
    <2>2. CASE state = "Restarting" /\ worker = "Running"
      BY <1>1, <1>6, <2>2 DEF ReplaceWorker, FinishRetirement, Outcomes, IoResults,
         Goto, OpRecord
    <2>3. CASE state = "Restarting" /\ worker # "Running"
      <3>1. op[o].target # NoLaunch =>
               /\ ~launch[op[o].target].live
               /\ launch[op[o].target].cleanup \in {"Clean", "BadIO"}
        BY <1>3 DEF CallsInv
      <3> QED BY <1>1, <2>3, <3>1 DEF ReplaceWorker, Outcomes, IoResults, Goto, OpRecord
    <2> QED BY <2>1, <2>2, <2>3
  <1>9. \A q \in Ops \ {o} : Same(q) /\ CallInv(q) /\ Skeleton(q) /\ Skeleton(q)'
    BY SMTT(40), CallSkeleton DEF Acts, Step, Settle, Arrive, Alone, CallsInv, SkeletonInv
  <1>10. CallInv(o) /\ Skeleton(o) /\ Skeleton(o)'
    <2> HIDE DEF TypeOK, CallInv, Skeleton
    <2> QED BY DEF CallsInv, SkeletonInv
  <1>11. LaunchInv'
    BY SMTT(40), <1>1, <1>2, <1>3, <1>4, <1>5, <1>6, <1>7, <1>8, <1>9, <1>10 DEF Same,
       SameLaunch, Restarts, ClosesInv, Closes
  <1>12. BehindReplacement(o)'
    <2>1. op[o].mode = "Restart" /\ state # "Ready"
      BY <1>3, <1>10 DEF Restarts
    <2>2. \A q \in Ops : op[q].pc \notin Busy
      BY <1>4
    <2>3. state = "Restarting" => op[o].target = stop_handle
      BY <1>3, <1>10, <2>1
    <2>4. ASSUME op'[o].pc = "settle" PROVE LastCleared
      <3>1. /\ state = "Restarting"
            /\ op[o].target # NoLaunch => launch[op[o].target].cleanup \in {"Clean", "Unclean"}
        BY <1>8, <2>4
      <3>2. CASE worker = "Running" BY <1>6, <3>1, <3>2
      <3>3. CASE worker # "Running"
        <4>1. Nobody(Holding) BY <1>4
        <4>2. RestartKnows OBVIOUS
        <4>3. LastCleared \/ stop_handle = launched BY <3>1, <3>3, <4>1, <4>2
        <4>4. op[o].target # NoLaunch => ~launch[op[o].target].live
          BY <1>3, <1>10
        <4>5. op[o].target = stop_handle BY <2>3, <3>1
        <4> QED BY <3>1, <4>3, <4>4, <4>5
      <3> QED BY <3>2, <3>3
    <2>5. LastCleared' = LastCleared BY SMTT(40), <1>5, <1>7
    <2> QED BY <1>5, <1>9, <1>8, <2>1, <2>2, <2>4, <2>5 DEF Same
  <1>13. NotYetAdmitted(o)' /\ HasLaunch(o)' /\ MayLaunch(o)' /\ UsesWorker(o)' /\ Stops(o)' /\ IsCurrent(o)' /\ BeforeReplacement(o)'
    BY SMTT(40), <1>1, <1>2, <1>3, <1>4, <1>5, <1>6, <1>7, <1>8, <1>9, <1>10 DEF
       RestartIsOwned, SameLaunch, Restarts, ClosesInv, Closes, OpRecord
  <1>14. ASSUME NEW q \in Ops \ {o} PROVE CallInv(q)'
    <2>1. Same(q) /\ CallInv(q) /\ Skeleton(q) /\ op[q].pc \notin Owning BY <1>4, <1>9
    <2>2. op[o].mode = "Restart" BY <1>3, <1>10 DEF Restarts
    <2>3. controlled_send = o BY <1>3, <1>10, <2>2 DEF OwnsAdmission, Controlling
    <2>4. Restarting(q) => op[q].pc \in {"return", "done"}
      BY <2>1, <2>3 DEF OwnsAdmission, Controlling
    <2>5. Restarting(q) => op[q].pc \notin BehindBarrier \cup BeforeBarrier BY <2>4
    <2>6. launched <= launched' BY <1>5
    <2>7. \A l \in Launches : SameLaunch(l) BY <1>7, SameLaunches
    <2> HIDE DEF TypeOK, CallInv, Restarting, Skeleton, SameLaunch, BehindBarrier, BeforeBarrier, Owning
    <2> QED BY <1>5, <2>1, <2>5, <2>6, <2>7, BystandingCall
  <1>15. NoNewLaunch(o) BY <1>1, <1>2, <1>3, <1>4, <1>5, <1>6, <1>7, <1>8, <1>9, <1>10 DEF NoNewLaunch, SameLaunch
  <1>16. CallInv(o)'
    <2> HIDE DEF TypeOK, NotYetAdmitted, HasLaunch, MayLaunch, UsesWorker, Stops, IsCurrent,
                 BeforeReplacement, BehindReplacement
    <2> QED BY <1>12, <1>13
  <1> HIDE DEF TypeOK, LaunchInv, CallInv
  <1> QED BY <1>11, <1>14, <1>15, <1>16 DEF CallsInv

LEMMA RestartReturnsCalls ==
    ASSUME TypeOK, TypeOK', SkeletonInv, SkeletonInv', ClosesInv, RestartIsOwned, CallsInv,
           LaunchInv, NEW o \in Ops, RestartReturns(o)
    PROVE  CallsInv' /\ LaunchInv' /\ NoNewLaunch(o)
  <1> USE DEF TypeOK, OpTypes, ProcessTypes, LifecycleTypes
  <1>1. \A q \in Ops : op[q] \in OpRecord /\ op'[q] \in OpRecord OBVIOUS
  <1>2. \A l \in Launches : launch[l] \in LaunchRecord /\ launch'[l] \in LaunchRecord OBVIOUS
  <1>3. op[o].pc = "finish_restart" /\ op[o].mode = "Restart" /\ controlled_send = o
    BY DEF RestartReturns, At, SkeletonInv, Restarts, OwnsAdmission, Controlling
  <1>4. /\ op'[o].pc = "restarted" /\ op'[o].mode = op[o].mode
        /\ op'[o].gen = op[o].gen /\ op'[o].target = op[o].target
        /\ UNCHANGED <<generation, controlled_send, stop_handle, launched, launch, worker, running>>
    BY <1>1 DEF RestartReturns, process, OpRecord
  <1>5. state = "Restarting" => Current(o) BY <1>3 DEF RestartIsOwned
  <1>6. state' = IF state = "Restarting" THEN "Ready" ELSE state
    BY <1>5 DEF RestartReturns, FinishRestart
  <1>7. state = "Restarting" =>
           /\ worker # "Running" /\ stop_handle = NoLaunch /\ LastCleared
           /\ \A q \in Ops : op[q].pc \notin Busy
    BY <1>3 DEF CallsInv
  <1>8. \A q \in Ops \ {o} : ~Controlling(q)
    BY <1>3 DEF SkeletonInv, OwnsAdmission
  <1>9. \A q \in Ops \ {o} : Same(q) /\ CallInv(q) /\ Skeleton(q) /\ Skeleton(q)'
    BY SMTT(40), CallSkeleton DEF Acts, Step, Settle, Arrive, Alone, CallsInv, SkeletonInv
  <1>10. CallInv(o) /\ Skeleton(o) /\ Skeleton(o)'
    <2> HIDE DEF TypeOK, CallInv, Skeleton
    <2> QED BY DEF CallsInv, SkeletonInv
  <1>11. LaunchInv'
    BY SMTT(40), <1>1, <1>2, <1>3, <1>4, <1>5, <1>6, <1>7, <1>8, <1>9, <1>10 DEF Same,
       SameLaunch, Restarts, ClosesInv, Closes
  <1>12. CallInv(o)'
    BY <1>1, <1>2, <1>3, <1>4, <1>5, <1>6, <1>7, <1>8, <1>9, <1>10 DEF RestartIsOwned,
       SameLaunch, Restarts, ClosesInv, Closes, OpRecord
  <1>13. ASSUME NEW q \in Ops \ {o} PROVE CallInv(q)'
    <2>1. Same(q) /\ CallInv(q) /\ ~Controlling(q) BY <1>8, <1>9
    <2>2. CASE state # "Restarting"
      <3>1. ~Restarting(q) BY <2>2
      <3>2. SameWorker BY <1>4, <1>6, <2>2, WorkerUntouched
      <3> HIDE DEF TypeOK, CallInv, Restarting, BehindBarrier, Busy, SameWorker
      <3> QED BY <1>4, <2>1, <3>1, <3>2, UndisturbedCall
    <2>3. CASE state = "Restarting"
      <3>1. \/ op[q].pc \notin Busy /\ op[q].pc \notin Settling \cup BeforeBarrier
            \/ op[q].mode # "Restart"
        BY <1>7, <2>1, <2>3 DEF Controlling
      <3>2. op[q].pc \notin Busy /\ state' = "Ready" BY <1>6, <1>7, <2>3
      <3>3. NotYetAdmitted(q)' /\ HasLaunch(q)' /\ Stops(q)' BY <2>1, <3>2 DEF Same
      <3>4. MayLaunch(q)' /\ UsesWorker(q)' /\ IsCurrent(q)'
        BY <1>4, <1>7, <2>1, <2>3, <3>2 DEF Same
      <3>5. BeforeReplacement(q)' BY <1>4, <2>1, <3>1, <3>2 DEF Same
      <3>6. BehindReplacement(q)' BY <2>1, <3>1, <3>2 DEF Same
      <3> HIDE DEF TypeOK, NotYetAdmitted, HasLaunch, MayLaunch, UsesWorker, Stops, IsCurrent,
                   BeforeReplacement, BehindReplacement
      <3> QED BY <3>3, <3>4, <3>5, <3>6
    <2> QED BY <2>2, <2>3
  <1>14. NoNewLaunch(o) BY <1>1, <1>2, <1>3, <1>4, <1>5, <1>6, <1>7, <1>8, <1>9, <1>10 DEF NoNewLaunch, SameLaunch
  <1> HIDE DEF TypeOK, LaunchInv, CallInv
  <1> QED BY <1>11, <1>12, <1>13, <1>14 DEF CallsInv

LEMMA CloseLifecycleCalls ==
    ASSUME TypeOK, TypeOK', SkeletonInv, SkeletonInv', ClosesInv, RestartIsOwned, CallsInv,
           LaunchInv, NEW o \in Ops, CloseLifecycle(o)
    PROVE  CallsInv' /\ LaunchInv' /\ NoNewLaunch(o)
  <1> USE DEF TypeOK, OpTypes, ProcessTypes, LifecycleTypes
  <1>1. \A q \in Ops : op[q] \in OpRecord /\ op'[q] \in OpRecord OBVIOUS
  <1>2. \A l \in Launches : launch[l] \in LaunchRecord /\ launch'[l] \in LaunchRecord OBVIOUS
  <1>3. o \in Closers /\ op[o].pc = "idle" BY DEF CloseLifecycle, At
  <1>4. /\ op'[o].pc = "close" /\ op'[o].mode = op[o].mode /\ op'[o].gen = op[o].gen
        /\ state' = "ShuttingDown"
        /\ UNCHANGED <<generation, controlled_send, stop_handle, worker, running, launched>>
    BY <1>1 DEF CloseLifecycle, process, OpRecord
  <1>5. \A l \in Launches : SameLaunch(l) BY SameLaunches DEF CloseLifecycle, process
  <1>6. \A q \in Ops \ {o} : Same(q) /\ CallInv(q) /\ Skeleton(q) /\ Skeleton(q)'
    BY SMTT(40), CallSkeleton DEF Acts, Step, Settle, Arrive, Alone, CallsInv, SkeletonInv
  <1>7. CallInv(o) /\ Skeleton(o) /\ Skeleton(o)'
    <2> HIDE DEF TypeOK, CallInv, Skeleton
    <2> QED BY DEF CallsInv, SkeletonInv
  <1>8. LaunchInv'
    BY SMTT(40), <1>1, <1>2, <1>3, <1>4, <1>5, <1>6, <1>7 DEF Same, SameLaunch,
       Restarts, ClosesInv, Closes
  <1>9. CallInv(o)'
    BY <1>1, <1>2, <1>3, <1>4, <1>5, <1>6, <1>7 DEF RestartIsOwned, SameLaunch,
       Restarts, ClosesInv, Closes, OpRecord
  <1>10. ASSUME NEW q \in Ops \ {o} PROVE CallInv(q)'
    BY SMTT(40), <1>1, <1>2, <1>3, <1>4, <1>5, <1>6, <1>7 DEF Same, OwnsAdmission,
       Controlling, RestartIsOwned, SameLaunch, Restarts, ClosesInv, Closes, OpRecord
  <1>11. NoNewLaunch(o) BY <1>1, <1>2, <1>3, <1>4, <1>5, <1>6, <1>7 DEF NoNewLaunch, SameLaunch
  <1> HIDE DEF TypeOK, LaunchInv, CallInv
  <1> QED BY <1>8, <1>9, <1>10, <1>11 DEF CallsInv

LEMMA CloseProcessesCalls ==
    ASSUME TypeOK, TypeOK', SkeletonInv, SkeletonInv', ClosesInv, RestartIsOwned, CallsInv,
           LaunchInv, NEW o \in Ops, CloseProcesses(o)
    PROVE  CallsInv' /\ LaunchInv' /\ NoNewLaunch(o)
  <1> USE DEF TypeOK, OpTypes, ProcessTypes, LifecycleTypes
  <1>1. \A q \in Ops : op[q] \in OpRecord /\ op'[q] \in OpRecord OBVIOUS
  <1>2. \A l \in Launches : launch[l] \in LaunchRecord /\ launch'[l] \in LaunchRecord OBVIOUS
  <1>3. op[o].pc = "close" BY DEF CloseProcesses, At
  <1>4. PICK outcome \in Outcomes(op[o].target) :
           /\ launch' = Retired(op[o].target, outcome)
           /\ op'[o].pc = "close_worker" => process_result(outcome) \/ "close_worker" = "close_worker"
    BY <1>1 DEF CloseProcesses, ShutdownProcesses, Goto, OpRecord
  <1>5. state = "ShuttingDown" BY <1>3 DEF ClosesInv, Closes, Closing
  <1>6. /\ op'[o].pc \in {"close_worker", "close_worker"} /\ op'[o].mode = op[o].mode
        /\ op'[o].gen = op[o].gen /\ op'[o].target = op[o].target
    BY <1>1 DEF CloseProcesses, ShutdownProcesses, Goto, OpRecord
  <1>7. /\ UNCHANGED <<state, generation, controlled_send, stop_handle, worker, running, launched>>
        /\ \A l \in Launches :
              /\ launch'[l].gen = launch[l].gen /\ launch'[l].committed = launch[l].committed
              /\ l # op[o].target => SameLaunch(l)
              /\ l = op[o].target => ~launch'[l].live /\ launch'[l].cleanup = outcome
              /\ ~launch[l].live => SameLaunch(l)
    <2>1. op[o].target \in Launches \cup {NoLaunch} BY <1>1 DEF OpRecord
    <2> QED BY <1>4, <2>1, RetiredMoves DEF CloseProcesses, ShutdownProcesses, lifecycle
  <1>8. \A q \in Ops \ {o} : Same(q) /\ CallInv(q) /\ Skeleton(q) /\ Skeleton(q)'
    BY SMTT(40), CallSkeleton DEF Acts, Step, Settle, Arrive, Alone, CallsInv, SkeletonInv
  <1>9. CallInv(o) /\ Skeleton(o) /\ Skeleton(o)'
    <2> HIDE DEF TypeOK, CallInv, Skeleton
    <2> QED BY DEF CallsInv, SkeletonInv
  <1>10. LaunchInv'
    <2>1. \A l \in Launches : launch'[l].live => launch[l].live
      BY <1>2, <1>7 DEF SameLaunch, LaunchRecord
    <2>2. Nobody(Holding)' <=> Nobody(Holding) BY <1>3, <1>6, <1>8 DEF Same
    <2> HIDE DEF TypeOK, LaunchInv, SameLaunch, Nobody, Holding
    <2> QED BY <1>5, <1>7, <2>1, <2>2, StrandedLaunches
  <1>11. CallInv(o)'
    BY <1>1, <1>2, <1>3, <1>4, <1>5, <1>6, <1>7, <1>8, <1>9 DEF RestartIsOwned,
       process_result, SameLaunch, Restarts, ClosesInv, Closes, OpRecord
  <1>12. ASSUME NEW q \in Ops \ {o} PROVE CallInv(q)'
    <2>1. Same(q) /\ CallInv(q) BY <1>8
    <2>2. ~Restarting(q) BY <1>5
    <2> HIDE DEF TypeOK, CallInv, Restarting, SameLaunch
    <2> QED BY <1>5, <1>7, <2>1, <2>2, StrandedCall
  <1>13. NoNewLaunch(o) BY <1>1, <1>2, <1>3, <1>4, <1>5, <1>6, <1>7, <1>8, <1>9 DEF NoNewLaunch, SameLaunch
  <1> HIDE DEF TypeOK, LaunchInv, CallInv
  <1> QED BY <1>10, <1>11, <1>12, <1>13 DEF CallsInv

LEMMA CloseWorkerCalls ==
    ASSUME TypeOK, TypeOK', SkeletonInv, SkeletonInv', ClosesInv, RestartIsOwned, CallsInv,
           LaunchInv, NEW o \in Ops, CloseWorker(o)
    PROVE  CallsInv' /\ LaunchInv' /\ NoNewLaunch(o)
  <1> USE DEF TypeOK, OpTypes, ProcessTypes, LifecycleTypes
  <1>1. \A q \in Ops : op[q] \in OpRecord /\ op'[q] \in OpRecord OBVIOUS
  <1>2. \A l \in Launches : launch[l] \in LaunchRecord /\ launch'[l] \in LaunchRecord OBVIOUS
  <1>3. op[o].pc = "close_worker" /\ worker_lock = NoOp BY DEF CloseWorker, At
  <1>4. \A q \in Ops : op[q].pc \notin Owning
    BY <1>3, OwnerAlone
  <1>5. /\ op'[o].pc = "done" /\ op'[o].mode = op[o].mode /\ op'[o].gen = op[o].gen
        /\ op'[o].target = op[o].target
        /\ UNCHANGED <<state, generation, controlled_send, stop_handle, launched>>
    BY <1>1 DEF CloseWorker, Goto, lifecycle, OpRecord
  <1>6. state # "Ready"
    BY <1>3 DEF ClosesInv, Closes, Closing
  <1>7. worker = "Running" => running = launched /\ launched \in Launches /\ stop_handle = launched
    BY LaunchedType
  <1>8. /\ worker' = "Running" => worker = "Running" /\ running' = running
        /\ worker # "Running" => worker' = worker /\ running' = running
        /\ \A l \in Launches :
              /\ launch'[l].gen = launch[l].gen /\ launch'[l].committed = launch[l].committed
              /\ ~launch[l].live => SameLaunch(l)
              /\ l # launched \/ worker # "Running" => SameLaunch(l)
              /\ l = launched /\ worker = "Running" => ~launch'[l].live
    <2>1. CASE worker # "Running"
      <3>1. UNCHANGED <<launch, worker, running>> BY <2>1 DEF CloseWorker, FinishRetirement
      <3> QED BY <2>1, <3>1 DEF SameLaunch
    <2>2. CASE worker = "Running"
      <3>1. PICK outcome \in Outcomes(running), io \in BOOLEAN :
               /\ launch' = Retired(running, outcome)
               /\ worker' = IF io THEN "Stopped" ELSE worker
               /\ running' = IF io THEN NoLaunch ELSE running
        BY <2>2 DEF CloseWorker, FinishRetirement
      <3> QED BY <1>7, <2>2, <3>1, RetiredMoves
    <2> QED BY <2>1, <2>2
  <1>9. \A q \in Ops \ {o} : Same(q) /\ CallInv(q) /\ Skeleton(q) /\ Skeleton(q)'
    BY SMTT(40), CallSkeleton DEF Acts, Step, Settle, Arrive, Alone, CallsInv, SkeletonInv
  <1>10. CallInv(o) /\ Skeleton(o) /\ Skeleton(o)'
    <2> HIDE DEF TypeOK, CallInv, Skeleton
    <2> QED BY DEF CallsInv, SkeletonInv
  <1>11. LaunchInv'
    BY SMTT(40), <1>1, <1>2, <1>3, <1>4, <1>5, <1>6, <1>7, <1>8, <1>9, <1>10 DEF Same,
       SameLaunch, Restarts, ClosesInv, Closes
  <1>12. CallInv(o)'
    BY <1>1, <1>2, <1>3, <1>4, <1>5, <1>6, <1>7, <1>8, <1>9, <1>10 DEF RestartIsOwned,
       SameLaunch, Restarts, ClosesInv, Closes, OpRecord
  <1>13. ASSUME NEW q \in Ops \ {o} PROVE CallInv(q)'
    <2>1. Same(q) /\ CallInv(q) /\ Skeleton(q) /\ op[q].pc \notin Owning BY <1>4, <1>9
    <2>2. ~Restarting(q) BY <1>3 DEF ClosesInv, Closes, Closing
    <2>3. \A l \in Launches : ~launch[l].live => SameLaunch(l) BY <1>8
    <2>4. launched <= launched' BY <1>5
    <2> HIDE DEF TypeOK, CallInv, Restarting, Skeleton, SameLaunch, BehindBarrier, BeforeBarrier, Owning
    <2> QED BY <1>5, <2>1, <2>2, <2>3, <2>4, BystandingCall
  <1>14. NoNewLaunch(o) BY <1>1, <1>2, <1>3, <1>4, <1>5, <1>6, <1>7, <1>8, <1>9, <1>10 DEF NoNewLaunch, SameLaunch
  <1> HIDE DEF TypeOK, LaunchInv, CallInv
  <1> QED BY <1>11, <1>12, <1>13, <1>14 DEF CallsInv

HIDE DEF LaunchInv, Unlaunched, Earlier, RunningIsLast, LiveIsHeld,
    ReadyIsCleared, ReadyIsUnregistered, ReadyIsCurrent, RestartKnows,
    RegisteredIsLaunched, CallInv, NotYetAdmitted, HasLaunch, MayLaunch,
    UsesWorker, Stops, IsCurrent, BeforeReplacement, BehindReplacement,
    Starting, Launching, Holding, Registered, Using, Owning, BeforeBarrier,
    BehindBarrier, Busy, Settling, Current, NoLaunch, Cleared, LastCleared,
    Restarting, Nobody, LaunchRecord, Launches, Skeleton, ModeFits

LEMMA LaunchedRange ==
    ASSUME TypeOK
    PROVE  /\ launched \in Nat /\ 1..launched \subseteq Launches
           /\ 1..launched # {} => launched \in Launches
  BY ConstantsAssumption DEF TypeOK, ProcessTypes, Launches

(* A quiet step of a call keeps what all calls, and the launches, rely on. *)
LEMMA QuietCalls ==
    ASSUME TypeOK, TypeOK', SkeletonInv, CallsInv, LaunchInv, NEW o \in Ops, Alone(o),
           Quiet(o), CallInv(o)'
    PROVE  CallsInv' /\ LaunchInv' /\ NoNewLaunch(o)
  <1>1. ASSUME NEW q \in Ops \ {o} PROVE CallInv(q)' BY <1>1, QuietOthers DEF CallsInv
  <1>2. NoNewLaunch(o) BY DEF NoNewLaunch, Quiet, SameWorker, SameLaunch
  <1> QED BY <1>1, <1>2, QuietLaunches DEF CallsInv

LEMMA BeginRestartCalls ==
    ASSUME TypeOK, TypeOK', SkeletonInv, SkeletonInv', ClosesInv, RestartIsOwned, CallsInv,
           LaunchInv, NEW o \in Ops, BeginRestart(o)
    PROVE  CallsInv' /\ LaunchInv' /\ NoNewLaunch(o)
  <1>1. Alone(o) BY CallSkeleton DEF Acts, Step, SkeletonInv
  <1>2. op[o].pc = "restart" /\ controlled_send = o
    BY DEF BeginRestart, At, SkeletonInv, Skeleton, OwnsAdmission, Controlling
  <1>3. CASE Refuse(o)
    <2>1. SameWorker BY <1>3, SameLaunches DEF SameWorker, Refuse, process
    <2>2. op'[o].pc = "done" BY <1>3 DEF Refuse, Goto, TypeOK, OpTypes, OpRecord
    <2>3. Quiet(o) /\ CallInv(o)'
      BY <1>2, <2>1, <2>2, CalmCall DEF NotYetAdmitted, Calm, Labels, Starting, Launching, Holding,
         Registered, Using, BeforeBarrier
    <2> QED BY <1>1, <2>3, QuietCalls
  <1>4. CASE ~Refuse(o)
    <2>1. StartRestart(o, resolver_handle, "shutdown") /\ state = "Ready"
      BY <1>4 DEF BeginRestart, ensure_controlled_generation, ensure_generation
    <2> QED BY <1>1, <1>2, <2>1, StartRestartCalls
  <1> QED BY <1>3, <1>4

LEMMA CommitRestartCalls ==
    ASSUME TypeOK, TypeOK', SkeletonInv, SkeletonInv', ClosesInv, RestartIsOwned, CallsInv,
           LaunchInv, NEW o \in Ops, CommitRestart(o)
    PROVE  CallsInv' /\ LaunchInv' /\ NoNewLaunch(o)
  <1>1. Alone(o) BY CallSkeleton DEF Acts, Step, SkeletonInv
  <1>2. op[o].pc = "restart_commit" /\ controlled_send = o
    BY DEF CommitRestart, At, SkeletonInv, Skeleton, OwnsAdmission, Controlling
  <1>3. CASE Refuse(o)
    <2>1. SameWorker BY <1>3, SameLaunches DEF SameWorker, Refuse, process
    <2>2. op'[o].pc = "done" BY <1>3 DEF Refuse, Goto, TypeOK, OpTypes, OpRecord
    <2>3. Quiet(o) /\ CallInv(o)'
      BY <1>2, <2>1, <2>2, CalmCall DEF NotYetAdmitted, Calm, Labels, Starting, Launching, Holding,
         Registered, Using, BeforeBarrier
    <2> QED BY <1>1, <2>3, QuietCalls
  <1>4. CASE ~Refuse(o)
    <2>1. StartRestart(o, NoOp, "restart_committed") /\ state = "Ready"
      BY <1>4 DEF CommitRestart, ensure_controlled_generation, ensure_generation
    <2> QED BY <1>1, <1>2, <2>1, StartRestartCalls
  <1> QED BY <1>3, <1>4

(* Every step of a call.                                                   *)
LEMMA CallsStep ==
    ASSUME TypeOK, TypeOK', SkeletonInv, SkeletonInv', ClosesInv, RestartIsOwned, CallsInv,
           LaunchInv, NEW o \in Ops, Acts(o)
    PROVE  CallsInv' /\ LaunchInv' /\ NoNewLaunch(o)
  <1>1. Skeleton(o) /\ CallInv(o) /\ Alone(o) BY CallSkeleton DEF SkeletonInv, CallsInv
  <1>2. CASE \/ StartEvaluation(o) \/ EvaluateBlocking(o) \/ LockForCell(o) \/ Dispatch(o)
            \/ CellFails(o) \/ EvaluateReturns(o) \/ ReserveWorkerStartup(o)
            \/ LockEnvironment(o) \/ ResolvePrestart(o) \/ StopFailedWorker(o)
            \/ StartReplacement(o) \/ StartPoll(o) \/ LockForStdin(o) \/ WriteStdin(o)
            \/ TakeIdleResponse(o) \/ LockForPoll(o) \/ Return(o) \/ Prelaunch(o)
            \/ ReservePreparation(o) \/ LockForPrelaunch(o) \/ PrelaunchReturns(o)
            \/ FinishStartup(o) \/ AdmitPreparation(o) \/ CheckPreparation(o)
            \/ PrepareAdmitted(o) \/ PrepareResolve(o) \/ CommitEnvironment(o)
            \/ StartPreparedEvaluation(o) \/ ResolveRestart(o) \/ RestartCommitted(o)
            \/ RestartLaunch(o) \/ AdmitControlledOperation(o) \/ FollowUp(o)
            \/ InterruptBlocking(o) \/ InterruptStdin(o) \/ RetryControlledSend(o)
            \/ SubmitControlledStdin(o) \/ EnsureFollowupConnection(o)
            \/ ContinueAfterInterrupt(o) \/ ContinueWithCell(o) \/ ResolvedPrestart(o)
            \/ PrepareResolved(o) \/ RestartResolved(o) \/ Admit(o)
            \/ BeginControlledSend(o) \/ InterruptStandalone(o) \/ InterruptStartup(o)
            \/ CellCompletes(o)
    <2>1. Quiet(o) /\ CallInv(o)'
      BY Zenon, <1>1, <1>2, StartEvaluationQuiet, EvaluateBlockingQuiet, LockForCellQuiet,
         DispatchQuiet, CellFailsQuiet, EvaluateReturnsQuiet, ReserveWorkerStartupQuiet,
         LockEnvironmentQuiet, ResolvePrestartQuiet, StopFailedWorkerQuiet,
         StartReplacementQuiet, StartPollQuiet, LockForStdinQuiet, WriteStdinQuiet,
         TakeIdleResponseQuiet, LockForPollQuiet, ReturnQuiet, PrelaunchQuiet,
         ReservePreparationQuiet, LockForPrelaunchQuiet, PrelaunchReturnsQuiet,
         FinishStartupQuiet, AdmitPreparationQuiet, CheckPreparationQuiet,
         PrepareAdmittedQuiet, PrepareResolveQuiet, CommitEnvironmentQuiet,
         StartPreparedEvaluationQuiet, ResolveRestartQuiet, RestartCommittedQuiet,
         RestartLaunchQuiet, AdmitControlledOperationQuiet, FollowUpQuiet,
         InterruptBlockingQuiet, InterruptStdinQuiet, RetryControlledSendQuiet,
         SubmitControlledStdinQuiet, EnsureFollowupConnectionQuiet,
         ContinueAfterInterruptQuiet, ContinueWithCellQuiet, ResolvedPrestartQuiet,
         PrepareResolvedQuiet, RestartResolvedQuiet, AdmitQuiet, BeginControlledSendQuiet,
         InterruptStandaloneQuiet, InterruptStartupQuiet, CellCompletesQuiet
    <2> QED BY <1>1, <2>1, QuietCalls
  <1>3. CASE \/ Spawn(o) \/ RegisterStopHandle(o) \/ AwaitReady(o) \/ OnReady(o)
            \/ ReadyCommit(o) \/ RetireFailedStart(o) \/ StartFailed(o) \/ StopFailed(o)
            \/ FailedWorkerStopped(o) \/ BeginRestart(o) \/ CommitRestart(o)
            \/ RestartShutdown(o) \/ RetireWorker(o) \/ FailRestart(o) \/ ReplaceWorker(o)
            \/ RestartReturns(o) \/ CloseProcesses(o) \/ CloseWorker(o) \/ CloseLifecycle(o)
    BY Zenon, <1>3, SpawnCalls, RegisterStopHandleCalls, AwaitReadyCalls, OnReadyCalls,
       ReadyCommitCalls, RetireFailedStartCalls, StartFailedCalls, StopFailedCalls,
       FailedWorkerStoppedCalls, BeginRestartCalls, CommitRestartCalls, RestartShutdownCalls,
       RetireWorkerCalls, FailRestartCalls, ReplaceWorkerCalls, RestartReturnsCalls,
       CloseProcessesCalls, CloseWorkerCalls, CloseLifecycleCalls
  <1> QED BY Zenon, <1>2, <1>3 DEF Acts, Step, Settle, Arrive

LEMMA SilentStep ==
    ASSUME TypeOK, TypeOK', SkeletonInv, CallsInv, LaunchInv, SameWorker,
           UNCHANGED <<op, controlled_send>>
    PROVE  CallsInv' /\ LaunchInv'
  <1>1. ASSUME NEW q \in Ops PROVE CallInv(q)'
    BY SMTT(40), <1>1, UndisturbedCall DEF CallsInv, Same
  <1>2. \A labels : Nobody(labels)' = Nobody(labels) BY DEF Nobody
  <1> QED BY <1>1, <1>2, UndisturbedLaunches DEF CallsInv

(* A step of no call.                                                      *)
LEMMA SilentSame ==
    ASSUME TypeOK, TypeOK', [Next]_vars, \A o \in Ops : ~Acts(o)
    PROVE  SameWorker /\ UNCHANGED <<op, controlled_send>>
  <1>1. ASSUME NEW l \in Launches, WorkerStep(l) PROVE SameWorker /\ UNCHANGED <<op, controlled_send>>
    <2>1. UNCHANGED <<state, generation, controlled_send, stop_handle, worker, running, launched, op>>
      BY <1>1 DEF WorkerStep, LaunchReady, LaunchFails, RInitBegins, RInitCompletes, LaunchEvent,
         lifecycle
    <2>2. ASSUME NEW m \in Launches PROVE SameLaunch(m)
      BY <1>1 DEF WorkerStep, LaunchReady, LaunchFails, RInitBegins, RInitCompletes, SameLaunch,
         TypeOK, ProcessTypes, LaunchRecord
    <2> QED BY <2>1, <2>2 DEF SameWorker
  <1>2. Reap => SameWorker /\ UNCHANGED <<op, controlled_send>>
    BY DEF Reap, lifecycle, process, SameWorker, SameLaunch
  <1>3. UNCHANGED vars => SameWorker /\ UNCHANGED <<op, controlled_send>>
    BY DEF vars, lifecycle, process, SameWorker, SameLaunch
  <1> QED BY <1>1, <1>2, <1>3 DEF Next, Terminated, Acts

LEMMA LaunchesInit == ASSUME Init PROVE CallsInv /\ LaunchInv
  <1>1. \A o \in Ops : op[o].pc = "idle" /\ op[o].mode = "None" BY DEF Init
  <1>2. CallsInv
    BY <1>1 DEF Init, CallsInv, CallInv, NotYetAdmitted, HasLaunch, MayLaunch, UsesWorker, Stops,
       IsCurrent, BeforeReplacement, BehindReplacement, Starting, Launching, Holding, Registered,
       Using, Busy, BeforeBarrier, Restarting, Settling, BehindBarrier
  <1>3. LaunchInv
    BY DEF Init, LaunchInv, Unlaunched, Earlier, RunningIsLast, LiveIsHeld, ReadyIsCleared,
       ReadyIsUnregistered, ReadyIsCurrent, RestartKnows, RegisteredIsLaunched, NoLaunch, Launches,
       LastCleared
  <1> QED BY <1>2, <1>3

LEMMA LaunchesStep ==
    ASSUME TypeOK, TypeOK', SkeletonInv, SkeletonInv', ClosesInv, RestartIsOwned, CallsInv,
           LaunchInv, [Next]_vars
    PROVE  CallsInv' /\ LaunchInv'
  <1>1. CASE \E o \in Ops : Acts(o) BY <1>1, CallsStep
  <1>2. CASE \A o \in Ops : ~Acts(o) BY <1>2, SilentSame, SilentStep
  <1> QED BY <1>1, <1>2

(* Who has the last launch, who may touch it, and that every earlier one   *)
(* is cleared: the strengthening the theorems below share.                 *)
LaunchesInv == TypeOK /\ RestartIsOwned /\ SkeletonInv /\ ClosesInv /\ CallsInv /\ LaunchInv

THEOREM LaunchesHold == Spec => []LaunchesInv
  <1>1. Init => ClosesInv /\ CallsInv /\ LaunchInv BY ClosesInit, LaunchesInit
  <1>2. /\ TypeOK /\ TypeOK' /\ SkeletonInv /\ SkeletonInv' /\ RestartIsOwned
        /\ ClosesInv /\ CallsInv /\ LaunchInv /\ [Next]_vars
        => ClosesInv' /\ CallsInv' /\ LaunchInv'
    BY ClosesStep, LaunchesStep
  <1> QED BY <1>1, <1>2, TypeCorrect, RestartOwned, SkeletonHolds, PTL DEF Spec, LaunchesInv

(* A worker is launched only behind the replacement barrier: every earlier *)
(* launch is down, and one that committed was reaped without a leftover    *)
(* (start_worker after stop_failed_worker, replace_worker or restart).     *)
THEOREM LaunchesBehindBarrier == Spec => []ReplacementBarrier
  <1>1. LaunchesInv => ReplacementBarrier
    BY LaunchedRange DEF LaunchesInv, LaunchInv, Earlier, Cleared, ReplacementBarrier, Launches
  <1> QED BY <1>1, LaunchesHold, PTL

(* A live launch is registered for whoever restarts or closes, or is in    *)
(* the hands of a call that has not returned and will retire it.           *)
THEOREM NoLaunchOrphaned == Spec => []NoOrphanLaunch
  <1>1. ASSUME LaunchesInv, NEW l \in 1..launched, launch[l].live
        PROVE  stop_handle = l \/ \E o \in Ops : op[o].target = l /\ ~At(o, "done")
    <2> USE DEF LaunchesInv, LaunchInv
    <2>1. launched \in Launches /\ l \in Launches
      BY <1>1, LaunchedRange DEF Launches, TypeOK, ProcessTypes
    <2>2. l = launched BY <1>1, <2>1 DEF Earlier, Cleared, Launches
    <2>3. CASE worker = "Running" BY <2>2, <2>3, <1>1 DEF RunningIsLast
    <2>4. CASE worker # "Running"
      <3>1. PICK o \in Ops : op[o].pc \in Holding
        BY <1>1, <2>1, <2>2, <2>4 DEF LiveIsHeld, Nobody, Launches
      <3>2. op[o].target = launched BY <1>1, <3>1 DEF CallsInv, CallInv, HasLaunch
      <3> QED BY <2>2, <3>1, <3>2 DEF At, Holding, Registered
    <2> QED BY <2>3, <2>4
  <1>2. LaunchesInv => NoOrphanLaunch BY <1>1 DEF NoOrphanLaunch
  <1> QED BY <1>2, LaunchesHold, PTL

(* Whenever nobody holds the worker mutex of a ready session, the          *)
(* registered stop handle is the running worker's, or there is neither.    *)
THEOREM HandlesMatch == Spec => []HandleMatchesWorker
  <1>1. ASSUME LaunchesInv, state = "Ready", worker_lock = NoOp
        PROVE  stop_handle = IF worker = "Running" THEN running ELSE NoLaunch
    <2> USE DEF LaunchesInv, LaunchInv
    <2>1. \A q \in Ops : op[q].pc \notin Owning
      BY <1>1, ConstantsAssumption DEF SkeletonInv, Skeleton, OwnsWorker
    <2>2. Nobody(Registered \cup {"retire_start", "start_failed", "stopped"})
      BY <2>1 DEF Nobody, Owning, Starting, Holding
    <2> QED BY <1>1, <2>2 DEF RunningIsLast, ReadyIsUnregistered
  <1>2. LaunchesInv => HandleMatchesWorker BY <1>1 DEF HandleMatchesWorker
  <1> QED BY <1>2, LaunchesHold, PTL

(* Once a close returned, the last launch is down and no call can launch.  *)
ClosedInv ==
    (\E x \in Closers : At(x, "done")) =>
        /\ Nobody(Launching \cup Holding)
        /\ launched # 0 => ~launch[launched].live

LEMMA CloseWorkerRetires ==
    ASSUME TypeOK, TypeOK', SkeletonInv, CallsInv, LaunchInv, NEW o \in Ops, CloseWorker(o)
    PROVE  ClosedInv'
  <1>1. \A q \in Ops : op[q].pc \notin Owning
    BY ConstantsAssumption DEF CloseWorker, SkeletonInv, Skeleton, OwnsWorker
  <1>2. op'[o].pc = "done" /\ \A q \in Ops \ {o} : op'[q].pc = op[q].pc
    BY DEF CloseWorker, Goto, TypeOK, OpTypes, OpRecord
  <1>3. Nobody(Launching \cup Holding)'
    BY <1>1, <1>2 DEF Nobody, Owning, Starting, Launching, Holding, Registered
  <1>4. Nobody(Holding) BY <1>1 DEF Nobody, Owning, Starting
  <1>5. launched' = launched /\ (launched # 0 => launched \in Launches)
    BY LaunchedType DEF CloseWorker
  <1>6. CASE worker = "Running"
    <2>1. running = launched /\ launched # 0 BY <1>6 DEF LaunchInv, RunningIsLast
    <2>2. PICK outcome \in Outcomes(running) : launch' = Retired(running, outcome)
      BY <1>6 DEF CloseWorker, FinishRetirement
    <2>3. ~launch'[launched].live
      BY <1>5, <2>1, <2>2, RetiredMoves DEF TypeOK
    <2> QED BY <1>3, <1>5, <2>3 DEF ClosedInv
  <1>7. CASE worker # "Running"
    <2>1. launch' = launch BY <1>7 DEF CloseWorker, FinishRetirement
    <2> QED BY <1>3, <1>4, <1>5, <1>7, <2>1 DEF ClosedInv, LaunchInv, LiveIsHeld
  <1> QED BY <1>6, <1>7

(* A close is never undone: after it no other step is a closer's, and none *)
(* begins a launch.                                                        *)
LEMMA CloseLasts ==
    ASSUME TypeOK, TypeOK', SkeletonInv, SkeletonInv', ClosesInv, RestartIsOwned, CallsInv,
           LaunchInv, ClosedInv, NEW o \in Ops, Acts(o), ~CloseWorker(o)
    PROVE  ClosedInv'
  <1>1. Alone(o) /\ Closes(o) BY CallSkeleton DEF SkeletonInv, ClosesInv
  <1>2. op'[o].pc = "done" => o \notin Closers
    <2>1. CASE Closed(o)
      BY <2>1 DEF Closed, CloseLifecycle, CloseProcesses, ShutdownProcesses, At, Goto, TypeOK,
         OpTypes, OpRecord
    <2>2. CASE ~Closed(o)
      BY <1>1, <2>2, OthersLate DEF SkeletonInv, Late, Closes, Closing
    <2> QED BY <2>1, <2>2
  <1>3. SUFFICES ASSUME NEW x \in Closers, op'[x].pc = "done" PROVE ClosedInv'
    BY DEF ClosedInv, At
  <1>4. x \in Ops /\ x # o /\ op[x].pc = "done" 
    BY <1>1, <1>2, <1>3 DEF Alone, Same, Ops
  <1>5. state = "ShuttingDown" BY <1>4 DEF ClosesInv, Closes
  <1>6. Nobody(Launching \cup Holding) /\ (launched # 0 => ~launch[launched].live)
    BY <1>4 DEF ClosedInv, At
  <1>7. op'[o].pc \notin Launching \cup Holding
    <2>1. CASE Closed(o)
      BY <2>1 DEF Closed, CloseLifecycle, CloseProcesses, ShutdownProcesses, At, Goto, TypeOK,
         OpTypes, OpRecord, Launching, Holding, Registered
    <2>2. CASE ~Closed(o)
      BY <1>5, <1>6, <2>2, OthersLate DEF SkeletonInv, Late, Nobody
    <2> QED BY <2>1, <2>2
  <1>8. Nobody(Launching \cup Holding)' BY <1>1, <1>6, <1>7 DEF Nobody, Alone, Same
  <1>9. NoNewLaunch(o) BY CallsStep
  <1>10. launched' # 0 => ~launch'[launched'].live
    BY <1>6, <1>9, LaunchedType DEF NoNewLaunch, Nobody, Launching
  <1> QED BY <1>8, <1>10 DEF ClosedInv

LEMMA ClosedStep ==
    ASSUME TypeOK, TypeOK', SkeletonInv, SkeletonInv', ClosesInv, RestartIsOwned, CallsInv,
           LaunchInv, ClosedInv, [Next]_vars
    PROVE  ClosedInv'
  <1>1. CASE \E o \in Ops : Acts(o) BY <1>1, CloseLasts, CloseWorkerRetires
  <1>2. CASE \A o \in Ops : ~Acts(o)
    BY <1>2, SilentSame, LaunchedType DEF SameWorker, SameLaunch, ClosedInv, Nobody, At
  <1> QED BY <1>1, <1>2

(* Once close_worker was done with its worker, no launch lives and none    *)
(* is created.                                                             *)
THEOREM CloseLeavesNothing == Spec => []ClosedLeavesNothing
  <1>1. Init => ClosedInv BY DEF Init, ClosedInv, At, Ops
  <1>2. LaunchesInv /\ LaunchesInv' /\ ClosedInv /\ [Next]_vars => ClosedInv'
    BY ClosedStep DEF LaunchesInv
  <1>3. LaunchesInv /\ ClosedInv => ClosedLeavesNothing
    <2> SUFFICES ASSUME LaunchesInv, ClosedInv, \E x \in Closers : At(x, "done"),
                        NEW l \in 1..launched
                 PROVE  ~launch[l].live
      BY DEF ClosedLeavesNothing
    <2>1. l \in Launches /\ launched \in Nat BY LaunchedRange DEF LaunchesInv
    <2>2. CASE l = launched BY <2>1, <2>2 DEF ClosedInv, Launches
    <2>3. CASE l < launched BY <2>1, <2>3 DEF LaunchesInv, LaunchInv, Earlier, Cleared
    <2> QED BY <2>1, <2>2, <2>3
  <1> QED BY <1>1, <1>2, <1>3, LaunchesHold, PTL DEF Spec

==============================================================================
