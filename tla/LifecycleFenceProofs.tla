------------------------- MODULE LifecycleFenceProofs -------------------------
(***************************************************************************)
(* What Lifecycle gives to a launch: cells and input stay in their         *)
(* generation, a withheld cell is never sent, one launch of a generation   *)
(* runs the startup source, and a failed prelaunch is reported first.      *)
(***************************************************************************)
EXTENDS LifecycleProofs

(***************************************************************************)
(* What a call gives to a launch.                                          *)
(***************************************************************************)
(* Where a cell is once it may have been sent, and once it was published.  *)
SentAt(o) ==
    \/ op[o].pc \in {"running", "completed", "done"}
    \/ op[o].pc \in {"stop_failed", "stopping", "stopped", "replace"} /\ op[o].mode = "Cell"
    \/ op[o].pc \in Starting /\ op[o].mode = "Replacement"
CellAt(o) ==
    \/ SentAt(o)
    \/ op[o].pc \in {"evaluate", "lock", "dispatch"}
    \/ op[o].pc \in Starting /\ op[o].mode = "Cell"
(* Where a call is about to give code or input to a running worker.        *)
GivesAt(o) ==
    \/ op[o].pc \in {"dispatch", "write"}
    \/ op[o].pc = "reserve" /\ op[o].mode \in {"Cell", "Stdin"}

CellInv(o) ==
    /\ op[o].phase # "None" => CellAt(o)
    /\ op[o].ran_on # NoLaunch =>
          /\ op[o].phase = "Dispatched" /\ SentAt(o)
          /\ op[o].ran_on <= launched /\ launch[op[o].ran_on].gen = op[o].gen
    /\ GivesAt(o) /\ worker = "Running" => launch[running].gen = op[o].gen

(* An interrupt selects a launch of its own generation.                    *)
SelectInv(o) ==
    op[o].pc = "interrupted" /\ op[o].selected # NoLaunch /\ ensure_generation(o) =>
        op[o].selected <= launched /\ launch[op[o].selected].gen = generation
InputInv ==
    /\ startup_stdin \subseteq {generation}
    /\ \A l \in Launches : launch[l].stdin \subseteq {launch[l].gen}
    /\ \A l \in Launches : l > launched => launch[l].stdin = {}
UnusedInv ==
    unused_default => /\ \A l \in Launches : launch[l].stdin = {}
                      /\ \A o \in Ops : op[o].ran_on = NoLaunch

(* The permits of a generation's launches.                                 *)
BeforeLaunch == BeforeBarrier \cup {"settle"}
LaunchedBefore(g) == \A l \in 1..launched : launch[l].gen < g
PermitInv ==
    /\ \A l \in Launches : l > launched => launch[l].r_init = "No"
    /\ \A l \in 1..launched : launch[l].gen <= generation
    /\ \A l \in 1..launched : launch[l].r_init = "Begun" => ~r_permitted[launch[l].gen]
    /\ HasStartup /\ startup_permitted => LaunchedBefore(generation)
    /\ \A o \in Ops :
          /\ state = "Restarting" /\ op[o].pc \in BeforeLaunch => LaunchedBefore(generation)
          /\ HasStartup /\ startup_permitted /\ op[o].pc \in Launching =>
                \A l \in 1..launched : launch[l].gen # op[o].gen

(* Where a cell is once it waited for startup, until it runs.              *)
PastStartup(o) ==
    \/ op[o].pc \in {"lock", "dispatch", "running"}
    \/ op[o].pc \in Starting /\ op[o].mode = "Cell"
Prelaunching(o) ==
    \/ op[o].pc \in {"launched", "launch_failed", "finish_startup"}
    \/ op[o].mode = "Prelaunch"
ReportInv ==
    /\ \A o \in Ops :
          /\ o \in Prelaunchers => op[o].gen = 0
          /\ Prelaunching(o) => o \in Prelaunchers
          /\ op[o].mode = "Restart" => op[o].gen > 0
          /\ (~startup_done \/ (startup_failed /\ Current(o))) => ~PastStartup(o)
          /\ o \in Prelaunchers /\ generation = 0 /\ startup_done =>
                op[o].pc \in {"finish_startup", "done"}
(***************************************************************************)
(* What one step of a call does to cells, input, permits and reports.      *)
(***************************************************************************)
(* A cell is published once, withheld only before it is sent, and sent by  *)
(* its own dispatch; from then on it never comes back to be sent again.    *)
Published(o) ==
    /\ ~CellAt(o) /\ op'[o].pc = "evaluate"
    /\ op'[o].phase = "Pending" /\ op'[o].ran_on = op[o].ran_on
Sent(o) ==
    /\ op[o].pc = "dispatch" /\ op[o].phase = "Pending"
    /\ op'[o].pc = "running" /\ op'[o].phase = "Dispatched" /\ op'[o].ran_on = running
    /\ ~unused_default'
Phased(o) ==
    \A q \in Ops :
        \/ op'[q].phase = op[q].phase /\ op'[q].ran_on = op[q].ran_on
        \/ op[q].phase = "Pending" /\ op'[q].phase = "Withheld" /\ op'[q].ran_on = op[q].ran_on
        \/ q = o /\ (Published(o) \/ Sent(o))
CellMoves(o) ==
    /\ CellAt(o) => CellAt(o)'
    /\ SentAt(o) => SentAt(o)'
    /\ CellAt(o) \/ GivesAt(o)' => op'[o].gen = op[o].gen
    /\ GivesAt(o)' => \/ (GivesAt(o) \/ ensure_generation(o)) /\ UNCHANGED <<worker, running>>
                      \/ op[o].pc = "ready_commit" /\ running' = op[o].target
WorkerKept(o) == worker_lock \notin {o, NoOp} => UNCHANGED <<worker, running>>

(* Input goes to a launch that the call may feed, the buffered input to    *)
(* the launch it registers.                                                *)
FeedsLaunch(o, l) ==
    \/ op[o].pc = "write" /\ l = running
    \/ op[o].pc \in {"admitted", "startup_stdin"} /\ ensure_startup(o) /\ l = stop_handle
    \/ op[o].pc = "interrupted" /\ ensure_generation(o) /\ l = op[o].selected
Feeds(o) ==
    \A l \in Launches :
        \/ launch'[l].stdin = launch[l].stdin
        \/ /\ FeedsLaunch(o, l) /\ ~unused_default'
           /\ launch'[l].stdin \subseteq launch[l].stdin \cup {op[o].gen}
        \/ /\ op[o].pc = "register" /\ l = op[o].target /\ ensure_generation(o)
           /\ launch'[l].stdin = startup_stdin /\ (unused_default' => startup_stdin = {})
Buffers(o) ==
    /\ \/ startup_stdin' = {}
       \/ generation' = generation /\ startup_stdin' = startup_stdin
       \/ /\ generation' = generation /\ Current(o)
          /\ startup_stdin' = startup_stdin \cup {op[o].gen}
    /\ unused_default' => unused_default
    /\ op'[o].pc = "interrupted" =>
          /\ UNCHANGED <<state, generation, stop_handle>>
          /\ op'[o].gen = op[o].gen /\ op'[o].selected \in {NoLaunch, stop_handle}

(* A launch is of its call's generation and uses up the startup permit,    *)
(* which only a restart behind the barrier grants again.                   *)
Launched(o) ==
    /\ op[o].pc = "spawn" /\ Permitted(o) /\ UNCHANGED <<state, generation>>
    /\ launched' = launched + 1 /\ launch'[launched + 1].gen = op[o].gen
    /\ HasStartup => ~startup_permitted'
Permits(o) ==
    /\ r_permitted' = r_permitted
    /\ \A l \in Launches :
          /\ launch'[l].r_init = launch[l].r_init
          /\ l <= launched => launch'[l].gen = launch[l].gen
    /\ launched' = launched \/ Launched(o)
    /\ startup_permitted' =>
          \/ startup_permitted
          \/ op[o].pc = "settle" /\ state = "Restarting" /\ worker_lock = NoOp
    /\ op'[o].pc \in Launching =>
          op'[o].gen = op[o].gen /\ (op[o].pc \in Launching \/ Current(o))
    /\ op'[o].pc \in BeforeLaunch =>
          op[o].pc \in BeforeLaunch \/ (generation' = generation + 1 /\ launched' = launched)
    /\ generation' # generation => generation' = generation + 1 /\ launched' = launched
    /\ state' = "Restarting" => state = "Restarting" \/ generation' = generation + 1

(* A failed prelaunch is kept for a cell of its generation to report.      *)
Reports(o) ==
    /\ op'[o].gen # op[o].gen => o \notin Prelaunchers /\ op'[o].gen >= op[o].gen
    /\ op'[o].mode = "Restart" => op[o].mode = "Restart" \/ op'[o].gen = generation + 1
    /\ Prelaunching(o)' => Prelaunching(o) \/ o \in Prelaunchers
    /\ startup_failed' => startup_failed \/ (op[o].pc = "launch_failed" /\ ensure_generation(o))
    /\ startup_done => startup_done'
    /\ startup_done' # startup_done =>
          \/ op[o].pc = "finish_startup" /\ op'[o].pc = "done"
          \/ op[o].pc = "restarted"
    /\ op[o].pc \in {"finish_startup", "done"} => op'[o].pc \in {"finish_startup", "done"}
    /\ PastStartup(o)' =>
          /\ op'[o].gen = op[o].gen
          /\ PastStartup(o) \/ (startup_done /\ ~(startup_failed'))

LEMMA SelectInterruptTargetWithholds ==
    ASSUME op \in [Ops -> OpRecord], op' \in [Ops -> OpRecord], NEW o \in Ops,
           NEW controlled, NEW bootstrapping, NEW next,
           SelectInterruptTarget(o, controlled, bootstrapping, next)
    PROVE  \A q \in Ops :
              \/ op'[q].phase = op[q].phase
              \/ op[q].phase = "Pending" /\ op'[q].phase = "Withheld"
  <1> DEFINE withheld == [op EXCEPT ![active].phase = "Withheld"]
             evaluation == active # NoOp /\ op[active].gen = generation
             starting == startup_owner # {}
             resolver == resolver_handle # NoOp
             allowed == \/ controlled \/ controlled_send = NoOp
                        \/ /\ state = "Ready"
                           /\ (evaluation /\ op[active].outcome = "None") \/ bootstrapping
             signalled == ~starting /\ ~resolver /\ allowed /\ stop_handle # NoLaunch
             withholds == evaluation /\ (starting \/ signalled) /\ op[active].phase = "Pending"
             cells == IF withholds THEN withheld ELSE op
             label(ok) == IF ok /\ (starting \/ resolver \/ signalled) THEN next ELSE "return"
             g == IF controlled THEN cells[o].gen ELSE generation
             selected == IF resolver \/ signalled THEN stop_handle ELSE NoLaunch
  <1>1. PICK ok \in BOOLEAN :
             op' = [cells EXCEPT ![o].pc = label(ok), ![o].gen = g, ![o].selected = selected]
    BY Zenon DEF SelectInterruptTarget
  <1>2. ASSUME NEW q \in Ops
        PROVE  /\ cells[q] \in OpRecord
               /\ \/ cells[q].phase = op[q].phase
                  \/ op[q].phase = "Pending" /\ cells[q].phase = "Withheld"
    <2>1. op[q] \in OpRecord OBVIOUS
    <2>2. CASE q = active /\ withholds
      <3>1. cells[q] = [op[q] EXCEPT !.phase = "Withheld"] BY <2>2
      <3> QED BY <2>1, <2>2, <3>1 DEF OpRecord, Phases
    <2>3. CASE ~(q = active /\ withholds) 
      <3>1. cells[q] = op[q] BY <2>3
      <3> QED BY <2>1, <3>1
    <2> QED BY <2>2, <2>3
  <1>3. DOMAIN cells = Ops OBVIOUS
  <1> HIDE DEF cells, label, g, selected
  <1>4. ASSUME NEW q \in Ops PROVE op'[q].phase = cells[q].phase
    <2>1. q # o => op'[q] = cells[q] BY <1>1, <1>3
    <2>2. op'[o] = [cells[o] EXCEPT !.pc = label(ok), !.gen = g, !.selected = selected]
      BY <1>1, <1>3
    <2>3. cells[o] \in OpRecord BY <1>2
    <2>4. op'[o].phase = cells[o].phase BY <2>2, <2>3 DEF OpRecord
    <2> QED BY <2>1, <2>4
  <1> QED BY <1>2, <1>4

(* A retirement leaves a launch's generation, input and initialization.    *)
LEMMA RetiredKeeps ==
    ASSUME ProcessTypes, NEW l \in Launches \cup {NoLaunch}, NEW outcome, launch' = Retired(l, outcome)
    PROVE  \A m \in Launches :
              /\ launch'[m].gen = launch[m].gen /\ launch'[m].stdin = launch[m].stdin
              /\ launch'[m].r_init = launch[m].r_init
  <1>1. \A m \in Launches : launch[m] \in LaunchRecord BY DEF ProcessTypes
  <1>2. launch' = launch \/ launch' = [launch EXCEPT ![l].live = FALSE, ![l].cleanup = outcome]
    BY DEF Retired
  <1> QED BY <1>1, <1>2 DEF ProcessTypes, LaunchRecord

(* So does the retirement of the running worker, ...                       *)
LEMMA FinishKeeps ==
    ASSUME ProcessTypes, NEW io, FinishRetirement(io)
    PROVE  \A m \in Launches :
              /\ launch'[m].gen = launch[m].gen /\ launch'[m].stdin = launch[m].stdin
              /\ launch'[m].r_init = launch[m].r_init
  <1>1. launch' = launch \/ \E outcome : launch' = Retired(running, outcome)
    BY Zenon DEF FinishRetirement
  <1>2. running \in Launches \cup {NoLaunch} BY DEF ProcessTypes
  <1> QED BY <1>1, <1>2, RetiredKeeps

(* ... and the shutdown of the process a restart or a close found.         *)
LEMMA ShutdownKeeps ==
    ASSUME ProcessTypes, NEW o, op[o].target \in Launches \cup {NoLaunch},
           NEW stopped, NEW failed, ShutdownProcesses(o, stopped, failed)
    PROVE  \A m \in Launches :
              /\ launch'[m].gen = launch[m].gen /\ launch'[m].stdin = launch[m].stdin
              /\ launch'[m].r_init = launch[m].r_init
  <1>1. PICK outcome \in Outcomes(op[o].target) : launch' = Retired(op[o].target, outcome)
    BY Zenon DEF ShutdownProcesses
  <1> QED BY <1>1, RetiredKeeps

(* Input that is written to a launch changes only what it was given.       *)
LEMMA FedOnly ==
    ASSUME ProcessTypes, NEW l \in Launches \cup {NoLaunch}, NEW s,
           launch' = [launch EXCEPT ![l].stdin = s]
    PROVE  \A m \in Launches :
              /\ launch'[m].gen = launch[m].gen /\ launch'[m].r_init = launch[m].r_init
              /\ launch'[m].stdin = IF m = l THEN s ELSE launch[m].stdin
  <1>1. \A m \in Launches : launch[m] \in LaunchRecord BY DEF ProcessTypes
  <1> QED BY <1>1 DEF ProcessTypes, LaunchRecord

(* Input queued for the startup goes to the registered launch, or waits.   *)
LEMMA QueueMoves ==
    ASSUME ProcessTypes, stop_handle \in Launches \cup {NoLaunch}, NEW o,
           NEW stdin, QueueStartupStdin(o, stdin)
    PROVE  /\ \A m \in Launches :
                 /\ launch'[m].gen = launch[m].gen /\ launch'[m].r_init = launch[m].r_init
                 /\ \/ launch'[m].stdin = launch[m].stdin
                    \/ /\ m = stop_handle /\ ensure_startup(o) /\ ~unused_default'
                       /\ launch'[m].stdin = launch[m].stdin \cup {op[o].gen}
           /\ \/ startup_stdin' = startup_stdin
              \/ ensure_startup(o) /\ startup_stdin' = startup_stdin \cup {op[o].gen}
           /\ unused_default' => unused_default
  <1> DEFINE direct == (stdin /\ ensure_startup(o)) /\ stop_handle # NoLaunch
             given == launch[stop_handle].stdin \cup {op[o].gen}
  <1>1. \/ launch' = launch
        \/ direct /\ launch' = [launch EXCEPT ![stop_handle].stdin = given]
    BY Zenon DEF QueueStartupStdin
  <1>2. unused_default' = (unused_default /\ ~direct)
    BY Zenon DEF QueueStartupStdin, UseDefault
  <1>3. \/ startup_stdin' = startup_stdin
        \/ ensure_startup(o) /\ startup_stdin' = startup_stdin \cup {op[o].gen}
    BY Zenon DEF QueueStartupStdin
  <1>4. direct => ensure_startup(o) OBVIOUS
  <1> HIDE DEF direct, given
  <1>5. ASSUME NEW m \in Launches
        PROVE  /\ launch'[m].gen = launch[m].gen /\ launch'[m].r_init = launch[m].r_init
               /\ \/ launch'[m].stdin = launch[m].stdin
                  \/ m = stop_handle /\ direct /\ launch'[m].stdin = given
    BY <1>1, FedOnly
  <1>6. given = launch[stop_handle].stdin \cup {op[o].gen} BY DEF given
  <1> QED BY <1>2, <1>3, <1>4, <1>5, <1>6

(* What a poll, a controlled input and an interrupt do to a call, the      *)
(* launches and the buffered input.                                        *)
Polled(o, label, mode) ==
    /\ \A m \in Launches :
          /\ launch'[m].gen = launch[m].gen /\ launch'[m].r_init = launch[m].r_init
          /\ \/ launch'[m].stdin = launch[m].stdin
             \/ /\ m = stop_handle /\ ensure_startup(o) /\ ~unused_default'
                /\ launch'[m].stdin = launch[m].stdin \cup {op[o].gen}
    /\ \/ startup_stdin' = startup_stdin
       \/ ensure_startup(o) /\ startup_stdin' = startup_stdin \cup {op[o].gen}
    /\ unused_default' => unused_default
    /\ UNCHANGED <<state, generation, stop_handle, startup_permitted, r_permitted,
                   startup_failed, startup_done, worker, running, launched>>
    /\ worker_lock # o => worker_lock' = worker_lock
    /\ op' = [op EXCEPT ![o].pc = label, ![o].mode = mode]
    /\ label = "lock_stdin" => mode = "Stdin"
    /\ op[o].pc = "admitted" /\ o \in Polls
    /\ op'[o].pc = label /\ op'[o].mode = mode
    /\ op'[o].gen = op[o].gen /\ op'[o].phase = op[o].phase
    /\ op'[o].ran_on = op[o].ran_on /\ op'[o].selected = op[o].selected
    /\ \A q \in Ops \ {o} : op'[q] = op[q]

LEMMA StartPollMoves ==
    ASSUME TypeOK, TypeOK', NEW o \in Ops, StartPoll(o)
    PROVE  \E label \in {"lock_stdin", "poll", "return", "done"}, mode \in {"Stdin", "Poll", op[o].mode} :
              Polled(o, label, mode)
  <1> USE DEF TypeOK, OpTypes, ProcessTypes
  <1>0. op[o] \in OpRecord /\ op'[o] \in OpRecord OBVIOUS
  <1>1. /\ \A m \in Launches :
              /\ launch'[m].gen = launch[m].gen /\ launch'[m].r_init = launch[m].r_init
              /\ \/ launch'[m].stdin = launch[m].stdin
                 \/ /\ m = stop_handle /\ ensure_startup(o) /\ ~unused_default'
                    /\ launch'[m].stdin = launch[m].stdin \cup {op[o].gen}
        /\ \/ startup_stdin' = startup_stdin
           \/ ensure_startup(o) /\ startup_stdin' = startup_stdin \cup {op[o].gen}
        /\ unused_default' => unused_default
    <2>1. \/ UNCHANGED <<launch, startup_stdin, unused_default>>
          \/ \E stdin \in BOOLEAN : QueueStartupStdin(o, stdin)
      BY Zenon DEF StartPoll, Refuse, startup, process
    <2> QED BY <2>1, QueueMoves DEF LifecycleTypes
  <1>2. /\ UNCHANGED <<state, generation, stop_handle, startup_permitted, r_permitted,
                       startup_failed, startup_done, worker, running, launched>>
        /\ worker_lock # o => worker_lock' = worker_lock
    BY DEF StartPoll, Refuse, Unlock, lifecycle, startup, process
  <1>3. \E label \in {"lock_stdin", "poll", "return", "done"}, mode \in {"Stdin", "Poll", op[o].mode} :
           /\ op' = [op EXCEPT ![o].pc = label, ![o].mode = mode]
           /\ label = "lock_stdin" => mode = "Stdin"
    <2>1. CASE Refuse(o)
      <3>1. op' = [op EXCEPT ![o].pc = "done"] BY <2>1 DEF Refuse, Goto
      <3>2. op' = [op EXCEPT ![o].pc = "done", ![o].mode = op[o].mode]
        BY <1>0, <3>1 DEF OpRecord
      <3> QED BY <3>2, Zenon
    <2>2. CASE ~Refuse(o) BY <2>2, Zenon DEF StartPoll
    <2> QED BY <2>1, <2>2
  <1>4. PICK label \in {"lock_stdin", "poll", "return", "done"}, mode \in {"Stdin", "Poll", op[o].mode} :
           /\ op' = [op EXCEPT ![o].pc = label, ![o].mode = mode]
           /\ label = "lock_stdin" => mode = "Stdin"
    BY <1>3
  <1>5. op[o].pc = "admitted" /\ o \in Polls BY DEF StartPoll, At
  <1>6. /\ op'[o].pc = label /\ op'[o].mode = mode
        /\ op'[o].gen = op[o].gen /\ op'[o].phase = op[o].phase
        /\ op'[o].ran_on = op[o].ran_on /\ op'[o].selected = op[o].selected
    BY <1>0, <1>4 DEF OpRecord
  <1>7. \A q \in Ops \ {o} : op'[q] = op[q] BY <1>4
  <1> QED BY <1>1, <1>2, <1>4, <1>5, <1>6, <1>7 DEF Polled

Submitted(o) ==
    /\ UNCHANGED <<state, generation, stop_handle, startup_permitted, r_permitted,
                   startup_failed, startup_done, startup_stdin, worker_lock, worker,
                   running, launched>>
    /\ op[o].pc = "interrupted"
    /\ \A m \in Launches :
          /\ launch'[m].gen = launch[m].gen /\ launch'[m].r_init = launch[m].r_init
          /\ \/ launch'[m].stdin = launch[m].stdin
             \/ /\ m = op[o].selected /\ ensure_generation(o) /\ ~unused_default'
                /\ launch'[m].stdin = launch[m].stdin \cup {op[o].gen}
    /\ unused_default' => unused_default
    /\ op'[o].pc \in {"grace", "return", "lock_stdin"}
    /\ op'[o].mode = IF op'[o].pc = "lock_stdin" THEN "Stdin" ELSE op[o].mode
    /\ op'[o].gen = op[o].gen /\ op'[o].phase = op[o].phase
    /\ op'[o].ran_on = op[o].ran_on /\ op'[o].selected = op[o].selected
    /\ \A q \in Ops \ {o} : op'[q] = op[q]

LEMMA SubmitControlledStdinMoves ==
    ASSUME TypeOK, TypeOK', NEW o \in Ops, SubmitControlledStdin(o)
    PROVE  Submitted(o)
  <1> USE DEF TypeOK, OpTypes, ProcessTypes
  <1>0. op[o] \in OpRecord /\ op'[o] \in OpRecord OBVIOUS
  <1>1. \/ \E label \in {"grace", "return"} : op' = [op EXCEPT ![o].pc = label]
        \/ op' = [op EXCEPT ![o].pc = "lock_stdin", ![o].mode = "Stdin"]
    BY SubmitControlledStdinCalls
  <1>2. /\ UNCHANGED <<state, generation, stop_handle, startup_permitted, r_permitted,
                       startup_failed, startup_done, startup_stdin, worker_lock, worker,
                       running, launched>>
        /\ op[o].pc = "interrupted"
    BY Zenon DEF SubmitControlledStdin, At, lifecycle
  <1>3. /\ \A m \in Launches :
              /\ launch'[m].gen = launch[m].gen /\ launch'[m].r_init = launch[m].r_init
              /\ \/ launch'[m].stdin = launch[m].stdin
                 \/ /\ m = op[o].selected /\ ensure_generation(o) /\ ~unused_default'
                    /\ launch'[m].stdin = launch[m].stdin \cup {op[o].gen}
        /\ unused_default' => unused_default
    <2> DEFINE sel == op[o].selected
               given == IF launch[sel].live THEN launch[sel].stdin \cup {op[o].gen}
                                            ELSE launch[sel].stdin
    <2>1. \/ launch' = launch /\ unused_default' = unused_default
          \/ /\ ensure_generation(o) /\ unused_default' = (unused_default /\ ~TRUE)
             /\ launch' = [launch EXCEPT ![sel].stdin = given]
      BY Zenon DEF SubmitControlledStdin, ensure_controlled_generation, UseDefault
    <2>2. sel \in Launches \cup {NoLaunch} BY <1>0 DEF OpRecord
    <2>3. given = launch[sel].stdin \/ given = launch[sel].stdin \cup {op[o].gen} OBVIOUS
    <2>4. ~(unused_default /\ ~TRUE) OBVIOUS
    <2> HIDE DEF given, sel
    <2>5. CASE launch' = launch /\ unused_default' = unused_default
      BY <2>5
    <2>6. CASE ~(launch' = launch /\ unused_default' = unused_default)
      <3>1. /\ launch' = [launch EXCEPT ![sel].stdin = given]
            /\ ensure_generation(o) /\ ~unused_default'
        BY <2>1, <2>4, <2>6, Zenon
      <3>2. \A m \in Launches :
               /\ launch'[m].gen = launch[m].gen /\ launch'[m].r_init = launch[m].r_init
               /\ launch'[m].stdin = IF m = sel THEN given ELSE launch[m].stdin
        BY <2>2, <3>1, FedOnly
      <3>3. given = launch[sel].stdin \/ given = launch[sel].stdin \cup {op[o].gen}
        BY <2>3
      <3> QED BY <3>1, <3>2, <3>3 DEF sel
    <2> QED BY <2>5, <2>6
  <1>4. /\ op'[o].pc \in {"grace", "return", "lock_stdin"}
        /\ op'[o].mode = IF op'[o].pc = "lock_stdin" THEN "Stdin" ELSE op[o].mode
        /\ op'[o].gen = op[o].gen /\ op'[o].phase = op[o].phase
        /\ op'[o].ran_on = op[o].ran_on /\ op'[o].selected = op[o].selected
    BY <1>0, <1>1 DEF OpRecord
  <1>5. \A q \in Ops \ {o} : op'[q] = op[q] BY <1>1
  <1> QED BY <1>2, <1>3, <1>4, <1>5 DEF Submitted

Selected(o, next, controlled) ==
    /\ op'[o].pc \in {next, "return"} /\ op'[o].mode = op[o].mode
    /\ op'[o].gen = IF controlled THEN op[o].gen ELSE generation
    /\ op'[o].selected \in {stop_handle, NoLaunch}
    /\ UNCHANGED <<state, generation, stop_handle, startup, session, worker_lock, process>>
    /\ op'[o].ran_on = op[o].ran_on /\ \A q \in Ops \ {o} : op'[q].ran_on = op[q].ran_on
    /\ \A q \in Ops :
          \/ op'[q].phase = op[q].phase
          \/ op[q].phase = "Pending" /\ op'[q].phase = "Withheld"

LEMMA SelectInterruptTargetSelects ==
    ASSUME TypeOK, TypeOK', NEW o \in Ops, NEW controlled \in BOOLEAN, NEW bootstrapping \in BOOLEAN,
           NEW next \in {"interrupted", "standalone", "startup_stdin", "return"},
           SelectInterruptTarget(o, controlled, bootstrapping, next)
    PROVE  Selected(o, next, controlled)
  <1> USE DEF TypeOK, OpTypes
  <1>1. /\ op'[o].pc \in {next, "return"} /\ op'[o].mode = op[o].mode
        /\ op'[o].gen = IF controlled THEN op[o].gen ELSE generation
        /\ op'[o].selected \in {stop_handle, NoLaunch}
        /\ UNCHANGED <<state, generation, stop_handle, startup, session, worker_lock, process>>
        /\ op'[o].ran_on = op[o].ran_on /\ \A q \in Ops \ {o} : op'[q].ran_on = op[q].ran_on
    BY SelectInterruptTargetMoves DEF Same
  <1>2. \A q \in Ops :
           \/ op'[q].phase = op[q].phase
           \/ op[q].phase = "Pending" /\ op'[q].phase = "Withheld"
    BY SelectInterruptTargetWithholds
  <1> QED BY <1>1, <1>2 DEF Selected

LEMMA InterruptMoves ==
    ASSUME TypeOK, TypeOK', NEW o \in Ops
    PROVE  /\ InterruptBlocking(o) => op[o].pc = "interrupt" /\ Selected(o, "interrupted", TRUE)
           /\ InterruptStandalone(o) =>
                 op[o].pc = "idle" /\ o \in Interrupters /\ Selected(o, "standalone", FALSE)
           /\ InterruptStartup(o) =>
                 /\ op[o].pc = "idle" /\ o \in Interrupters
                 /\ Selected(o, "startup_stdin", FALSE) \/ Selected(o, "return", FALSE)
  <1>1. ASSUME InterruptBlocking(o)
        PROVE  op[o].pc = "interrupt" /\ Selected(o, "interrupted", TRUE)
    <2>1. PICK bootstrapping \in BOOLEAN : SelectInterruptTarget(o, TRUE, bootstrapping, "interrupted")
      BY <1>1, Zenon DEF InterruptBlocking
    <2> QED BY <1>1, <2>1, SelectInterruptTargetSelects DEF InterruptBlocking, At
  <1>2. ASSUME InterruptStandalone(o)
        PROVE  op[o].pc = "idle" /\ o \in Interrupters /\ Selected(o, "standalone", FALSE)
    <2>1. PICK bootstrapping \in BOOLEAN : SelectInterruptTarget(o, FALSE, bootstrapping, "standalone")
      BY <1>2, Zenon DEF InterruptStandalone
    <2> QED BY <1>2, <2>1, SelectInterruptTargetSelects DEF InterruptStandalone, At
  <1>3. ASSUME InterruptStartup(o)
        PROVE  /\ op[o].pc = "idle" /\ o \in Interrupters
               /\ Selected(o, "startup_stdin", FALSE) \/ Selected(o, "return", FALSE)
    <2>1. PICK bootstrapping \in BOOLEAN, next \in {"startup_stdin", "return"} :
             SelectInterruptTarget(o, FALSE, bootstrapping, next)
      BY <1>3, Zenon DEF InterruptStartup
    <2>2. Selected(o, next, FALSE) BY <2>1, SelectInterruptTargetSelects
    <2> QED BY <1>3, <2>2 DEF InterruptStartup, At
  <1> QED BY <1>1, <1>2, <1>3

LEMMA StepCells ==
    ASSUME TypeOK, TypeOK', NEW o \in Ops, Acts(o), Skeleton(o)
    PROVE  Phased(o) /\ CellMoves(o) /\ WorkerKept(o)
  <1> USE DEF TypeOK, OpTypes, ProcessTypes
  <1>1. op[o] \in OpRecord /\ op'[o] \in OpRecord OBVIOUS
  <1>2. Skeleton(o) OBVIOUS
  <1>3. CASE StartPoll(o)
    <2>1. PICK label \in {"lock_stdin", "poll", "return", "done"}, mode \in {"Stdin", "Poll", op[o].mode} :
             Polled(o, label, mode)
      BY <1>3, StartPollMoves
    <2> QED BY <1>1, <1>2, <2>1, ConstantsAssumption DEF Polled, Phased, CellMoves, WorkerKept,
         Published, Sent, CellAt, SentAt, GivesAt, ModeFits, Starting, Launching, Holding,
         Registered, Restarts, Skeleton, OpRecord, LifecycleTypes, Generations, startup, Current,
         lifecycle, process, ensure_generation, ensure_startup
  <1>4. CASE InterruptBlocking(o)
    <2>1. op[o].pc = "interrupt" /\ Selected(o, "interrupted", TRUE) BY <1>4, InterruptMoves
    <2> QED BY <1>1, <1>2, <2>1, ConstantsAssumption DEF Selected, Phased, CellMoves, WorkerKept,
         Published, Sent, CellAt, SentAt, GivesAt, ModeFits, Starting, Launching, Holding,
         Registered, Restarts, Skeleton, startup, process, Current, OpRecord, LifecycleTypes,
         Generations
  <1>5. CASE SubmitControlledStdin(o)
    <2>1. Submitted(o) BY <1>5, SubmitControlledStdinMoves
    <2> QED BY <1>1, <1>2, <2>1 DEF Submitted, Phased, CellMoves, WorkerKept, Published, Sent,
         CellAt, SentAt, GivesAt, ModeFits, Starting, Launching, Holding, Registered, Restarts,
         Skeleton, OpRecord, LifecycleTypes, Generations, startup, Current, lifecycle, process,
         ensure_generation, ensure_startup
  <1>6. CASE InterruptStandalone(o)
    <2>1. op[o].pc = "idle" /\ o \in Interrupters /\ Selected(o, "standalone", FALSE)
      BY <1>6, InterruptMoves
    <2> QED BY <1>1, <1>2, <2>1, ConstantsAssumption DEF Selected, Phased, CellMoves, WorkerKept,
         Published, Sent, CellAt, SentAt, GivesAt, ModeFits, Starting, Launching, Holding,
         Registered, Restarts, Skeleton, startup, process, Current, OpRecord, LifecycleTypes,
         Generations
  <1>7. CASE InterruptStartup(o)
    <2>1. /\ op[o].pc = "idle" /\ o \in Interrupters
          /\ Selected(o, "startup_stdin", FALSE) \/ Selected(o, "return", FALSE)
      BY <1>7, InterruptMoves
    <2> QED BY <1>1, <1>2, <2>1, ConstantsAssumption DEF Selected, Phased, CellMoves, WorkerKept,
         Published, Sent, CellAt, SentAt, GivesAt, ModeFits, Starting, Launching, Holding,
         Registered, Restarts, Skeleton, startup, process, Current, OpRecord, LifecycleTypes,
         Generations
  <1> USE <1>1, <1>2 DEF At, process, lifecycle, startup, Phased, CellMoves, WorkerKept,
        Published, Sent, CellAt, SentAt, GivesAt, ModeFits, Starting, Launching, Holding,
        Registered, Restarts, Skeleton, OpRecord, LifecycleTypes, Generations, Goto, Holds
  <1>8. CASE StartEvaluation(o)
    BY <1>8 DEF DropStartup, ReserveStartup, ReleaseAdmission, Unlock, Refuse, PublishEvaluation,
       StartEvaluation, ensure_startup, ensure_ordinary_generation, Current
  <1>9. CASE EvaluateBlocking(o)
    BY <1>9 DEF DropStartup, CompleteCell, EvaluateBlocking, StartupAwaited, ensure_generation,
       Current
  <1>10. CASE LockForCell(o)
    BY <1>10 DEF DropStartup, CompleteCell, LockForCell, ensure_generation, Current
  <1>11. CASE Dispatch(o) BY SMTT(40), <1>11 DEF CompleteCell, Dispatch
  <1>12. CASE CellFails(o) BY <1>12 DEF CompleteCell, CellFails
  <1>13. CASE EvaluateReturns(o) BY <1>13 DEF DropStartup, EvaluateReturns
  <1>14. CASE ReserveWorkerStartup(o)
    BY <1>14 DEF ReserveStartup, AfterStart, ReleaseStarter, ReserveWorkerStartup, ensure_startup,
       Current
  <1>15. CASE LockEnvironment(o) BY <1>15 DEF LockEnvironment
  <1>16. CASE ResolvePrestart(o)
    BY <1>16 DEF RegisterResolver, ResolvePrestart, ensure_startup, Current
  <1>17. CASE Spawn(o) BY <1>17 DEF Spawn, Permitted, RPermitted, SourcePermitted
  <1>18. CASE RegisterStopHandle(o) BY <1>18 DEF RegisterStopHandle, CanRegister
  <1>19. CASE AwaitReady(o) BY <1>19 DEF AwaitReady
  <1>20. CASE OnReady(o) BY <1>20 DEF FinishRestart, OnReady, Current
  <1>21. CASE ReadyCommit(o) BY <1>21 DEF AfterStart, ReleaseStarter, ReadyCommit
  <1>22. CASE RetireFailedStart(o) BY <1>22 DEF RetireFailedStart
  <1>23. CASE StartFailed(o)
    BY <1>23 DEF DropStartup, CompleteCell, AfterStdinFailure, ClearStopHandle, StartFailed,
       ensure_generation, Current
  <1>24. CASE StopFailedWorker(o)
    BY <1>24 DEF DropStartup, AfterStdinFailure, StopReturns, StopFailedWorker, ensure_generation,
       Current
  <1>25. CASE StopFailed(o) BY <1>25 DEF StopResolver, StopFailed
  <1>26. CASE FailedWorkerStopped(o)
    BY <1>26 DEF DropStartup, AfterStdinFailure, StopReturns, FailedWorkerStopped,
       ensure_generation, Current
  <1>27. CASE StartReplacement(o) BY <1>27 DEF StartReplacement
  <1>28. CASE LockForStdin(o) BY <1>28 DEF LockForStdin, ensure_generation, Current
  <1>29. CASE WriteStdin(o) BY <1>29 DEF AfterStdin, WriteStdin
  <1>30. CASE TakeIdleResponse(o) BY <1>30 DEF TakeIdleResponse, ensure_generation, Current
  <1>31. CASE LockForPoll(o) BY <1>31 DEF LockForPoll, ensure_generation, Current
  <1>32. CASE Return(o) BY <1>32 DEF DropStartup, ReleaseAdmission, Unlock, Refuse, Return
  <1>33. CASE Prelaunch(o) BY <1>33 DEF Prelaunch, ensure_startup, Current
  <1>34. CASE ReservePreparation(o) BY <1>34 DEF ReservePreparation
  <1>35. CASE LockForPrelaunch(o) BY <1>35 DEF LockForPrelaunch
  <1>36. CASE PrelaunchReturns(o)
    BY <1>36 DEF DropStartup, PrelaunchReturns, ensure_generation, Current
  <1>37. CASE FinishStartup(o) BY <1>37 DEF FinishStartup
  <1>38. CASE AdmitPreparation(o)
    BY <1>38 DEF DropStartup, ReleaseAdmission, Unlock, Refuse, AdmitPreparation
  <1>39. CASE CheckPreparation(o) BY <1>39 DEF CheckPreparation, ensure_generation, Current
  <1>40. CASE PrepareAdmitted(o) BY <1>40 DEF PrepareAdmitted, ensure_generation, Current
  <1>41. CASE PrepareResolve(o)
    BY <1>41 DEF RegisterResolver, PrepareResolve, ensure_startup, Current
  <1>42. CASE CommitEnvironment(o) BY <1>42 DEF CommitEnvironment, ensure_generation, Current
  <1>43. CASE StartPreparedEvaluation(o)
    BY <1>43 DEF DropStartup, ReserveStartup, ReleaseAdmission, Unlock, Refuse, PublishEvaluation,
       StartPreparedEvaluation, ensure_startup, ensure_ordinary_generation, Current
  <1>44. CASE BeginRestart(o)
    BY <1>44 DEF DropStartup, ReleaseAdmission, Unlock, Refuse, StartRestart, BeginRestart,
       ensure_controlled_generation, Current
  <1>45. CASE ResolveRestart(o)
    BY <1>45 DEF RegisterResolver, ResolveRestart, ensure_generation, ensure_startup, Current
  <1>46. CASE CommitRestart(o)
    BY <1>46 DEF DropStartup, ReleaseAdmission, Unlock, Refuse, StartRestart, CommitRestart,
       ensure_controlled_generation, Current
  <1>47. CASE RestartCommitted(o) BY <1>47 DEF RestartCommitted
  <1>48. CASE RestartShutdown(o) BY <1>48 DEF StopResolver, ShutdownProcesses, RestartShutdown
  <1>49. CASE RetireWorker(o) BY <1>49 DEF RetireWorker
  <1>50. CASE FailRestart(o) BY <1>50 DEF FailRestart
  <1>51. CASE ReplaceWorker(o) BY <1>51 DEF ReplaceWorker
  <1>52. CASE RestartLaunch(o) BY <1>52 DEF RestartLaunch
  <1>53. CASE RestartReturns(o) BY <1>53 DEF FinishRestart, RestartReturns, Current
  <1>54. CASE AdmitControlledOperation(o) BY <1>54 DEF WriteAdmission, AdmitControlledOperation
  <1>55. CASE FollowUp(o)
    BY <1>55 DEF DropStartup, ReserveStartup, ReleaseAdmission, Unlock, Refuse, PublishEvaluation,
       FollowUp, ensure_startup, ensure_controlled_generation, Current
  <1>56. CASE InterruptStdin(o)
    BY <1>56 DEF QueueStartupStdin, InterruptStdin, ensure_startup, Current
  <1>57. CASE RetryControlledSend(o) BY <1>57 DEF RetryControlledSend
  <1>58. CASE EnsureFollowupConnection(o) BY <1>58 DEF EnsureFollowupConnection
  <1>59. CASE ContinueAfterInterrupt(o)
    BY <1>59 DEF DropStartup, ReleaseAdmission, WriteAdmission, Unlock, Refuse,
       ContinueAfterInterrupt, ensure_controlled_generation, Current
  <1>60. CASE ContinueWithCell(o)
    BY <1>60 DEF DropStartup, ReserveStartup, ReleaseAdmission, Unlock, Refuse, PublishEvaluation,
       ContinueWithCell, ensure_startup, ensure_controlled_generation, Current
  <1>61. CASE CloseProcesses(o) BY <1>61 DEF StopResolver, ShutdownProcesses, CloseProcesses
  <1>62. CASE CloseWorker(o) BY <1>62 DEF CloseWorker
  <1>63. CASE ResolvedPrestart(o)
    BY <1>63 DEF ClearResolver, ResolvedPrestart, ensure_startup, Current
  <1>64. CASE PrepareResolved(o) BY <1>64 DEF ClearResolver, PrepareResolved, Current
  <1>65. CASE RestartResolved(o) BY <1>65 DEF ClearResolver, RestartResolved, Current
  <1>66. CASE Admit(o) BY <1>66 DEF ReadAdmission, Admit
  <1>67. CASE BeginControlledSend(o) BY <1>67 DEF BeginControlledSend, Controls
  <1>68. CASE CloseLifecycle(o) BY <1>68 DEF CloseLifecycle
  <1>69. CASE CellCompletes(o) BY <1>69 DEF CompleteCell, CellCompletes
  <1> QED BY ZenonT(60), <1>3, <1>4, <1>5, <1>6, <1>7, <1>8, <1>9, <1>10, <1>11, <1>12,
     <1>13, <1>14, <1>15, <1>16, <1>17, <1>18, <1>19, <1>20, <1>21, <1>22, <1>23, <1>24,
     <1>25, <1>26, <1>27, <1>28, <1>29, <1>30, <1>31, <1>32, <1>33, <1>34, <1>35, <1>36,
     <1>37, <1>38, <1>39, <1>40, <1>41, <1>42, <1>43, <1>44, <1>45, <1>46, <1>47, <1>48,
     <1>49, <1>50, <1>51, <1>52, <1>53, <1>54, <1>55, <1>56, <1>57, <1>58, <1>59, <1>60,
     <1>61, <1>62, <1>63, <1>64, <1>65, <1>66, <1>67, <1>68, <1>69 DEF Acts, Step, Settle, Arrive

LEMMA StepInput ==
    ASSUME TypeOK, TypeOK', NEW o \in Ops, Acts(o), Skeleton(o)
    PROVE  Feeds(o) /\ Buffers(o)
  <1> USE DEF TypeOK, OpTypes, ProcessTypes
  <1>1. op[o] \in OpRecord /\ op'[o] \in OpRecord OBVIOUS
  <1>2. Skeleton(o) OBVIOUS
  <1>3. CASE Dispatch(o)
    <2>1. /\ UNCHANGED <<state, generation, stop_handle, startup_stdin, launch>>
          /\ op[o].pc = "dispatch" /\ unused_default' = (unused_default /\ ~TRUE)
      BY <1>3, Zenon DEF Dispatch, At, UseDefault, lifecycle, process
    <2>2. op'[o].pc \in {"stop_failed", "completed", "running"}
      BY <1>1, <1>3 DEF Dispatch, CompleteCell, OpRecord
    <2> QED BY <1>1, <2>1, <2>2 DEF Feeds, Buffers, FeedsLaunch, LaunchRecord, Skeleton,
         OpRecord, LifecycleTypes, Generations, startup, Current, lifecycle, process,
         ensure_generation, ensure_startup
  <1>4. CASE Spawn(o)
    <2>1. op'[o].pc \in {"register", "start_failed"}
      BY <1>1, <1>4 DEF Spawn, Goto, OpRecord
    <2>2. /\ generation' = generation /\ startup_stdin' = startup_stdin
          /\ unused_default' = unused_default
      BY <1>4 DEF Spawn, lifecycle
    <2>3. \/ launch' = launch
          \/ launch' = [launch EXCEPT ![launched + 1].gen = op[o].gen, ![launched + 1].live = TRUE]
      BY <1>4 DEF Spawn
    <2>4. \A l \in Launches : launch'[l].stdin = launch[l].stdin
      BY <2>3 DEF LaunchRecord
    <2> QED BY <2>1, <2>2, <2>4 DEF Feeds, Buffers
  <1>5. CASE RegisterStopHandle(o)
    <2>1. op[o].pc = "register" /\ op[o].target \in Launches \cup {NoLaunch}
      BY <1>1, <1>5 DEF RegisterStopHandle, Holds, At, OpRecord
    <2>2. op'[o].pc \in {"await_ready", "retire_start"}
      BY <1>1, <1>5 DEF RegisterStopHandle, Goto, OpRecord
    <2>3. generation' = generation BY <1>5 DEF RegisterStopHandle
    <2>4. CASE UNCHANGED <<launch, startup_stdin, unused_default>>
      <3> QED BY <1>1, <2>1, <2>2, <2>3, <2>4 DEF Feeds, Buffers, FeedsLaunch,
           LaunchRecord, Skeleton, OpRecord, LifecycleTypes, Generations, startup,
           Current, lifecycle, process, ensure_generation, ensure_startup
    <2>5. CASE ~UNCHANGED <<launch, startup_stdin, unused_default>>
      <3>1. /\ op[o].mode # "Restart" /\ CanRegister(o) /\ startup_stdin' = {}
            /\ launch' = [launch EXCEPT ![op[o].target].stdin = startup_stdin]
            /\ unused_default' = (unused_default /\ ~(startup_stdin # {}))
        BY <1>5, <2>5, Zenon DEF RegisterStopHandle, UseDefault
      <3>2. ensure_generation(o) BY <3>1 DEF CanRegister
      <3>3. \A m \in Launches :
               launch'[m].stdin = IF m = op[o].target THEN startup_stdin ELSE launch[m].stdin
        BY <2>1, <3>1, FedOnly
      <3> QED BY ZenonT(60), <1>1, <2>1, <2>2, <2>3, <3>1, <3>2, <3>3 DEF Feeds, Buffers,
           FeedsLaunch, LaunchRecord, Skeleton, OpRecord, LifecycleTypes, Generations,
           startup, Current, lifecycle, process, ensure_generation, ensure_startup
    <2> QED BY <2>4, <2>5
  <1>6. CASE RetireFailedStart(o)
    <2>1. \A m \in Launches :
             /\ launch'[m].gen = launch[m].gen /\ launch'[m].stdin = launch[m].stdin
             /\ launch'[m].r_init = launch[m].r_init
      <3>1. PICK outcome \in Outcomes(op[o].target) : launch' = Retired(op[o].target, outcome)
        BY <1>6, Zenon DEF RetireFailedStart
      <3>2. op[o].target \in Launches \cup {NoLaunch} BY <1>1 DEF OpRecord
      <3> QED BY <3>1, <3>2, RetiredKeeps
    <2> QED BY <1>1, <1>2, <1>6, <2>1 DEF lifecycle, At, Holds, RetireFailedStart,
         process, startup, Current, Feeds, Buffers, FeedsLaunch, LaunchRecord, Skeleton,
         OpRecord, LifecycleTypes, Generations
  <1>7. CASE StopFailed(o)
    <2>1. \A m \in Launches :
             /\ launch'[m].gen = launch[m].gen /\ launch'[m].stdin = launch[m].stdin
             /\ launch'[m].r_init = launch[m].r_init
      <3>1. PICK outcome \in Outcomes(running) : launch' = Retired(running, outcome)
        BY <1>7, Zenon DEF StopFailed
      <3> QED BY <3>1, RetiredKeeps
    <2> QED BY <1>1, <1>2, <1>7, <2>1 DEF lifecycle, At, Goto, Holds, StopResolver,
         StopFailed, process, startup, Current, Feeds, Buffers, FeedsLaunch,
         LaunchRecord, Skeleton, OpRecord, LifecycleTypes, Generations
  <1>8. CASE StartPoll(o)
    <2>1. PICK label \in {"lock_stdin", "poll", "return", "done"}, mode \in {"Stdin", "Poll", op[o].mode} :
             Polled(o, label, mode)
      BY <1>8, StartPollMoves
    <2> QED BY <1>1, <1>2, <2>1, ConstantsAssumption DEF Polled, Feeds, Buffers, FeedsLaunch,
         LaunchRecord, Skeleton, OpRecord, LifecycleTypes, Generations, startup, Current,
         lifecycle, process, ensure_generation, ensure_startup
  <1>9. CASE WriteStdin(o)
    <2>1. /\ \A m \in Launches :
                \/ launch'[m].stdin = launch[m].stdin
                \/ m = running /\ launch'[m].stdin = launch[m].stdin \cup {op[o].gen}
          /\ ~unused_default'
      <3> DEFINE given == launch[running].stdin \cup {op[o].gen}
      <3>1. \/ launch' = launch
            \/ launch' = [launch EXCEPT ![running].stdin = given]
        BY <1>9, Zenon DEF WriteStdin
      <3>2. unused_default' = (unused_default /\ ~TRUE)
        BY <1>9, Zenon DEF WriteStdin, UseDefault
      <3>3. running \in Launches \cup {NoLaunch} OBVIOUS
      <3> HIDE DEF given
      <3>4. CASE launch' = [launch EXCEPT ![running].stdin = given]
        <4>1. \A m \in Launches : launch'[m].stdin = IF m = running THEN given ELSE launch[m].stdin
          BY <3>3, <3>4, FedOnly
        <4> QED BY <3>2, <4>1 DEF given
      <3> QED BY <3>1, <3>2, <3>4
    <2>2. /\ UNCHANGED <<state, generation, stop_handle, startup_stdin>>
          /\ op[o].pc = "write"
          /\ \/ op' = [op EXCEPT ![o].pc = "stop_failed"]
             \/ op' = [op EXCEPT ![o].pc = AfterStdin(o)]
      BY <1>9, Zenon DEF WriteStdin, Holds, At, Goto, lifecycle
    <2>3. op'[o].pc \in {"stop_failed", "poll", "grace", "return"}
      BY <1>1, <2>2 DEF OpRecord, AfterStdin
    <2> QED BY <1>1, <2>1, <2>2, <2>3 DEF Feeds, Buffers, FeedsLaunch, LaunchRecord,
         Skeleton, OpRecord, LifecycleTypes, Generations, startup, Current, lifecycle,
         process, ensure_generation, ensure_startup
  <1>10. CASE RestartShutdown(o)
    <2>1. \A m \in Launches :
             /\ launch'[m].gen = launch[m].gen /\ launch'[m].stdin = launch[m].stdin
             /\ launch'[m].r_init = launch[m].r_init
      <3>1. ShutdownProcesses(o, "replace_worker", "retire_worker") BY <1>10 DEF RestartShutdown
      <3>2. op[o].target \in Launches \cup {NoLaunch} BY <1>1 DEF OpRecord
      <3> QED BY <3>1, <3>2, ShutdownKeeps
    <2> QED BY <1>1, <1>2, <1>10, <2>1 DEF lifecycle, At, Goto, StopResolver,
         ShutdownProcesses, RestartShutdown, process, startup, Current, Feeds, Buffers,
         FeedsLaunch, LaunchRecord, Skeleton, OpRecord, LifecycleTypes, Generations
  <1>11. CASE RetireWorker(o)
    <2>1. \A m \in Launches :
             /\ launch'[m].gen = launch[m].gen /\ launch'[m].stdin = launch[m].stdin
             /\ launch'[m].r_init = launch[m].r_init
      <3>1. PICK io \in BOOLEAN : FinishRetirement(io) BY <1>11, Zenon DEF RetireWorker
      <3> QED BY <3>1, FinishKeeps
    <2> QED BY <1>1, <1>2, <1>11, <2>1 DEF lifecycle, At, Goto, RetireWorker, process,
         startup, Current, Feeds, Buffers, FeedsLaunch, LaunchRecord, Skeleton,
         OpRecord, LifecycleTypes, Generations
  <1>12. CASE ReplaceWorker(o)
    <2>1. \A m \in Launches :
             /\ launch'[m].gen = launch[m].gen /\ launch'[m].stdin = launch[m].stdin
             /\ launch'[m].r_init = launch[m].r_init
      <3>1. launch' = launch \/ \E io \in BOOLEAN : FinishRetirement(io)
        BY <1>12, Zenon DEF ReplaceWorker
      <3> QED BY <3>1, FinishKeeps
    <2> QED BY <1>1, <1>2, <1>12, <2>1 DEF At, Goto, ReplaceWorker, process, lifecycle,
         startup, Current, Feeds, Buffers, FeedsLaunch, LaunchRecord, Skeleton,
         OpRecord, LifecycleTypes, Generations
  <1>13. CASE InterruptBlocking(o)
    <2>1. op[o].pc = "interrupt" /\ Selected(o, "interrupted", TRUE) BY <1>13, InterruptMoves
    <2> QED BY <1>1, <1>2, <2>1, ConstantsAssumption DEF Selected, Feeds, Buffers, FeedsLaunch,
         LaunchRecord, Skeleton, startup, process, Current, OpRecord, LifecycleTypes, Generations
  <1>14. CASE InterruptStdin(o)
    <2>1. /\ \A m \in Launches :
                /\ launch'[m].gen = launch[m].gen /\ launch'[m].r_init = launch[m].r_init
                /\ \/ launch'[m].stdin = launch[m].stdin
                   \/ /\ m = stop_handle /\ ensure_startup(o) /\ ~unused_default'
                      /\ launch'[m].stdin = launch[m].stdin \cup {op[o].gen}
          /\ \/ startup_stdin' = startup_stdin
             \/ ensure_startup(o) /\ startup_stdin' = startup_stdin \cup {op[o].gen}
          /\ unused_default' => unused_default
      <3>1. PICK stdin \in BOOLEAN : QueueStartupStdin(o, stdin)
        BY <1>14, Zenon DEF InterruptStdin
      <3> QED BY <3>1, QueueMoves DEF LifecycleTypes
    <2>2. /\ UNCHANGED <<state, generation, stop_handle>>
          /\ op[o].pc = "startup_stdin" /\ op' = [op EXCEPT ![o].pc = "return"]
      BY <1>14, Zenon DEF InterruptStdin, At, Goto, lifecycle
    <2>3. op'[o].pc = "return" BY <1>1, <2>2 DEF OpRecord
    <2> QED BY <1>1, <2>1, <2>2, <2>3 DEF Feeds, Buffers, FeedsLaunch, LaunchRecord,
         Skeleton, OpRecord, LifecycleTypes, Generations, startup, Current, lifecycle,
         process, ensure_generation, ensure_startup
  <1>15. CASE SubmitControlledStdin(o)
    <2>1. Submitted(o) BY <1>15, SubmitControlledStdinMoves
    <2> QED BY <1>1, <1>2, <2>1 DEF Submitted, Feeds, Buffers, FeedsLaunch, LaunchRecord,
         Skeleton, OpRecord, LifecycleTypes, Generations, startup, Current, lifecycle, process,
         ensure_generation, ensure_startup
  <1>16. CASE CloseProcesses(o)
    <2>1. \A m \in Launches :
             /\ launch'[m].gen = launch[m].gen /\ launch'[m].stdin = launch[m].stdin
             /\ launch'[m].r_init = launch[m].r_init
      <3>1. ShutdownProcesses(o, "close_worker", "close_worker") BY <1>16 DEF CloseProcesses
      <3>2. op[o].target \in Launches \cup {NoLaunch} BY <1>1 DEF OpRecord
      <3> QED BY <3>1, <3>2, ShutdownKeeps
    <2> QED BY <1>1, <1>2, <1>16, <2>1 DEF lifecycle, At, Goto, StopResolver,
         ShutdownProcesses, CloseProcesses, process, startup, Current, Feeds, Buffers,
         FeedsLaunch, LaunchRecord, Skeleton, OpRecord, LifecycleTypes, Generations
  <1>17. CASE CloseWorker(o)
    <2>1. \A m \in Launches :
             /\ launch'[m].gen = launch[m].gen /\ launch'[m].stdin = launch[m].stdin
             /\ launch'[m].r_init = launch[m].r_init
      <3>1. PICK io \in BOOLEAN : FinishRetirement(io) BY <1>17, Zenon DEF CloseWorker
      <3> QED BY <3>1, FinishKeeps
    <2> QED BY <1>1, <1>2, <1>17, <2>1 DEF lifecycle, At, Goto, CloseWorker, process,
         startup, Current, Feeds, Buffers, FeedsLaunch, LaunchRecord, Skeleton,
         OpRecord, LifecycleTypes, Generations
  <1>18. CASE InterruptStandalone(o)
    <2>1. op[o].pc = "idle" /\ o \in Interrupters /\ Selected(o, "standalone", FALSE)
      BY <1>18, InterruptMoves
    <2> QED BY <1>1, <1>2, <2>1, ConstantsAssumption DEF Selected, Feeds, Buffers, FeedsLaunch,
         LaunchRecord, Skeleton, startup, process, Current, OpRecord, LifecycleTypes, Generations
  <1>19. CASE InterruptStartup(o)
    <2>1. /\ op[o].pc = "idle" /\ o \in Interrupters
          /\ Selected(o, "startup_stdin", FALSE) \/ Selected(o, "return", FALSE)
      BY <1>19, InterruptMoves
    <2> QED BY <1>1, <1>2, <2>1, ConstantsAssumption DEF Selected, Feeds, Buffers, FeedsLaunch,
         LaunchRecord, Skeleton, startup, process, Current, OpRecord, LifecycleTypes, Generations
  <1> USE <1>1, <1>2 DEF At, process, lifecycle, startup, Current, Feeds, Buffers, FeedsLaunch,
        LaunchRecord, Skeleton, OpRecord, LifecycleTypes, Generations, Goto, Holds
  <1>20. CASE StartEvaluation(o)
    BY <1>20 DEF DropStartup, ReserveStartup, ReleaseAdmission, Unlock, Refuse, PublishEvaluation,
       StartEvaluation, ensure_startup, ensure_ordinary_generation
  <1>21. CASE EvaluateBlocking(o)
    BY <1>21 DEF DropStartup, CompleteCell, EvaluateBlocking, StartupAwaited, ensure_generation
  <1>22. CASE LockForCell(o) BY <1>22 DEF DropStartup, CompleteCell, LockForCell, ensure_generation
  <1>23. CASE CellFails(o) BY <1>23 DEF CompleteCell, CellFails
  <1>24. CASE EvaluateReturns(o) BY <1>24 DEF DropStartup, EvaluateReturns
  <1>25. CASE ReserveWorkerStartup(o)
    BY <1>25 DEF ReserveStartup, AfterStart, ReleaseStarter, ReserveWorkerStartup, ensure_startup
  <1>26. CASE LockEnvironment(o) BY <1>26 DEF LockEnvironment
  <1>27. CASE ResolvePrestart(o) BY <1>27 DEF RegisterResolver, ResolvePrestart, ensure_startup
  <1>28. CASE AwaitReady(o) BY <1>28 DEF AwaitReady
  <1>29. CASE OnReady(o) BY <1>29 DEF FinishRestart, OnReady
  <1>30. CASE ReadyCommit(o) BY <1>30 DEF AfterStart, ReleaseStarter, ReadyCommit
  <1>31. CASE StartFailed(o)
    BY <1>31 DEF DropStartup, CompleteCell, AfterStdinFailure, ClearStopHandle, StartFailed,
       ensure_generation
  <1>32. CASE StopFailedWorker(o)
    BY <1>32 DEF DropStartup, AfterStdinFailure, StopReturns, StopFailedWorker, ensure_generation
  <1>33. CASE FailedWorkerStopped(o)
    BY <1>33 DEF DropStartup, AfterStdinFailure, StopReturns, FailedWorkerStopped,
       ensure_generation
  <1>34. CASE StartReplacement(o) BY <1>34 DEF StartReplacement
  <1>35. CASE LockForStdin(o) BY <1>35 DEF LockForStdin, ensure_generation
  <1>36. CASE TakeIdleResponse(o) BY <1>36 DEF TakeIdleResponse, ensure_generation
  <1>37. CASE LockForPoll(o) BY <1>37 DEF LockForPoll, ensure_generation
  <1>38. CASE Return(o) BY <1>38 DEF DropStartup, ReleaseAdmission, Unlock, Refuse, Return
  <1>39. CASE Prelaunch(o) BY <1>39 DEF Prelaunch, ensure_startup
  <1>40. CASE ReservePreparation(o) BY <1>40 DEF ReservePreparation
  <1>41. CASE LockForPrelaunch(o) BY <1>41 DEF LockForPrelaunch
  <1>42. CASE PrelaunchReturns(o) BY <1>42 DEF DropStartup, PrelaunchReturns, ensure_generation
  <1>43. CASE FinishStartup(o) BY <1>43 DEF FinishStartup
  <1>44. CASE AdmitPreparation(o)
    BY <1>44 DEF DropStartup, ReleaseAdmission, Unlock, Refuse, AdmitPreparation
  <1>45. CASE CheckPreparation(o) BY <1>45 DEF CheckPreparation, ensure_generation
  <1>46. CASE PrepareAdmitted(o) BY <1>46 DEF PrepareAdmitted, ensure_generation
  <1>47. CASE PrepareResolve(o) BY <1>47 DEF RegisterResolver, PrepareResolve, ensure_startup
  <1>48. CASE CommitEnvironment(o) BY <1>48 DEF CommitEnvironment, ensure_generation
  <1>49. CASE StartPreparedEvaluation(o)
    BY <1>49 DEF DropStartup, ReserveStartup, ReleaseAdmission, Unlock, Refuse, PublishEvaluation,
       StartPreparedEvaluation, ensure_startup, ensure_ordinary_generation
  <1>50. CASE BeginRestart(o)
    BY <1>50 DEF DropStartup, ReleaseAdmission, Unlock, Refuse, StartRestart, BeginRestart,
       ensure_controlled_generation
  <1>51. CASE ResolveRestart(o)
    BY <1>51 DEF RegisterResolver, ResolveRestart, ensure_generation, ensure_startup
  <1>52. CASE CommitRestart(o)
    BY <1>52 DEF DropStartup, ReleaseAdmission, Unlock, Refuse, StartRestart, CommitRestart,
       ensure_controlled_generation
  <1>53. CASE RestartCommitted(o) BY <1>53 DEF RestartCommitted
  <1>54. CASE FailRestart(o) BY <1>54 DEF FailRestart
  <1>55. CASE RestartLaunch(o) BY <1>55 DEF RestartLaunch
  <1>56. CASE RestartReturns(o) BY <1>56 DEF FinishRestart, RestartReturns
  <1>57. CASE AdmitControlledOperation(o) BY <1>57 DEF WriteAdmission, AdmitControlledOperation
  <1>58. CASE FollowUp(o)
    BY <1>58 DEF DropStartup, ReserveStartup, ReleaseAdmission, Unlock, Refuse, PublishEvaluation,
       FollowUp, ensure_startup, ensure_controlled_generation
  <1>59. CASE RetryControlledSend(o) BY <1>59 DEF RetryControlledSend
  <1>60. CASE EnsureFollowupConnection(o) BY <1>60 DEF EnsureFollowupConnection
  <1>61. CASE ContinueAfterInterrupt(o)
    BY <1>61 DEF DropStartup, ReleaseAdmission, WriteAdmission, Unlock, Refuse,
       ContinueAfterInterrupt, ensure_controlled_generation
  <1>62. CASE ContinueWithCell(o)
    BY <1>62 DEF DropStartup, ReserveStartup, ReleaseAdmission, Unlock, Refuse, PublishEvaluation,
       ContinueWithCell, ensure_startup, ensure_controlled_generation
  <1>63. CASE ResolvedPrestart(o) BY <1>63 DEF ClearResolver, ResolvedPrestart, ensure_startup
  <1>64. CASE PrepareResolved(o) BY <1>64 DEF ClearResolver, PrepareResolved
  <1>65. CASE RestartResolved(o) BY <1>65 DEF ClearResolver, RestartResolved
  <1>66. CASE Admit(o) BY <1>66 DEF ReadAdmission, Admit
  <1>67. CASE BeginControlledSend(o) BY <1>67 DEF BeginControlledSend, Controls
  <1>68. CASE CloseLifecycle(o) BY <1>68 DEF CloseLifecycle
  <1>69. CASE CellCompletes(o) BY <1>69 DEF CompleteCell, CellCompletes
  <1> QED BY ZenonT(60), <1>3, <1>4, <1>5, <1>6, <1>7, <1>8, <1>9, <1>10, <1>11, <1>12,
     <1>13, <1>14, <1>15, <1>16, <1>17, <1>18, <1>19, <1>20, <1>21, <1>22, <1>23, <1>24,
     <1>25, <1>26, <1>27, <1>28, <1>29, <1>30, <1>31, <1>32, <1>33, <1>34, <1>35, <1>36,
     <1>37, <1>38, <1>39, <1>40, <1>41, <1>42, <1>43, <1>44, <1>45, <1>46, <1>47, <1>48,
     <1>49, <1>50, <1>51, <1>52, <1>53, <1>54, <1>55, <1>56, <1>57, <1>58, <1>59, <1>60,
     <1>61, <1>62, <1>63, <1>64, <1>65, <1>66, <1>67, <1>68, <1>69 DEF Acts, Step, Settle, Arrive

LEMMA StepPermits ==
    ASSUME TypeOK, TypeOK', NEW o \in Ops, Acts(o), Skeleton(o)
    PROVE  Permits(o)
  <1> USE DEF TypeOK, OpTypes, ProcessTypes
  <1>1. op[o] \in OpRecord /\ op'[o] \in OpRecord OBVIOUS
  <1>2. Skeleton(o) OBVIOUS
  <1>3. CASE Spawn(o)
    <2>1. /\ op[o].pc = "spawn" /\ UNCHANGED <<state, generation, r_permitted, worker_lock>>
          /\ startup_permitted' = (startup_permitted /\ ~HasStartup)
      BY <1>3, Zenon DEF Spawn, Holds, At, lifecycle
    <2>2. CASE UNCHANGED <<launch, launched>>
      <3>1. op' = [op EXCEPT ![o].pc = "start_failed"] \/
            op' = [op EXCEPT ![o].pc = "register", ![o].target = launched + 1]
        BY <1>3, Zenon DEF Spawn, Goto
      <3>2. op'[o].pc \in {"start_failed", "register"} /\ op'[o].gen = op[o].gen
        BY <1>1, <3>1 DEF OpRecord
      <3> QED BY <1>1, <2>1, <2>2, <3>2 DEF Permits, Launched, LaunchRecord, Starting,
           Launching, Holding, Registered, BeforeLaunch, BeforeBarrier, Skeleton,
           OpRecord, LifecycleTypes, Generations, startup, Current, lifecycle, process,
           ensure_generation, ensure_startup
    <2>3. CASE ~UNCHANGED <<launch, launched>>
      <3> DEFINE next == launched + 1
                 g == op[o].gen
      <3>1. /\ Permitted(o) /\ launched < MaxLaunches /\ launched' = next
            /\ launch' = [launch EXCEPT ![next].gen = g, ![next].live = TRUE]
            /\ op' = [op EXCEPT ![o].pc = "register", ![o].target = next]
        BY <1>3, <2>3, Zenon DEF Spawn
      <3>2. next \in Launches /\ launched \in Nat
        BY <3>1, LaunchedRange DEF Launches
      <3> HIDE DEF next, g
      <3>3. \A m \in Launches : launch[m] \in LaunchRecord BY DEF ProcessTypes
      <3>4. \A m \in Launches :
               /\ launch'[m].r_init = launch[m].r_init
               /\ m # next => launch'[m].gen = launch[m].gen
        BY <3>1, <3>2, <3>3 DEF ProcessTypes, LaunchRecord
      <3>5. launch'[next].gen = g BY <3>1, <3>2, <3>3 DEF ProcessTypes, LaunchRecord
      <3>6. op'[o].pc = "register" /\ op'[o].gen = op[o].gen BY <1>1, <3>1 DEF OpRecord
      <3>7. startup_permitted' => startup_permitted BY <2>1, Zenon
      <3>8. \A m \in Launches : m <= launched => m # next BY <3>2 DEF next, Launches
      <3>9. Launched(o) BY <2>1, <3>1, <3>5 DEF Launched, next, g
      <3>10. UNCHANGED <<r_permitted, generation, state>> BY <2>1
      <3>11. op'[o].pc \notin Launching \cup BeforeLaunch
        BY <3>6 DEF Launching, BeforeLaunch, BeforeBarrier
      <3>12. \A l \in Launches :
               /\ launch'[l].r_init = launch[l].r_init
               /\ l <= launched => launch'[l].gen = launch[l].gen
        BY <3>4, <3>8
      <3> HIDE DEF TypeOK, OpTypes, ProcessTypes
      <3> QED BY <3>9, <3>7, <3>10, <3>11, <3>12, Zenon DEF Permits
    <2> QED BY <2>2, <2>3
  <1>4. CASE RetireFailedStart(o)
    <2>1. \A m \in Launches :
             /\ launch'[m].gen = launch[m].gen /\ launch'[m].stdin = launch[m].stdin
             /\ launch'[m].r_init = launch[m].r_init
      <3>1. PICK outcome \in Outcomes(op[o].target) : launch' = Retired(op[o].target, outcome)
        BY <1>4, Zenon DEF RetireFailedStart
      <3>2. op[o].target \in Launches \cup {NoLaunch} BY <1>1 DEF OpRecord
      <3> QED BY <3>1, <3>2, RetiredKeeps
    <2> QED BY <1>1, <1>2, <1>4, <2>1 DEF lifecycle, At, Holds, RetireFailedStart,
         process, startup, Current, Permits, Launched, LaunchRecord, Starting,
         Launching, Holding, Registered, BeforeLaunch, BeforeBarrier, Skeleton,
         OpRecord, LifecycleTypes, Generations
  <1>5. CASE StopFailed(o)
    <2>1. \A m \in Launches :
             /\ launch'[m].gen = launch[m].gen /\ launch'[m].stdin = launch[m].stdin
             /\ launch'[m].r_init = launch[m].r_init
      <3>1. PICK outcome \in Outcomes(running) : launch' = Retired(running, outcome)
        BY <1>5, Zenon DEF StopFailed
      <3> QED BY <3>1, RetiredKeeps
    <2> QED BY <1>1, <1>2, <1>5, <2>1 DEF lifecycle, At, Goto, Holds, StopResolver,
         StopFailed, process, startup, Current, Permits, Launched, LaunchRecord,
         Starting, Launching, Holding, Registered, BeforeLaunch, BeforeBarrier,
         Skeleton, OpRecord, LifecycleTypes, Generations
  <1>6. CASE StartPoll(o)
    <2>1. PICK label \in {"lock_stdin", "poll", "return", "done"}, mode \in {"Stdin", "Poll", op[o].mode} :
             Polled(o, label, mode)
      BY <1>6, StartPollMoves
    <2> QED BY <1>1, <1>2, <2>1, ConstantsAssumption DEF Polled, Permits, Launched, LaunchRecord,
         Starting, Launching, Holding, Registered, BeforeLaunch, BeforeBarrier, Skeleton,
         OpRecord, LifecycleTypes, Generations, startup, Current, lifecycle, process,
         ensure_generation, ensure_startup
  <1>7. CASE RestartShutdown(o)
    <2>1. \A m \in Launches :
             /\ launch'[m].gen = launch[m].gen /\ launch'[m].stdin = launch[m].stdin
             /\ launch'[m].r_init = launch[m].r_init
      <3>1. ShutdownProcesses(o, "replace_worker", "retire_worker") BY <1>7 DEF RestartShutdown
      <3>2. op[o].target \in Launches \cup {NoLaunch} BY <1>1 DEF OpRecord
      <3> QED BY <3>1, <3>2, ShutdownKeeps
    <2> QED BY <1>1, <1>2, <1>7, <2>1 DEF lifecycle, At, Goto, StopResolver,
         ShutdownProcesses, RestartShutdown, process, startup, Current, Permits,
         Launched, LaunchRecord, Starting, Launching, Holding, Registered, BeforeLaunch,
         BeforeBarrier, Skeleton, OpRecord, LifecycleTypes, Generations
  <1>8. CASE RetireWorker(o)
    <2>1. \A m \in Launches :
             /\ launch'[m].gen = launch[m].gen /\ launch'[m].stdin = launch[m].stdin
             /\ launch'[m].r_init = launch[m].r_init
      <3>1. PICK io \in BOOLEAN : FinishRetirement(io) BY <1>8, Zenon DEF RetireWorker
      <3> QED BY <3>1, FinishKeeps
    <2> QED BY <1>1, <1>2, <1>8, <2>1 DEF lifecycle, At, Goto, RetireWorker, process,
         startup, Current, Permits, Launched, LaunchRecord, Starting, Launching,
         Holding, Registered, BeforeLaunch, BeforeBarrier, Skeleton, OpRecord,
         LifecycleTypes, Generations
  <1>9. CASE ReplaceWorker(o)
    <2>1. \A m \in Launches :
             /\ launch'[m].gen = launch[m].gen /\ launch'[m].stdin = launch[m].stdin
             /\ launch'[m].r_init = launch[m].r_init
      <3>1. launch' = launch \/ \E io \in BOOLEAN : FinishRetirement(io)
        BY <1>9, Zenon DEF ReplaceWorker
      <3> QED BY <3>1, FinishKeeps
    <2> QED BY <1>1, <1>2, <1>9, <2>1 DEF At, Goto, ReplaceWorker, process, lifecycle,
         startup, Current, Permits, Launched, LaunchRecord, Starting, Launching,
         Holding, Registered, BeforeLaunch, BeforeBarrier, Skeleton, OpRecord,
         LifecycleTypes, Generations
  <1>10. CASE InterruptBlocking(o)
    <2>1. op[o].pc = "interrupt" /\ Selected(o, "interrupted", TRUE) BY <1>10, InterruptMoves
    <2> QED BY <1>1, <1>2, <2>1, ConstantsAssumption DEF Selected, Permits, Launched,
         LaunchRecord, Starting, Launching, Holding, Registered, BeforeLaunch, BeforeBarrier,
         Skeleton, startup, process, Current, OpRecord, LifecycleTypes, Generations
  <1>11. CASE SubmitControlledStdin(o)
    <2>1. Submitted(o) BY <1>11, SubmitControlledStdinMoves
    <2> QED BY <1>1, <1>2, <2>1 DEF Submitted, Permits, Launched, LaunchRecord, Starting,
         Launching, Holding, Registered, BeforeLaunch, BeforeBarrier, Skeleton, OpRecord,
         LifecycleTypes, Generations, startup, Current, lifecycle, process, ensure_generation,
         ensure_startup
  <1>12. CASE CloseProcesses(o)
    <2>1. \A m \in Launches :
             /\ launch'[m].gen = launch[m].gen /\ launch'[m].stdin = launch[m].stdin
             /\ launch'[m].r_init = launch[m].r_init
      <3>1. ShutdownProcesses(o, "close_worker", "close_worker") BY <1>12 DEF CloseProcesses
      <3>2. op[o].target \in Launches \cup {NoLaunch} BY <1>1 DEF OpRecord
      <3> QED BY <3>1, <3>2, ShutdownKeeps
    <2> QED BY <1>1, <1>2, <1>12, <2>1 DEF lifecycle, At, Goto, StopResolver,
         ShutdownProcesses, CloseProcesses, process, startup, Current, Permits,
         Launched, LaunchRecord, Starting, Launching, Holding, Registered, BeforeLaunch,
         BeforeBarrier, Skeleton, OpRecord, LifecycleTypes, Generations
  <1>13. CASE CloseWorker(o)
    <2>1. \A m \in Launches :
             /\ launch'[m].gen = launch[m].gen /\ launch'[m].stdin = launch[m].stdin
             /\ launch'[m].r_init = launch[m].r_init
      <3>1. PICK io \in BOOLEAN : FinishRetirement(io) BY <1>13, Zenon DEF CloseWorker
      <3> QED BY <3>1, FinishKeeps
    <2> QED BY <1>1, <1>2, <1>13, <2>1 DEF lifecycle, At, Goto, CloseWorker, process,
         startup, Current, Permits, Launched, LaunchRecord, Starting, Launching,
         Holding, Registered, BeforeLaunch, BeforeBarrier, Skeleton, OpRecord,
         LifecycleTypes, Generations
  <1>14. CASE InterruptStandalone(o)
    <2>1. op[o].pc = "idle" /\ o \in Interrupters /\ Selected(o, "standalone", FALSE)
      BY <1>14, InterruptMoves
    <2> QED BY <1>1, <1>2, <2>1, ConstantsAssumption DEF Selected, Permits, Launched,
         LaunchRecord, Starting, Launching, Holding, Registered, BeforeLaunch, BeforeBarrier,
         Skeleton, startup, process, Current, OpRecord, LifecycleTypes, Generations
  <1>15. CASE InterruptStartup(o)
    <2>1. /\ op[o].pc = "idle" /\ o \in Interrupters
          /\ Selected(o, "startup_stdin", FALSE) \/ Selected(o, "return", FALSE)
      BY <1>15, InterruptMoves
    <2> QED BY <1>1, <1>2, <2>1, ConstantsAssumption DEF Selected, Permits, Launched,
         LaunchRecord, Starting, Launching, Holding, Registered, BeforeLaunch, BeforeBarrier,
         Skeleton, startup, process, Current, OpRecord, LifecycleTypes, Generations
  <1> USE <1>1, <1>2 DEF At, process, lifecycle, startup, Current, Permits, Launched,
        LaunchRecord, Starting, Launching, Holding, Registered, BeforeLaunch, BeforeBarrier,
        Skeleton, OpRecord, LifecycleTypes, Generations, Goto, Holds
  <1>16. CASE StartEvaluation(o)
    BY <1>16 DEF DropStartup, ReserveStartup, ReleaseAdmission, Unlock, Refuse, PublishEvaluation,
       StartEvaluation, ensure_startup, ensure_ordinary_generation
  <1>17. CASE EvaluateBlocking(o)
    BY <1>17 DEF DropStartup, CompleteCell, EvaluateBlocking, StartupAwaited, ensure_generation
  <1>18. CASE LockForCell(o) BY <1>18 DEF DropStartup, CompleteCell, LockForCell, ensure_generation
  <1>19. CASE Dispatch(o) BY <1>19 DEF CompleteCell, Dispatch
  <1>20. CASE CellFails(o) BY <1>20 DEF CompleteCell, CellFails
  <1>21. CASE EvaluateReturns(o) BY <1>21 DEF DropStartup, EvaluateReturns
  <1>22. CASE ReserveWorkerStartup(o)
    BY <1>22 DEF ReserveStartup, AfterStart, ReleaseStarter, ReserveWorkerStartup, ensure_startup
  <1>23. CASE LockEnvironment(o) BY <1>23 DEF LockEnvironment
  <1>24. CASE ResolvePrestart(o) BY <1>24 DEF RegisterResolver, ResolvePrestart, ensure_startup
  <1>25. CASE RegisterStopHandle(o) BY <1>25 DEF RegisterStopHandle, CanRegister
  <1>26. CASE AwaitReady(o) BY <1>26 DEF AwaitReady
  <1>27. CASE OnReady(o) BY <1>27 DEF FinishRestart, OnReady
  <1>28. CASE ReadyCommit(o) BY SMTT(40), <1>28 DEF AfterStart, ReleaseStarter, ReadyCommit
  <1>29. CASE StartFailed(o)
    BY <1>29 DEF DropStartup, CompleteCell, AfterStdinFailure, ClearStopHandle, StartFailed,
       ensure_generation
  <1>30. CASE StopFailedWorker(o)
    BY <1>30 DEF DropStartup, AfterStdinFailure, StopReturns, StopFailedWorker, ensure_generation
  <1>31. CASE FailedWorkerStopped(o)
    BY <1>31 DEF DropStartup, AfterStdinFailure, StopReturns, FailedWorkerStopped,
       ensure_generation
  <1>32. CASE StartReplacement(o) BY <1>32 DEF StartReplacement
  <1>33. CASE LockForStdin(o) BY <1>33 DEF LockForStdin, ensure_generation
  <1>34. CASE WriteStdin(o) BY <1>34 DEF AfterStdin, WriteStdin
  <1>35. CASE TakeIdleResponse(o) BY <1>35 DEF TakeIdleResponse, ensure_generation
  <1>36. CASE LockForPoll(o) BY <1>36 DEF LockForPoll, ensure_generation
  <1>37. CASE Return(o) BY <1>37 DEF DropStartup, ReleaseAdmission, Unlock, Refuse, Return
  <1>38. CASE Prelaunch(o) BY <1>38 DEF Prelaunch, ensure_startup
  <1>39. CASE ReservePreparation(o) BY <1>39 DEF ReservePreparation
  <1>40. CASE LockForPrelaunch(o) BY <1>40 DEF LockForPrelaunch
  <1>41. CASE PrelaunchReturns(o) BY <1>41 DEF DropStartup, PrelaunchReturns, ensure_generation
  <1>42. CASE FinishStartup(o) BY <1>42 DEF FinishStartup
  <1>43. CASE AdmitPreparation(o)
    BY <1>43 DEF DropStartup, ReleaseAdmission, Unlock, Refuse, AdmitPreparation
  <1>44. CASE CheckPreparation(o) BY <1>44 DEF CheckPreparation, ensure_generation
  <1>45. CASE PrepareAdmitted(o) BY <1>45 DEF PrepareAdmitted, ensure_generation
  <1>46. CASE PrepareResolve(o) BY <1>46 DEF RegisterResolver, PrepareResolve, ensure_startup
  <1>47. CASE CommitEnvironment(o) BY <1>47 DEF CommitEnvironment, ensure_generation
  <1>48. CASE StartPreparedEvaluation(o)
    BY <1>48 DEF DropStartup, ReserveStartup, ReleaseAdmission, Unlock, Refuse, PublishEvaluation,
       StartPreparedEvaluation, ensure_startup, ensure_ordinary_generation
  <1>49. CASE BeginRestart(o)
    BY <1>49 DEF DropStartup, ReleaseAdmission, Unlock, Refuse, StartRestart, BeginRestart,
       ensure_controlled_generation
  <1>50. CASE ResolveRestart(o)
    BY <1>50 DEF RegisterResolver, ResolveRestart, ensure_generation, ensure_startup
  <1>51. CASE CommitRestart(o)
    BY <1>51 DEF DropStartup, ReleaseAdmission, Unlock, Refuse, StartRestart, CommitRestart,
       ensure_controlled_generation
  <1>52. CASE RestartCommitted(o) BY <1>52 DEF RestartCommitted
  <1>53. CASE FailRestart(o) BY <1>53 DEF FailRestart
  <1>54. CASE RestartLaunch(o) BY <1>54 DEF RestartLaunch
  <1>55. CASE RestartReturns(o) BY <1>55 DEF FinishRestart, RestartReturns
  <1>56. CASE AdmitControlledOperation(o) BY <1>56 DEF WriteAdmission, AdmitControlledOperation
  <1>57. CASE FollowUp(o)
    BY <1>57 DEF DropStartup, ReserveStartup, ReleaseAdmission, Unlock, Refuse, PublishEvaluation,
       FollowUp, ensure_startup, ensure_controlled_generation
  <1>58. CASE InterruptStdin(o) BY <1>58 DEF QueueStartupStdin, InterruptStdin, ensure_startup
  <1>59. CASE RetryControlledSend(o) BY <1>59 DEF RetryControlledSend
  <1>60. CASE EnsureFollowupConnection(o) BY <1>60 DEF EnsureFollowupConnection
  <1>61. CASE ContinueAfterInterrupt(o)
    BY <1>61 DEF DropStartup, ReleaseAdmission, WriteAdmission, Unlock, Refuse,
       ContinueAfterInterrupt, ensure_controlled_generation
  <1>62. CASE ContinueWithCell(o)
    BY <1>62 DEF DropStartup, ReserveStartup, ReleaseAdmission, Unlock, Refuse, PublishEvaluation,
       ContinueWithCell, ensure_startup, ensure_controlled_generation
  <1>63. CASE ResolvedPrestart(o) BY <1>63 DEF ClearResolver, ResolvedPrestart, ensure_startup
  <1>64. CASE PrepareResolved(o) BY <1>64 DEF ClearResolver, PrepareResolved
  <1>65. CASE RestartResolved(o) BY <1>65 DEF ClearResolver, RestartResolved
  <1>66. CASE Admit(o) BY <1>66 DEF ReadAdmission, Admit
  <1>67. CASE BeginControlledSend(o) BY <1>67 DEF BeginControlledSend, Controls
  <1>68. CASE CloseLifecycle(o) BY <1>68 DEF CloseLifecycle
  <1>69. CASE CellCompletes(o) BY <1>69 DEF CompleteCell, CellCompletes
  <1> QED BY ZenonT(60), <1>3, <1>4, <1>5, <1>6, <1>7, <1>8, <1>9, <1>10, <1>11, <1>12,
     <1>13, <1>14, <1>15, <1>16, <1>17, <1>18, <1>19, <1>20, <1>21, <1>22, <1>23, <1>24,
     <1>25, <1>26, <1>27, <1>28, <1>29, <1>30, <1>31, <1>32, <1>33, <1>34, <1>35, <1>36,
     <1>37, <1>38, <1>39, <1>40, <1>41, <1>42, <1>43, <1>44, <1>45, <1>46, <1>47, <1>48,
     <1>49, <1>50, <1>51, <1>52, <1>53, <1>54, <1>55, <1>56, <1>57, <1>58, <1>59, <1>60,
     <1>61, <1>62, <1>63, <1>64, <1>65, <1>66, <1>67, <1>68, <1>69 DEF Acts, Step, Settle, Arrive

LEMMA StepReports ==
    ASSUME TypeOK, TypeOK', NEW o \in Ops, Acts(o), Skeleton(o)
    PROVE  Reports(o)
  <1> USE DEF TypeOK, OpTypes, ProcessTypes
  <1>1. op[o] \in OpRecord /\ op'[o] \in OpRecord OBVIOUS
  <1>2. Skeleton(o) OBVIOUS
  <1>3. CASE EvaluateBlocking(o)
    <2>1. /\ op[o].pc = "evaluate" /\ startup_done /\ UNCHANGED startup_done
          /\ startup_failed' => startup_failed
      BY <1>3, Zenon DEF EvaluateBlocking, StartupAwaited, At
    <2>2. \/ op'[o].pc = "done" /\ op'[o].mode = op[o].mode /\ op'[o].gen = op[o].gen
          \/ /\ op'[o].pc = "lock" /\ op'[o].mode = op[o].mode /\ op'[o].gen = op[o].gen
             /\ ~startup_failed
      BY <1>1, <1>3 DEF EvaluateBlocking, CompleteCell, Goto, OpRecord
    <2> QED BY <1>1, <1>2, <2>1, <2>2 DEF Reports, Prelaunching, PastStartup, ModeFits,
         Starting, Launching, Holding, Registered, Restarts, Skeleton, OpRecord,
         LifecycleTypes, Generations, startup, Current, lifecycle, process,
         ensure_generation, ensure_startup
  <1>4. CASE StartPoll(o)
    <2>1. PICK label \in {"lock_stdin", "poll", "return", "done"}, mode \in {"Stdin", "Poll", op[o].mode} :
             Polled(o, label, mode)
      BY <1>4, StartPollMoves
    <2> QED BY <1>1, <1>2, <2>1, ConstantsAssumption DEF Polled, Reports, Prelaunching,
         PastStartup, ModeFits, Starting, Launching, Holding, Registered, Restarts, Skeleton,
         OpRecord, LifecycleTypes, Generations, startup, Current, lifecycle, process,
         ensure_generation, ensure_startup
  <1>5. CASE InterruptBlocking(o)
    <2>1. op[o].pc = "interrupt" /\ Selected(o, "interrupted", TRUE) BY <1>5, InterruptMoves
    <2> QED BY <1>1, <1>2, <2>1, ConstantsAssumption DEF Selected, Reports, Prelaunching,
         PastStartup, ModeFits, Starting, Launching, Holding, Registered, Restarts, Skeleton,
         startup, process, Current, OpRecord, LifecycleTypes, Generations
  <1>6. CASE SubmitControlledStdin(o)
    <2>1. Submitted(o) BY <1>6, SubmitControlledStdinMoves
    <2> QED BY <1>1, <1>2, <2>1 DEF Submitted, Reports, Prelaunching, PastStartup, ModeFits,
         Starting, Launching, Holding, Registered, Restarts, Skeleton, OpRecord, LifecycleTypes,
         Generations, startup, Current, lifecycle, process, ensure_generation, ensure_startup
  <1>7. CASE InterruptStandalone(o)
    <2>1. op[o].pc = "idle" /\ o \in Interrupters /\ Selected(o, "standalone", FALSE)
      BY <1>7, InterruptMoves
    <2> QED BY <1>1, <1>2, <2>1, ConstantsAssumption DEF Selected, Reports, Prelaunching,
         PastStartup, ModeFits, Starting, Launching, Holding, Registered, Restarts, Skeleton,
         startup, process, Current, OpRecord, LifecycleTypes, Generations
  <1>8. CASE InterruptStartup(o)
    <2>1. /\ op[o].pc = "idle" /\ o \in Interrupters
          /\ Selected(o, "startup_stdin", FALSE) \/ Selected(o, "return", FALSE)
      BY <1>8, InterruptMoves
    <2> QED BY <1>1, <1>2, <2>1, ConstantsAssumption DEF Selected, Reports, Prelaunching,
         PastStartup, ModeFits, Starting, Launching, Holding, Registered, Restarts, Skeleton,
         startup, process, Current, OpRecord, LifecycleTypes, Generations
  <1> USE <1>1, <1>2 DEF At, process, lifecycle, startup, Reports, Prelaunching, PastStartup,
        ModeFits, Starting, Launching, Holding, Registered, Restarts, Skeleton, OpRecord,
        LifecycleTypes, Generations, Goto, Holds
  <1>9. CASE StartEvaluation(o)
    BY <1>9 DEF DropStartup, ReserveStartup, ReleaseAdmission, Unlock, Refuse, PublishEvaluation,
       StartEvaluation, ensure_startup, ensure_ordinary_generation, Current
  <1>10. CASE LockForCell(o)
    BY <1>10 DEF DropStartup, CompleteCell, LockForCell, ensure_generation, Current
  <1>11. CASE Dispatch(o) BY <1>11 DEF CompleteCell, Dispatch
  <1>12. CASE CellFails(o) BY <1>12 DEF CompleteCell, CellFails
  <1>13. CASE EvaluateReturns(o) BY <1>13 DEF DropStartup, EvaluateReturns
  <1>14. CASE ReserveWorkerStartup(o)
    BY <1>14 DEF ReserveStartup, AfterStart, ReleaseStarter, ReserveWorkerStartup, ensure_startup,
       Current
  <1>15. CASE LockEnvironment(o) BY <1>15 DEF LockEnvironment
  <1>16. CASE ResolvePrestart(o)
    BY <1>16 DEF RegisterResolver, ResolvePrestart, ensure_startup, Current
  <1>17. CASE Spawn(o) BY <1>17 DEF Spawn, Permitted, RPermitted, SourcePermitted
  <1>18. CASE RegisterStopHandle(o) BY <1>18 DEF RegisterStopHandle, CanRegister
  <1>19. CASE AwaitReady(o) BY <1>19 DEF AwaitReady
  <1>20. CASE OnReady(o) BY <1>20 DEF FinishRestart, OnReady, Current
  <1>21. CASE ReadyCommit(o) BY <1>21 DEF AfterStart, ReleaseStarter, ReadyCommit
  <1>22. CASE RetireFailedStart(o) BY <1>22 DEF RetireFailedStart
  <1>23. CASE StartFailed(o)
    BY <1>23 DEF DropStartup, CompleteCell, AfterStdinFailure, ClearStopHandle, StartFailed,
       ensure_generation, Current
  <1>24. CASE StopFailedWorker(o)
    BY <1>24 DEF DropStartup, AfterStdinFailure, StopReturns, StopFailedWorker, ensure_generation,
       Current
  <1>25. CASE StopFailed(o) BY <1>25 DEF StopResolver, StopFailed
  <1>26. CASE FailedWorkerStopped(o)
    BY <1>26 DEF DropStartup, AfterStdinFailure, StopReturns, FailedWorkerStopped,
       ensure_generation, Current
  <1>27. CASE StartReplacement(o) BY <1>27 DEF StartReplacement
  <1>28. CASE LockForStdin(o) BY <1>28 DEF LockForStdin, ensure_generation, Current
  <1>29. CASE WriteStdin(o) BY <1>29 DEF AfterStdin, WriteStdin
  <1>30. CASE TakeIdleResponse(o)
    BY ZenonT(60), <1>30 DEF TakeIdleResponse, ensure_generation, Current
  <1>31. CASE LockForPoll(o) BY <1>31 DEF LockForPoll, ensure_generation, Current
  <1>32. CASE Return(o) BY <1>32 DEF DropStartup, ReleaseAdmission, Unlock, Refuse, Return
  <1>33. CASE Prelaunch(o) BY <1>33 DEF Prelaunch, ensure_startup, Current
  <1>34. CASE ReservePreparation(o) BY <1>34 DEF ReservePreparation
  <1>35. CASE LockForPrelaunch(o) BY <1>35 DEF LockForPrelaunch
  <1>36. CASE PrelaunchReturns(o)
    BY ZenonT(60), <1>36 DEF DropStartup, PrelaunchReturns, ensure_generation, Current
  <1>37. CASE FinishStartup(o) BY <1>37 DEF FinishStartup
  <1>38. CASE AdmitPreparation(o)
    BY <1>38 DEF DropStartup, ReleaseAdmission, Unlock, Refuse, AdmitPreparation
  <1>39. CASE CheckPreparation(o) BY <1>39 DEF CheckPreparation, ensure_generation, Current
  <1>40. CASE PrepareAdmitted(o) BY <1>40 DEF PrepareAdmitted, ensure_generation, Current
  <1>41. CASE PrepareResolve(o)
    BY <1>41 DEF RegisterResolver, PrepareResolve, ensure_startup, Current
  <1>42. CASE CommitEnvironment(o) BY <1>42 DEF CommitEnvironment, ensure_generation, Current
  <1>43. CASE StartPreparedEvaluation(o)
    BY <1>43 DEF DropStartup, ReserveStartup, ReleaseAdmission, Unlock, Refuse, PublishEvaluation,
       StartPreparedEvaluation, ensure_startup, ensure_ordinary_generation, Current
  <1>44. CASE BeginRestart(o)
    BY <1>44 DEF DropStartup, ReleaseAdmission, Unlock, Refuse, StartRestart, BeginRestart,
       ensure_controlled_generation, Current
  <1>45. CASE ResolveRestart(o)
    BY <1>45 DEF RegisterResolver, ResolveRestart, ensure_generation, ensure_startup, Current
  <1>46. CASE CommitRestart(o)
    BY <1>46 DEF DropStartup, ReleaseAdmission, Unlock, Refuse, StartRestart, CommitRestart,
       ensure_controlled_generation, Current
  <1>47. CASE RestartCommitted(o) BY <1>47 DEF RestartCommitted
  <1>48. CASE RestartShutdown(o) BY <1>48 DEF StopResolver, ShutdownProcesses, RestartShutdown
  <1>49. CASE RetireWorker(o) BY <1>49 DEF RetireWorker
  <1>50. CASE FailRestart(o) BY <1>50 DEF FailRestart
  <1>51. CASE ReplaceWorker(o) BY <1>51 DEF ReplaceWorker
  <1>52. CASE RestartLaunch(o) BY <1>52 DEF RestartLaunch
  <1>53. CASE RestartReturns(o) BY <1>53 DEF FinishRestart, RestartReturns, Current
  <1>54. CASE AdmitControlledOperation(o) BY <1>54 DEF WriteAdmission, AdmitControlledOperation
  <1>55. CASE FollowUp(o)
    BY <1>55 DEF DropStartup, ReserveStartup, ReleaseAdmission, Unlock, Refuse, PublishEvaluation,
       FollowUp, ensure_startup, ensure_controlled_generation, Current
  <1>56. CASE InterruptStdin(o)
    BY <1>56 DEF QueueStartupStdin, InterruptStdin, ensure_startup, Current
  <1>57. CASE RetryControlledSend(o) BY <1>57 DEF RetryControlledSend
  <1>58. CASE EnsureFollowupConnection(o) BY <1>58 DEF EnsureFollowupConnection
  <1>59. CASE ContinueAfterInterrupt(o)
    BY <1>59 DEF DropStartup, ReleaseAdmission, WriteAdmission, Unlock, Refuse,
       ContinueAfterInterrupt, ensure_controlled_generation, Current
  <1>60. CASE ContinueWithCell(o)
    BY <1>60 DEF DropStartup, ReserveStartup, ReleaseAdmission, Unlock, Refuse, PublishEvaluation,
       ContinueWithCell, ensure_startup, ensure_controlled_generation, Current
  <1>61. CASE CloseProcesses(o) BY <1>61 DEF StopResolver, ShutdownProcesses, CloseProcesses
  <1>62. CASE CloseWorker(o) BY <1>62 DEF CloseWorker
  <1>63. CASE ResolvedPrestart(o)
    BY <1>63 DEF ClearResolver, ResolvedPrestart, ensure_startup, Current
  <1>64. CASE PrepareResolved(o) BY <1>64 DEF ClearResolver, PrepareResolved, Current
  <1>65. CASE RestartResolved(o) BY <1>65 DEF ClearResolver, RestartResolved, Current
  <1>66. CASE Admit(o) BY <1>66 DEF ReadAdmission, Admit
  <1>67. CASE BeginControlledSend(o) BY <1>67 DEF BeginControlledSend, Controls
  <1>68. CASE CloseLifecycle(o) BY <1>68 DEF CloseLifecycle
  <1>69. CASE CellCompletes(o) BY <1>69 DEF CompleteCell, CellCompletes
  <1> QED BY Zenon, <1>3, <1>4, <1>5, <1>6, <1>7, <1>8, <1>9, <1>10, <1>11, <1>12,
     <1>13, <1>14, <1>15, <1>16, <1>17, <1>18, <1>19, <1>20, <1>21, <1>22, <1>23, <1>24,
     <1>25, <1>26, <1>27, <1>28, <1>29, <1>30, <1>31, <1>32, <1>33, <1>34, <1>35, <1>36,
     <1>37, <1>38, <1>39, <1>40, <1>41, <1>42, <1>43, <1>44, <1>45, <1>46, <1>47, <1>48,
     <1>49, <1>50, <1>51, <1>52, <1>53, <1>54, <1>55, <1>56, <1>57, <1>58, <1>59, <1>60,
     <1>61, <1>62, <1>63, <1>64, <1>65, <1>66, <1>67, <1>68, <1>69 DEF Acts, Step, Settle, Arrive

(***************************************************************************)
(* Code and input stay in their generation.                                *)
(***************************************************************************)
CellsInv == \A q \in Ops : CellInv(q)
SelectsInv == \A q \in Ops : SelectInv(q)
WorkInv == CellsInv /\ SelectsInv /\ InputInv /\ UnusedInv

(* What every step of a call keeps of the launches there are.              *)
LEMMA LaunchesKept ==
    ASSUME TypeOK, TypeOK', NEW o \in Ops, Permits(o)
    PROVE  /\ launched \in Nat /\ launched' \in Nat /\ launched <= launched'
           /\ \A l \in Launches : l <= launched => launch'[l].gen = launch[l].gen
  BY LaunchedType DEF Permits, Launched

LEMMA RunningType ==
    ASSUME TypeOK, LaunchInv, worker = "Running"
    PROVE  running = launched /\ stop_handle = launched /\ launched \in Launches
  BY LaunchedType DEF LaunchInv, RunningIsLast

LEMMA OwnCellKept ==
    ASSUME TypeOK, TypeOK', LaunchInv, NEW o \in Ops, CallInv(o), CellInv(o), Phased(o),
           CellMoves(o), Permits(o)
    PROVE  CellInv(o)'
  <1>1. /\ launched <= launched'
        /\ \A l \in Launches : l <= launched => launch'[l].gen = launch[l].gen
    BY LaunchesKept
  <1>2. op'[o].phase # "None" => CellAt(o)'
    BY DEF CellInv, Phased, CellMoves, Published, Sent, CellAt, SentAt
  <1>3. ASSUME op'[o].ran_on # NoLaunch
        PROVE  /\ op'[o].phase = "Dispatched" /\ SentAt(o)'
               /\ op'[o].ran_on <= launched' /\ launch'[op'[o].ran_on].gen = op'[o].gen
    <2>1. CASE Sent(o)
      <3>1. worker = "Running" BY <2>1 DEF Sent, CallInv, UsesWorker, Using
      <3>2. running = launched /\ launched \in Launches BY <3>1, RunningType
      <3>3. launch[running].gen = op[o].gen BY <2>1, <3>1 DEF Sent, CellInv, GivesAt
      <3>4. op'[o].gen = op[o].gen BY <2>1 DEF Sent, CellMoves, CellAt
      <3>5. op'[o].ran_on = running /\ op'[o].phase = "Dispatched" /\ SentAt(o)'
        BY <2>1 DEF Sent, SentAt
      <3> QED BY <1>1, <3>2, <3>3, <3>4, <3>5, LaunchedType
    <2>2. CASE ~Sent(o)
      <3>1. op'[o].ran_on = op[o].ran_on BY <2>2 DEF Phased, Published
      <3>2. /\ op[o].phase = "Dispatched" /\ SentAt(o)
            /\ op[o].ran_on <= launched /\ launch[op[o].ran_on].gen = op[o].gen
        BY <1>3, <3>1 DEF CellInv
      <3>3. op'[o].phase = "Dispatched"
        BY <2>2, <3>2 DEF Phased, Published, CellAt
      <3>4. SentAt(o)' /\ op'[o].gen = op[o].gen BY <3>2 DEF CellMoves, CellAt
      <3>5. op[o].ran_on \in Launches BY <1>3, <3>1 DEF TypeOK, OpTypes, OpRecord
      <3> QED BY <1>1, <3>1, <3>2, <3>3, <3>4, <3>5, LaunchesKept DEF Launches
    <2> QED BY <2>1, <2>2
  <1>4. ASSUME GivesAt(o)', worker' = "Running"
        PROVE  launch'[running'].gen = op'[o].gen
    <2>1. op'[o].gen = op[o].gen BY <1>4 DEF CellMoves
    <2>2. CASE (GivesAt(o) \/ ensure_generation(o)) /\ UNCHANGED <<worker, running>>
      <3>1. running = launched /\ stop_handle = launched /\ launched \in Launches
        BY <1>4, <2>2, RunningType
      <3>2. launch[running].gen = op[o].gen
        BY <1>4, <2>2, <3>1 DEF CellInv, ensure_generation, Current, LaunchInv, ReadyIsCurrent,
           NoLaunch, Launches
      <3> QED BY <1>1, <2>1, <2>2, <3>1, <3>2, LaunchedType
    <2>3. CASE op[o].pc = "ready_commit" /\ running' = op[o].target
      <3>1. /\ op[o].target = launched /\ launched \in Launches
            /\ launch[launched].gen = op[o].gen
        BY <2>3, LaunchedType DEF CallInv, HasLaunch, Holding, Registered
      <3> QED BY <1>1, <2>1, <2>3, <3>1, LaunchedType
    <2> QED BY <1>4, <2>2, <2>3 DEF CellMoves
  <1> QED BY <1>2, <1>3, <1>4 DEF CellInv

LEMMA OtherCellKept ==
    ASSUME TypeOK, TypeOK', LaunchInv, NEW o \in Ops, Alone(o), Phased(o), WorkerKept(o),
           Permits(o), NEW q \in Ops \ {o}, Skeleton(q), CellInv(q)
    PROVE  CellInv(q)'
  <1>1. /\ launched <= launched'
        /\ \A l \in Launches : l <= launched => launch'[l].gen = launch[l].gen
    BY LaunchesKept
  <1>2. Same(q) BY DEF Alone
  <1>3. /\ CellAt(q)' = CellAt(q) /\ SentAt(q)' = SentAt(q) /\ GivesAt(q)' = GivesAt(q)
    BY <1>2 DEF Same, CellAt, SentAt, GivesAt
  <1>4. /\ op'[q].ran_on = op[q].ran_on /\ op'[q].gen = op[q].gen
        /\ \/ op'[q].phase = op[q].phase
           \/ op[q].phase = "Pending" /\ op'[q].phase = "Withheld"
    BY <1>2 DEF Phased, Same
  <1>5. ASSUME op'[q].ran_on # NoLaunch
        PROVE  op'[q].ran_on <= launched' /\ launch'[op'[q].ran_on].gen = op'[q].gen
    <2>1. op[q].ran_on \in Launches BY <1>4, <1>5 DEF TypeOK, OpTypes, OpRecord
    <2> QED BY <1>1, <1>4, <1>5, <2>1, LaunchesKept DEF CellInv, Launches
  <1>6. ASSUME GivesAt(q), worker' = "Running"
        PROVE  launch'[running'].gen = op'[q].gen
    <2>1. worker_lock = q
      BY <1>6 DEF Skeleton, OwnsWorker, GivesAt, Owning, Using, Starting
    <2>2. UNCHANGED <<worker, running>>
      BY <2>1, ConstantsAssumption DEF WorkerKept
    <2>3. running = launched /\ launched \in Launches BY <1>6, <2>2, RunningType
    <2> QED BY <1>1, <1>4, <1>6, <2>2, <2>3, LaunchedType DEF CellInv
  <1> QED BY <1>3, <1>4, <1>5, <1>6 DEF CellInv

(* A selected launch stays the one of the interrupt's generation: only a   *)
(* restart makes a session ready again, and not while a control interrupts.*)
LEMMA SelectsKept ==
    ASSUME TypeOK, TypeOK', SkeletonInv, RestartIsOwned, LaunchInv, SelectsInv,
           NEW o \in Ops, Acts(o), Buffers(o), Permits(o), NEW q \in Ops
    PROVE  SelectInv(q)'
  <1> SUFFICES ASSUME op'[q].pc = "interrupted", op'[q].selected # NoLaunch,
                      state' = "Ready", op'[q].gen = generation'
               PROVE  op'[q].selected <= launched' /\ launch'[op'[q].selected].gen = generation'
    BY DEF SelectInv, ensure_generation, Current
  <1>1. /\ launched <= launched' /\ launched \in Nat /\ launched' \in Nat
        /\ \A l \in Launches : l <= launched => launch'[l].gen = launch[l].gen
    BY LaunchesKept
  <1>2. Alone(o) /\ Skeleton(o) /\ Skeleton(q) BY CallSkeleton DEF SkeletonInv
  <1>3. op'[q].selected \in Launches BY DEF TypeOK, OpTypes, OpRecord
  <1>4. CASE q = o
    <2>1. op'[q].selected = stop_handle /\ state = "Ready" /\ generation' = generation
      BY <1>4 DEF Buffers
    <2>2. stop_handle = launched /\ launch[launched].gen = generation
      BY <1>3, <2>1 DEF LaunchInv, ReadyIsCurrent
    <2> QED BY <1>1, <1>3, <2>1, <2>2
  <1>5. CASE q # o
    <2>1. Same(q) BY <1>2, <1>5 DEF Alone
    <2>2. op[q].gen = generation /\ generation' = generation
      <3>1. op[q].gen \in Nat /\ generation \in Nat /\ generation' \in Nat
        BY OpFields DEF TypeOK, LifecycleTypes, Generations
      <3> QED BY <1>2, <2>1, <3>1 DEF Same, Skeleton, Alone
    <2>3. state = "Ready"
      <3>1. state # "ShuttingDown"
        BY CallKeeps DEF KeepsOwner, TypeOK, OpTypes, BeginRestart, CommitRestart, StartRestart,
           Refuse, ensure_generation, ensure_controlled_generation
      <3>2. controlled_send = q BY <1>2, <2>1 DEF Skeleton, OwnsAdmission, Controlling, Same
      <3>3. state # "Restarting"
        BY <2>1, <3>2 DEF RestartIsOwned, Settling, Same
      <3> QED BY <3>1, <3>3 DEF TypeOK, LifecycleTypes, States
    <2>4. op[q].selected <= launched /\ launch[op[q].selected].gen = generation
      BY <2>1, <2>2, <2>3 DEF SelectsInv, SelectInv, ensure_generation, Current, Same
    <2> QED BY <1>1, <1>3, <2>1, <2>2, <2>4 DEF Same, Launches
  <1> QED BY <1>4, <1>5

(* A call feeds launches of its own generation only.                       *)
LEMMA FeedsOwnGeneration ==
    ASSUME TypeOK, SkeletonInv, RestartIsOwned, CallsInv, LaunchInv, CellsInv, SelectsInv,
           NEW o \in Ops, NEW l \in Launches, FeedsLaunch(o, l)
    PROVE  l <= launched /\ launch[l].gen = op[o].gen
  <1>1. CASE op[o].pc = "write" /\ l = running
    <2>1. worker = "Running" BY <1>1 DEF CallsInv, CallInv, UsesWorker, Using
    <2> QED BY <1>1, <2>1, RunningType, LaunchedType DEF CellsInv, CellInv, GivesAt
  <1>2. CASE op[o].pc \in {"admitted", "startup_stdin"} /\ ensure_startup(o) /\ l = stop_handle
    <2>1. state # "Restarting"
      <3> SUFFICES ASSUME state = "Restarting" PROVE FALSE OBVIOUS
      <3>1. controlled_send = o
        BY <1>2 DEF CallsInv, CallInv, NotYetAdmitted, ensure_startup
      <3> QED BY <1>2, <3>1 DEF RestartIsOwned, Settling
    <2>2. state = "Ready" BY <1>2, <2>1 DEF ensure_startup, TypeOK, LifecycleTypes, States
    <2> QED BY <1>2, <2>2, LaunchedType
         DEF LaunchInv, ReadyIsCurrent, ensure_startup, Current, Launches, NoLaunch
  <1>3. CASE op[o].pc = "interrupted" /\ ensure_generation(o) /\ l = op[o].selected
    BY <1>3 DEF SelectsInv, SelectInv, ensure_generation, Current, Launches, NoLaunch
  <1> QED BY <1>1, <1>2, <1>3 DEF FeedsLaunch

LEMMA InputKept ==
    ASSUME TypeOK, TypeOK', SkeletonInv, RestartIsOwned, CallsInv, LaunchInv, WorkInv,
           NEW o \in Ops, Phased(o), Feeds(o), Buffers(o), Permits(o)
    PROVE  InputInv' /\ UnusedInv'
  <1> USE DEF WorkInv
  <1>1. startup_stdin' \subseteq {generation'} BY DEF InputInv, Buffers, Current
  <1>2. ASSUME NEW l \in Launches
        PROVE  /\ launch'[l].stdin \subseteq {launch'[l].gen}
               /\ l > launched' => launch'[l].stdin = {}
               /\ unused_default' => launch'[l].stdin = {}
    <2>1. launched <= launched' /\ launched \in Nat /\ launched' \in Nat
      BY LaunchesKept
    <2>2. l <= launched => launch'[l].gen = launch[l].gen BY LaunchesKept
    <2>3. CASE launch'[l].stdin = launch[l].stdin
      BY <2>1, <2>2, <2>3 DEF InputInv, UnusedInv, Buffers, Launches
    <2>4. CASE FeedsLaunch(o, l) /\ ~unused_default'
               /\ launch'[l].stdin \subseteq launch[l].stdin \cup {op[o].gen}
      <3>1. l <= launched /\ launch[l].gen = op[o].gen BY <2>4, FeedsOwnGeneration
      <3> QED BY <2>1, <2>2, <2>4, <3>1 DEF InputInv, Launches
    <2>5. CASE /\ op[o].pc = "register" /\ l = op[o].target /\ ensure_generation(o)
               /\ launch'[l].stdin = startup_stdin /\ (unused_default' => startup_stdin = {})
      <3>1. l = launched /\ launch[l].gen = op[o].gen
        BY <2>5 DEF CallsInv, CallInv, HasLaunch, Holding
      <3> QED BY <2>1, <2>2, <2>5, <3>1 DEF InputInv, ensure_generation, Current
    <2> QED BY <2>3, <2>4, <2>5 DEF Feeds
  <1>3. unused_default' => \A q \in Ops : op'[q].ran_on = NoLaunch
    BY DEF UnusedInv, Buffers, Phased, Published, Sent
  <1> QED BY <1>1, <1>2, <1>3 DEF InputInv, UnusedInv

LEMMA WorkStep ==
    ASSUME TypeOK, TypeOK', SkeletonInv, RestartIsOwned, CallsInv, LaunchInv, WorkInv,
           [Next]_vars
    PROVE  WorkInv'
  <1>1. ASSUME NEW o \in Ops, Acts(o) PROVE WorkInv'
    <2>1. Skeleton(o) /\ Alone(o) BY <1>1, CallSkeleton DEF SkeletonInv
    <2>2. Phased(o) /\ CellMoves(o) /\ WorkerKept(o) BY <1>1, <2>1, StepCells
    <2>3. Feeds(o) /\ Buffers(o) BY <1>1, <2>1, StepInput
    <2>4. Permits(o) BY <1>1, <2>1, StepPermits
    <2>5. CellInv(o)' BY <2>2, <2>4, OwnCellKept DEF CallsInv, WorkInv, CellsInv
    <2>6. ASSUME NEW q \in Ops \ {o} PROVE CellInv(q)'
      BY <2>1, <2>2, <2>4, <2>6, OtherCellKept DEF SkeletonInv, WorkInv, CellsInv
    <2>7. ASSUME NEW q \in Ops PROVE SelectInv(q)'
      BY <1>1, <2>3, <2>4, <2>7, SelectsKept DEF WorkInv
    <2>8. InputInv' /\ UnusedInv' BY <2>2, <2>3, <2>4, InputKept
    <2> QED BY <2>5, <2>6, <2>7, <2>8 DEF WorkInv, CellsInv, SelectsInv
  <1>2. ASSUME \A o \in Ops : ~Acts(o) PROVE WorkInv'
    <2>1. SameWorker /\ UNCHANGED <<op, controlled_send>> BY <1>2, SilentSame
    <2>2. /\ UNCHANGED <<startup_stdin, unused_default>>
          /\ \A l \in Launches : launch'[l].stdin = launch[l].stdin
      <3>1. ASSUME NEW m \in Launches, WorkerStep(m)
            PROVE  /\ UNCHANGED <<startup_stdin, unused_default>>
                   /\ \A l \in Launches : launch'[l].stdin = launch[l].stdin
        BY <3>1 DEF WorkerStep, LaunchReady, LaunchFails, RInitBegins, RInitCompletes,
           LaunchEvent, TypeOK, ProcessTypes, LaunchRecord
      <3> QED BY <1>2, <3>1 DEF Next, Terminated, Acts, Reap, startup, process, vars
    <2>3. InputInv' /\ UnusedInv'
      BY <2>1, <2>2 DEF WorkInv, InputInv, UnusedInv, SameWorker, SameLaunch
    <2>4. ASSUME NEW q \in Ops PROVE CellInv(q)'
      <3>1. op[q].ran_on # NoLaunch => op[q].ran_on \in Launches
        BY DEF TypeOK, OpTypes, OpRecord
      <3>2. worker = "Running" => running \in Launches BY RunningType
      <3> QED BY <2>1, <3>1, <3>2
           DEF WorkInv, CellsInv, CellInv, CellAt, SentAt, GivesAt, SameWorker, SameLaunch
    <2>5. ASSUME NEW q \in Ops PROVE SelectInv(q)'
      <3>1. op[q].selected # NoLaunch => op[q].selected \in Launches BY OpFields DEF TypeOK
      <3> QED BY <2>1, <3>1
           DEF WorkInv, SelectsInv, SelectInv, ensure_generation, Current, SameWorker, SameLaunch
    <2> QED BY <2>3, <2>4, <2>5 DEF WorkInv, CellsInv, SelectsInv
  <1> QED BY <1>1, <1>2

LEMMA WorkInit == ASSUME Init PROVE WorkInv
  <1>1. \A o \in Ops : /\ op[o].pc = "idle" /\ op[o].phase = "None" /\ op[o].ran_on = NoLaunch
    BY DEF Init
  <1>2. CellsInv /\ SelectsInv
    BY <1>1 DEF CellsInv, CellInv, SelectsInv, SelectInv, GivesAt
  <1>3. InputInv /\ UnusedInv BY <1>1 DEF Init, InputInv, UnusedInv
  <1> QED BY <1>2, <1>3 DEF WorkInv

(* The strengthening of the next three theorems: what calls, launches and  *)
(* buffers hold belongs to one generation.                                 *)
THEOREM WorkHolds == Spec => []WorkInv
  <1>1. LaunchesInv /\ LaunchesInv' /\ WorkInv /\ [Next]_vars => WorkInv'
    BY WorkStep DEF LaunchesInv
  <1> QED BY <1>1, WorkInit, LaunchesHold, PTL DEF Spec

(* No code or input crosses a restart: a cell runs on a launch of the      *)
(* generation it was admitted in, and a launch is fed only its own input.  *)
THEOREM GenerationsFenced == Spec => []GenerationFence
  <1>1. LaunchesInv /\ WorkInv => GenerationFence
    BY LaunchedRange DEF LaunchesInv, WorkInv, CellsInv, CellInv, InputInv, GenerationFence
  <1> QED BY <1>1, WorkHolds, LaunchesHold, PTL

(* The default worker that an environment commit may replace ran no cell   *)
(* and was written no input (unused_default).                              *)
THEOREM UnusedUntouched == Spec => []UnusedIsUntouched
  <1>1. LaunchesInv /\ WorkInv => UnusedIsUntouched
    BY RunningType DEF LaunchesInv, WorkInv, UnusedInv, UnusedIsUntouched, Launches, NoLaunch
  <1> QED BY <1>1, WorkHolds, LaunchesHold, PTL

(* A cell that an interrupt withheld stays withheld in every step, and     *)
(* never gets a worker to run on.                                          *)
THEOREM WithheldStays == Spec => WithheldNeverRuns
  <1> DEFINE Stays == \A o \in Ops : op[o].phase = "Withheld" =>
                         op'[o].phase = "Withheld" /\ op'[o].ran_on = NoLaunch
  <1>1. ASSUME TypeOK, TypeOK', SkeletonInv, WorkInv, Next PROVE Stays
    <2>1. ASSUME NEW o \in Ops, Acts(o) PROVE Stays
      <3>1. Phased(o) BY <1>1, <2>1, StepCells DEF SkeletonInv
      <3> QED BY <1>1, <3>1 DEF Phased, Published, Sent, WorkInv, CellsInv, CellInv
    <2>2. CASE \A o \in Ops : ~Acts(o)
      <3>1. op' = op BY <1>1, <2>2, SilentSame
      <3> QED BY <1>1, <3>1 DEF WorkInv, CellsInv, CellInv
    <2> QED BY <2>1, <2>2
  <1>2. UNCHANGED vars /\ WorkInv => Stays
    BY DEF vars, WorkInv, CellsInv, CellInv
  <1>3. LaunchesInv /\ LaunchesInv' /\ WorkInv /\ [Next]_vars => [Stays]_vars
    BY <1>1 DEF LaunchesInv
  <1> HIDE DEF Stays
  <1>4. Spec => [][Stays]_vars BY <1>3, WorkHolds, LaunchesHold, PTL DEF Spec
  <1> QED BY <1>4 DEF WithheldNeverRuns, Stays

(***************************************************************************)
(* One launch of a generation runs the startup source.                     *)
(***************************************************************************)
PermitsInv == PermitInv /\ InitializesOnce

LEMMA PermitsInit == ASSUME Init PROVE PermitsInv
  <1>1. launched = 0 /\ \A l \in Launches : launch[l].r_init = "No" BY DEF Init
  <1>2. 1..launched = {} BY <1>1
  <1> QED BY <1>1, <1>2 DEF Init, PermitsInv, PermitInv, InitializesOnce, LaunchedBefore,
        BeforeLaunch, BeforeBarrier, Launching

(* A new launch: its generation had none that runs the startup source, and *)
(* none whose R initialization began and did not complete.                 *)
LEMMA LaunchedKeepsPermits ==
    ASSUME TypeOK, TypeOK', SkeletonInv, CallsInv, PermitsInv,
           NEW o \in Ops, Alone(o), Permits(o), Launched(o)
    PROVE  PermitsInv'
  <1> USE DEF PermitsInv
  <1>1. /\ launched \in Nat /\ launched' = launched + 1 /\ launched' \in Launches
        /\ 1..launched \subseteq Launches /\ generation' = generation /\ state' = state
        /\ generation \in Nat /\ launch'[launched'].gen = op[o].gen
        /\ \A l \in 1..launched : launch'[l].gen = launch[l].gen
        /\ \A l \in Launches : launch'[l].r_init = launch[l].r_init
        /\ \A l \in Launches : launch[l].gen \in Generations
    <2>1. launched' \in Nat /\ launched' <= MaxLaunches /\ launched \in Nat
      BY ConstantsAssumption DEF TypeOK, ProcessTypes
    <2>2. launched' = launched + 1 BY DEF Launched
    <2>3. 1..launched \subseteq Launches /\ launched' \in Launches
      BY <2>1, <2>2, ConstantsAssumption DEF Launches
    <2>4. \A l \in Launches : launch[l].gen \in Generations
      BY DEF TypeOK, ProcessTypes, LaunchRecord
    <2>5. generation \in Nat BY DEF TypeOK, LifecycleTypes, Generations
    <2>6. \A l \in 1..launched : l \in Launches /\ l <= launched BY <2>1, <2>3
    <2>7. /\ \A l \in 1..launched : launch'[l].gen = launch[l].gen
          /\ \A l \in Launches : launch'[l].r_init = launch[l].r_init
      BY <2>6 DEF Permits
    <2>8. generation' = generation /\ state' = state /\ launch'[launched'].gen = op[o].gen
      BY <2>2 DEF Launched
    <2> QED BY <2>1, <2>2, <2>3, <2>4, <2>5, <2>7, <2>8
  <1>2. /\ op[o].pc = "spawn" /\ op[o].gen <= generation /\ op[o].gen \in Nat
        /\ r_permitted[op[o].gen] /\ (HasStartup => startup_permitted /\ ~startup_permitted')
    BY OpFields DEF Launched, Permitted, RPermitted, SourcePermitted, SkeletonInv, Skeleton,
       TypeOK, Generations
  <1>3. r_permitted' = r_permitted BY DEF Permits
  <1>4. launch'[launched'].r_init = "No" BY <1>1 DEF PermitInv
  <1>5. HasStartup => \A l \in 1..launched : launch[l].gen # op[o].gen
    BY <1>2 DEF PermitInv, Launching
  <1>6. \A l \in 1..launched : launch[l].gen = op[o].gen => launch[l].r_init # "Begun"
    BY <1>2 DEF PermitInv
  <1>7. \A l \in 1..launched' : l \in 1..launched \/ l = launched' BY <1>1
  <1>8. InitializesOnce'
    <2> SUFFICES ASSUME NEW l \in 1..launched', NEW m \in 1..launched', l < m,
                        launch'[l].gen = launch'[m].gen
                 PROVE  ~HasStartup /\ launch'[l].r_init # "Begun"
      BY DEF InitializesOnce
    <2>1. l \in 1..launched /\ l \in Launches BY <1>1
    <2>2. CASE m = launched' BY <1>1, <1>5, <1>6, <2>1, <2>2
    <2>3. CASE m \in 1..launched BY <1>1, <2>1, <2>3 DEF InitializesOnce
    <2> QED BY <1>7, <2>2, <2>3
  <1>9. \A l \in Launches : l > launched' => launch'[l].r_init = "No"
    BY <1>1 DEF PermitInv, Launches
  <1>10. \A l \in 1..launched' : launch'[l].gen <= generation'
    BY <1>1, <1>2, <1>7 DEF PermitInv
  <1>11. \A l \in 1..launched' : launch'[l].r_init = "Begun" => ~r_permitted'[launch'[l].gen]
    BY <1>1, <1>3, <1>4, <1>7 DEF PermitInv
  <1>12. ASSUME NEW q \in Ops, state' = "Restarting", op'[q].pc \in BeforeLaunch
         PROVE  LaunchedBefore(generation)'
    <2>1. q # o BY <1>1, <1>2, <1>12 DEF Permits, BeforeLaunch, BeforeBarrier
    <2>2. op[q].pc \in BeforeLaunch BY <1>12, <2>1 DEF Alone, Same
    <2>3. controlled_send = q
      BY <2>2 DEF SkeletonInv, Skeleton, ModeFits, Restarts, BeforeLaunch, BeforeBarrier,
         OwnsAdmission, Controlling
    <2>4. op[o].gen # generation
      BY <1>1, <1>2, <1>12, <2>1, <2>3 DEF CallsInv, CallInv, NotYetAdmitted, Current
    <2>5. LaunchedBefore(generation) BY <1>1, <1>12, <2>2 DEF PermitInv
    <2> QED BY <1>1, <1>2, <1>7, <2>4, <2>5 DEF LaunchedBefore
  <1> QED BY <1>2, <1>8, <1>9, <1>10, <1>11, <1>12 DEF PermitInv

(* Any other step of a call: the permit is granted again only behind the   *)
(* barrier, when nobody is launching and the generation has no launch.     *)
LEMMA OthersKeepPermits ==
    ASSUME TypeOK, TypeOK', SkeletonInv, PermitsInv,
           NEW o \in Ops, Alone(o), Permits(o), launched' = launched
    PROVE  PermitsInv'
  <1> USE DEF PermitsInv
  <1>1. /\ launched \in Nat /\ 1..launched \subseteq Launches
        /\ generation \in Nat /\ generation' \in Nat /\ generation <= generation'
        /\ \A l \in 1..launched : launch'[l].gen = launch[l].gen /\ launch[l].gen \in Nat
        /\ \A l \in Launches : launch'[l].r_init = launch[l].r_init
    <2>1. launched \in Nat /\ 1..launched \subseteq Launches BY LaunchedRange
    <2>2. \A l \in Launches : launch[l].gen \in Nat
      BY DEF TypeOK, ProcessTypes, LaunchRecord, Generations
    <2> QED BY <2>1, <2>2 DEF Permits, Alone, TypeOK, LifecycleTypes, Generations
  <1>2. \A l \in 1..launched : launch[l].gen <= generation BY DEF PermitInv
  <1>3. LaunchedBefore(generation) => LaunchedBefore(generation)'
    BY <1>1 DEF LaunchedBefore
  <1>4. generation' = generation + 1 => LaunchedBefore(generation)'
    BY <1>1, <1>2 DEF LaunchedBefore
  <1>5. HasStartup /\ startup_permitted' => LaunchedBefore(generation)
    BY DEF Permits, PermitInv, BeforeLaunch
  <1>6. ASSUME NEW q \in Ops, state' = "Restarting", op'[q].pc \in BeforeLaunch
        PROVE  LaunchedBefore(generation)'
    <2>1. CASE generation' = generation + 1 BY <1>4, <2>1
    <2>2. CASE generation' # generation + 1
      <3>1. state = "Restarting" BY <1>6, <2>2 DEF Permits
      <3>2. op[q].pc \in BeforeLaunch BY <1>6, <2>2 DEF Permits, Alone, Same
      <3> QED BY <1>3, <3>1, <3>2 DEF PermitInv
    <2> QED BY <2>1, <2>2
  <1>7. ASSUME NEW q \in Ops, HasStartup, startup_permitted', op'[q].pc \in Launching
        PROVE  \A l \in 1..launched : launch[l].gen # op'[q].gen
    <2>1. CASE q = o /\ op[o].pc \notin Launching
      <3>1. op'[o].gen = generation BY <1>7, <2>1 DEF Permits, Current
      <3> QED BY <1>1, <1>5, <1>7, <2>1, <3>1 DEF LaunchedBefore
    <2>2. CASE op[q].pc \in Launching /\ startup_permitted
      <3>1. op'[q].gen = op[q].gen BY <1>7 DEF Permits, Alone, Same
      <3> QED BY <1>7, <2>2, <3>1 DEF PermitInv
    <2>3. CASE op[q].pc \in Launching /\ ~startup_permitted
      <3>1. op[o].pc = "settle" /\ worker_lock = NoOp BY <1>7, <2>3 DEF Permits
      <3>2. worker_lock = q
        BY <2>3 DEF SkeletonInv, Skeleton, OwnsWorker, Owning, Starting
      <3> QED BY <3>1, <3>2, ConstantsAssumption
    <2>4. q # o => op[q].pc \in Launching BY <1>7 DEF Alone, Same
    <2> QED BY <2>1, <2>2, <2>3, <2>4
  <1>8. PermitInv'
    <2>1. \A l \in Launches : l > launched' => launch'[l].r_init = "No"
      BY <1>1 DEF PermitInv
    <2>2. \A l \in 1..launched' : launch'[l].gen <= generation' BY <1>1, <1>2
    <2>3. \A l \in 1..launched' : launch'[l].r_init = "Begun" => ~r_permitted'[launch'[l].gen]
      BY <1>1 DEF PermitInv, Permits
    <2>4. \A q \in Ops : HasStartup /\ startup_permitted' /\ op'[q].pc \in Launching =>
             \A l \in 1..launched' : launch'[l].gen # op'[q].gen
      BY <1>1, <1>7
    <2> QED BY <1>3, <1>5, <1>6, <2>1, <2>2, <2>3, <2>4 DEF PermitInv
  <1>9. InitializesOnce' BY <1>1 DEF InitializesOnce
  <1> QED BY <1>8, <1>9

(* A worker's own steps: only the last launch lives, and initializes R.    *)
LEMMA WorkersKeepPermits ==
    ASSUME TypeOK, TypeOK', LaunchInv, PermitsInv, NEW l \in Launches, WorkerStep(l)
    PROVE  PermitsInv'
  <1> USE DEF PermitsInv
  <1>1. l = launched /\ launched \in Nat /\ 1..launched \subseteq Launches
    <2>1. launch[l].live
      BY DEF WorkerStep, LaunchReady, LaunchFails, RInitBegins, RInitCompletes, LaunchEvent
    <2>2. launched \in Nat /\ 1..launched \subseteq Launches BY LaunchedRange
    <2> QED BY <2>1, <2>2 DEF LaunchInv, Unlaunched, Earlier, Cleared, Launches
  <1>2. UNCHANGED <<state, generation, startup_permitted, launched, op>>
    BY DEF WorkerStep, LaunchReady, LaunchFails, RInitBegins, RInitCompletes, LaunchEvent,
       lifecycle
  <1>3. /\ \A m \in Launches : launch'[m].gen = launch[m].gen
        /\ \A m \in Launches \ {l} : launch'[m].r_init = launch[m].r_init
        /\ r_permitted \in [Generations -> BOOLEAN] /\ launch[l].gen \in Generations
    BY DEF WorkerStep, LaunchReady, LaunchFails, RInitBegins, RInitCompletes, TypeOK,
       ProcessTypes, StartupTypes, LaunchRecord
  <1>4. \/ launch'[l].r_init = launch[l].r_init /\ r_permitted' = r_permitted
        \/ launch'[l].r_init = "Begun" /\ r_permitted' = [r_permitted EXCEPT ![launch[l].gen] = FALSE]
        \/ launch'[l].r_init = "Complete" /\ r_permitted' = [r_permitted EXCEPT ![launch[l].gen] = TRUE]
    BY DEF WorkerStep, LaunchReady, LaunchFails, RInitBegins, RInitCompletes, TypeOK,
       ProcessTypes, LaunchRecord
  <1>5. ASSUME NEW m \in 1..launched, launch'[m].r_init = "Begun"
        PROVE  ~r_permitted'[launch'[m].gen]
    <2>1. m \in Launches /\ launch[m].gen \in Generations
      BY <1>1 DEF TypeOK, ProcessTypes, LaunchRecord
    <2>2. CASE m = l BY <1>3, <1>4, <1>5, <2>1, <2>2 DEF PermitInv
    <2>3. CASE m # l
      <3>1. m < launched /\ launched \in 1..launched BY <1>1, <2>3
      <3>2. launch[m].r_init = "Begun" BY <1>3, <1>5, <2>1, <2>3
      <3>3. launch[m].gen # launch[launched].gen BY <3>1, <3>2 DEF InitializesOnce
      <3>4. ~r_permitted[launch[m].gen] BY <3>2 DEF PermitInv
      <3> QED BY <1>1, <1>3, <1>4, <2>1, <3>3, <3>4
    <2> QED BY <2>2, <2>3
  <1>6. PermitInv'
    <2>1. \A m \in Launches : m > launched' => launch'[m].r_init = "No"
      BY <1>1, <1>2, <1>3 DEF PermitInv, Launches
    <2>2. \A m \in 1..launched : launch'[m].gen = launch[m].gen BY <1>1, <1>3
    <2> QED BY <1>2, <1>5, <2>1, <2>2 DEF PermitInv, LaunchedBefore
  <1>7. InitializesOnce'
    <2>1. \A m, k \in 1..launched : m < k => m # l /\ m \in Launches /\ k \in Launches
      BY <1>1 DEF Launches
    <2> QED BY <1>2, <1>3, <2>1 DEF InitializesOnce
  <1> QED BY <1>6, <1>7

LEMMA PermitsStep ==
    ASSUME TypeOK, TypeOK', SkeletonInv, CallsInv, LaunchInv, PermitsInv, [Next]_vars
    PROVE  PermitsInv'
  <1>1. ASSUME NEW o \in Ops, Acts(o) PROVE PermitsInv'
    <2>1. Skeleton(o) /\ Alone(o) BY <1>1, CallSkeleton DEF SkeletonInv
    <2>2. Permits(o) BY <1>1, <2>1, StepPermits
    <2>3. launched' = launched \/ Launched(o) BY <2>2 DEF Permits
    <2> QED BY <2>1, <2>2, <2>3, LaunchedKeepsPermits, OthersKeepPermits
  <1>2. ASSUME NEW l \in Launches, WorkerStep(l) PROVE PermitsInv'
    BY <1>2, WorkersKeepPermits
  <1>3. CASE Reap \/ UNCHANGED vars
    <2>1. UNCHANGED <<state, generation, startup_permitted, r_permitted, launch, launched, op>>
      BY <1>3 DEF Reap, lifecycle, startup, process, vars
    <2> QED BY <2>1 DEF PermitsInv, PermitInv, InitializesOnce, LaunchedBefore
  <1> QED BY <1>1, <1>2, <1>3 DEF Next, Terminated, Acts

(* The strengthening of InitializesOnce: who may still launch, and what    *)
(* the permits say of the launches there are.                              *)
THEOREM PermitsHold == Spec => []PermitsInv
  <1>1. LaunchesInv /\ LaunchesInv' /\ PermitsInv /\ [Next]_vars => PermitsInv'
    BY PermitsStep DEF LaunchesInv
  <1> QED BY <1>1, PermitsInit, LaunchesHold, PTL DEF Spec

(* Startup code with external effects is not repeated: a generation has    *)
(* one launch that runs it, and none after a cut R initialization.         *)
THEOREM StartsOnce == Spec => []InitializesOnce
  <1>1. PermitsInv => InitializesOnce BY DEF PermitsInv
  <1> QED BY <1>1, PermitsHold, PTL

(***************************************************************************)
(* The failure of a prelaunch is reported.                                 *)
(***************************************************************************)
LEMMA ReportInit == ASSUME Init PROVE ReportInv
  BY DEF Init, ReportInv, Prelaunching, PastStartup, Starting, Launching, Holding, Registered

(* A call moves past startup only when it is done and its failure was      *)
(* taken; a prelaunch fails before.                                        *)
LEMMA ReportKept ==
    ASSUME TypeOK, TypeOK', SkeletonInv, ReportInv, NEW o \in Ops, Alone(o), Reports(o)
    PROVE  ReportInv'
  <1> USE DEF ReportInv
  <1>1. /\ generation \in Nat /\ generation' \in Nat /\ generation <= generation'
        /\ \A q \in Ops : op[q].gen \in Nat /\ op'[q].gen \in Nat /\ op[q].gen <= generation
    BY DEF TypeOK, LifecycleTypes, OpTypes, OpRecord, Generations, Alone, SkeletonInv, Skeleton
  <1>2. \A q \in Ops \ {o} : Same(q) BY DEF Alone
  <1>3. \A q \in Ops \ {o} : /\ Prelaunching(q)' = Prelaunching(q)
                            /\ PastStartup(q)' = PastStartup(q)
    BY <1>2 DEF Same, Prelaunching, PastStartup
  <1>4. \A q \in Ops : q \in Prelaunchers => op'[q].gen = 0 BY <1>2 DEF Reports, Same
  <1>5. \A q \in Ops : Prelaunching(q)' => q \in Prelaunchers BY <1>3 DEF Reports
  <1>6. \A q \in Ops : op'[q].mode = "Restart" => op'[q].gen > 0
    BY <1>1, <1>2 DEF Reports, Same
  <1>7. startup_failed' => startup_failed \/ ~startup_done
    <2> SUFFICES ASSUME op[o].pc = "launch_failed", ensure_generation(o) PROVE ~startup_done
      BY DEF Reports
    <2>1. o \in Prelaunchers /\ generation = 0
      BY DEF Prelaunching, ensure_generation, Current
    <2> QED BY <2>1
  <1>8. startup_failed' /\ ~startup_failed => ~PastStartup(o)
    BY DEF Reports, PastStartup, Starting, Launching, Holding, Registered
  <1>9. ASSUME NEW q \in Ops, ~startup_done' \/ (startup_failed' /\ op'[q].gen = generation'),
               PastStartup(q)'
        PROVE  FALSE
    <2>1. op'[q].gen = op[q].gen BY <1>2, <1>9 DEF Same, Reports
    <2>2. op'[q].gen = generation' => op[q].gen = generation
      <3>1. op[q].gen \in Nat /\ op[q].gen <= generation BY <1>1
      <3> QED BY <1>1, <2>1, <3>1
    <2>3. ~startup_done' => ~startup_done BY DEF Reports
    <2>4. PastStartup(q) \/ (q = o /\ startup_done /\ ~startup_failed') BY <1>3, <1>9 DEF Reports
    <2>5. PastStartup(q) BY <1>9, <2>3, <2>4
    <2>6. startup_done /\ ~(startup_failed /\ Current(q)) BY <2>5
    <2> QED BY <1>7, <1>9, <2>2, <2>3, <2>6 DEF Current
  <1>10. ASSUME NEW q \in Prelaunchers, generation' = 0, startup_done'
         PROVE  op'[q].pc \in {"finish_startup", "done"}
    <2>1. generation = 0 /\ q \in Ops BY <1>1, <1>10 DEF Ops
    <2>2. CASE startup_done BY <1>2, <2>1, <2>2 DEF Same, Reports
    <2>3. CASE ~startup_done
      <3>1. op[o].pc # "restarted"
        BY <1>1, <2>1 DEF SkeletonInv, Skeleton, ModeFits, Restarts
      <3>2. op[o].pc = "finish_startup" /\ op'[o].pc = "done"
        BY <1>10, <2>3, <3>1 DEF Reports
      <3>3. o \in Prelaunchers BY <3>2 DEF Prelaunching
      <3> QED BY <3>2, <3>3, ConstantsAssumption
    <2> QED BY <2>2, <2>3
  <1> QED BY <1>4, <1>5, <1>6, <1>9, <1>10 DEF Current

LEMMA ReportStep ==
    ASSUME TypeOK, TypeOK', SkeletonInv, ReportInv, [Next]_vars
    PROVE  ReportInv'
  <1>1. ASSUME NEW o \in Ops, Acts(o) PROVE ReportInv'
    <2>1. Skeleton(o) /\ Alone(o) BY <1>1, CallSkeleton DEF SkeletonInv
    <2>2. Reports(o) BY <1>1, <2>1, StepReports
    <2> QED BY <2>1, <2>2, ReportKept
  <1>2. ASSUME \A o \in Ops : ~Acts(o) PROVE ReportInv'
    <2>1. UNCHANGED <<op, generation>> BY <1>2, SilentSame DEF SameWorker
    <2>2. UNCHANGED <<startup_failed, startup_done>>
      BY <1>2 DEF Next, Terminated, Acts, Reap, startup, vars, WorkerStep, LaunchReady,
         LaunchFails, RInitBegins, RInitCompletes, LaunchEvent
    <2> QED BY <2>1, <2>2 DEF ReportInv, Current, Prelaunching, PastStartup
  <1> QED BY <1>1, <1>2

(* The strengthening of FailureReportedFirst: no cell is past startup      *)
(* while the prelaunch runs, or while its failure is kept.                 *)
THEOREM ReportsHold == Spec => []ReportInv
  <1>1. LaunchesInv /\ LaunchesInv' /\ ReportInv /\ [Next]_vars => ReportInv'
    BY ReportStep DEF LaunchesInv
  <1> QED BY <1>1, ReportInit, LaunchesHold, PTL DEF Spec

(* A cell of the session's generation runs only after the failure of its   *)
(* prelaunch was reported.                                                 *)
THEOREM FailuresReported == Spec => []FailureReportedFirst
  <1>1. ReportInv => FailureReportedFirst
    BY DEF ReportInv, FailureReportedFirst, PastStartup, Evaluators, Ops
  <1> QED BY <1>1, ReportsHold, PTL

==============================================================================
