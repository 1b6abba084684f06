------------------------------ MODULE Deliveries ------------------------------
(***************************************************************************)
(* The transport's response deliveries of one connection: reservation of   *)
(* send requests in receipt order, admission of their handlers behind the  *)
(* responses that are still being delivered, the acknowledgment each       *)
(* response registers, cancellation, and the close that follows the end of *)
(* input.  One action is what happens under one lock of the shared state,  *)
(* with the acknowledgments it takes out settled in the same step.         *)
(*                                                                         *)
(* The service library between transport and handlers is external: it      *)
(* keeps the live request of each ID (pool), forwards the response of a    *)
(* request it still knows, and drops the others.                           *)
(***************************************************************************)
EXTENDS Naturals, FiniteSets

CONSTANTS MaxCalls, \* bound on the send requests of a connection
          Ids,      \* JSON-RPC request IDs
          IdOf,     \* the ID of each request
          MaxGated  \* MAX_RESPONSE_GATED_CALLS

Calls == 1..MaxCalls \* a call is its admission token
NoCall == 0

ASSUME ConstantsAssumption ==
    /\ MaxCalls \in Nat
    /\ IdOf \in [Calls -> Ids]
    /\ MaxGated \in Nat \ {0}

VARIABLES
    active,        \* admitted call of each ID
    pending,       \* reserved call of each ID
    pending_writes,\* response writes that have not settled
    tail,          \* admission_tail
    input_drained,
    closed_by,     \* closed: "No", because all "Settled", or "Early"
    node,          \* admission node of each call, "None" when it is not queued
    pred,          \* predecessor of each node
    call,          \* ResponseDeliveryCallState, its admission being node = "Admitted"
    pc,            \* where the request of each call is
    pool,          \* external: the request the service knows by each ID
    behind,        \* history: the calls waiting when a call was received
    shutdown,      \* settle_before_close
    reading        \* external: the client reads its responses

gate == <<active, pending, tail, node, pred>>
rest == <<behind, reading>>
vars == <<gate, pending_writes, input_drained, closed_by, call, pc, pool, rest, shutdown>>

Labels == {"new", "queued", "gate", "running", "answered", "writing", "visible", "failed",
           "settling", "over"}
Nodes == {"None", "Waiting", "Admitted", "Finished", "Skipped"}
Acknowledgments == {"None", "Registered", "Delivered", "Returned"}
CallStates == [live : BOOLEAN, finished : BOOLEAN, delivery : Acknowledgments]
Maybe == Calls \cup {NoCall}

(* Domains of the state, and the counter of pending writes that            *)
(* settle_write asserts to be positive.                                    *)
TypeOK ==
    /\ active \in [Ids -> Maybe] /\ pending \in [Ids -> Maybe] /\ pool \in [Ids -> Maybe]
    /\ tail \in Maybe /\ pred \in [Calls -> Maybe]
    /\ node \in [Calls -> Nodes] /\ behind \in [Calls -> SUBSET Calls]
    /\ call \in [Calls -> CallStates]
    /\ pc \in [Calls -> Labels]
    /\ input_drained \in BOOLEAN /\ reading \in BOOLEAN
    /\ closed_by \in {"No", "Settled", "Early"}
    /\ shutdown \in {"serving", "settling", "closing", "ended"}
    /\ pending_writes = Cardinality({c \in Calls :
                            pc[c] \in {"writing", "visible", "failed", "settling"}})

Init ==
    /\ active = [i \in Ids |-> NoCall]
    /\ pending = [i \in Ids |-> NoCall]
    /\ pool = [i \in Ids |-> NoCall]
    /\ tail = NoCall
    /\ pred = [c \in Calls |-> NoCall]
    /\ node = [c \in Calls |-> "None"]
    /\ behind = [c \in Calls |-> {}]
    /\ call = [c \in Calls |-> [live |-> FALSE, finished |-> FALSE, delivery |-> "None"]]
    /\ pc = [c \in Calls |-> "new"]
    /\ pending_writes = 0
    /\ input_drained = FALSE
    /\ reading = TRUE
    /\ closed_by = "No"
    /\ shutdown = "serving"

closed == closed_by # "No"
At(c, label) == pc[c] = label
Goto(c, label) == pc' = [pc EXCEPT ![c] = label]
OwnsPending(c) == pending[IdOf[c]] = c
IsActive(c) == active[IdOf[c]] = c

-----------------------------------------------------------------------------
(* Admission nodes.                                                        *)

(* The last waiting node of a chain; an admitted one is not restored.      *)
LastWaiting(nodes, n) ==
    LET last[m \in Maybe] ==
            IF m = NoCall \/ nodes[m] \in {"Admitted", "Finished"} THEN NoCall
            ELSE IF nodes[m] = "Skipped" THEN last[pred[m]] ELSE m
    IN last[n]

(* Whether the node, or the first one not skipped before it, has finished. *)
SettledNode(n) ==
    LET settled[m \in Maybe] ==
            IF m = NoCall THEN TRUE
            ELSE IF node[m] = "Skipped" THEN settled[pred[m]] ELSE node[m] = "Finished"
    IN settled[n]

(* Live nodes: held by a waiting or admitted call, by the tail, or by a    *)
(* live successor that still keeps its predecessor.                        *)
admission_count ==
    LET held[n \in Calls] ==
            \/ node[n] \in {"Waiting", "Admitted"}
            \/ tail = n
            \/ \E m \in Calls : pred[m] = n /\ held[m]
    IN Cardinality({n \in Calls : held[n]})

(* What an admitted call's end does to its node.                           *)
FinishAdmission(nodes, S) ==
    [c \in Calls |-> IF c \in S /\ nodes[c] = "Admitted" THEN "Finished" ELSE nodes[c]]

PruneTail == tail' = LastWaiting(node', tail)

-----------------------------------------------------------------------------
(* Call states.                                                            *)

BlocksAdmissions(c) ==
    \/ call[c].finished
    \/ call[c].delivery = "Registered"
    \/ node[c] = "Admitted" /\ ~call[c].live

Settle(delivery, outcome) == IF delivery = "Registered" THEN outcome ELSE delivery

Cancelled(r) == [r EXCEPT !.live = FALSE, !.delivery = Settle(@, "Returned")]
Abandoned(r) == [Cancelled(r) EXCEPT !.finished = TRUE]
Written(r, outcome) == [r EXCEPT !.live = FALSE, !.delivery = Settle(@, outcome)]

ActiveCalls == {active[i] : i \in Ids} \ {NoCall}
ResponseGateActive == pending_writes > 0 \/ \E c \in ActiveCalls : BlocksAdmissions(c)

Close(reason) ==
    /\ ~closed
    /\ closed_by' = reason
    /\ call' = [c \in Calls |-> IF c \in ActiveCalls THEN Abandoned(call[c]) ELSE call[c]]
    /\ node' = FinishAdmission(node, ActiveCalls)
    /\ active' = [i \in Ids |-> NoCall]
    /\ pending' = [i \in Ids |-> NoCall]
    /\ tail' = NoCall
    /\ UNCHANGED <<pending_writes, input_drained, pred, pool, rest>>

-----------------------------------------------------------------------------
(* Receipt.                                                                *)

(* A client uses an ID again only once it saw the earlier response.        *)
IdIsFree(c) ==
    \A b \in Calls \ {c} :
        IdOf[b] = IdOf[c] => pc[b] \in {"new", "visible", "settling", "over"}

(* reserve: a call is queued behind the last waiting one while a response  *)
(* is being delivered; the queue's bound closes the connection.            *)
Receive(c) ==
    /\ At(c, "new")
    /\ \A b \in Calls : b < c => pc[b] # "new"
    /\ ~closed /\ ~input_drained
    /\ IdIsFree(c)
    /\ LET last == LastWaiting(node, tail)
           queued == ResponseGateActive \/ last # NoCall
       IN IF queued /\ admission_count >= MaxGated
          THEN Close("Early") /\ UNCHANGED <<pc, shutdown>>
          ELSE /\ node' = [node EXCEPT ![c] = IF queued THEN "Waiting" ELSE "None"]
               /\ pred' = [pred EXCEPT ![c] = IF queued THEN last ELSE NoCall]
               /\ tail' = IF queued THEN c ELSE last
               /\ pending' = [pending EXCEPT ![IdOf[c]] = c]
               /\ pool' = [pool EXCEPT ![IdOf[c]] = c]
               /\ behind' = [behind EXCEPT ![c] = {b \in Calls : node[b] = "Waiting"}]
               /\ Goto(c, IF queued THEN "queued" ELSE "gate")
               /\ UNCHANGED <<active, pending_writes, input_drained, closed_by, call,
                              shutdown, reading>>

CancelsPendingUnlessActive(i) == pending[i] # NoCall /\ active[i] = NoCall
CancelsPending(i) == pending[i] # NoCall
AlwaysRemoves(c) == TRUE
CancelRemoves(c) == call[c].finished

(* A cancelled notification: a pending reuse of the ID is newer than an    *)
(* active call; an active call leaves once its operation has finished.     *)
Cancel(i) ==
    /\ ~closed /\ ~input_drained
    /\ pool[i] # NoCall \/ active[i] # NoCall
    /\ pool' = [pool EXCEPT ![i] = NoCall]
    /\ LET c == IF CancelsPending(i) THEN NoCall ELSE active[i]
           removed == IF c # NoCall /\ CancelRemoves(c) THEN {c} ELSE {}
       IN /\ pending' = IF CancelsPending(i) THEN [pending EXCEPT ![i] = NoCall] ELSE pending
          /\ call' = IF c # NoCall THEN [call EXCEPT ![c] = Cancelled(@)] ELSE call
          /\ node' = FinishAdmission(node, removed)
          /\ active' = IF removed # {} THEN [active EXCEPT ![i] = NoCall] ELSE active
    /\ PruneTail
    /\ UNCHANGED <<pred, pending_writes, input_drained, closed_by, pc, rest, shutdown>>

(* The transport has framed every buffered request after end of input.     *)
InputDrained ==
    /\ ~closed /\ ~input_drained
    /\ input_drained' = TRUE
    /\ UNCHANGED <<gate, pending_writes, closed_by, call, pc, pool, rest, shutdown>>

-----------------------------------------------------------------------------
(* A handler waits for its admission.                                      *)

PredecessorSettled(c) ==
    /\ At(c, "queued")
    /\ SettledNode(pred[c])
    /\ pred' = [pred EXCEPT ![c] = NoCall]
    /\ Goto(c, "gate")
    /\ UNCHANGED <<active, pending, tail, node, pending_writes, input_drained, closed_by,
                   call, pool, rest, shutdown>>

(* The call registers; a call still registered by its ID is abandoned.     *)
Admit(c) ==
    /\ At(c, "gate")
    /\ ~closed
    /\ OwnsPending(c)
    /\ node[c] = "None" \/ ~ResponseGateActive
    /\ LET replaced == {active[IdOf[c]]} \ {NoCall}
       IN /\ node' = [FinishAdmission(node, replaced) EXCEPT
                        ![c] = IF @ = "Waiting" THEN "Admitted" ELSE @]
          /\ call' = [b \in Calls |->
                        IF b = c THEN [call[c] EXCEPT !.live = TRUE]
                        ELSE IF b \in replaced THEN Abandoned(call[b]) ELSE call[b]]
    /\ pending' = [pending EXCEPT ![IdOf[c]] = NoCall]
    /\ active' = [active EXCEPT ![IdOf[c]] = c]
    /\ PruneTail
    /\ Goto(c, "running")
    /\ UNCHANGED <<pred, pending_writes, input_drained, closed_by, pool, rest, shutdown>>

KeepNode(c) == node
SkipNode(c) == [node EXCEPT ![c] = IF @ = "Waiting" THEN "Skipped" ELSE @]

(* Cancelled or closed, the handler drops its admission.                   *)
DropAdmission(c) ==
    /\ pc[c] \in {"queued", "gate"}
    /\ closed \/ ~OwnsPending(c) \/ pool[IdOf[c]] # c
    /\ node' = SkipNode(c)
    /\ pending' = IF OwnsPending(c) THEN [pending EXCEPT ![IdOf[c]] = NoCall] ELSE pending
    /\ PruneTail
    /\ Goto(c, "over")
    /\ UNCHANGED <<active, pred, pending_writes, input_drained, closed_by, call, pool, rest,
                   shutdown>>

-----------------------------------------------------------------------------
(* The operation of an admitted call, and its response.                    *)

AnyRegisters(c) == TRUE
Registers(c) == IsActive(c) /\ call[c].live

(* A response that claims output registers its acknowledgment; that of a   *)
(* cancelled or closed call is returned at once.                           *)
Register(c) ==
    /\ At(c, "running")
    /\ call[c].delivery = "None"
    /\ call' = [call EXCEPT ![c].delivery = IF Registers(c) THEN "Registered" ELSE "Returned"]
    /\ UNCHANGED <<gate, pending_writes, input_drained, closed_by, pc, pool, rest, shutdown>>

(* finish_operation of a call that is no longer registered does nothing.   *)
FinishOperation(c, completed) ==
    LET leaves == IsActive(c) /\ (~completed \/ ~call[c].live)
    IN /\ call' = IF leaves THEN [call EXCEPT ![c] = Abandoned(@)]
                  ELSE IF IsActive(c) THEN [call EXCEPT ![c].finished = TRUE] ELSE call
       /\ node' = FinishAdmission(node, IF leaves THEN {c} ELSE {})
       /\ active' = IF leaves THEN [active EXCEPT ![IdOf[c]] = NoCall] ELSE active
       /\ IF IsActive(c) THEN PruneTail ELSE UNCHANGED tail

CompleteOperation(c) ==
    /\ At(c, "running")
    /\ FinishOperation(c, TRUE)
    /\ Goto(c, "answered")
    /\ UNCHANGED <<pending, pred, pending_writes, input_drained, closed_by, pool, rest,
                   shutdown>>

(* The service drops a handler that fails.                                 *)
DropOperation(c) ==
    /\ At(c, "running")
    /\ FinishOperation(c, FALSE)
    /\ Goto(c, "over")
    /\ pool' = [pool EXCEPT ![IdOf[c]] = IF @ = c THEN NoCall ELSE @]
    /\ UNCHANGED <<pending, pred, pending_writes, input_drained, closed_by, rest, shutdown>>

(* The service forwards a response it still knows, and the transport       *)
(* writes it when its call is still registered.                            *)
Send(c) ==
    /\ At(c, "answered")
    /\ pool' = [pool EXCEPT ![IdOf[c]] = IF @ = c THEN NoCall ELSE @]
    /\ IF pool[IdOf[c]] = c /\ IsActive(c)
       THEN Goto(c, "writing") /\ pending_writes' = pending_writes + 1
       ELSE Goto(c, "over") /\ UNCHANGED pending_writes
    /\ UNCHANGED <<gate, input_drained, closed_by, call, rest, shutdown>>

(* It matters only to a write in progress.                                 *)
StopReading ==
    /\ reading
    /\ \E c \in Calls : At(c, "writing")
    /\ reading' = FALSE
    /\ UNCHANGED <<gate, pending_writes, input_drained, closed_by, call, pc, pool, behind,
                   shutdown>>

(* The client has the whole response before the write settles.             *)
WriteSucceeds(c) ==
    /\ At(c, "writing")
    /\ reading
    /\ Goto(c, "visible")
    /\ UNCHANGED <<gate, pending_writes, input_drained, closed_by, call, pool, rest, shutdown>>

WriteFails(c) ==
    /\ At(c, "writing")
    /\ Goto(c, "failed")
    /\ UNCHANGED <<gate, pending_writes, input_drained, closed_by, call, pool, rest, shutdown>>

NeverAbandoned(c) == FALSE
Abandonable(c) == closed

(* A close wakes the blocked writes, and they fail.                        *)
AbandonWrite(c) ==
    /\ Abandonable(c)
    /\ WriteFails(c)

(* take_write_delivery, and the settlement of what it took.                *)
TakeWriteDelivery(c) ==
    /\ pc[c] \in {"visible", "failed"}
    /\ IF IsActive(c)
       THEN /\ active' = [active EXCEPT ![IdOf[c]] = NoCall]
            /\ node' = FinishAdmission(node, {c})
            /\ call' = [call EXCEPT ![c] =
                          Written(@, IF At(c, "visible") THEN "Delivered" ELSE "Returned")]
            /\ PruneTail
       ELSE UNCHANGED <<active, node, call, tail>>
    /\ Goto(c, "settling")
    /\ UNCHANGED <<pending, pred, pending_writes, input_drained, closed_by, pool, rest,
                   shutdown>>

WriteStaysPending == UNCHANGED pending_writes
WriteSettles == pending_writes' = pending_writes - 1

SettleWrite(c) ==
    /\ At(c, "settling")
    /\ WriteSettles
    /\ Goto(c, "over")
    /\ UNCHANGED <<gate, input_drained, closed_by, call, pool, rest, shutdown>>

-----------------------------------------------------------------------------
(* Shutdown: settle_before_close, once the workers are retired.            *)

StartSettling ==
    /\ shutdown = "serving"
    /\ shutdown' = "settling"
    /\ UNCHANGED <<gate, pending_writes, input_drained, closed_by, call, pc, pool, rest>>

NoneActive == \A i \in Ids : active[i] = NoCall
NonePending == \A i \in Ids : pending[i] = NoCall
SettledWithoutPending == input_drained /\ NoneActive /\ pending_writes = 0
Settled == input_drained /\ NoneActive /\ NonePending /\ pending_writes = 0

(* The wait ends when everything received has settled, at its deadline, or *)
(* because the connection is closed.                                       *)
SettleBeforeClose ==
    /\ shutdown = "settling"
    /\ shutdown' = "closing"
    /\ UNCHANGED pc
    /\ IF closed
       THEN UNCHANGED <<gate, pending_writes, input_drained, closed_by, call, pool, rest>>
       ELSE \/ Settled /\ Close("Settled")
            \/ Close("Early")

(* The writes that the close woke have settled; recording can be finished. *)
ShutdownEnds ==
    /\ shutdown = "closing"
    /\ pending_writes = 0
    /\ shutdown' = "ended"
    /\ UNCHANGED <<gate, pending_writes, input_drained, closed_by, call, pc, pool, rest>>

(* The service, done with its input, closes the transport.                 *)
CloseTransport ==
    /\ input_drained
    /\ Close("Early")
    /\ UNCHANGED <<pc, shutdown>>

-----------------------------------------------------------------------------
Handler(c) ==
    \/ PredecessorSettled(c) \/ Admit(c) \/ DropAdmission(c)
    \/ CompleteOperation(c)
Transport(c) ==
    \/ Send(c) \/ AbandonWrite(c) \/ TakeWriteDelivery(c) \/ SettleWrite(c)

Next ==
    \/ \E c \in Calls :
          \/ Receive(c) \/ PredecessorSettled(c) \/ Admit(c) \/ DropAdmission(c)
          \/ Register(c) \/ CompleteOperation(c) \/ DropOperation(c)
          \/ Send(c) \/ WriteSucceeds(c) \/ WriteFails(c) \/ AbandonWrite(c)
          \/ TakeWriteDelivery(c) \/ SettleWrite(c)
    \/ \E i \in Ids : Cancel(i)
    \/ StopReading \/ InputDrained \/ StartSettling \/ SettleBeforeClose \/ ShutdownEnds \/ CloseTransport

(* Every handler runs, its operation ending at its deadlines; the service  *)
(* forwards responses; writes that a close woke are polled; the shutdown   *)
(* task runs.  A write ends while the client reads; it may block until a   *)
(* close once the client has stopped.                                      *)
Spec ==
    /\ Init /\ [][Next]_vars
    /\ \A c \in Calls : WF_vars(Handler(c)) /\ WF_vars(Transport(c)) /\ WF_vars(WriteSucceeds(c))
    /\ WF_vars(SettleBeforeClose) /\ WF_vars(ShutdownEnds)
-----------------------------------------------------------------------------
(* What the deliveries promise.                                            *)

status == [c \in Calls |->
             CASE pc[c] = "new" -> "New"
               [] pc[c] \in {"queued", "gate"} -> "Waiting"
               [] pc[c] = "running" -> "Running"
               [] pc[c] \in {"answered", "writing", "visible", "failed"} /\ IsActive(c) -> "Answered"
               [] OTHER -> "Over"]
receipt == [c \in Calls |-> IF call[c].delivery = "Registered" THEN "Owed"
                            ELSE call[c].delivery]

Contract == INSTANCE DeliveryContract

(* A call that was received while another waited starts only when that one *)
(* is over, even when it was cancelled while it ran; and whatever happens  *)
(* to a response, the acknowledgment it registered is settled once, as     *)
(* delivered only after a successful write, before its call is over.       *)
KeepsContract == Contract!Spec

(* A request that the client cancelled before its admission never runs,    *)
(* also when an earlier response to the same ID is still being written.    *)
CancelledNeverStarts ==
    [][\A c \in Calls : pc[c] \in {"queued", "gate"} /\ pool[IdOf[c]] # c =>
          pc'[c] # "running"]_vars

(* A close before the deadline leaves nothing unanswered: each request     *)
(* received before the end of input was answered or cancelled.             *)
SettledMeansAnswered ==
    closed_by = "Settled" => \A c \in Calls :
        \/ pc[c] \in {"new", "over"}
        \/ pc[c] \in {"queued", "gate", "answered"} /\ pool[IdOf[c]] # c

(* While the client reads its responses, no call waits forever for its     *)
(* admission: the gate opens, and a cancelled call does not hold the rest. *)
WaitingEnds ==
    \A c \in Calls :
        pc[c] \in {"queued", "gate"} ~> pc[c] \notin {"queued", "gate"} \/ ~reading

(* Shutdown ends even if the client stopped reading its output.            *)
SettlingEnds == shutdown = "settling" ~> shutdown = "ended"
===============================================================================
