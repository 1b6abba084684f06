---------------------------- MODULE DeliveryProofs ----------------------------
(***************************************************************************)
(* For every number of requests, every use of request IDs and every queue  *)
(* bound: a cancelled request never starts, a close that its deadline did  *)
(* not force leaves no received request unanswered, and the transport      *)
(* implements DeliveryContract.                                            *)
(*                                                                         *)
(* The argument rests on who owns an ID: at most one busy request carries  *)
(* it, a waiting one that the service knows is the pending one and the     *)
(* only pending one, and a running or answered one is the active one.      *)
(* The refinement needs the queue's chain too: until a call is admitted,   *)
(* what it was received behind is over or covered by its predecessor, a    *)
(* fact about walks along the chain, by induction over its calls.          *)
(***************************************************************************)
EXTENDS Deliveries, FiniteSetTheorems, WellFoundedInduction, TLAPS

Waiting == {"queued", "gate"}
Busy == {"queued", "gate", "running", "answered", "writing", "failed"}
Writing == {"writing", "visible", "failed", "settling"}
Writers == {c \in Calls : pc[c] \in Writing}

Types ==
    /\ active \in [Ids -> Maybe] /\ pending \in [Ids -> Maybe] /\ pool \in [Ids -> Maybe]
    /\ pc \in [Calls -> Labels]
    /\ call \in [Calls -> CallStates]
    /\ pending_writes \in Int

(* A pending reservation belongs to a request that waits and that the      *)
(* service still knows.                                                    *)
PendingWaits ==
    \A i \in Ids : pending[i] # NoCall =>
        /\ IdOf[pending[i]] = i
        /\ pool[i] = pending[i]
        /\ pc[pending[i]] \in Waiting

WaitingPends ==
    ~closed => \A c \in Calls : pc[c] \in Waiting /\ pool[IdOf[c]] = c => OwnsPending(c)

(* An ID is used again only after its earlier response was visible.        *)
OneBusy ==
    \A b, c \in Calls : IdOf[b] = IdOf[c] /\ pc[b] \in Busy /\ pc[c] \in Busy => b = c

ActiveIds == \A i \in Ids : active[i] # NoCall => IdOf[active[i]] = i

(* A running call stays registered, and its cancellation is known to the   *)
(* service; so does an answered call whose response will be forwarded.     *)
Registered ==
    ~closed => \A c \in Calls :
        /\ pc[c] = "running" =>
              IsActive(c) /\ ~call[c].finished /\ (pool[IdOf[c]] = c => call[c].live)
        /\ pc[c] = "answered" /\ pool[IdOf[c]] = c => IsActive(c)

WritesCounted == pending_writes = Cardinality(Writers)

(* A call that was not admitted has no operation that could have finished. *)
Unadmitted ==
    \A c \in Calls : pc[c] \in {"new", "queued", "gate"} => ~IsActive(c) /\ ~call[c].finished

Ownership ==
    /\ Types /\ PendingWaits /\ WaitingPends /\ OneBusy /\ ActiveIds /\ Registered
    /\ Unadmitted

LEMMA CallsFinite == IsFiniteSet(Calls) /\ NoCall \notin Calls /\ Calls \subseteq Maybe
  BY FS_Interval, ConstantsAssumption DEF Calls, NoCall, Maybe

LEMMA IdsTyped == \A c \in Calls : IdOf[c] \in Ids
  BY ConstantsAssumption

(* The calls' states that cancellation, abandonment and writing produce.   *)
LEMMA CallStatesClosed ==
    ASSUME NEW r \in CallStates, NEW outcome \in {"Delivered", "Returned"}
    PROVE  /\ Cancelled(r) \in CallStates /\ Cancelled(r).finished = r.finished
           /\ Abandoned(r) \in CallStates
           /\ Written(r, outcome) \in CallStates
           /\ [r EXCEPT !.live = TRUE] \in CallStates
           /\ [r EXCEPT !.live = TRUE].live /\ [r EXCEPT !.live = TRUE].finished = r.finished
           /\ [r EXCEPT !.finished = TRUE] \in CallStates
  BY DEF CallStates, Cancelled, Abandoned, Written, Settle, Acknowledgments

(* A close drops every registration and changes no request.                *)
LEMMA CloseKeepsOwnership ==
    ASSUME NEW reason \in {"Settled", "Early"}, Ownership, Close(reason), UNCHANGED pc
    PROVE  Ownership'
  <1>1. Types'
    BY CallStatesClosed, CallsFinite DEF Ownership, Types, Close, Maybe
  <1>2. closed'
    BY DEF Close, closed
  <1>3. PendingWaits' /\ ActiveIds'
    BY DEF Close, PendingWaits, ActiveIds
  <1>4. OneBusy'
    BY DEF Close, OneBusy, Ownership
  <1>5. Unadmitted'
    <2>1. ASSUME NEW c \in Calls, pc[c] \in {"new", "queued", "gate"} PROVE c \notin ActiveCalls
      BY <2>1, CallsFinite DEF Ownership, Unadmitted, ActiveIds, IsActive, ActiveCalls
    <2>2. \A c \in Calls : c \notin ActiveCalls => call'[c] = call[c]
      BY DEF Close
    <2> QED BY <2>1, <2>2, CallsFinite, ConstantsAssumption
            DEF Close, Unadmitted, IsActive, Ownership
  <1> QED BY <1>1, <1>2, <1>3, <1>4, <1>5 DEF Ownership, WaitingPends, Registered

LEMMA OwnershipInit == Init => Ownership
  BY CallsFinite, ConstantsAssumption
     DEF Init, Ownership, Types, PendingWaits, WaitingPends, OneBusy, ActiveIds, Registered, Unadmitted,
         IsActive, Labels, CallStates, Acknowledgments, Maybe, Waiting, Busy, closed

(* A request that ran ends, and takes its registration away.               *)
LEMMA OwnerLeaves ==
    ASSUME Ownership, NEW c \in Calls, NEW r \in CallStates,
           pc[c] \in {"running", "visible", "failed"},
           \E label \in {"settling", "over"} : pc' = [pc EXCEPT ![c] = label],
           \/ pool' = pool
           \/ pool' = [pool EXCEPT ![IdOf[c]] = IF @ = c THEN NoCall ELSE @],
           IF IsActive(c)
           THEN /\ active' = [active EXCEPT ![IdOf[c]] = NoCall]
                /\ call' = [call EXCEPT ![c] = r]
           ELSE UNCHANGED <<active, call>>,
           UNCHANGED <<pending, pending_writes, closed_by>>
    PROVE  Ownership'
  <1> USE ConstantsAssumption, CallsFinite
      DEF Ownership, Types, PendingWaits, WaitingPends, OneBusy, ActiveIds, Registered,
          Unadmitted, IsActive, OwnsPending, Waiting, Busy
  <1>1. Types'
    BY DEF Labels, Maybe
  <1>2. ASSUME NEW i \in Ids PROVE pool'[i] = pool[i] \/ (pool[i] = c /\ pool'[i] = NoCall)
    <2>1. CASE pool' = pool
      BY <2>1
    <2>2. CASE pool' = [pool EXCEPT ![IdOf[c]] = IF @ = c THEN NoCall ELSE @]
      BY <2>2
    <2> QED BY <2>1, <2>2
  <1>3. \A b \in Calls : b # c =>
           /\ pc'[b] = pc[b] /\ call'[b] = call[b]
           /\ active[IdOf[b]] = b => active'[IdOf[b]] = b
           /\ active'[IdOf[b]] = b => active[IdOf[b]] = b
    <2>1. CASE IsActive(c)
      <3>1. \A b \in Calls : b # c => pc'[b] = pc[b] /\ call'[b] = call[b]
        BY <2>1
      <3>2. active' = [active EXCEPT ![IdOf[c]] = NoCall] /\ active[IdOf[c]] = c
        BY <2>1
      <3> QED BY <3>1, <3>2
    <2>2. CASE ~IsActive(c)
      BY <2>2
    <2> QED BY <2>1, <2>2
  <1>4. pc'[c] \in {"settling", "over"}
    OBVIOUS
  <1>5. PendingWaits'
    <2> SUFFICES ASSUME NEW i \in Ids, pending'[i] # NoCall
                 PROVE  IdOf[pending'[i]] = i /\ pool'[i] = pending'[i] /\ pc'[pending'[i]] \in Waiting
      OBVIOUS
    <2>1. /\ pending'[i] = pending[i] /\ pending[i] \in Calls
          /\ IdOf[pending[i]] = i /\ pool[i] = pending[i] /\ pc[pending[i]] \in Waiting
      BY DEF Maybe
    <2>2. pending[i] # c
      BY <2>1
    <2> QED BY <1>2, <1>3, <2>1, <2>2
  <1>8. WaitingPends'
    <2> SUFFICES ASSUME ~closed', NEW b \in Calls, pc'[b] \in Waiting, pool'[IdOf[b]] = b
                 PROVE  pending'[IdOf[b]] = b
      OBVIOUS
    <2>1. b # c
      BY <1>4
    <2>2. pc[b] \in Waiting
      BY <1>3, <2>1
    <2>3. IdOf[b] \in Ids
      BY ONLY IdsTyped, b \in Calls
    <2>4. b # NoCall
      BY CallsFinite
    <2>5. pool'[IdOf[b]] = b
      OBVIOUS
    <2> HIDE DEF Ownership
    <2>6. pool[IdOf[b]] = b
      BY <1>2, <2>3, <2>4, <2>5
    <2> QED BY <2>2, <2>6 DEF closed, Ownership
  <1>6. OneBusy' /\ ActiveIds' /\ Unadmitted'
    BY <1>3, <1>4 DEF Maybe
  <1>7. Registered'
    <2>1. ASSUME NEW b \in Calls, pc'[b] \in {"running", "answered"}
          PROVE  /\ pc'[b] = pc[b] /\ call'[b] = call[b]
                 /\ IsActive(b) => active'[IdOf[b]] = b
      BY <1>3, <1>4, <2>1
    <2>2. ASSUME NEW b \in Calls, pool'[IdOf[b]] = b PROVE pool[IdOf[b]] = b
      <3>1. IdOf[b] \in Ids
        BY ONLY IdsTyped, b \in Calls
      <3>2. b # NoCall
        BY CallsFinite
      <3> QED BY <1>2, <2>2, <3>1, <3>2
    <2> QED BY <2>1, <2>2 DEF closed
  <1> QED BY <1>1, <1>5, <1>6, <1>7, <1>8

(* Every step keeps the ownership of IDs.                                  *)
LEMMA OwnershipStep == Ownership /\ [Next]_vars => Ownership'
  <1> SUFFICES ASSUME Ownership, [Next]_vars PROVE Ownership'
    OBVIOUS
  <1> USE ConstantsAssumption, CallsFinite
      DEF Ownership, Types, PendingWaits, WaitingPends, OneBusy, ActiveIds, Registered,
          Unadmitted, IsActive, OwnsPending, At, Goto, gate, rest, Waiting, Busy
  <1>1. ASSUME NEW c \in Calls, Receive(c) PROVE Ownership'
    <2>1. CASE Close("Early") /\ UNCHANGED <<pc, shutdown>>
      BY <2>1, CloseKeepsOwnership
    <2>2. CASE ~(Close("Early") /\ UNCHANGED <<pc, shutdown>>)
      <3>1. /\ pc[c] = "new"
            /\ \E label \in Waiting : pc' = [pc EXCEPT ![c] = label]
            /\ pending' = [pending EXCEPT ![IdOf[c]] = c]
            /\ pool' = [pool EXCEPT ![IdOf[c]] = c]
            /\ UNCHANGED <<active, pending_writes, closed_by, call>>
            /\ IdIsFree(c)
        BY <1>1, <2>2 DEF Receive
      <3>2. Types'
        BY <3>1 DEF Labels, Maybe
      <3>3. \A b \in Calls \ {c} : IdOf[b] = IdOf[c] => pc[b] \notin Busy
        BY <3>1 DEF IdIsFree
      <3>4. PendingWaits'
        BY <3>1, <3>3
      <3>5. WaitingPends' /\ OneBusy' /\ ActiveIds' /\ Unadmitted' /\ Registered'
        BY <3>1, <3>3 DEF closed
      <3> QED BY <3>2, <3>4, <3>5
    <2> QED BY <1>1, <2>1, <2>2 DEF Receive
  <1>2. ASSUME NEW i \in Ids, Cancel(i) PROVE Ownership'
    <2> DEFINE c == IF CancelsPending(i) THEN NoCall ELSE active[i]
    <2>1. /\ pool' = [pool EXCEPT ![i] = NoCall]
          /\ pending' = [pending EXCEPT ![i] = NoCall]
          /\ call' = IF c # NoCall THEN [call EXCEPT ![c] = Cancelled(@)] ELSE call
          /\ active' = IF c # NoCall /\ call[c].finished
                       THEN [active EXCEPT ![i] = NoCall] ELSE active
          /\ UNCHANGED <<pc, pending_writes, closed_by>>
      <3>1. pending' = IF CancelsPending(i) THEN [pending EXCEPT ![i] = NoCall] ELSE pending
        BY <1>2 DEF Cancel
      <3>2. pending' = [pending EXCEPT ![i] = NoCall]
        <4>1. CASE pending[i] = NoCall
          <5>1. pending = [pending EXCEPT ![i] = NoCall]
            BY <4>1
          <5> QED BY <3>1, <4>1, <5>1 DEF CancelsPending
        <4>2. CASE pending[i] # NoCall
          BY <3>1, <4>2 DEF CancelsPending
        <4> QED BY <4>1, <4>2
      <3>3. active' = IF c # NoCall /\ call[c].finished
                      THEN [active EXCEPT ![i] = NoCall] ELSE active
        BY <1>2 DEF Cancel, CancelRemoves
      <3> QED BY <1>2, <3>2, <3>3 DEF Cancel
    <2>2. c # NoCall => c \in Calls /\ IdOf[c] = i
      BY DEF Maybe
    <2>3. Types'
      BY <2>1, <2>2, CallStatesClosed DEF Maybe
    <2>4. PendingWaits' /\ WaitingPends' /\ OneBusy' /\ ActiveIds' /\ Unadmitted'
      BY <2>1 DEF closed, Maybe
    <2>5. ASSUME NEW b \in Calls, pc[b] = "running", ~closed
          PROVE  /\ active'[IdOf[b]] = b /\ ~call'[b].finished
                 /\ pool'[IdOf[b]] = b => call'[b].live
      <3>1. active[IdOf[b]] = b /\ ~call[b].finished /\ (pool[IdOf[b]] = b => call[b].live)
        BY <2>5
      <3>2. CASE c = b
        <4>1. call'[b].finished = call[b].finished
          BY <2>1, <3>2, CallsFinite, CallStatesClosed
        <4>2. pool'[IdOf[b]] # b
          BY <2>1, <2>2, <3>2, CallsFinite
        <4> QED BY <2>1, <3>1, <3>2, <4>1, <4>2
      <3>3. CASE c # b
        <4>1. call'[b] = call[b]
          BY <2>1, <3>3
        <4>2. active'[IdOf[b]] = b
          BY <2>1, <2>2, <3>1, <3>3
        <4>3. pool'[IdOf[b]] = b => pool[IdOf[b]] = b
          BY <2>1, CallsFinite
        <4> QED BY <3>1, <4>1, <4>2, <4>3
      <3> QED BY <3>2, <3>3
    <2>6. ASSUME NEW b \in Calls, pc[b] = "answered", ~closed, pool'[IdOf[b]] = b
          PROVE  active'[IdOf[b]] = b
      <3>1. IdOf[b] # i /\ pool[IdOf[b]] = b
        BY <2>1, <2>6, CallsFinite
      <3> QED BY <2>1, <2>6, <3>1
    <2>7. Registered'
      BY <2>1, <2>5, <2>6 DEF closed
    <2> QED BY <2>3, <2>4, <2>7
  <1>3. ASSUME NEW c \in Calls, Admit(c) PROVE Ownership'
    <2> DEFINE replaced == {active[IdOf[c]]} \ {NoCall}
    <2>1. /\ pc[c] = "gate" /\ pc' = [pc EXCEPT ![c] = "running"]
          /\ ~closed /\ pending[IdOf[c]] = c
          /\ call' = [b \in Calls |->
                        IF b = c THEN [call[c] EXCEPT !.live = TRUE]
                        ELSE IF b \in replaced THEN Abandoned(call[b]) ELSE call[b]]
          /\ pending' = [pending EXCEPT ![IdOf[c]] = NoCall]
          /\ active' = [active EXCEPT ![IdOf[c]] = c]
          /\ UNCHANGED <<pending_writes, closed_by, pool>>
      BY <1>3 DEF Admit
    <2>2. Types'
      <3>1. ASSUME NEW b \in Calls PROVE call'[b] \in CallStates
        <4>1. [call[c] EXCEPT !.live = TRUE] \in CallStates
          BY CallStatesClosed
        <4>2. Abandoned(call[b]) \in CallStates
          BY CallStatesClosed
        <4> QED BY <2>1, <4>1, <4>2
      <3>2. call' \in [Calls -> CallStates]
        BY <2>1, <3>1
      <3>3. pc' \in [Calls -> Labels]
        BY <2>1 DEF Labels
      <3>4. active' \in [Ids -> Maybe] /\ pending' \in [Ids -> Maybe] /\ pool' \in [Ids -> Maybe]
        BY <2>1 DEF Maybe
      <3> QED BY <2>1, <3>2, <3>3, <3>4
    <2>3. PendingWaits' /\ WaitingPends' /\ OneBusy' /\ ActiveIds' /\ Unadmitted'
      BY <2>1 DEF closed, Maybe
    <2>4. \A b \in Calls : b # c /\ pc[b] \in Busy => b \notin replaced /\ IdOf[b] # IdOf[c]
      BY <2>1 DEF Maybe
    <2>5. Registered'
      <3>1. ASSUME NEW b \in Calls, b # c, pc'[b] \in Busy
            PROVE  call'[b] = call[b] /\ active'[IdOf[b]] = active[IdOf[b]] /\ pc'[b] = pc[b]
        BY <2>1, <2>4, <3>1
      <3>2. call'[c].live /\ call'[c].finished = call[c].finished
        BY <2>1, CallStatesClosed
      <3>3. ~call[c].finished
        BY <2>1 DEF Unadmitted
      <3> QED BY <2>1, <3>1, <3>2, <3>3 DEF closed
    <2> QED BY <2>2, <2>3, <2>5
  <1>4. ASSUME NEW c \in Calls, PredecessorSettled(c) PROVE Ownership'
    BY <1>4 DEF PredecessorSettled, Labels, closed
  <1>5. ASSUME NEW c \in Calls, DropAdmission(c) PROVE Ownership'
    BY <1>5 DEF DropAdmission, Labels, closed, Maybe
  <1>6. ASSUME NEW c \in Calls, Register(c) PROVE Ownership'
    BY <1>6 DEF Register, closed, CallStates, Acknowledgments
  <1>7. ASSUME NEW c \in Calls, CompleteOperation(c) PROVE Ownership'
    <2> DEFINE leaves == IsActive(c) /\ ~call[c].live
    <2>1. /\ pc[c] = "running" /\ pc' = [pc EXCEPT ![c] = "answered"]
          /\ call' = IF leaves THEN [call EXCEPT ![c] = Abandoned(@)]
                     ELSE IF IsActive(c) THEN [call EXCEPT ![c].finished = TRUE] ELSE call
          /\ active' = IF leaves THEN [active EXCEPT ![IdOf[c]] = NoCall] ELSE active
          /\ UNCHANGED <<pending, pending_writes, closed_by, pool>>
      BY <1>7 DEF CompleteOperation, FinishOperation
    <2>2. Types'
      <3>1. call' \in [Calls -> CallStates]
        BY <2>1, CallStatesClosed
      <3>2. pc' \in [Calls -> Labels]
        BY <2>1 DEF Labels
      <3> QED BY <2>1, <3>1, <3>2 DEF Maybe
    <2>3. PendingWaits' /\ WaitingPends' /\ OneBusy' /\ ActiveIds' /\ Unadmitted'
      BY <2>1 DEF closed, Maybe
    <2>4. \A b \in Calls : b # c => call'[b] = call[b] /\ pc'[b] = pc[b]
      BY <2>1
    <2>5. \A b \in Calls : b # c /\ pc[b] \in Busy => active'[IdOf[b]] = active[IdOf[b]]
      BY <2>1 DEF Maybe
    <2>6. Registered'
      BY <2>1, <2>4, <2>5 DEF closed
    <2> QED BY <2>2, <2>3, <2>6
  <1>8. ASSUME NEW c \in Calls, DropOperation(c) PROVE Ownership'
    <2>1. /\ pc[c] = "running" /\ pc' = [pc EXCEPT ![c] = "over"]
          /\ call' = IF IsActive(c) THEN [call EXCEPT ![c] = Abandoned(@)] ELSE call
          /\ active' = IF IsActive(c) THEN [active EXCEPT ![IdOf[c]] = NoCall] ELSE active
          /\ pool' = [pool EXCEPT ![IdOf[c]] = IF @ = c THEN NoCall ELSE @]
          /\ UNCHANGED <<pending, pending_writes, closed_by>>
      BY <1>8 DEF DropOperation, FinishOperation
    <2>2. Abandoned(call[c]) \in CallStates
      BY CallStatesClosed
    <2>3. call' = IF IsActive(c) THEN [call EXCEPT ![c] = Abandoned(call[c])] ELSE call
      BY <2>1
    <2>4. \E label \in {"settling", "over"} : pc' = [pc EXCEPT ![c] = label]
      BY <2>1
    <2> HIDE DEF Ownership, IsActive
    <2> QED BY <2>1, <2>2, <2>3, <2>4, OwnerLeaves
  <1>9. ASSUME NEW c \in Calls, Send(c) PROVE Ownership'
    BY <1>9 DEF Send, Labels, closed, Maybe
  <1>10. ASSUME NEW c \in Calls, WriteSucceeds(c) \/ WriteFails(c) \/ AbandonWrite(c)
         PROVE  Ownership'
    <2>1. /\ pc[c] = "writing"
          /\ \E label \in {"visible", "failed"} : pc' = [pc EXCEPT ![c] = label]
          /\ UNCHANGED <<active, pending, pending_writes, closed_by, call, pool>>
      BY <1>10 DEF WriteSucceeds, WriteFails, AbandonWrite
    <2> QED BY <2>1 DEF Labels, closed
  <1>11. ASSUME NEW c \in Calls, TakeWriteDelivery(c) PROVE Ownership'
    <2>1. /\ pc[c] \in {"visible", "failed"} /\ pc' = [pc EXCEPT ![c] = "settling"]
          /\ UNCHANGED <<pending, pending_writes, closed_by, pool>>
          /\ IF IsActive(c)
             THEN /\ active' = [active EXCEPT ![IdOf[c]] = NoCall]
                  /\ \E outcome \in {"Delivered", "Returned"} :
                        call' = [call EXCEPT ![c] = Written(@, outcome)]
             ELSE UNCHANGED <<active, call>>
      BY <1>11 DEF TakeWriteDelivery
    <2>2. PICK outcome \in {"Delivered", "Returned"} :
            IsActive(c) => call' = [call EXCEPT ![c] = Written(call[c], outcome)]
      BY <2>1
    <2>3. Written(call[c], outcome) \in CallStates
      BY CallStatesClosed
    <2>4. /\ \E label \in {"settling", "over"} : pc' = [pc EXCEPT ![c] = label]
          /\ pc[c] \in {"running", "visible", "failed"}
      BY <2>1
    <2> HIDE DEF Ownership, IsActive
    <2> QED BY <2>1, <2>2, <2>3, <2>4, OwnerLeaves
  <1>12. ASSUME NEW c \in Calls, SettleWrite(c) PROVE Ownership'
    BY <1>12 DEF SettleWrite, WriteSettles, Labels, closed
  <1>13. CASE StopReading \/ InputDrained \/ StartSettling \/ ShutdownEnds \/ UNCHANGED vars
    BY <1>13 DEF StopReading, InputDrained, StartSettling, ShutdownEnds, vars, closed
  <1>14. CASE SettleBeforeClose \/ CloseTransport
    BY <1>14, CloseKeepsOwnership DEF SettleBeforeClose, CloseTransport, closed
  <1> QED
    BY <1>1, <1>2, <1>3, <1>4, <1>5, <1>6, <1>7, <1>8, <1>9, <1>10, <1>11, <1>12, <1>13, <1>14
       DEF Next

(* In every reachable state the IDs are owned as Ownership says.           *)
THEOREM IdsOwned == Spec => []Ownership
  BY OwnershipInit, OwnershipStep, PTL DEF Spec

(* A request cancelled while it waits never runs: its reservation went     *)
(* with the service's knowledge of it, and only Admit starts a call.       *)
THEOREM NeverStarts == Spec => CancelledNeverStarts
<1>1. Ownership /\ [Next]_vars =>
        [\A c \in Calls : pc[c] \in {"queued", "gate"} /\ pool[IdOf[c]] # c =>
            pc'[c] # "running"]_vars
  <2> SUFFICES ASSUME Ownership, Next, NEW c \in Calls,
                      pc[c] \in Waiting, pool[IdOf[c]] # c
               PROVE  pc'[c] # "running"
    BY DEF Waiting
  <2>1. ~OwnsPending(c)
    BY CallsFinite, ConstantsAssumption DEF Ownership, PendingWaits, OwnsPending
  <2>2. pc \in [Calls -> Labels]
    BY DEF Ownership, Types
  <2>3. pc'[c] # pc[c] => pc'[c] # "running"
    <3>1. ASSUME NEW b \in Calls, Admit(b) PROVE b # c
      BY <2>1, <3>1 DEF Admit
    <3>2. ASSUME NEW b \in Calls, Admit(b) PROVE pc'[c] = pc[c]
      BY <2>2, <3>1, <3>2 DEF Admit, Goto
    <3> QED BY <2>2, <3>2
      DEF Next, Goto, At, Waiting, Receive, PredecessorSettled, DropAdmission, Register,
          CompleteOperation, DropOperation, Send, WriteSucceeds, WriteFails, AbandonWrite,
          TakeWriteDelivery, SettleWrite, Cancel, StopReading, InputDrained, StartSettling,
          SettleBeforeClose, ShutdownEnds, CloseTransport, rest
  <2> QED BY <2>3 DEF Waiting
<1> QED BY <1>1, IdsOwned, PTL DEF Spec, CancelledNeverStarts

LEMMA WritersFinite ==
    ASSUME NEW S \in SUBSET Calls
    PROVE  /\ IsFiniteSet(S) /\ Cardinality(S) \in Nat
           /\ Cardinality(S) = 0 <=> S = {}
  BY CallsFinite, FS_Subset, FS_CardinalityType, FS_EmptySet

(* Every write is counted until it settles.                                *)
LEMMA WritesStep == Ownership /\ WritesCounted /\ [Next]_vars => WritesCounted'
  <1> SUFFICES ASSUME Ownership, WritesCounted, [Next]_vars PROVE WritesCounted'
    OBVIOUS
  <1>1. pc \in [Calls -> Labels] /\ Writers \in SUBSET Calls
    BY DEF Ownership, Types, Writers
  <1>2. ASSUME NEW c \in Calls, NEW label \in Labels, Goto(c, label),
               pc[c] \in Writing <=> label \in Writing,
               UNCHANGED pending_writes
        PROVE  WritesCounted'
    <2>1. Writers' = Writers
      BY <1>1, <1>2 DEF Writers, Goto
    <2> QED BY <1>2, <2>1 DEF WritesCounted
  <1>3. ASSUME NEW c \in Calls, pc[c] \notin Writing, Goto(c, "writing"),
               pending_writes' = pending_writes + 1
        PROVE  WritesCounted'
    <2>1. Writers' = Writers \cup {c} /\ c \notin Writers
      BY <1>1, <1>3 DEF Writers, Goto, Writing
    <2>2. Cardinality(Writers \cup {c}) = Cardinality(Writers) + 1
      BY <1>1, <2>1, WritersFinite, FS_AddElement
    <2> QED BY <1>3, <2>1, <2>2 DEF WritesCounted
  <1>4. ASSUME NEW c \in Calls, SettleWrite(c) PROVE WritesCounted'
    <2>1. Writers' = Writers \ {c} /\ c \in Writers
      BY <1>1, <1>4 DEF Writers, SettleWrite, At, Goto, Writing
    <2>2. Cardinality(Writers \ {c}) = Cardinality(Writers) - 1
      BY <1>1, <2>1, WritersFinite, FS_RemoveElement
    <2> QED BY <1>4, <2>1, <2>2 DEF WritesCounted, SettleWrite, WriteSettles
  <1>5. ASSUME UNCHANGED <<pc, pending_writes>> PROVE WritesCounted'
    BY <1>5 DEF WritesCounted, Writers
  <1>6. ASSUME NEW c \in Calls, Receive(c) PROVE WritesCounted'
    <2>1. CASE UNCHANGED pc
      BY <1>5, <1>6, <2>1 DEF Receive, Close
    <2>2. CASE ~UNCHANGED pc
      BY <1>2, <1>6, <2>2 DEF Receive, Writing, Labels, At
    <2> QED BY <2>1, <2>2
  <1>7. ASSUME NEW c \in Calls, Send(c) PROVE WritesCounted'
    BY <1>2, <1>3, <1>7 DEF Send, Writing, Labels, At
  <1>8. ASSUME NEW c \in Calls,
               \/ PredecessorSettled(c) \/ Admit(c) \/ DropAdmission(c)
               \/ CompleteOperation(c) \/ DropOperation(c)
        PROVE  WritesCounted'
    BY <1>2, <1>8 DEF PredecessorSettled, Admit, DropAdmission, CompleteOperation, DropOperation,
                      Writing, Labels, At
  <1>9. ASSUME NEW c \in Calls,
               WriteSucceeds(c) \/ WriteFails(c) \/ AbandonWrite(c) \/ TakeWriteDelivery(c)
        PROVE  WritesCounted'
    BY <1>2, <1>9 DEF WriteSucceeds, WriteFails, AbandonWrite, TakeWriteDelivery, Writing, Labels, At
  <1>10. ASSUME NEW i \in Ids, Cancel(i) PROVE WritesCounted'
    BY <1>5, <1>10 DEF Cancel
  <1>11. ASSUME NEW c \in Calls, Register(c) PROVE WritesCounted'
    BY <1>5, <1>11 DEF Register
  <1>12. CASE \/ StopReading \/ InputDrained \/ StartSettling \/ SettleBeforeClose
              \/ ShutdownEnds \/ CloseTransport \/ UNCHANGED vars
    BY <1>5, <1>12 DEF StopReading, InputDrained, StartSettling, SettleBeforeClose, Close,
                       ShutdownEnds, CloseTransport, vars
  <1> QED BY <1>4, <1>6, <1>7, <1>8, <1>9, <1>10, <1>11, <1>12 DEF Next

(* A close that the deadline did not force left every received request     *)
(* answered, or cancelled: with no registration, reservation or write left *)
(* a request can only be where the service does not know it any more, and  *)
(* after the close nothing is received or admitted.                        *)
THEOREM SettledAnswers == Spec => []SettledMeansAnswered
<1> DEFINE Done(c) == \/ pc[c] \in {"new", "over"}
                      \/ pc[c] \in {"queued", "gate", "answered"} /\ pool[IdOf[c]] # c
           Inv == WritesCounted /\ SettledMeansAnswered
<1>1. Init => Inv
  <2> SUFFICES ASSUME Init PROVE Inv
    OBVIOUS
  <2>1. Writers = {}
    BY DEF Init, Writers, Writing
  <2>2. Cardinality(Writers) = 0
    BY <2>1, FS_EmptySet
  <2> QED BY <2>2 DEF Init, WritesCounted, SettledMeansAnswered
<1>2. ASSUME Ownership, WritesCounted, Settled, ~closed, NEW c \in Calls PROVE Done(c)
  <2>1. Writers = {}
    BY <1>2, WritersFinite DEF Settled, WritesCounted, Writers
  <2>2. pc[c] \in Labels \ Writing
    BY <1>2, <2>1 DEF Writers, Ownership, Types
  <2>3. pending[IdOf[c]] # c /\ active[IdOf[c]] # c
    BY <1>2, CallsFinite, ConstantsAssumption DEF Settled, NoneActive, NonePending
  <2>4. pc[c] # "running"
    BY <1>2, <2>3 DEF Ownership, Registered, IsActive
  <2>5. pc[c] \in {"queued", "gate", "answered"} => pool[IdOf[c]] # c
    BY <1>2, <2>3 DEF Ownership, Registered, WaitingPends, Waiting, IsActive, OwnsPending
  <2> QED BY <2>2, <2>4, <2>5 DEF Labels, Writing
<1>3. Ownership /\ Inv /\ [Next]_vars => Inv'
  <2> SUFFICES ASSUME Ownership, Inv, [Next]_vars, closed_by' = "Settled", NEW c \in Calls
               PROVE  Done(c)'
    BY WritesStep DEF SettledMeansAnswered
  <2>1. CASE closed_by # "Settled"
    <3>1. SettleBeforeClose /\ ~closed /\ Settled
      BY <2>1 DEF Next, Receive, Cancel, PredecessorSettled, Admit, DropAdmission, Register,
                  CompleteOperation, DropOperation, Send, WriteSucceeds, WriteFails,
                  AbandonWrite, TakeWriteDelivery, SettleWrite, StopReading, InputDrained,
                  StartSettling, SettleBeforeClose, ShutdownEnds, CloseTransport, Close, vars
    <3>2. UNCHANGED <<pc, pool>>
      BY <3>1 DEF SettleBeforeClose, Close
    <3> QED BY <1>2, <3>1, <3>2
  <2>2. CASE closed_by = "Settled"
    <3>1. Done(c) /\ closed
      BY <2>2 DEF SettledMeansAnswered, closed
    <3>2. pc \in [Calls -> Labels] /\ pool \in [Ids -> Maybe] /\ IdOf[c] \in Ids /\ c # NoCall
      BY CallsFinite, ConstantsAssumption DEF Ownership, Types
    <3>3. ASSUME NEW b \in Calls, PredecessorSettled(b) \/ DropAdmission(b) PROVE Done(c)'
      BY <3>1, <3>2, <3>3 DEF PredecessorSettled, DropAdmission, At, Goto, rest
    <3>4. ASSUME NEW b \in Calls, Send(b) PROVE Done(c)'
      <4>1. Done(b)
        BY <2>2 DEF SettledMeansAnswered
      <4>2. pc' = [pc EXCEPT ![b] = "over"]
        BY <3>4, <4>1 DEF Send, At, Goto
      <4>3. pool'[IdOf[c]] # pool[IdOf[c]] => pool'[IdOf[c]] = NoCall
        BY <3>2, <3>4 DEF Send
      <4> QED BY <3>1, <3>2, <4>2, <4>3
    <3>5. ASSUME NEW b \in Calls,
                 \/ DropOperation(b) \/ CompleteOperation(b) \/ WriteSucceeds(b) \/ WriteFails(b)
                 \/ AbandonWrite(b) \/ TakeWriteDelivery(b) \/ SettleWrite(b)
          PROVE  FALSE
      <4>1. Done(b)
        BY <2>2 DEF SettledMeansAnswered
      <4> QED BY <3>5, <4>1 DEF DropOperation, CompleteOperation, WriteSucceeds, WriteFails,
                                AbandonWrite, TakeWriteDelivery, SettleWrite, At
    <3>6. ASSUME UNCHANGED <<pc, pool>> PROVE Done(c)'
      BY <3>1, <3>6
    <3> QED BY <3>1, <3>3, <3>4, <3>5, <3>6
            DEF Next, Receive, Cancel, Admit, Register, StopReading, InputDrained, StartSettling,
                SettleBeforeClose, ShutdownEnds, CloseTransport, Close, vars, rest
  <2> QED BY <2>1, <2>2
<1> QED BY <1>1, <1>3, IdsOwned, PTL DEF Spec

-----------------------------------------------------------------------------
(* The queue's chain of predecessors.  LastWaiting and SettledNode walk it *)
(* towards earlier calls, so what they return is a matter of induction     *)
(* over the calls, of which the least counterexample is refuted.           *)

LEMMA LeastOf ==
    ASSUME NEW T, T \subseteq Nat, T # {}
    PROVE  \E x \in T : \A y \in T : x <= y
  <1> DEFINE R == OpToRel(<, Nat)
  <1>1. IsWellFoundedOn(R, Nat)
    BY NatLessThanWellFounded
  <1>2. \A x, y \in Nat : y < x => <<y, x>> \in R
    BY DEF OpToRel
  <1> HIDE DEF R
  <1>3. PICK x \in T : \A y \in T : <<y, x>> \notin R
    BY <1>1, WFMin
  <1>4. \A y \in T : ~(y < x) /\ y \in Nat /\ x \in Nat
    BY <1>2, <1>3
  <1> QED BY <1>3, <1>4

Descends(p) == \A c \in Calls : p[c] \in Maybe /\ p[c] < c

(* A walk that stops at some calls, and where it stops there is a value.   *)
Walk(base, stop, f, m) == IF m \in stop THEN base[m] ELSE f[pred[m]]

(* A chain that descends has exactly one value for each start.             *)
LEMMA WalkExists ==
    ASSUME NEW base, NEW stop, NoCall \in stop, Descends(pred)
    PROVE  \E f : f = [m \in Maybe |-> Walk(base, stop, f, m)]
  <1> DEFINE Upto(k) == {m \in Maybe : m <= k}
             Good(k, f) == f = [m \in Upto(k) |-> Walk(base, stop, f, m)]
             Bad == {k \in Nat : ~\E f : Good(k, f)}
  <1>1. Bad = {}
    <2> SUFFICES ASSUME Bad # {} PROVE FALSE
      OBVIOUS
    <2>1. PICK k \in Bad : \A j \in Bad : k <= j
      <3>1. Bad \subseteq Nat
        OBVIOUS
      <3> HIDE DEF Bad
      <3> QED BY <3>1, LeastOf
    <2>2. k \in Nat
      BY <2>1
    <2>3. PICK g : \A m \in Upto(k - 1) : g[m] = Walk(base, stop, g, m)
      <3>1. CASE k = 0
        <4>1. Upto(k - 1) = {}
          BY <3>1, ConstantsAssumption DEF Maybe, Calls, NoCall
        <4> QED BY <4>1
      <3>2. CASE k # 0
        <4>1. k - 1 \in Nat /\ ~(k <= k - 1)
          BY <2>2, <3>2
        <4>2. k - 1 \notin Bad
          BY <2>1, <4>1
        <4>3. PICK g : Good(k - 1, g)
          BY <4>1, <4>2
        <4>4. \A m \in Upto(k - 1) :
                 g[m] = [n \in Upto(k - 1) |-> Walk(base, stop, g, n)][m]
          BY <4>3
        <4> QED BY <4>4
      <3> QED BY <3>1, <3>2
    <2> DEFINE f == [m \in Upto(k) |-> IF m = k THEN Walk(base, stop, g, m) ELSE g[m]]
    <2>4. \A m \in Upto(k) : m # k => m \in Upto(k - 1)
      BY <2>2, ConstantsAssumption DEF Maybe, Calls, NoCall
    <2>5. \A m \in Upto(k) : m # NoCall => pred[m] \in Upto(k) /\ pred[m] # k /\ pred[m] \in Upto(m - 1)
      BY <2>2, ConstantsAssumption DEF Maybe, Calls, NoCall, Descends
    <2>6. \A m \in Upto(k) : m # NoCall => f[pred[m]] = g[pred[m]]
      BY <2>5
    <2>7. \A m \in Upto(k) : Walk(base, stop, f, m) = Walk(base, stop, g, m)
      <3> HIDE DEF f
      <3> QED BY <2>6 DEF Walk
    <2>8. \A m \in Upto(k) : f[m] = Walk(base, stop, g, m)
      BY <2>3, <2>4
    <2>9. f = [m \in Upto(k) |-> f[m]]
      OBVIOUS
    <2>10. [m \in Upto(k) |-> f[m]] = [m \in Upto(k) |-> Walk(base, stop, f, m)]
      <3> HIDE DEF f
      <3> QED BY <2>7, <2>8
    <2>11. Good(k, f)
      <3> HIDE DEF f
      <3> QED BY <2>9, <2>10
    <2> QED BY <2>1, <2>11
  <1>2. MaxCalls \in Nat /\ Upto(MaxCalls) = Maybe
    BY ConstantsAssumption DEF Maybe, Calls, NoCall
  <1>3. \E f : Good(MaxCalls, f)
    BY <1>1, <1>2
  <1> QED BY <1>2, <1>3

StopsAt(nodes) == {m \in Maybe : m = NoCall \/ nodes[m] # "Skipped"}

(* What the walks return: the value where they stop, and otherwise what    *)
(* they return for the predecessor.                                        *)
LEMMA WaitingIs ==
    ASSUME NEW nodes, Descends(pred)
    PROVE  /\ LastWaiting(nodes, NoCall) = NoCall
           /\ \A m \in Calls :
                LastWaiting(nodes, m) =
                    IF nodes[m] \in {"Admitted", "Finished"} THEN NoCall
                    ELSE IF nodes[m] = "Skipped" THEN LastWaiting(nodes, pred[m]) ELSE m
  <1> DEFINE Def(g) == g = [m \in Maybe |->
                              IF m = NoCall \/ nodes[m] \in {"Admitted", "Finished"} THEN NoCall
                              ELSE IF nodes[m] = "Skipped" THEN g[pred[m]] ELSE m]
             base == [m \in Maybe |-> IF m = NoCall \/ nodes[m] \in {"Admitted", "Finished"}
                                      THEN NoCall ELSE m]
             last == CHOOSE g : Def(g)
  <1>1. \A n : LastWaiting(nodes, n) = last[n]
    BY DEF LastWaiting
  <1>2. PICK f : f = [m \in Maybe |-> Walk(base, StopsAt(nodes), f, m)]
    <2>1. NoCall \in StopsAt(nodes)
      BY DEF StopsAt, Maybe
    <2> HIDE DEF base
    <2> QED BY <2>1, WalkExists
  <1>3. \A m \in Maybe : Walk(base, StopsAt(nodes), f, m) =
                            IF m = NoCall \/ nodes[m] \in {"Admitted", "Finished"} THEN NoCall
                            ELSE IF nodes[m] = "Skipped" THEN f[pred[m]] ELSE m
    BY DEF Walk, StopsAt
  <1>4. Def(f)
    <2> HIDE DEF base
    <2> QED BY <1>2, <1>3
  <1>5. Def(last)
    <2> HIDE DEF Def
    <2> QED BY <1>4
  <1>6. \A m \in Maybe : last[m] = IF m = NoCall \/ nodes[m] \in {"Admitted", "Finished"} THEN NoCall
                                   ELSE IF nodes[m] = "Skipped" THEN last[pred[m]] ELSE m
    <2> HIDE DEF last
    <2> QED BY <1>5
  <1> HIDE DEF last
  <1> QED BY <1>1, <1>6, CallsFinite DEF Maybe

LEMMA SettledIs ==
    ASSUME Descends(pred)
    PROVE  \A m \in Calls : SettledNode(m) =>
              IF node[m] = "Skipped" THEN SettledNode(pred[m]) ELSE node[m] = "Finished"
  <1> DEFINE Def(g) == g = [m \in Maybe |->
                              IF m = NoCall THEN TRUE
                              ELSE IF node[m] = "Skipped" THEN g[pred[m]] ELSE node[m] = "Finished"]
             base == [m \in Maybe |-> IF m = NoCall THEN TRUE ELSE node[m] = "Finished"]
             settled == CHOOSE g : Def(g)
  <1>1. \A n : SettledNode(n) <=> settled[n]
    BY DEF SettledNode
  <1>2. PICK f : f = [m \in Maybe |-> Walk(base, StopsAt(node), f, m)]
    <2>1. NoCall \in StopsAt(node)
      BY DEF StopsAt, Maybe
    <2> HIDE DEF base
    <2> QED BY <2>1, WalkExists
  <1>3. \A m \in Maybe : Walk(base, StopsAt(node), f, m) =
                            IF m = NoCall THEN TRUE
                            ELSE IF node[m] = "Skipped" THEN f[pred[m]] ELSE node[m] = "Finished"
    BY DEF Walk, StopsAt
  <1>4. Def(f)
    <2> HIDE DEF base
    <2> QED BY <1>2, <1>3
  <1>5. Def(settled)
    <2> HIDE DEF Def
    <2> QED BY <1>4
  <1>6. \A m \in Maybe : settled[m] = IF m = NoCall THEN TRUE
                                      ELSE IF node[m] = "Skipped" THEN settled[pred[m]]
                                      ELSE node[m] = "Finished"
    <2> HIDE DEF settled
    <2> QED BY <1>5
  <1> HIDE DEF settled
  <1> QED BY <1>1, <1>6, CallsFinite DEF Maybe

(* A predecessor that a waiting call can still be behind.                  *)
Covered(m, b) == m # NoCall /\ (b = m \/ b \in behind[m])
Over(c) == status[c] = "Over"
Answering == {"answered", "writing", "visible", "failed"}

Places ==
    /\ tail \in Maybe /\ pred \in [Calls -> Maybe] /\ Descends(pred)
    /\ node \in [Calls -> Nodes] /\ behind \in [Calls -> SUBSET Calls]
    /\ input_drained \in BOOLEAN /\ reading \in BOOLEAN
    /\ closed_by \in {"No", "Settled", "Early"}
    /\ shutdown \in {"serving", "settling", "closing", "ended"}

(* Requests are received in their order, and only a received one has a     *)
(* node, which waits exactly while its handler may be held up.             *)
Received ==
    /\ \A b, c \in Calls : b < c /\ pc[c] # "new" => pc[b] # "new"
    /\ \A c \in Calls :
         /\ pc[c] = "new" => node[c] = "None"
         /\ pc[c] = "queued" => node[c] = "Waiting"
         /\ node[c] = "Waiting" => pc[c] \in Waiting
         /\ node[c] = "Skipped" => pc[c] = "over"
         /\ pred[c] # NoCall => node[pred[c]] # "None"
    /\ tail # NoCall => node[tail] # "None"

(* An acknowledgment is owed by a registered call only, which is neither   *)
(* waiting nor over; a registered call that was answered has finished, and *)
(* its ID is taken up again only once its response is visible.             *)
Owing ==
    /\ closed => \A i \in Ids : active[i] = NoCall
    /\ \A i \in Ids : active[i] # NoCall => pc[active[i]] \in {"running"} \cup Answering
    /\ \A c \in Calls :
         /\ call[c].delivery = "Registered" => IsActive(c)
         /\ pc[c] \in Answering /\ IsActive(c) => call[c].finished
         /\ pc[c] = "answered" /\ IsActive(c) => pool[IdOf[c]] = c
         /\ pc[c] = "running" /\ call[c].live /\ ~closed => pool[IdOf[c]] = c
         /\ pc[c] \in Waiting /\ active[IdOf[c]] # NoCall =>
              pc[active[IdOf[c]]] = "visible" /\ node[c] = "Waiting"

(* A call is admitted when all it was received behind is over.  Until then *)
(* what is not over is reached through its predecessor, and every waiting  *)
(* call is reached from the tail.                                          *)
Chained ==
    ~closed =>
        /\ \A c \in Calls :
             /\ node[c] = "Admitted" => IsActive(c)
             /\ node[c] = "Finished" => Over(c)
             /\ pc[c] = "gate" \/ node[c] \in {"Admitted", "Finished"} =>
                  \A b \in behind[c] : Over(b)
             /\ \A b \in behind[c] : Over(b) \/ Covered(pred[c], b)
        /\ \A b \in Calls : node[b] = "Waiting" => Covered(tail, b)

QueueInv == Ownership /\ WritesCounted /\ Places /\ Received /\ Owing /\ Chained

LEMMA StatusIs ==
    \A c \in Calls :
        /\ pc[c] = "new" => status[c] = "New"
        /\ pc[c] \in Waiting => status[c] = "Waiting"
        /\ pc[c] = "running" => status[c] = "Running"
        /\ pc[c] \in Answering /\ IsActive(c) => status[c] = "Answered"
        /\ pc[c] \in Answering /\ ~IsActive(c) => Over(c)
        /\ pc[c] \in {"settling", "over"} => Over(c)
  BY DEF status, Waiting, Answering, Over

LEMMA LastTyped ==
    ASSUME NEW nodes \in [Calls -> Nodes], Descends(pred), NEW n \in Maybe,
           n # NoCall => nodes[n] # "None",
           \A m \in Calls : pred[m] # NoCall => nodes[pred[m]] # "None"
    PROVE  LET l == LastWaiting(nodes, n) IN l \in Maybe /\ (l # NoCall => nodes[l] = "Waiting")
  <1> DEFINE Fine(m) == LET l == LastWaiting(nodes, m) IN l \in Maybe /\ (l # NoCall => nodes[l] = "Waiting")
             Bad == {m \in Maybe : (m # NoCall => nodes[m] # "None") /\ ~Fine(m)}
  <1>1. Bad = {}
    <2> SUFFICES ASSUME Bad # {} PROVE FALSE
      OBVIOUS
    <2>1. Bad \subseteq Nat
      BY ConstantsAssumption DEF Maybe, Calls, NoCall
    <2>2. PICK m \in Bad : \A k \in Bad : m <= k
      <3> HIDE DEF Bad
      <3> QED BY <2>1, LeastOf
    <2>3. m # NoCall /\ m \in Calls /\ nodes[m] # "None"
      BY <2>2, WaitingIs DEF Maybe
    <2>4. nodes[m] = "Skipped"
      BY <2>2, <2>3, WaitingIs DEF Maybe, Nodes
    <2>5. pred[m] \in Maybe /\ ~(m <= pred[m]) /\ (pred[m] # NoCall => nodes[pred[m]] # "None")
      BY <2>3, ConstantsAssumption DEF Descends, Maybe, Calls, NoCall
    <2>6. pred[m] \notin Bad
      BY <2>2, <2>5
    <2>7. LastWaiting(nodes, m) = LastWaiting(nodes, pred[m])
      BY <2>3, <2>4, WaitingIs
    <2>8. Fine(pred[m])
      BY <2>5, <2>6
    <2> QED BY <2>2, <2>7, <2>8
  <1> QED BY <1>1

(* The last waiting call covers every waiting one that the tail covers.    *)
LEMMA LastCovers ==
    ASSUME NEW nodes \in [Calls -> Nodes], Descends(pred), NEW n \in Maybe,
           NEW W \in SUBSET Calls,
           \A b \in W : nodes[b] = "Waiting",
           \A m \in Calls : nodes[m] = "Skipped" => \A b \in W \cap behind[m] : Covered(pred[m], b),
           \A m \in Calls : nodes[m] \in {"Admitted", "Finished"} => W \cap behind[m] = {},
           \A b \in W : Covered(n, b)
    PROVE  \A b \in W : Covered(LastWaiting(nodes, n), b)
  <1> DEFINE Reaches(m) == \A b \in W : Covered(m, b)
             Bad == {m \in Maybe : Reaches(m) /\ ~Reaches(LastWaiting(nodes, m))}
  <1>1. Bad = {}
    <2> SUFFICES ASSUME Bad # {} PROVE FALSE
      OBVIOUS
    <2>1. Bad \subseteq Nat
      BY ConstantsAssumption DEF Maybe, Calls, NoCall
    <2>2. PICK m \in Bad : \A k \in Bad : m <= k
      <3> HIDE DEF Bad
      <3> QED BY <2>1, LeastOf
    <2>3. m # NoCall /\ m \in Calls
      BY <2>2, WaitingIs DEF Maybe
    <2>4. CASE nodes[m] \in {"Admitted", "Finished"}
      <3>1. W = {}
        BY <2>2, <2>3, <2>4 DEF Covered
      <3> QED BY <2>2, <3>1
    <2>5. CASE nodes[m] \in {"None", "Waiting"}
      BY <2>2, <2>3, <2>5, WaitingIs
    <2>6. CASE nodes[m] = "Skipped"
      <3>1. Reaches(pred[m])
        BY <2>2, <2>3, <2>6 DEF Covered
      <3>2. pred[m] \in Maybe /\ ~(m <= pred[m])
        BY <2>3, ConstantsAssumption DEF Descends, Maybe, Calls, NoCall
      <3>3. LastWaiting(nodes, m) = LastWaiting(nodes, pred[m])
        BY <2>3, <2>6, WaitingIs
      <3>4. pred[m] \notin Bad
        BY <2>2, <3>2
      <3>5. Reaches(LastWaiting(nodes, pred[m]))
        BY <3>1, <3>2, <3>4
      <3> QED BY <2>2, <3>3, <3>5
    <2> QED BY <2>3, <2>4, <2>5, <2>6 DEF Nodes
  <1> QED BY <1>1

(* What a settled predecessor covers is over.                              *)
LEMMA SettledOver ==
    ASSUME QueueInv, ~closed, NEW n \in Maybe, SettledNode(n), NEW b \in Calls, Covered(n, b)
    PROVE  Over(b)
  <1> DEFINE Bad == {m \in Maybe : SettledNode(m) /\ \E d \in Calls : Covered(m, d) /\ ~Over(d)}
  <1>1. Bad = {}
    <2> SUFFICES ASSUME Bad # {} PROVE FALSE
      OBVIOUS
    <2>1. Bad \subseteq Nat
      BY ConstantsAssumption DEF Maybe, Calls, NoCall
    <2>2. PICK m \in Bad : \A k \in Bad : m <= k
      <3> HIDE DEF Bad
      <3> QED BY <2>1, LeastOf
    <2>3. m \in Calls /\ SettledNode(m)
      BY <2>2 DEF Covered, Maybe
    <2>4. PICK d \in Calls : Covered(m, d) /\ ~Over(d)
      BY <2>2
    <2>5. CASE node[m] = "Skipped"
      <3>1. d # m
        BY <2>3, <2>4, <2>5, StatusIs DEF QueueInv, Received
      <3>2. d \in behind[m] /\ Covered(pred[m], d)
        BY <2>3, <2>4, <3>1 DEF Covered, QueueInv, Chained
      <3>3. SettledNode(pred[m])
        BY <2>3, <2>5, SettledIs DEF QueueInv, Places
      <3>4. pred[m] \in Maybe /\ ~(m <= pred[m])
        BY <2>3, ConstantsAssumption DEF QueueInv, Places, Descends, Maybe, Calls, NoCall
      <3> QED BY <2>2, <2>4, <3>2, <3>3, <3>4
    <2>6. CASE node[m] # "Skipped"
      <3>1. node[m] = "Finished"
        BY <2>3, <2>6, SettledIs DEF QueueInv, Places
      <3> QED BY <2>3, <2>4, <3>1 DEF Covered, QueueInv, Chained
    <2> QED BY <2>5, <2>6
  <1> QED BY <1>1

-----------------------------------------------------------------------------
(* Every step is one of the contract's, or changes nothing the contract    *)
(* tells of.                                                               *)

Owed(r) == IF r.delivery = "Registered" THEN "Owed" ELSE r.delivery
SameReceipts == \A c \in Calls : Owed(call'[c]) = Owed(call[c])

LEMMA ReceiptIs == receipt = [c \in Calls |-> Owed(call[c])]
  BY DEF receipt, Owed

LEMMA StatusNext ==
    /\ status = [c \in Calls |-> status[c]] /\ status' = [c \in Calls |-> status'[c]]
    /\ receipt' = [c \in Calls |-> Owed(call'[c])]
    /\ \A c \in Calls :
        /\ pc'[c] = "new" => status'[c] = "New"
        /\ pc'[c] \in Waiting => status'[c] = "Waiting"
        /\ pc'[c] = "running" => status'[c] = "Running"
        /\ pc'[c] \in Answering /\ active'[IdOf[c]] = c => status'[c] = "Answered"
        /\ pc'[c] \in Answering /\ active'[IdOf[c]] # c => status'[c] = "Over"
        /\ pc'[c] \in {"settling", "over"} => status'[c] = "Over"
  <1>1. /\ status = [c \in Calls |-> status[c]]
        /\ status' = [c \in Calls |-> status'[c]]
    BY DEF status
  <1>2. receipt' = [c \in Calls |-> Owed(call'[c])]
    BY DEF receipt, Owed
  <1> QED BY <1>1, <1>2 DEF status, IsActive, Waiting, Answering

(* A call stays in its status when neither its place nor its registration  *)
(* changes.                                                                *)
LEMMA StatusSame ==
    ASSUME NEW b \in Calls, pc \in [Calls -> Labels], pc'[b] = pc[b],
           IsActive(b) <=> active'[IdOf[b]] = b
    PROVE  status'[b] = status[b]
  BY StatusIs, StatusNext DEF Labels, Waiting, Answering, Over

LEMMA CloseRefines ==
    ASSUME QueueInv, NEW reason, Close(reason), UNCHANGED pc
    PROVE  Contract!TakeBack(ActiveCalls)
  <1>1. /\ pc \in [Calls -> Labels] /\ call \in [Calls -> CallStates] /\ active \in [Ids -> Maybe]
        /\ active' = [i \in Ids |-> NoCall] /\ UNCHANGED behind
        /\ call' = [c \in Calls |-> IF c \in ActiveCalls THEN Abandoned(call[c]) ELSE call[c]]
    BY DEF QueueInv, Ownership, Types, Close, rest
  <1>2. \A c \in Calls : c \in ActiveCalls <=> IsActive(c)
    BY <1>1, CallsFinite, ConstantsAssumption
       DEF QueueInv, Ownership, ActiveIds, ActiveCalls, IsActive, Maybe
  <1>3. \A c \in Calls : active'[IdOf[c]] # c
    BY <1>1, CallsFinite, ConstantsAssumption
  <1>4. \A c \in ActiveCalls : c \in Calls /\ status[c] \in {"Running", "Answered"}
    BY <1>1, <1>2, StatusIs DEF QueueInv, Owing, ActiveCalls, Maybe, IsActive
  <1>5. \A c \in Calls : status'[c] = IF c \in ActiveCalls /\ status[c] = "Answered" THEN "Over" ELSE status[c]
    BY <1>1, <1>2, <1>3, StatusIs, StatusNext DEF Labels, Waiting, Answering, Over
  <1>6. \A c \in Calls : Owed(call'[c]) = IF c \in ActiveCalls /\ Owed(call[c]) = "Owed"
                                          THEN "Returned" ELSE Owed(call[c])
    BY <1>1 DEF Owed, Abandoned, Cancelled, Settle, CallStates, Acknowledgments
  <1>7. /\ status' = [c \in Calls |->
                        IF c \in ActiveCalls /\ status[c] = "Answered" THEN "Over" ELSE status[c]]
        /\ receipt' = [c \in Calls |-> IF c \in ActiveCalls /\ receipt[c] = "Owed"
                                       THEN "Returned" ELSE receipt[c]]
    BY <1>5, <1>6, ReceiptIs, StatusNext
  <1> QED BY <1>1, <1>4, <1>7 DEF Contract!TakeBack

(* One call changes its status, and possibly its receipt.                  *)
LEMMA OneMoves ==
    ASSUME QueueInv, NEW c \in Calls, NEW label, NEW r,
           pc' = [pc EXCEPT ![c] = label], call' = [call EXCEPT ![c] = r],
           \A b \in Calls : b # c => (IsActive(b) <=> active'[IdOf[b]] = b)
    PROVE  /\ status' = [status EXCEPT ![c] = status'[c]]
           /\ receipt' = [receipt EXCEPT ![c] = Owed(r)]
  <1>1. pc \in [Calls -> Labels] /\ call \in [Calls -> CallStates]
    BY DEF QueueInv, Ownership, Types
  <1>2. \A b \in Calls : b # c => status'[b] = status[b]
    BY <1>1, StatusSame
  <1>3. \A b \in Calls : Owed(call'[b]) = IF b = c THEN Owed(r) ELSE Owed(call[b])
    BY <1>1
  <1>4. \A b \in Calls : status'[b] = [status EXCEPT ![c] = status'[c]][b]
    BY <1>2, StatusNext
  <1>5. \A b \in Calls : receipt'[b] = [receipt EXCEPT ![c] = Owed(r)][b]
    BY <1>3, ReceiptIs, StatusNext
  <1> QED BY <1>4, <1>5, ReceiptIs, StatusNext

LEMMA NoneMoves ==
    ASSUME QueueInv, SameReceipts, UNCHANGED behind,
           \A b \in Calls : status'[b] = status[b]
    PROVE  UNCHANGED Contract!vars
  BY StatusNext, ReceiptIs DEF SameReceipts, Contract!vars

(* A registration that is replaced would be that of a response still being *)
(* written, behind which its successor would have to wait.                 *)
LEMMA NoneReplaced ==
    ASSUME QueueInv, NEW c \in Calls, Admit(c)
    PROVE  active[IdOf[c]] = NoCall
  <1> SUFFICES ASSUME active[IdOf[c]] # NoCall PROVE FALSE
    OBVIOUS
  <1>1. pc[active[IdOf[c]]] = "visible" /\ node[c] = "Waiting"
    BY DEF QueueInv, Owing, Admit, At, Waiting
  <1>2. ~(pending_writes > 0)
    BY <1>1 DEF Admit, ResponseGateActive
  <1>3. Writers = {}
    <2>0. Writers \in SUBSET Calls
      BY DEF Writers
    <2>1. Cardinality(Writers) \in Nat /\ pending_writes = Cardinality(Writers)
      BY <2>0, WritersFinite DEF QueueInv, WritesCounted
    <2>2. Cardinality(Writers) = 0
      BY <1>2, <2>1
    <2> QED BY <2>0, <2>2, WritersFinite
  <1>4. active[IdOf[c]] \in Calls
    BY ConstantsAssumption DEF QueueInv, Ownership, Types, Maybe
  <1> QED BY <1>1, <1>3, <1>4 DEF Writers, Writing

LEMMA ReceiveRefines ==
    ASSUME QueueInv, NEW c \in Calls, Receive(c)
    PROVE  Contract!Next
  <1>1. CASE Close("Early") /\ UNCHANGED pc
    <2>1. ActiveCalls \in SUBSET Calls
      BY DEF ActiveCalls, QueueInv, Ownership, Types, Maybe
    <2> QED BY <1>1, <2>1, CloseRefines DEF Contract!Next
  <1>2. CASE ~(Close("Early") /\ UNCHANGED pc)
    <2>1. /\ pc[c] = "new" /\ UNCHANGED <<active, call>>
          /\ behind' = [behind EXCEPT ![c] = {b \in Calls : node[b] = "Waiting"}]
      BY <1>2 DEF Receive, At
    <2>2. PICK label \in Waiting : pc' = [pc EXCEPT ![c] = label]
      BY <1>2 DEF Receive, Goto, Waiting
    <2>3. call' = [call EXCEPT ![c] = call[c]]
      BY <2>1 DEF QueueInv, Ownership, Types
    <2>4. status' = [status EXCEPT ![c] = status'[c]] /\ receipt' = [receipt EXCEPT ![c] = Owed(call[c])]
      BY <2>1, <2>2, <2>3, OneMoves DEF IsActive
    <2>5. pc'[c] = label
      BY <2>2 DEF QueueInv, Ownership, Types
    <2>6. status[c] = "New" /\ status'[c] = "Waiting"
      BY <2>1, <2>2, <2>5, StatusIs, StatusNext
    <2>7. receipt' = receipt
      BY <2>4, ReceiptIs
    <2>8. {b \in Calls : node[b] = "Waiting"} \subseteq {b \in Calls : status[b] = "Waiting"}
      BY StatusIs DEF QueueInv, Received
    <2>9. Contract!Accept(c)
      BY <2>1, <2>4, <2>6, <2>7, <2>8 DEF Contract!Accept
    <2> QED BY <2>9 DEF Contract!Next
  <1> QED BY <1>1, <1>2

LEMMA CancelRefines ==
    ASSUME QueueInv, NEW i \in Ids, Cancel(i)
    PROVE  [Contract!Next]_(Contract!vars)
  <1> DEFINE c == IF CancelsPending(i) THEN NoCall ELSE active[i]
  <1>1. /\ call' = IF c # NoCall THEN [call EXCEPT ![c] = Cancelled(@)] ELSE call
        /\ active' = IF c # NoCall /\ call[c].finished THEN [active EXCEPT ![i] = NoCall] ELSE active
        /\ UNCHANGED <<pc, behind>> /\ ~closed
    BY DEF Cancel, CancelRemoves, rest
  <1>0. c # NoCall => c = active[i]
    OBVIOUS
  <1> HIDE DEF c
  <1>2. /\ pc \in [Calls -> Labels] /\ call \in [Calls -> CallStates] /\ active \in [Ids -> Maybe]
    BY DEF QueueInv, Ownership, Types
  <1>3. CASE c = NoCall
    <2>1. UNCHANGED <<active, call>>
      BY <1>1, <1>3
    <2>2. \A b \in Calls : status'[b] = status[b]
      BY <1>1, <1>2, <2>1, StatusSame DEF IsActive
    <2> QED BY <1>1, <2>1, <2>2, NoneMoves DEF SameReceipts
  <1>4. CASE c # NoCall
    <2>1. c \in Calls /\ IdOf[c] = i /\ IsActive(c)
      BY <1>0, <1>2, <1>4 DEF QueueInv, Ownership, ActiveIds, IsActive, Maybe
    <2>2. \/ pc[c] = "running" /\ ~call[c].finished
          \/ pc[c] \in Answering /\ call[c].finished
      <3>1. active[i] = c /\ pc[c] \in {"running"} \cup Answering
        BY <1>0, <1>4 DEF QueueInv, Owing
      <3>2. pc[c] = "running" => ~call[c].finished
        BY <1>1, <2>1 DEF QueueInv, Ownership, Registered
      <3>3. pc[c] \in Answering => call[c].finished
        BY <2>1 DEF QueueInv, Owing
      <3> QED BY <3>1, <3>2, <3>3
    <2>3. \A b \in Calls : b # c => (IsActive(b) <=> active'[IdOf[b]] = b)
      BY <1>1, <1>2, <2>1, CallsFinite, ConstantsAssumption DEF IsActive
    <2>4. active'[IdOf[c]] = c <=> ~call[c].finished
      BY <1>0, <1>1, <1>2, <1>4, <2>1 DEF IsActive
    <2>5. pc'[c] = pc[c]
      BY <1>1
    <2>6. \/ status[c] = "Running" /\ status'[c] = "Running"
          \/ status[c] = "Answered" /\ status'[c] = "Over"
      BY <2>1, <2>2, <2>4, <2>5, StatusIs, StatusNext
    <2>7. \A b \in Calls : b # c => status'[b] = status[b]
      BY <1>1, <1>2, <2>3, StatusSame
    <2>8. \A b \in Calls : Owed(call'[b]) = IF b = c /\ Owed(call[b]) = "Owed" THEN "Returned" ELSE Owed(call[b])
      BY <1>1, <1>2, <1>4, <2>1 DEF Owed, Cancelled, Settle, CallStates, Acknowledgments
    <2>9. /\ status' = [b \in Calls |-> IF b \in {c} /\ status[b] = "Answered" THEN "Over" ELSE status[b]]
          /\ receipt' = [b \in Calls |-> IF b \in {c} /\ receipt[b] = "Owed" THEN "Returned" ELSE receipt[b]]
      BY <2>6, <2>7, <2>8, ReceiptIs, StatusNext
    <2>10. Contract!TakeBack({c})
      BY <1>1, <2>6, <2>9 DEF Contract!TakeBack
    <2> QED BY <2>1, <2>10 DEF Contract!Next
  <1> QED BY <1>3, <1>4

LEMMA AdmitRefines ==
    ASSUME QueueInv, NEW c \in Calls, Admit(c)
    PROVE  Contract!Start(c)
  <1>1. /\ pc[c] = "gate" /\ ~closed /\ pc' = [pc EXCEPT ![c] = "running"]
        /\ active' = [active EXCEPT ![IdOf[c]] = c] /\ UNCHANGED behind
    BY DEF Admit, At, Goto, rest
  <1>2. pc \in [Calls -> Labels] /\ call \in [Calls -> CallStates] /\ active \in [Ids -> Maybe]
    BY DEF QueueInv, Ownership, Types
  <1>3. active[IdOf[c]] = NoCall
    BY NoneReplaced
  <1>4. call' = [call EXCEPT ![c] = [call[c] EXCEPT !.live = TRUE]]
    BY <1>2, <1>3 DEF Admit
  <1>5. \A b \in Calls : b # c => (IsActive(b) <=> active'[IdOf[b]] = b)
    BY <1>1, <1>2, <1>3, CallsFinite, ConstantsAssumption DEF IsActive
  <1>6. Owed([call[c] EXCEPT !.live = TRUE]) = Owed(call[c])
    BY <1>2 DEF Owed, CallStates
  <1>7. /\ status' = [status EXCEPT ![c] = status'[c]]
        /\ receipt' = [receipt EXCEPT ![c] = Owed(call[c])]
    <2>1. PICK r : r = [call[c] EXCEPT !.live = TRUE]
      OBVIOUS
    <2>2. call' = [call EXCEPT ![c] = r] /\ Owed(r) = Owed(call[c])
      BY <1>4, <1>6, <2>1
    <2>3. pc' = [pc EXCEPT ![c] = "running"]
      BY <1>1
    <2>4. \A b \in Calls : b # c => (IsActive(b) <=> active'[IdOf[b]] = b)
      BY <1>5
    <2>5. /\ status' = [status EXCEPT ![c] = status'[c]]
          /\ receipt' = [receipt EXCEPT ![c] = Owed(r)]
      BY <2>2, <2>3, <2>4, OneMoves
    <2> QED BY <2>2, <2>5
  <1>8. pc'[c] = "running"
    BY <1>1, <1>2
  <1>9. status[c] = "Waiting" /\ status'[c] = "Running" /\ receipt' = receipt
    BY <1>1, <1>7, <1>8, StatusIs, StatusNext, ReceiptIs DEF Waiting
  <1>10. \A b \in behind[c] : status[b] = "Over"
    BY <1>1 DEF QueueInv, Chained, Over
  <1> QED BY <1>1, <1>7, <1>9, <1>10 DEF Contract!Start

LEMMA DropRefines ==
    ASSUME QueueInv, NEW c \in Calls, DropAdmission(c)
    PROVE  Contract!Skip(c)
  <1>1. /\ pc[c] \in Waiting /\ pc' = [pc EXCEPT ![c] = "over"] /\ UNCHANGED <<active, call, behind>>
    BY DEF DropAdmission, Goto, rest, Waiting
  <1>2. pc \in [Calls -> Labels] /\ call \in [Calls -> CallStates]
    BY DEF QueueInv, Ownership, Types
  <1>3. call' = [call EXCEPT ![c] = call[c]]
    BY <1>1, <1>2
  <1>4. /\ status' = [status EXCEPT ![c] = status'[c]]
        /\ receipt' = [receipt EXCEPT ![c] = Owed(call[c])]
    BY <1>1, <1>3, OneMoves DEF IsActive
  <1>5. pc'[c] = "over"
    BY <1>1, <1>2
  <1>6. status[c] = "Waiting" /\ status'[c] = "Over" /\ receipt' = receipt
    BY <1>1, <1>4, <1>5, StatusIs, StatusNext, ReceiptIs
  <1> QED BY <1>1, <1>4, <1>6 DEF Contract!Skip

LEMMA RegisterRefines ==
    ASSUME QueueInv, NEW c \in Calls, Register(c)
    PROVE  Contract!Owe(c)
  <1>0. PICK r : r = [call[c] EXCEPT !.delivery = IF Registers(c) THEN "Registered" ELSE "Returned"]
    OBVIOUS
  <1>1. /\ pc[c] = "running" /\ call[c].delivery = "None" /\ UNCHANGED <<pc, active, behind>>
        /\ call' = [call EXCEPT ![c] = r]
    BY <1>0 DEF Register, At, gate, rest
  <1>2. pc \in [Calls -> Labels] /\ call \in [Calls -> CallStates]
    BY DEF QueueInv, Ownership, Types
  <1>3. pc' = [pc EXCEPT ![c] = "running"] /\ pc'[c] = pc[c]
    BY <1>1, <1>2
  <1>4. /\ status' = [status EXCEPT ![c] = status'[c]]
        /\ receipt' = [receipt EXCEPT ![c] = Owed(r)]
    <2>1. \A b \in Calls : b # c => (IsActive(b) <=> active'[IdOf[b]] = b)
      BY <1>1 DEF IsActive
    <2>2. call' = [call EXCEPT ![c] = r]
      BY <1>1
    <2>3. pc' = [pc EXCEPT ![c] = "running"]
      BY <1>3
    <2> QED BY <2>1, <2>2, <2>3, OneMoves
  <1>5. status'[c] = status[c]
    BY <1>1, <1>2, <1>3, StatusSame DEF IsActive
  <1>6. UNCHANGED status
    BY <1>4, <1>5, StatusNext
  <1>7. Owed(r) \in {"Owed", "Returned"} /\ receipt[c] = "None"
    BY <1>0, <1>1, <1>2, ReceiptIs DEF Owed, CallStates
  <1>8. status[c] = "Running"
    BY <1>1, StatusIs
  <1> QED BY <1>1, <1>4, <1>6, <1>7, <1>8 DEF Contract!Owe

(* A call is over, and its acknowledgment is settled if it was owed.       *)
LEMMA LeaveRefines ==
    ASSUME QueueInv, NEW c \in Calls, NEW label, NEW r,
           pc' = [pc EXCEPT ![c] = label], call' = [call EXCEPT ![c] = r], UNCHANGED behind,
           \A b \in Calls : b # c => (IsActive(b) <=> active'[IdOf[b]] = b),
           status[c] \in {"Running", "Answered"}, status'[c] = "Over",
           \/ /\ call[c].delivery = "Registered" /\ r.delivery \in {"Delivered", "Returned"}
              /\ r.delivery = "Delivered" => status[c] = "Answered"
           \/ call[c].delivery # "Registered" /\ r.delivery = call[c].delivery
    PROVE  Contract!Finish(c)
  <1>1. /\ status' = [status EXCEPT ![c] = "Over"]
        /\ receipt' = [receipt EXCEPT ![c] = Owed(r)]
    BY OneMoves
  <1>2. receipt[c] = Owed(call[c])
    BY ReceiptIs
  <1>3. call[c].delivery \in Acknowledgments
    BY DEF QueueInv, Ownership, Types, CallStates
  <1>4. CASE call[c].delivery = "Registered"
    <2>1. receipt[c] = "Owed" /\ Owed(r) = r.delivery
      BY <1>2, <1>4 DEF Owed
    <2> QED BY <1>1, <1>4, <2>1 DEF Contract!Finish
  <1>5. CASE call[c].delivery # "Registered"
    <2>1. receipt[c] # "Owed" /\ Owed(r) = receipt[c]
      BY <1>2, <1>3, <1>5 DEF Owed, Acknowledgments
    <2>2. receipt' = receipt
      BY <1>1, <2>1, ReceiptIs
    <2> QED BY <1>1, <2>1, <2>2 DEF Contract!Finish
  <1> QED BY <1>4, <1>5

(* The end of an operation, completed or dropped.                          *)
LEMMA OperationRefines ==
    ASSUME QueueInv, NEW c \in Calls, pc[c] = "running", NEW completed \in BOOLEAN,
           FinishOperation(c, completed), UNCHANGED behind,
           pc' = [pc EXCEPT ![c] = IF completed THEN "answered" ELSE "over"]
    PROVE  Contract!Answer(c) \/ Contract!Finish(c)
  <1>1. /\ pc \in [Calls -> Labels] /\ call \in [Calls -> CallStates] /\ active \in [Ids -> Maybe]
        /\ status[c] = "Running"
    BY StatusIs DEF QueueInv, Ownership, Types
  <1>2. PICK label \in {"answered", "over"} :
           pc' = [pc EXCEPT ![c] = label] /\ label = IF completed THEN "answered" ELSE "over"
    OBVIOUS
  <1>3. pc'[c] = label
    BY <1>1, <1>2
  <1>4. CASE IsActive(c) /\ (~completed \/ ~call[c].live)
    <2>1. PICK r : r = Abandoned(call[c])
      OBVIOUS
    <2>2. /\ call' = [call EXCEPT ![c] = r] /\ active' = [active EXCEPT ![IdOf[c]] = NoCall]
      BY <1>4, <2>1 DEF FinishOperation
    <2>3. \A b \in Calls : b # c => (IsActive(b) <=> active'[IdOf[b]] = b)
      BY <1>1, <1>4, <2>2, CallsFinite, ConstantsAssumption DEF IsActive
    <2>4. active'[IdOf[c]] # c
      BY <1>1, <2>2, CallsFinite, ConstantsAssumption
    <2>5. status'[c] = "Over"
      BY <1>3, <2>4, StatusNext DEF Answering
    <2>6. \/ call[c].delivery = "Registered" /\ r.delivery = "Returned"
          \/ call[c].delivery # "Registered" /\ r.delivery = call[c].delivery
      BY <1>1, <2>1 DEF Abandoned, Cancelled, Settle, CallStates
    <2> QED BY <1>1, <1>2, <2>2, <2>3, <2>5, <2>6, LeaveRefines
  <1>5. CASE ~IsActive(c)
    <2>1. UNCHANGED <<call, active>>
      BY <1>5 DEF FinishOperation
    <2>2. call' = [call EXCEPT ![c] = call[c]] /\ call[c].delivery # "Registered"
      BY <1>1, <1>5, <2>1 DEF QueueInv, Owing
    <2>3. \A b \in Calls : b # c => (IsActive(b) <=> active'[IdOf[b]] = b)
      BY <2>1 DEF IsActive
    <2>4. status'[c] = "Over"
      BY <1>3, <1>5, <2>1, StatusNext DEF Answering, IsActive
    <2>5. PICK r : r = call[c]
      OBVIOUS
    <2>6. call' = [call EXCEPT ![c] = r] /\ r.delivery = call[c].delivery
      BY <2>2, <2>5
    <2> QED BY <1>1, <1>2, <2>2, <2>3, <2>4, <2>6, LeaveRefines
  <1>6. CASE IsActive(c) /\ completed /\ call[c].live
    <2>1. PICK r : r = [call[c] EXCEPT !.finished = TRUE]
      OBVIOUS
    <2>2. call' = [call EXCEPT ![c] = r] /\ UNCHANGED active
      BY <1>6, <2>1 DEF FinishOperation
    <2>3. \A b \in Calls : b # c => (IsActive(b) <=> active'[IdOf[b]] = b)
      BY <2>2 DEF IsActive
    <2>4. Owed(r) = Owed(call[c])
      BY <1>1, <2>1 DEF Owed, CallStates
    <2>5. /\ status' = [status EXCEPT ![c] = status'[c]]
          /\ receipt' = [receipt EXCEPT ![c] = Owed(r)]
      <3>1. pc' = [pc EXCEPT ![c] = "answered"]
        BY <1>2, <1>6
      <3>2. call' = [call EXCEPT ![c] = r]
        BY <2>2
      <3> QED BY ONLY QueueInv, c \in Calls, <2>3, <3>1, <3>2, OneMoves
    <2>6. receipt' = receipt
      BY <2>4, <2>5, ReceiptIs
    <2>7. status'[c] = "Answered"
      BY <1>2, <1>3, <1>6, <2>2, StatusNext DEF Answering, IsActive
    <2> QED BY <1>1, <2>5, <2>6, <2>7 DEF Contract!Answer
  <1> QED BY <1>4, <1>5, <1>6

LEMMA SendRefines ==
    ASSUME QueueInv, NEW c \in Calls, Send(c)
    PROVE  UNCHANGED Contract!vars
  <1>1. /\ pc[c] = "answered" /\ UNCHANGED <<active, call, behind>>
        /\ pc' = [pc EXCEPT ![c] = IF pool[IdOf[c]] = c /\ IsActive(c) THEN "writing" ELSE "over"]
    BY DEF Send, At, Goto, gate, rest
  <1>2. pc \in [Calls -> Labels]
    BY DEF QueueInv, Ownership, Types
  <1>3. pc'[c] = IF IsActive(c) THEN "writing" ELSE "over"
    BY <1>1, <1>2 DEF QueueInv, Owing, Answering
  <1>4. status'[c] = status[c]
    BY <1>1, <1>3, StatusIs, StatusNext DEF Answering, IsActive, Over
  <1>5. \A b \in Calls : b # c => status'[b] = status[b]
    BY <1>1, <1>2, StatusSame DEF IsActive
  <1> QED BY <1>1, <1>4, <1>5, NoneMoves DEF SameReceipts

LEMMA TakeRefines ==
    ASSUME QueueInv, NEW c \in Calls, TakeWriteDelivery(c)
    PROVE  [Contract!Next]_(Contract!vars)
  <1>1. /\ pc[c] \in {"visible", "failed"} /\ pc' = [pc EXCEPT ![c] = "settling"] /\ UNCHANGED behind
    BY DEF TakeWriteDelivery, Goto, rest
  <1>2. /\ pc \in [Calls -> Labels] /\ call \in [Calls -> CallStates] /\ active \in [Ids -> Maybe]
        /\ pc'[c] = "settling" /\ status'[c] = "Over"
    BY <1>1, StatusNext DEF QueueInv, Ownership, Types
  <1>3. CASE IsActive(c)
    <2>1. PICK r : r = Written(call[c], IF At(c, "visible") THEN "Delivered" ELSE "Returned")
      OBVIOUS
    <2>2. /\ call' = [call EXCEPT ![c] = r] /\ active' = [active EXCEPT ![IdOf[c]] = NoCall]
      BY <1>3, <2>1 DEF TakeWriteDelivery
    <2>3. \A b \in Calls : b # c => (IsActive(b) <=> active'[IdOf[b]] = b)
      BY <1>2, <1>3, <2>2, CallsFinite, ConstantsAssumption DEF IsActive
    <2>4. status[c] = "Answered"
      BY <1>1, <1>3, StatusIs DEF Answering
    <2>5. \/ call[c].delivery = "Registered" /\ r.delivery \in {"Delivered", "Returned"}
          \/ call[c].delivery # "Registered" /\ r.delivery = call[c].delivery
      BY <1>2, <2>1 DEF Written, Settle, CallStates
    <2>6. Contract!Finish(c)
      BY <1>1, <1>2, <2>2, <2>3, <2>4, <2>5, LeaveRefines
    <2> QED BY <2>6 DEF Contract!Next
  <1>4. CASE ~IsActive(c)
    <2>1. UNCHANGED <<active, call>>
      BY <1>4 DEF TakeWriteDelivery
    <2>2. status[c] = "Over"
      BY <1>1, <1>4, StatusIs DEF Answering, Over
    <2>3. \A b \in Calls : b # c => status'[b] = status[b]
      BY <1>1, <1>2, <2>1, StatusSame DEF IsActive
    <2> QED BY <1>1, <1>2, <2>1, <2>2, <2>3, NoneMoves DEF SameReceipts
  <1> QED BY <1>3, <1>4

(* A handler or a write goes on, and nobody outside can tell.              *)
LEMMA QuietRefines ==
    ASSUME QueueInv, NEW c \in Calls,
           PredecessorSettled(c) \/ WriteSucceeds(c) \/ WriteFails(c) \/ SettleWrite(c)
    PROVE  UNCHANGED Contract!vars
  <1>1. /\ UNCHANGED <<active, call, behind>>
        /\ \E label \in {"gate", "visible", "failed", "over"} : pc' = [pc EXCEPT ![c] = label]
        /\ \/ pc[c] = "queued" /\ pc' = [pc EXCEPT ![c] = "gate"]
           \/ pc[c] = "writing" /\ pc' = [pc EXCEPT ![c] = "visible"]
           \/ pc[c] = "writing" /\ pc' = [pc EXCEPT ![c] = "failed"]
           \/ pc[c] = "settling" /\ pc' = [pc EXCEPT ![c] = "over"]
    BY DEF PredecessorSettled, WriteSucceeds, WriteFails, SettleWrite, At, Goto, gate, rest
  <1>2. pc \in [Calls -> Labels]
    BY DEF QueueInv, Ownership, Types
  <1>3. \/ pc[c] = "queued" /\ pc'[c] = "gate"
        \/ pc[c] = "writing" /\ pc'[c] \in {"visible", "failed"}
        \/ pc[c] = "settling" /\ pc'[c] = "over"
    BY <1>1, <1>2
  <1>4. status'[c] = status[c]
    BY <1>1, <1>3, StatusIs, StatusNext DEF Answering, Waiting, IsActive, Over
  <1>5. \A b \in Calls : b # c => pc'[b] = pc[b]
    BY <1>1, <1>2
  <1>6. \A b \in Calls : b # c => status'[b] = status[b]
    BY <1>1, <1>2, <1>5, StatusSame DEF IsActive
  <1> QED BY <1>1, <1>4, <1>6, NoneMoves DEF SameReceipts

LEMMA StepRefines ==
    ASSUME QueueInv, [Next]_vars
    PROVE  [Contract!Next]_(Contract!vars)
  <1>1. ASSUME NEW c \in Calls, Receive(c) PROVE Contract!Next
    BY <1>1, ReceiveRefines
  <1>2. ASSUME NEW c \in Calls, Admit(c) \/ DropAdmission(c) \/ Register(c) PROVE Contract!Next
    BY <1>2, AdmitRefines, DropRefines, RegisterRefines DEF Contract!Next
  <1>3. ASSUME NEW c \in Calls, CompleteOperation(c) \/ DropOperation(c) PROVE Contract!Next
    <2>1. CASE CompleteOperation(c)
      BY <2>1, OperationRefines DEF CompleteOperation, At, Goto, rest, Contract!Next
    <2>2. CASE DropOperation(c)
      BY <2>2, OperationRefines DEF DropOperation, At, Goto, rest, Contract!Next
    <2> QED BY <1>3, <2>1, <2>2
  <1>4. ASSUME NEW c \in Calls,
               \/ Send(c) \/ TakeWriteDelivery(c)
               \/ PredecessorSettled(c) \/ WriteSucceeds(c) \/ WriteFails(c) \/ AbandonWrite(c)
               \/ SettleWrite(c)
        PROVE  [Contract!Next]_(Contract!vars)
    BY <1>4, SendRefines, TakeRefines, QuietRefines DEF AbandonWrite
  <1>5. ASSUME NEW i \in Ids, Cancel(i) PROVE [Contract!Next]_(Contract!vars)
    BY <1>5, CancelRefines
  <1>6. ASSUME SettleBeforeClose \/ CloseTransport PROVE [Contract!Next]_(Contract!vars)
    <2>1. CASE \E reason \in {"Settled", "Early"} : Close(reason) /\ UNCHANGED pc
      <3>1. ActiveCalls \in SUBSET Calls
        BY DEF ActiveCalls, QueueInv, Ownership, Types, Maybe
      <3> QED BY <2>1, <3>1, CloseRefines DEF Contract!Next
    <2>2. CASE ~\E reason \in {"Settled", "Early"} : Close(reason) /\ UNCHANGED pc
      <3>1. UNCHANGED <<pc, active, call, behind>>
        BY <1>6, <2>2 DEF SettleBeforeClose, CloseTransport, gate, rest
      <3>2. \A b \in Calls : status'[b] = status[b]
        BY <3>1, StatusSame DEF IsActive, QueueInv, Ownership, Types
      <3> QED BY <3>1, <3>2, NoneMoves DEF SameReceipts
    <2> QED BY <2>1, <2>2
  <1>7. ASSUME StopReading \/ InputDrained \/ StartSettling \/ ShutdownEnds \/ UNCHANGED vars
        PROVE  [Contract!Next]_(Contract!vars)
    <2>1. UNCHANGED <<pc, active, call, behind>>
      BY <1>7 DEF StopReading, InputDrained, StartSettling, ShutdownEnds, vars, gate, rest
    <2>2. \A b \in Calls : status'[b] = status[b]
      BY <2>1, StatusSame DEF IsActive, QueueInv, Ownership, Types
    <2> QED BY <2>1, <2>2, NoneMoves DEF SameReceipts
  <1> QED BY <1>1, <1>2, <1>3, <1>4, <1>5, <1>6, <1>7 DEF Next

-----------------------------------------------------------------------------
(* The invariant of the queue is kept.                                     *)

LEMMA OverStays ==
    ASSUME QueueInv, [Next]_vars
    PROVE  \A c \in Calls : Over(c) => status'[c] = "Over"
  <1>1. status \in [Calls -> {"New", "Waiting", "Running", "Answered", "Over"}]
    BY DEF status
  <1>2. ASSUME NEW S \in SUBSET Calls, Contract!TakeBack(S)
        PROVE  \A c \in Calls : Over(c) => status'[c] = "Over"
    BY <1>2 DEF Contract!TakeBack, Over
  <1>3. ASSUME NEW b \in Calls,
               \/ Contract!Accept(b) \/ Contract!Start(b) \/ Contract!Skip(b) \/ Contract!Owe(b)
               \/ Contract!Answer(b) \/ Contract!Finish(b)
        PROVE  \A c \in Calls : Over(c) => status'[c] = "Over"
    BY <1>1, <1>3 DEF Contract!Accept, Contract!Start, Contract!Skip, Contract!Owe, Contract!Answer,
                      Contract!Finish, Over
  <1> QED BY <1>2, <1>3, StepRefines DEF Contract!Next, Contract!vars, Over

(* What an action does to the queue when it only lets nodes go on.         *)
LEMMA PlacesKept ==
    ASSUME QueueInv, node' \in [Calls -> Nodes], UNCHANGED <<pred, behind>>,
           reading' \in BOOLEAN, input_drained' \in BOOLEAN,
           \A c \in Calls : node[c] # "None" => node'[c] # "None",
           tail' = tail \/ tail' = NoCall \/ tail' = LastWaiting(node', tail),
           closed_by' \in {"No", "Settled", "Early"},
           shutdown' \in {"serving", "settling", "closing", "ended"}
    PROVE  /\ Places'
           /\ \A c \in Calls : pred'[c] # NoCall => node'[pred'[c]] # "None"
           /\ tail' # NoCall => node'[tail'] # "None"
           /\ tail' = LastWaiting(node', tail) /\ tail' # NoCall => node'[tail'] = "Waiting"
  <1>1. Descends(pred) /\ tail \in Maybe
    BY DEF QueueInv, Places
  <1>2. \A c \in Calls : pred[c] # NoCall => node'[pred[c]] # "None"
    BY DEF QueueInv, Places, Received, Maybe
  <1>3. tail # NoCall => node'[tail] # "None"
    BY DEF QueueInv, Places, Received, Maybe
  <1>4. PICK nodes : nodes = node'
    OBVIOUS
  <1>5. LET l == LastWaiting(nodes, tail) IN l \in Maybe /\ (l # NoCall => nodes[l] = "Waiting")
    BY <1>1, <1>2, <1>3, <1>4, LastTyped
  <1>6. tail' \in Maybe /\ (tail' # NoCall => node'[tail'] # "None")
    BY <1>1, <1>3, <1>4, <1>5 DEF Maybe
  <1>7. Descends(pred')
    BY <1>1
  <1>8. Places'
    BY <1>6, <1>7 DEF QueueInv, Places
  <1> QED BY <1>2, <1>4, <1>5, <1>6, <1>8

LEMMA ChainKept ==
    ASSUME QueueInv, [Next]_vars, node' \in [Calls -> Nodes], UNCHANGED <<pred, behind>>,
           tail' = tail \/ tail' = LastWaiting(node', tail),
           ~closed,
           \A c \in Calls : node'[c] = "Waiting" => node[c] = "Waiting",
           \A c \in Calls : node'[c] = "Admitted" => active'[IdOf[c]] = c,
           \A c \in Calls : node'[c] = "Finished" => status'[c] = "Over",
           \A c \in Calls : pc'[c] = "gate" \/ node'[c] \in {"Admitted", "Finished"} =>
                                pc[c] = "gate" \/ node[c] \in {"Admitted", "Finished"},
           \A c \in Calls : node'[c] = "Waiting" => pc'[c] \in Waiting
    PROVE  Chained'
  <1>1. \A c \in Calls : Over(c) => status'[c] = "Over"
    BY OverStays
  <1>2. /\ \A c \in Calls : behind[c] \subseteq Calls /\ pred[c] \in Maybe
        /\ Descends(pred) /\ tail \in Maybe /\ behind \in [Calls -> SUBSET Calls]
    BY DEF QueueInv, Places
  <1>3. \A c \in Calls : \A b \in behind[c] : status'[b] = "Over" \/ Covered(pred[c], b)
    BY <1>1, <1>2 DEF QueueInv, Chained
  <1>4. \A c \in Calls : pc'[c] = "gate" \/ node'[c] \in {"Admitted", "Finished"} =>
            \A b \in behind[c] : status'[b] = "Over"
    BY <1>1, <1>2 DEF QueueInv, Chained
  <1>5. PICK nodes \in [Calls -> Nodes] : nodes = node'
    OBVIOUS
  <1>6. PICK W : W = {b \in Calls : nodes[b] = "Waiting"}
    OBVIOUS
  <1>7. \A b \in W : b \in Calls /\ nodes[b] = "Waiting" /\ status'[b] = "Waiting"
    BY <1>5, <1>6, StatusNext
  <1>8. \A b \in W : Covered(tail, b)
    BY <1>5, <1>7 DEF QueueInv, Chained
  <1>9. \A m \in Calls : nodes[m] = "Skipped" => \A b \in W \cap behind[m] : Covered(pred[m], b)
    BY <1>3, <1>7
  <1>10. \A m \in Calls : nodes[m] \in {"Admitted", "Finished"} => W \cap behind[m] = {}
    BY <1>4, <1>5, <1>7
  <1>11. \A b \in W : Covered(LastWaiting(nodes, tail), b)
    <2>1. W \in SUBSET Calls
      BY <1>6
    <2> QED BY <1>2, <1>7, <1>8, <1>9, <1>10, <2>1, LastCovers
  <1>12. \A b \in Calls : node'[b] = "Waiting" => tail' # NoCall /\ (b = tail' \/ b \in behind[tail'])
    BY <1>5, <1>6, <1>8, <1>11 DEF Covered
  <1>13. \A c \in Calls : \A b \in behind'[c] :
            status'[b] = "Over" \/ (pred'[c] # NoCall /\ (b = pred'[c] \/ b \in behind'[pred'[c]]))
    BY <1>3 DEF Covered
  <1> QED BY <1>4, <1>12, <1>13 DEF Chained, Over, Covered, IsActive

LEMMA QueueTypes ==
    ASSUME QueueInv
    PROVE  /\ active \in [Ids -> Maybe] /\ pending \in [Ids -> Maybe] /\ pool \in [Ids -> Maybe]
           /\ pc \in [Calls -> Labels] /\ call \in [Calls -> CallStates] /\ IdOf \in [Calls -> Ids]
           /\ node \in [Calls -> Nodes] /\ pred \in [Calls -> Maybe] /\ tail \in Maybe
           /\ behind \in [Calls -> SUBSET Calls] /\ Descends(pred)
           /\ \A c \in Calls : c # NoCall /\ c \in Maybe
  BY CallsFinite, ConstantsAssumption DEF QueueInv, Ownership, Types, Places, Maybe

(* A visible response still counts as a pending write.                     *)
LEMMA WriterGates ==
    ASSUME QueueInv, NEW b \in Calls, pc[b] \in Writing
    PROVE  ResponseGateActive
  <1>1. b \in Writers /\ Writers \in SUBSET Calls
    BY DEF Writers
  <1>2. Cardinality(Writers) \in Nat /\ Cardinality(Writers) # 0
    BY <1>1, WritersFinite
  <1> QED BY <1>2 DEF QueueInv, WritesCounted, ResponseGateActive

LEMMA ReceiveKeeps ==
    ASSUME QueueInv, [Next]_vars, NEW c \in Calls, Receive(c), ~(Close("Early") /\ UNCHANGED pc)
    PROVE  Places' /\ Received' /\ Owing' /\ Chained'
  <1> DEFINE last == LastWaiting(node, tail)
             queued == ResponseGateActive \/ last # NoCall
             W == {b \in Calls : node[b] = "Waiting"}
  <1>1. /\ pc[c] = "new" /\ ~closed /\ IdIsFree(c) /\ \A b \in Calls : b < c => pc[b] # "new"
        /\ node' = [node EXCEPT ![c] = IF queued THEN "Waiting" ELSE "None"]
        /\ pred' = [pred EXCEPT ![c] = IF queued THEN last ELSE NoCall]
        /\ tail' = IF queued THEN c ELSE last
        /\ pool' = [pool EXCEPT ![IdOf[c]] = c]
        /\ behind' = [behind EXCEPT ![c] = W]
        /\ pc' = [pc EXCEPT ![c] = IF queued THEN "queued" ELSE "gate"]
        /\ UNCHANGED <<active, input_drained, closed_by, call, shutdown, reading>>
    BY DEF Receive, At, Goto
  <1>2. last \in Maybe /\ (last # NoCall => node[last] = "Waiting")
    BY QueueTypes, LastTyped DEF QueueInv, Received
  <1>3. \A b \in W : Covered(last, b)
    <2>1. W \in SUBSET Calls /\ \A b \in W : node[b] = "Waiting" /\ status[b] = "Waiting"
      BY StatusIs DEF QueueInv, Received
    <2>2. \A b \in W : Covered(tail, b)
      BY <1>1 DEF QueueInv, Chained
    <2>3. \A m \in Calls : node[m] = "Skipped" => \A b \in W \cap behind[m] : Covered(pred[m], b)
      BY <1>1, <2>1 DEF QueueInv, Chained, Over
    <2>4. \A m \in Calls : node[m] \in {"Admitted", "Finished"} => W \cap behind[m] = {}
      BY <1>1, <2>1 DEF QueueInv, Chained, Over
    <2>5. \A b \in W : node[b] = "Waiting"
      BY <2>1
    <2> HIDE DEF W
    <2> QED BY <2>1, <2>2, <2>3, <2>4, <2>5, QueueTypes, LastCovers
  <1>4. queued \/ (last = NoCall /\ W = {})
    BY <1>3 DEF Covered
  <1> HIDE DEF last, queued
  <1>5. \A b \in Calls : IdOf[b] = IdOf[c] => pc[b] \in {"new", "visible", "settling", "over"}
    BY <1>1 DEF IdIsFree
  <1>6. last < c
    <2>1. CASE last = NoCall
      BY <2>1, ConstantsAssumption DEF NoCall, Calls
    <2>2. CASE last # NoCall
      <3>1. last \in Calls /\ pc[last] # "new"
        BY <1>2, <2>2 DEF QueueInv, Received, Maybe, Waiting
      <3> QED BY <1>1, <3>1, ConstantsAssumption DEF QueueInv, Received, Calls
    <2> QED BY <2>1, <2>2
  <1>7. Places'
    <2>1. Descends(pred')
      BY <1>1, <1>2, <1>6, QueueTypes, ConstantsAssumption DEF Descends, Calls, NoCall, Maybe
    <2>2. tail' \in Maybe /\ pred' \in [Calls -> Maybe] /\ node' \in [Calls -> Nodes]
      BY <1>1, <1>2, QueueTypes DEF Nodes, Maybe
    <2>3. behind' \in [Calls -> SUBSET Calls]
      BY <1>1, QueueTypes
    <2> QED BY <1>1, <2>1, <2>2, <2>3 DEF QueueInv, Places
  <1>8. node[c] = "None" /\ c # last /\ c # tail /\ \A b \in Calls : pred[b] # c
    BY <1>1, <1>2, QueueTypes DEF QueueInv, Received
  <1>9. Received'
    <2>1. \A b, d \in Calls : b < d /\ pc'[d] # "new" => pc'[b] # "new"
      BY <1>1, QueueTypes DEF QueueInv, Received
    <2>2. ASSUME NEW b \in Calls, b # c
          PROVE  /\ pc'[b] = pc[b] /\ node'[b] = node[b] /\ pred'[b] = pred[b]
                 /\ pred[b] # NoCall => node'[pred[b]] # "None"
      BY <1>1, <1>8, <2>2, QueueTypes DEF QueueInv, Received, Maybe
    <2>3. /\ \/ node'[c] = "Waiting" /\ pc'[c] = "queued"
             \/ node'[c] = "None" /\ pc'[c] = "gate"
          /\ pred'[c] # NoCall => node'[pred'[c]] # "None"
      BY <1>1, <1>2, <1>8, QueueTypes DEF Maybe
    <2>4. tail' # NoCall => node'[tail'] # "None"
      BY <1>1, <1>2, <1>8, QueueTypes DEF Maybe
    <2>5. \A b \in Calls :
              /\ pc'[b] = "new" => node'[b] = "None"
              /\ pc'[b] = "queued" => node'[b] = "Waiting"
              /\ node'[b] = "Waiting" => pc'[b] \in Waiting
              /\ node'[b] = "Skipped" => pc'[b] = "over"
              /\ pred'[b] # NoCall => node'[pred'[b]] # "None"
      BY <2>2, <2>3 DEF QueueInv, Received, Waiting
    <2> QED BY <2>1, <2>4, <2>5 DEF Received
  <1>10. Owing'
    <2>1. \A b \in Calls : pc[b] \in {"running"} \cup Answering /\ pc[b] # "visible" => IdOf[b] # IdOf[c] /\ b # c
      BY <1>1, <1>5 DEF Answering
    <2>2. \A b \in Calls : b # c => pc'[b] = pc[b] /\ node'[b] = node[b]
      BY <1>1, QueueTypes
    <2>3. \A i \in Ids : active[i] # NoCall => active[i] \in Calls /\ active[i] # c /\ IdOf[active[i]] = i
      BY <1>1, QueueTypes DEF QueueInv, Owing, Ownership, ActiveIds, Maybe, Answering
    <2>4. active[IdOf[c]] # NoCall => pc[active[IdOf[c]]] = "visible" /\ queued
      <3>1. active[IdOf[c]] # NoCall => pc[active[IdOf[c]]] = "visible"
        BY <1>1, <2>1, <2>3, QueueTypes DEF QueueInv, Owing
      <3> QED BY <2>3, <3>1, QueueTypes, WriterGates DEF queued, Writing
    <2>5. pc'[c] \in Waiting /\ (queued => node'[c] = "Waiting")
      BY <1>1, QueueTypes DEF Waiting
    <2>6. \A b \in Calls : IdOf[b] # IdOf[c] => pool'[IdOf[b]] = pool[IdOf[b]]
      BY <1>1, QueueTypes
    <2>7. \A i \in Ids : active'[i] # NoCall => pc'[active'[i]] \in {"running"} \cup Answering
      BY <1>1, <2>2, <2>3 DEF QueueInv, Owing
    <2>8. \A b \in Calls :
              /\ call'[b].delivery = "Registered" => active'[IdOf[b]] = b
              /\ pc'[b] \in Answering /\ active'[IdOf[b]] = b => call'[b].finished
              /\ pc'[b] = "answered" /\ active'[IdOf[b]] = b => pool'[IdOf[b]] = b
              /\ pc'[b] = "running" /\ call'[b].live /\ ~closed => pool'[IdOf[b]] = b
      <3> SUFFICES ASSUME NEW b \in Calls
                   PROVE  /\ call[b].delivery = "Registered" => active[IdOf[b]] = b
                          /\ pc'[b] \in Answering /\ active[IdOf[b]] = b => call[b].finished
                          /\ pc'[b] = "answered" /\ active[IdOf[b]] = b => pool'[IdOf[b]] = b
                          /\ pc'[b] = "running" /\ call[b].live /\ ~closed => pool'[IdOf[b]] = b
        BY <1>1
      <3>1. CASE b = c
        BY <2>5, <3>1 DEF QueueInv, Owing, IsActive, Waiting, Answering
      <3>2. CASE b # c
        BY <2>1, <2>2, <2>6, <3>2 DEF QueueInv, Owing, IsActive, Answering
      <3> QED BY <3>1, <3>2
    <2>9. \A b \in Calls : pc'[b] \in Waiting /\ active'[IdOf[b]] # NoCall =>
              pc'[active'[IdOf[b]]] = "visible" /\ node'[b] = "Waiting"
      BY <1>1, <2>2, <2>3, <2>4, <2>5, QueueTypes DEF QueueInv, Owing
    <2>10. ~closed'
      BY <1>1 DEF closed
    <2> QED BY <1>1, <2>7, <2>8, <2>9, <2>10 DEF Owing, IsActive
  <1>11. Chained'
    <2>1. \A b \in Calls : Over(b) => status'[b] = "Over"
      BY OverStays
    <2>2. \A b \in Calls : b # c => /\ pc'[b] = pc[b] /\ node'[b] = node[b] /\ pred'[b] = pred[b]
                                    /\ behind'[b] = behind[b]
      BY <1>1, QueueTypes
    <2>3. behind'[c] = W /\ pred'[c] = IF queued THEN last ELSE NoCall
      BY <1>1, QueueTypes
    <2>4. \A m, b \in Calls : Covered(m, b) => m # NoCall /\ (m # c => b = m \/ b \in behind'[m])
      BY <2>2 DEF Covered
    <2>5. \A b \in Calls : b # c =>
            \A d \in behind'[b] : status'[d] = "Over" \/ (pred'[b] # NoCall /\ (d = pred'[b] \/ d \in behind'[pred'[b]]))
      <3> SUFFICES ASSUME NEW b \in Calls, b # c, NEW d \in behind[b], ~Over(d)
                   PROVE  pred[b] # NoCall /\ (d = pred[b] \/ d \in behind'[pred[b]])
        BY <2>1, <2>2, QueueTypes
      <3>1. Covered(pred[b], d) /\ pred[b] # c
        BY <1>1, <1>8 DEF QueueInv, Chained
      <3> QED BY <2>2, <3>1, QueueTypes DEF Covered, Maybe
    <2>6. \A d \in behind'[c] : pred'[c] # NoCall /\ (d = pred'[c] \/ d \in behind'[pred'[c]])
      BY <1>2, <1>3, <1>4, <1>8, <2>2, <2>3 DEF Covered, Maybe
    <2>7. \A b \in Calls : node'[b] = "Waiting" => tail' # NoCall /\ (b = tail' \/ b \in behind'[tail'])
      <3>1. CASE queued
        BY <1>1, <2>2, <2>3, <3>1, QueueTypes
      <3>2. CASE ~queued
        BY <1>1, <1>4, <3>2, QueueTypes
      <3> QED BY <3>1, <3>2
    <2>8. \A b \in Calls : pc'[b] = "gate" \/ node'[b] \in {"Admitted", "Finished"} =>
             \A d \in behind'[b] : status'[d] = "Over"
      <3>1. CASE queued
        BY <1>1, <2>1, <2>2, <3>1, QueueTypes DEF QueueInv, Chained
      <3>2. CASE ~queued
        BY <1>1, <1>4, <2>1, <2>2, <2>3, <3>2, QueueTypes DEF QueueInv, Chained
      <3> QED BY <3>1, <3>2
    <2>9. \A b \in Calls : /\ node'[b] = "Admitted" => active'[IdOf[b]] = b
                           /\ node'[b] = "Finished" => status'[b] = "Over"
      BY <1>1, <2>1, <2>2, QueueTypes DEF QueueInv, Chained, IsActive
    <2> QED BY <2>5, <2>6, <2>7, <2>8, <2>9 DEF Chained, Over, Covered, IsActive
  <1> QED BY <1>7, <1>9, <1>10, <1>11

LEMMA CloseKeeps ==
    ASSUME QueueInv, NEW reason \in {"Settled", "Early"}, Close(reason), UNCHANGED pc,
           shutdown' \in {"serving", "settling", "closing", "ended"}
    PROVE  Places' /\ Received' /\ Owing' /\ Chained'
  <1>1. /\ active' = [i \in Ids |-> NoCall] /\ node' = FinishAdmission(node, ActiveCalls) /\ tail' = NoCall
        /\ UNCHANGED <<pred, behind, reading, input_drained, pool>> /\ closed_by' = reason
        /\ call' = [c \in Calls |-> IF c \in ActiveCalls THEN Abandoned(call[c]) ELSE call[c]]
    BY DEF Close, rest
  <1>2. \A c \in Calls : node'[c] = node[c] \/ (node[c] = "Admitted" /\ node'[c] = "Finished")
    BY <1>1 DEF FinishAdmission
  <1>3. node' \in [Calls -> Nodes]
    BY <1>1, QueueTypes DEF FinishAdmission, Nodes
  <1>4. /\ Places'
        /\ \A c \in Calls : pred'[c] # NoCall => node'[pred'[c]] # "None"
        /\ tail' # NoCall => node'[tail'] # "None"
    <2>1. reading' \in BOOLEAN /\ input_drained' \in BOOLEAN
      BY <1>1 DEF QueueInv, Places
    <2> QED BY <1>1, <1>2, <1>3, <2>1, PlacesKept
  <1>5. Received'
    BY <1>2, <1>4 DEF QueueInv, Received
  <1>6. closed' /\ \A i \in Ids : active'[i] = NoCall
    BY <1>1 DEF closed
  <1>7. \A c \in Calls : call'[c].delivery # "Registered" /\ active'[IdOf[c]] # c
    <2>1. \A c \in Calls : c \in ActiveCalls <=> IsActive(c)
      BY QueueTypes, ConstantsAssumption DEF QueueInv, Ownership, ActiveIds, ActiveCalls, IsActive, Maybe
    <2>2. ASSUME NEW c \in Calls, IsActive(c) PROVE call'[c].delivery # "Registered"
      BY <1>1, <2>1, <2>2, QueueTypes DEF Abandoned, Cancelled, Settle, CallStates
    <2>3. ASSUME NEW c \in Calls, ~IsActive(c) PROVE call'[c].delivery # "Registered"
      BY <1>1, <2>1, <2>3 DEF QueueInv, Owing
    <2>4. \A c \in Calls : active'[IdOf[c]] # c
      BY <1>6, QueueTypes
    <2> QED BY <2>2, <2>3, <2>4
  <1>8. Owing'
    BY <1>6, <1>7, QueueTypes DEF Owing, IsActive
  <1> QED BY <1>4, <1>5, <1>6, <1>8 DEF Chained

(* One call moves on, and only its registration may end.                   *)
LEMMA OwingKept ==
    ASSUME QueueInv, NEW c \in Calls, NEW label, pc' = [pc EXCEPT ![c] = label],
           UNCHANGED closed_by,
           active' = active \/ (active' = [active EXCEPT ![IdOf[c]] = NoCall] /\ IsActive(c)),
           \A b \in Calls : b # c => call'[b] = call[b],
           \A b \in Calls : pc'[b] \in Waiting => node'[b] = node[b],
           \A i \in Ids : pool'[i] = pool[i] \/ (pool'[i] = NoCall /\ pool[i] = c),
           label \in Waiting => pc[c] \in Waiting,
           call'[c].delivery = "Registered" => active'[IdOf[c]] = c,
           active'[IdOf[c]] = c => label \in {"running"} \cup Answering,
           label \in Answering /\ active'[IdOf[c]] = c => call'[c].finished,
           label = "answered" /\ active'[IdOf[c]] = c => pool'[IdOf[c]] = c,
           label = "running" /\ call'[c].live /\ ~closed => pool'[IdOf[c]] = c,
           active' = active => pc[c] # "visible" \/ ~IsActive(c)
    PROVE  Owing'
  <1>1. pc'[c] = label /\ \A b \in Calls : b # c => pc'[b] = pc[b]
    BY QueueTypes
  <1>2. \A b \in Calls : b # c => (IsActive(b) <=> active'[IdOf[b]] = b)
    BY QueueTypes DEF IsActive
  <1>3. \A i \in Ids : active'[i] = active[i] \/ active'[i] = NoCall
    BY QueueTypes
  <1>4. \A b \in Calls : b # c => (pool'[IdOf[b]] = b <=> pool[IdOf[b]] = b)
    BY QueueTypes
  <1>5. closed' => \A i \in Ids : active'[i] = NoCall
    BY <1>3 DEF QueueInv, Owing, closed
  <1>6. \A i \in Ids : active'[i] # NoCall => pc'[active'[i]] \in {"running"} \cup Answering
    <2> SUFFICES ASSUME NEW i \in Ids, active'[i] # NoCall
                 PROVE  pc'[active'[i]] \in {"running"} \cup Answering
      OBVIOUS
    <2>1. active'[i] = active[i] /\ active[i] \in Calls /\ IdOf[active[i]] = i
      BY <1>3, QueueTypes DEF QueueInv, Ownership, ActiveIds, Maybe
    <2> QED BY <1>1, <2>1 DEF QueueInv, Owing
  <1>7. ASSUME NEW b \in Calls
        PROVE  /\ call'[b].delivery = "Registered" => active'[IdOf[b]] = b
               /\ pc'[b] \in Answering /\ active'[IdOf[b]] = b => call'[b].finished
               /\ pc'[b] = "answered" /\ active'[IdOf[b]] = b => pool'[IdOf[b]] = b
               /\ pc'[b] = "running" /\ call'[b].live /\ ~closed' => pool'[IdOf[b]] = b
    <2>0. ~closed' => ~closed
      BY DEF closed
    <2>1. CASE b = c
      BY <1>1, <2>0, <2>1
    <2>2. CASE b # c
      BY <1>1, <1>2, <1>4, <2>0, <2>2 DEF QueueInv, Owing
    <2> QED BY <2>1, <2>2
  <1>8. ASSUME NEW b \in Calls, pc'[b] \in Waiting, active'[IdOf[b]] # NoCall
        PROVE  pc'[active'[IdOf[b]]] = "visible" /\ node'[b] = "Waiting"
    <2>1. pc[b] \in Waiting /\ active'[IdOf[b]] = active[IdOf[b]]
      BY <1>1, <1>3, <1>8, QueueTypes
    <2>2. pc[active[IdOf[b]]] = "visible" /\ node[b] = "Waiting"
      BY <1>8, <2>1 DEF QueueInv, Owing
    <2>3. active[IdOf[b]] \in Calls /\ IsActive(active[IdOf[b]])
      BY <1>8, <2>1, QueueTypes DEF QueueInv, Ownership, ActiveIds, IsActive, Maybe
    <2>4. active[IdOf[b]] # c
      <3>1. CASE active' = active
        BY <2>2, <2>3, <3>1
      <3>2. CASE active' = [active EXCEPT ![IdOf[c]] = NoCall]
        BY <1>8, <2>1, <2>3, <3>2, QueueTypes DEF QueueInv, Ownership, ActiveIds
      <3> QED BY <3>1, <3>2
    <2> QED BY <1>1, <1>8, <2>1, <2>2, <2>3, <2>4
  <1> QED BY <1>5, <1>6, <1>7, <1>8 DEF Owing, IsActive

(* The queue when only admitted calls finish.                              *)
LEMMA FinishKeeps ==
    ASSUME QueueInv, [Next]_vars, NEW S \in SUBSET Calls,
           node' = FinishAdmission(node, S), UNCHANGED <<pred, behind, closed_by>>,
           reading' \in BOOLEAN, input_drained' \in BOOLEAN,
           shutdown' \in {"serving", "settling", "closing", "ended"},
           tail' = tail \/ tail' = LastWaiting(node', tail),
           \A c \in S : status'[c] = "Over",
           \A c \in Calls : c \notin S => (IsActive(c) => active'[IdOf[c]] = c),
           \A c \in Calls : \/ pc'[c] = pc[c]
                            \/ pc[c] \notin {"new", "over"} \cup Waiting /\ pc'[c] \notin {"new"} \cup Waiting
    PROVE  Places' /\ Received' /\ Chained'
  <1>1. \A c \in Calls : node'[c] = node[c] \/ (c \in S /\ node[c] = "Admitted" /\ node'[c] = "Finished")
    BY DEF FinishAdmission
  <1>2. node' \in [Calls -> Nodes]
    BY QueueTypes DEF FinishAdmission, Nodes
  <1>3. /\ Places'
        /\ \A c \in Calls : pred'[c] # NoCall => node'[pred'[c]] # "None"
        /\ tail' # NoCall => node'[tail'] # "None"
    BY <1>1, <1>2, PlacesKept DEF QueueInv, Places
  <1>4. Received'
    <2>1. \A b, c \in Calls : b < c /\ pc'[c] # "new" => pc'[b] # "new"
      BY DEF QueueInv, Received
    <2>2. \A c \in Calls : /\ pc'[c] = "new" => node'[c] = "None"
                           /\ pc'[c] = "queued" => node'[c] = "Waiting"
                           /\ node'[c] = "Waiting" => pc'[c] \in Waiting
                           /\ node'[c] = "Skipped" => pc'[c] = "over"
      BY <1>1 DEF QueueInv, Received, Waiting
    <2> QED BY <1>3, <2>1, <2>2 DEF Received
  <1>5. ASSUME closed PROVE Chained'
    <2>1. closed'
      BY <1>5 DEF closed
    <2> QED BY <2>1 DEF Chained
  <1>6. ASSUME ~closed PROVE Chained'
    <2>1. \A c \in Calls : Over(c) => status'[c] = "Over"
      BY OverStays
    <2>2. \A c \in Calls : node'[c] = "Waiting" => node[c] = "Waiting" /\ pc'[c] \in Waiting
      BY <1>1, <1>4 DEF Received
    <2>3. \A c \in Calls : node'[c] = "Admitted" => active'[IdOf[c]] = c
      <3> SUFFICES ASSUME NEW c \in Calls, node'[c] = "Admitted" PROVE active'[IdOf[c]] = c
        OBVIOUS
      <3>1. c \notin S /\ node[c] = "Admitted"
        BY <1>1 DEF FinishAdmission
      <3> QED BY <1>6, <3>1 DEF QueueInv, Chained
    <2>4. \A c \in Calls : node'[c] = "Finished" => status'[c] = "Over"
      BY <1>1, <1>6, <2>1 DEF QueueInv, Chained
    <2>5. \A c \in Calls : pc'[c] = "gate" \/ node'[c] \in {"Admitted", "Finished"} =>
                              pc[c] = "gate" \/ node[c] \in {"Admitted", "Finished"}
      BY <1>1 DEF Waiting
    <2>6. UNCHANGED <<pred, behind>>
      OBVIOUS
    <2> QED BY <1>2, <1>6, <2>2, <2>3, <2>4, <2>5, <2>6, ChainKept
  <1> QED BY <1>3, <1>4, <1>5, <1>6

LEMMA NobodyFinishes == QueueInv => node = FinishAdmission(node, {})
  BY QueueTypes DEF FinishAdmission

(* What changes neither the queue nor its waiting calls.                   *)
LEMMA SameKeeps ==
    ASSUME QueueInv, [Next]_vars, UNCHANGED gate, UNCHANGED <<behind, closed_by>>,
           reading' \in BOOLEAN, input_drained' \in BOOLEAN,
           shutdown' \in {"serving", "settling", "closing", "ended"},
           \A c \in Calls : \/ pc'[c] = pc[c]
                            \/ pc[c] \notin {"new", "over"} \cup Waiting /\ pc'[c] \notin {"new"} \cup Waiting
    PROVE  Places' /\ Received' /\ Chained'
  <1>1. node' = FinishAdmission(node, {})
    BY NobodyFinishes DEF gate
  <1>2. {} \in SUBSET Calls
    OBVIOUS
  <1>3. \A c \in Calls : IsActive(c) => active'[IdOf[c]] = c
    BY DEF gate, IsActive
  <1>4. UNCHANGED <<pred, tail>>
    BY DEF gate
  <1> QED BY <1>1, <1>2, <1>3, <1>4, FinishKeeps

LEMMA OwingSame ==
    ASSUME QueueInv, UNCHANGED <<active, call, pc, pool, node, closed_by>>
    PROVE  Owing'
  BY DEF QueueInv, Owing, IsActive, closed

LEMMA CancelKeeps ==
    ASSUME QueueInv, [Next]_vars, NEW i \in Ids, Cancel(i)
    PROVE  Places' /\ Received' /\ Owing' /\ Chained'
  <1> DEFINE c == IF CancelsPending(i) THEN NoCall ELSE active[i]
             S == IF c # NoCall /\ call[c].finished THEN {c} ELSE {}
  <1>1. /\ call' = IF c # NoCall THEN [call EXCEPT ![c] = Cancelled(@)] ELSE call
        /\ active' = IF c # NoCall /\ call[c].finished THEN [active EXCEPT ![i] = NoCall] ELSE active
        /\ node' = FinishAdmission(node, S) /\ tail' = LastWaiting(node', tail)
        /\ pool' = [pool EXCEPT ![i] = NoCall]
        /\ UNCHANGED <<pc, behind, pred, closed_by, input_drained, reading, shutdown>> /\ ~closed
    BY DEF Cancel, CancelRemoves, PruneTail, rest
  <1>2. c # NoCall => c = active[i] /\ pending[i] = NoCall
    BY DEF CancelsPending
  <1>3. c # NoCall => /\ c \in Calls /\ IdOf[c] = i /\ IsActive(c)
                      /\ \/ pc[c] = "running" /\ ~call[c].finished
                         \/ pc[c] \in Answering /\ call[c].finished
    <2> SUFFICES ASSUME c # NoCall PROVE /\ c \in Calls /\ IdOf[c] = i /\ IsActive(c)
                                         /\ \/ pc[c] = "running" /\ ~call[c].finished
                                            \/ pc[c] \in Answering /\ call[c].finished
      OBVIOUS
    <2> HIDE DEF c
    <2>1. c \in Calls /\ IdOf[c] = i /\ IsActive(c)
      BY <1>2, QueueTypes DEF QueueInv, Ownership, ActiveIds, IsActive, Maybe
    <2>2. pc[c] \in {"running"} \cup Answering
      BY <1>2 DEF QueueInv, Owing
    <2>3. pc[c] = "running" => ~call[c].finished
      BY <1>1, <2>1 DEF QueueInv, Ownership, Registered
    <2>4. pc[c] \in Answering => call[c].finished
      BY <2>1 DEF QueueInv, Owing
    <2> QED BY <2>1, <2>2, <2>3, <2>4
  <1>4. S \in SUBSET Calls /\ \A b \in Calls : b \in S <=> b = c /\ call[c].finished
    BY <1>3, QueueTypes
  <1> HIDE DEF S
  <1> HIDE DEF c
  <1>5. \A b \in Calls : b \in S => active'[IdOf[b]] # b /\ status'[b] = "Over"
    <2> SUFFICES ASSUME NEW b \in Calls, b \in S PROVE active'[IdOf[b]] # b /\ status'[b] = "Over"
      OBVIOUS
    <2>1. b = c /\ c # NoCall /\ call[c].finished /\ pc'[b] \in Answering
      BY <1>1, <1>3, <1>4, QueueTypes
    <2>2. active'[IdOf[b]] # b
      BY <1>1, <1>3, <2>1, QueueTypes
    <2> QED BY <2>1, <2>2, StatusNext
  <1>6. \A b \in Calls : b \notin S => (IsActive(b) <=> active'[IdOf[b]] = b)
    BY <1>1, <1>3, <1>4, QueueTypes DEF IsActive
  <1>7. Places' /\ Received' /\ Chained'
    <2>1. reading' \in BOOLEAN /\ input_drained' \in BOOLEAN /\ shutdown' \in {"serving", "settling", "closing", "ended"}
      BY <1>1 DEF QueueInv, Places
    <2>2. \A b \in S : status'[b] = "Over"
      BY <1>4, <1>5
    <2>3. \A b \in Calls : pc'[b] = pc[b]
      BY <1>1
    <2>4. \A b \in Calls : b \notin S => (IsActive(b) => active'[IdOf[b]] = b)
      BY <1>6
    <2> QED BY <1>1, <1>4, <2>1, <2>2, <2>3, <2>4, FinishKeeps
  <1>8. Owing'
    <2>1. \A b \in Calls : b # c => call'[b] = call[b]
      BY <1>1, <1>3, QueueTypes
    <2>2. c # NoCall => call'[c] = Cancelled(call[c])
      BY <1>1, <1>3, QueueTypes
    <2>3. \A b \in Calls : /\ call'[b].finished = call[b].finished
                           /\ call'[b].live => call[b].live /\ b # c
                           /\ call'[b].delivery = "Registered" => call[b].delivery = "Registered" /\ b # c
      <3> SUFFICES ASSUME NEW b \in Calls
                   PROVE  /\ call'[b].finished = call[b].finished
                          /\ call'[b].live => call[b].live /\ b # c
                          /\ call'[b].delivery = "Registered" => call[b].delivery = "Registered" /\ b # c
        OBVIOUS
      <3>1. CASE b # c
        BY <2>1, <3>1
      <3>2. CASE b = c
        <4>1. call'[b] = Cancelled(call[b]) /\ call[b] \in CallStates
          BY <2>2, <3>2, QueueTypes
        <4>2. /\ Cancelled(call[b]).finished = call[b].finished /\ ~Cancelled(call[b]).live
              /\ Cancelled(call[b]).delivery # "Registered"
          BY <4>1 DEF Cancelled, Settle, CallStates
        <4> QED BY <4>1, <4>2
      <3> QED BY <3>1, <3>2
    <2>4. \A b \in Calls : IdOf[b] # i => pool'[IdOf[b]] = pool[IdOf[b]]
      BY <1>1, QueueTypes
    <2>5. \A j \in Ids : active'[j] = active[j] \/ active'[j] = NoCall
      BY <1>1, QueueTypes
    <2>6. \A b \in Calls : b # c => (IsActive(b) <=> active'[IdOf[b]] = b)
      BY <1>4, <1>6
    <2>7. ASSUME NEW b \in Calls, pc[b] \in {"running", "answered"}, IsActive(b), IdOf[b] = i
          PROVE  b = c
      <3>1. pending[i] = NoCall
        <4> SUFFICES ASSUME pending[i] # NoCall PROVE FALSE
          OBVIOUS
        <4>1. pending[i] \in Calls /\ IdOf[pending[i]] = i /\ pc[pending[i]] \in Waiting
          BY QueueTypes DEF QueueInv, Ownership, PendingWaits, Maybe
        <4>2. pending[i] = b
          BY <2>7, <4>1 DEF QueueInv, Ownership, OneBusy, Busy, Waiting
        <4> QED BY <2>7, <4>1, <4>2 DEF Waiting
      <3>2. c = active[i]
        BY <3>1 DEF c, CancelsPending
      <3> QED BY <2>7, <3>2 DEF IsActive
    <2>8. closed' => \A j \in Ids : active'[j] = NoCall
      BY <1>1 DEF closed
    <2>9. \A j \in Ids : active'[j] # NoCall => pc'[active'[j]] \in {"running"} \cup Answering
      BY <1>1, <2>5 DEF QueueInv, Owing
    <2>10. ASSUME NEW b \in Calls
           PROVE  /\ call'[b].delivery = "Registered" => active'[IdOf[b]] = b
                  /\ pc'[b] \in Answering /\ active'[IdOf[b]] = b => call'[b].finished
                  /\ pc'[b] = "answered" /\ active'[IdOf[b]] = b => pool'[IdOf[b]] = b
                  /\ pc'[b] = "running" /\ call'[b].live /\ ~closed' => pool'[IdOf[b]] = b
      <3>1. call'[b].delivery = "Registered" => active'[IdOf[b]] = b
        BY <2>3, <2>6 DEF QueueInv, Owing
      <3>2. pc'[b] \in Answering /\ active'[IdOf[b]] = b => call'[b].finished
        <4>1. CASE b = c
          <5>1. call[b].finished \/ pc[b] = "running"
            BY <1>3, <4>1, QueueTypes
          <5> QED BY <1>1, <2>3, <5>1 DEF Answering
        <4>2. CASE b # c
          BY <1>1, <2>3, <2>6, <4>2 DEF QueueInv, Owing
        <4> QED BY <4>1, <4>2
      <3>3. pc'[b] = "answered" /\ active'[IdOf[b]] = b => pool'[IdOf[b]] = b
        <4> SUFFICES ASSUME pc[b] = "answered", active'[IdOf[b]] = b PROVE pool'[IdOf[b]] = b
          BY <1>1
        <4>1. IsActive(b) /\ pool[IdOf[b]] = b
          BY <2>5, QueueTypes DEF QueueInv, Owing, IsActive, Answering
        <4>2. b # c
          <5>1. ASSUME b = c PROVE FALSE
            <6>1. b \in S
              BY <1>3, <1>4, <5>1, QueueTypes DEF QueueInv, Owing, Answering
            <6> QED BY <1>5, <6>1
          <5> QED BY <5>1
        <4> QED BY <2>4, <2>7, <4>1, <4>2
      <3>4. pc'[b] = "running" /\ call'[b].live /\ ~closed' => pool'[IdOf[b]] = b
        <4> SUFFICES ASSUME pc[b] = "running", call'[b].live PROVE pool'[IdOf[b]] = b
          BY <1>1
        <4>1. IsActive(b) /\ pool[IdOf[b]] = b /\ b # c
          BY <1>1, <2>3 DEF QueueInv, Owing, Ownership, Registered
        <4> QED BY <2>4, <2>7, <4>1
      <3> QED BY <3>1, <3>2, <3>3, <3>4
    <2>11. ASSUME NEW b \in Calls, pc'[b] \in Waiting, active'[IdOf[b]] # NoCall
           PROVE  pc'[active'[IdOf[b]]] = "visible" /\ node'[b] = "Waiting"
      <3>1. active'[IdOf[b]] = active[IdOf[b]]
        BY <2>5, <2>11, QueueTypes
      <3>2. pc[active[IdOf[b]]] = "visible" /\ node[b] = "Waiting"
        BY <1>1, <2>11, <3>1 DEF QueueInv, Owing
      <3> QED BY <1>1, <3>1, <3>2 DEF FinishAdmission
    <2> QED BY <2>8, <2>9, <2>10, <2>11 DEF Owing, IsActive
  <1> QED BY <1>7, <1>8

LEMMA AdmitKeeps ==
    ASSUME QueueInv, [Next]_vars, NEW c \in Calls, Admit(c)
    PROVE  Places' /\ Received' /\ Owing' /\ Chained'
  <1>1. /\ pc[c] = "gate" /\ ~closed /\ OwnsPending(c)
        /\ pc' = [pc EXCEPT ![c] = "running"] /\ active' = [active EXCEPT ![IdOf[c]] = c]
        /\ tail' = LastWaiting(node', tail)
        /\ UNCHANGED <<pred, behind, closed_by, input_drained, reading, shutdown, pool>>
    BY DEF Admit, At, Goto, PruneTail, rest
  <1>2. active[IdOf[c]] = NoCall
    BY NoneReplaced
  <1>3. /\ node' = [node EXCEPT ![c] = IF @ = "Waiting" THEN "Admitted" ELSE @]
        /\ call' = [call EXCEPT ![c] = [call[c] EXCEPT !.live = TRUE]]
    <2>1. {active[IdOf[c]]} \ {NoCall} = {}
      BY <1>2
    <2>2. FinishAdmission(node, {}) = node
      BY NobodyFinishes
    <2>3. node' = [node EXCEPT ![c] = IF @ = "Waiting" THEN "Admitted" ELSE @]
      BY <2>1, <2>2 DEF Admit
    <2>4. call' = [call EXCEPT ![c] = [call[c] EXCEPT !.live = TRUE]]
      BY <2>1, QueueTypes DEF Admit
    <2> QED BY <2>3, <2>4
  <1>4. /\ \A b \in Calls : b # c => node'[b] = node[b] /\ pc'[b] = pc[b] /\ call'[b] = call[b]
        /\ node'[c] = (IF node[c] = "Waiting" THEN "Admitted" ELSE node[c])
        /\ pc'[c] = "running" /\ active'[IdOf[c]] = c
        /\ call'[c].delivery = call[c].delivery
    BY <1>1, <1>3, QueueTypes DEF CallStates
  <1>5. node' \in [Calls -> Nodes]
    BY <1>3, QueueTypes DEF Nodes
  <1>6. /\ Places'
        /\ \A b \in Calls : pred'[b] # NoCall => node'[pred'[b]] # "None"
        /\ tail' # NoCall => node'[tail'] # "None"
    <2>1. /\ reading' \in BOOLEAN /\ input_drained' \in BOOLEAN /\ closed_by' \in {"No", "Settled", "Early"}
          /\ shutdown' \in {"serving", "settling", "closing", "ended"}
      BY <1>1 DEF QueueInv, Places
    <2>2. \A b \in Calls : node[b] # "None" => node'[b] # "None"
      BY <1>4
    <2> QED BY <1>1, <1>5, <2>1, <2>2, PlacesKept
  <1>7. Received'
    <2>1. \A b, d \in Calls : b < d /\ pc'[d] # "new" => pc'[b] # "new"
      BY <1>1, <1>4 DEF QueueInv, Received
    <2>2. \A b \in Calls : /\ pc'[b] = "new" => node'[b] = "None"
                           /\ pc'[b] = "queued" => node'[b] = "Waiting"
                           /\ node'[b] = "Waiting" => pc'[b] \in Waiting
                           /\ node'[b] = "Skipped" => pc'[b] = "over"
      BY <1>1, <1>4 DEF QueueInv, Received
    <2> QED BY <1>6, <2>1, <2>2 DEF Received
  <1>8. Owing'
    <2>1. pool[IdOf[c]] = c /\ \A b \in Calls : b # c /\ IdOf[b] = IdOf[c] => pc[b] \notin Busy
      BY <1>1, QueueTypes DEF OwnsPending, QueueInv, Ownership, PendingWaits, OneBusy, Busy
    <2>2. \A i \in Ids : active'[i] = active[i] \/ (i = IdOf[c] /\ active'[i] = c)
      BY <1>1, QueueTypes
    <2>3. \A b \in Calls : b # c => (active'[IdOf[b]] = b <=> IsActive(b))
      BY <1>1, <1>2, QueueTypes DEF IsActive
    <2>4. ~closed'
      BY <1>1 DEF closed
    <2>5. \A i \in Ids : active'[i] # NoCall => pc'[active'[i]] \in {"running"} \cup Answering
      <3> SUFFICES ASSUME NEW i \in Ids, active'[i] # NoCall
                   PROVE  pc'[active'[i]] \in {"running"} \cup Answering
        OBVIOUS
      <3>1. CASE active'[i] = c
        BY <1>4, <3>1
      <3>2. CASE active'[i] # c
        <4>1. active'[i] = active[i] /\ active[i] \in Calls
          BY <2>2, <3>2, QueueTypes DEF Maybe
        <4> QED BY <1>4, <3>2, <4>1 DEF QueueInv, Owing
      <3> QED BY <3>1, <3>2
    <2>6. ASSUME NEW b \in Calls
          PROVE  /\ call'[b].delivery = "Registered" => active'[IdOf[b]] = b
                 /\ pc'[b] \in Answering /\ active'[IdOf[b]] = b => call'[b].finished
                 /\ pc'[b] = "answered" /\ active'[IdOf[b]] = b => pool'[IdOf[b]] = b
                 /\ pc'[b] = "running" /\ call'[b].live /\ ~closed' => pool'[IdOf[b]] = b
      <3>1. CASE b = c
        BY <1>1, <1>4, <2>1, <3>1 DEF Answering
      <3>2. CASE b # c
        BY <1>1, <1>4, <2>3, <3>2 DEF QueueInv, Owing
      <3> QED BY <3>1, <3>2
    <2>7. ASSUME NEW b \in Calls, pc'[b] \in Waiting, active'[IdOf[b]] # NoCall
          PROVE  pc'[active'[IdOf[b]]] = "visible" /\ node'[b] = "Waiting"
      <3>1. b # c /\ pc[b] \in Waiting
        BY <1>4, <2>7 DEF Waiting
      <3>2. IdOf[b] # IdOf[c]
        BY <2>1, <3>1 DEF Waiting, Busy
      <3>3. active'[IdOf[b]] = active[IdOf[b]]
        BY <2>2, <3>2, QueueTypes
      <3>4. pc[active[IdOf[b]]] = "visible" /\ node[b] = "Waiting"
        BY <2>7, <3>1, <3>3 DEF QueueInv, Owing
      <3>5. active[IdOf[b]] \in Calls /\ active[IdOf[b]] # c
        BY <1>1, <2>7, <3>3, <3>4, QueueTypes DEF Maybe
      <3> QED BY <1>4, <3>1, <3>3, <3>4, <3>5
    <2> QED BY <2>4, <2>5, <2>6, <2>7 DEF Owing, IsActive
  <1>9. Chained'
    <2>1. \A b \in Calls : Over(b) => status'[b] = "Over"
      BY OverStays
    <2>2. \A b \in Calls : node'[b] = "Waiting" => node[b] = "Waiting" /\ pc'[b] \in Waiting
      BY <1>4, <1>7 DEF Received
    <2>3. \A b \in Calls : node'[b] = "Admitted" => active'[IdOf[b]] = b
      <3> SUFFICES ASSUME NEW b \in Calls, node'[b] = "Admitted" PROVE active'[IdOf[b]] = b
        OBVIOUS
      <3>1. CASE b = c
        BY <1>4, <3>1
      <3>2. CASE b # c
        <4>1. IsActive(b)
          BY <1>1, <1>4, <3>2 DEF QueueInv, Chained
        <4> QED BY <1>1, <1>2, <3>2, <4>1, QueueTypes DEF IsActive
      <3> QED BY <3>1, <3>2
    <2>4. \A b \in Calls : node'[b] = "Finished" => status'[b] = "Over"
      BY <1>1, <1>4, <2>1 DEF QueueInv, Chained
    <2>5. \A b \in Calls : pc'[b] = "gate" \/ node'[b] \in {"Admitted", "Finished"} =>
                              pc[b] = "gate" \/ node[b] \in {"Admitted", "Finished"}
      BY <1>1, <1>4
    <2>6. UNCHANGED <<pred, behind>> /\ tail' = LastWaiting(node', tail)
      BY <1>1
    <2> QED BY <1>1, <1>5, <2>2, <2>3, <2>4, <2>5, <2>6, ChainKept
  <1> QED BY <1>6, <1>7, <1>8, <1>9

LEMMA DropKeeps ==
    ASSUME QueueInv, [Next]_vars, NEW c \in Calls, DropAdmission(c)
    PROVE  Places' /\ Received' /\ Owing' /\ Chained'
  <1>1. /\ pc[c] \in Waiting /\ pc' = [pc EXCEPT ![c] = "over"]
        /\ node' = [node EXCEPT ![c] = IF @ = "Waiting" THEN "Skipped" ELSE @]
        /\ tail' = LastWaiting(node', tail)
        /\ UNCHANGED <<active, call, pred, behind, closed_by, input_drained, reading, shutdown, pool>>
    BY DEF DropAdmission, Goto, SkipNode, PruneTail, rest, Waiting
  <1>2. /\ \A b \in Calls : b # c => node'[b] = node[b] /\ pc'[b] = pc[b]
        /\ node'[c] = (IF node[c] = "Waiting" THEN "Skipped" ELSE node[c]) /\ pc'[c] = "over"
    BY <1>1, QueueTypes
  <1>3. node' \in [Calls -> Nodes]
    BY <1>1, QueueTypes DEF Nodes
  <1>4. /\ Places'
        /\ \A b \in Calls : pred'[b] # NoCall => node'[pred'[b]] # "None"
        /\ tail' # NoCall => node'[tail'] # "None"
    <2>1. /\ reading' \in BOOLEAN /\ input_drained' \in BOOLEAN /\ closed_by' \in {"No", "Settled", "Early"}
          /\ shutdown' \in {"serving", "settling", "closing", "ended"}
      BY <1>1 DEF QueueInv, Places
    <2>2. \A b \in Calls : node[b] # "None" => node'[b] # "None"
      BY <1>2
    <2> QED BY <1>1, <1>3, <2>1, <2>2, PlacesKept
  <1>5. Received'
    <2>0. \A b \in Calls : pc'[b] = "new" <=> pc[b] = "new"
      BY <1>1, <1>2 DEF Waiting
    <2>1. \A b, d \in Calls : b < d /\ pc'[d] # "new" => pc'[b] # "new"
      BY <2>0 DEF QueueInv, Received
    <2>2. \A b \in Calls : /\ pc'[b] = "new" => node'[b] = "None"
                           /\ pc'[b] = "queued" => node'[b] = "Waiting"
                           /\ node'[b] = "Waiting" => pc'[b] \in Waiting
                           /\ node'[b] = "Skipped" => pc'[b] = "over"
      BY <1>1, <1>2 DEF QueueInv, Received
    <2> QED BY <1>4, <2>1, <2>2 DEF Received
  <1>6. call[c].delivery # "Registered" /\ ~IsActive(c)
    BY <1>1 DEF QueueInv, Owing, Ownership, Unadmitted, Waiting
  <1>7. Owing'
    <2>1. \A b \in Calls : pc'[b] \in Waiting => node'[b] = node[b]
      BY <1>2 DEF Waiting
    <2>2. /\ call'[c].delivery # "Registered" /\ active'[IdOf[c]] # c
          /\ UNCHANGED <<closed_by, active, call, pool>>
      BY <1>1, <1>6 DEF IsActive
    <2>3. PICK label : label = "over"
      OBVIOUS
    <2>4. pc' = [pc EXCEPT ![c] = label] /\ label \notin {"running", "visible"} \cup Waiting \cup Answering
      BY <1>1, <2>3 DEF Waiting, Answering
    <2>5. \A i \in Ids : pool'[i] = pool[i] \/ (pool'[i] = NoCall /\ pool[i] = c)
      BY <2>2
    <2>6. \A b \in Calls : b # c => call'[b] = call[b]
      BY <2>2
    <2>7. active' = active \/ (active' = [active EXCEPT ![IdOf[c]] = NoCall] /\ IsActive(c))
      BY <2>2
    <2>8. label # "answered"
      BY <2>3
    <2> QED BY <1>6, <2>1, <2>2, <2>3, <2>4, <2>5, <2>6, <2>7, <2>8, OwingKept
  <1>8. ASSUME closed PROVE Chained'
    <2>1. closed'
      BY <1>1, <1>8 DEF closed
    <2> QED BY <2>1 DEF Chained
  <1>9. ASSUME ~closed PROVE Chained'
    <2>1. \A b \in Calls : Over(b) => status'[b] = "Over"
      BY OverStays
    <2>2. \A b \in Calls : node'[b] = "Waiting" => node[b] = "Waiting" /\ pc'[b] \in Waiting
      BY <1>2, <1>5 DEF Received
    <2>3. \A b \in Calls : node'[b] = "Admitted" => active'[IdOf[b]] = b
      BY <1>1, <1>2, <1>9 DEF QueueInv, Chained, IsActive
    <2>4. \A b \in Calls : node'[b] = "Finished" => status'[b] = "Over"
      BY <1>2, <1>9, <2>1 DEF QueueInv, Chained
    <2>5. \A b \in Calls : pc'[b] = "gate" \/ node'[b] \in {"Admitted", "Finished"} =>
                              pc[b] = "gate" \/ node[b] \in {"Admitted", "Finished"}
      BY <1>2
    <2>6. UNCHANGED <<pred, behind>> /\ tail' = LastWaiting(node', tail)
      BY <1>1
    <2> QED BY <1>3, <1>9, <2>2, <2>3, <2>4, <2>5, <2>6, ChainKept
  <1> QED BY <1>4, <1>5, <1>7, <1>8, <1>9

(* A registration ends, or an answered call stays registered.              *)
LEMMA EndKeeps ==
    ASSUME QueueInv, [Next]_vars, NEW c \in Calls, NEW label, NEW S \in SUBSET {c},
           pc[c] \in {"running", "visible", "failed"}, label \in {"answered", "settling", "over"},
           pc' = [pc EXCEPT ![c] = label],
           node' = FinishAdmission(node, S), tail' = tail \/ tail' = LastWaiting(node', tail),
           UNCHANGED <<pred, behind, closed_by, input_drained, reading, shutdown>>,
           \A b \in Calls : b # c => call'[b] = call[b],
           \A i \in Ids : pool'[i] = pool[i] \/ (pool'[i] = NoCall /\ pool[i] = c),
           \/ S = {c} /\ IsActive(c) /\ active' = [active EXCEPT ![IdOf[c]] = NoCall]
           \/ S = {} /\ UNCHANGED active /\ label = "answered" /\ IsActive(c) /\ call'[c].finished
                /\ pool'[IdOf[c]] = c /\ pc[c] = "running"
           \/ S = {} /\ UNCHANGED active /\ ~IsActive(c),
           call'[c].delivery = "Registered" => active'[IdOf[c]] = c
    PROVE  Places' /\ Received' /\ Owing' /\ Chained'
  <1>1. pc'[c] = label /\ \A b \in Calls : b # c => pc'[b] = pc[b]
    BY QueueTypes
  <1>2. \A b \in Calls : b # c => (IsActive(b) <=> active'[IdOf[b]] = b)
    BY QueueTypes DEF IsActive
  <1>3. S = {c} => active'[IdOf[c]] # c /\ status'[c] = "Over"
    <2> SUFFICES ASSUME S = {c} PROVE active'[IdOf[c]] # c /\ status'[c] = "Over"
      OBVIOUS
    <2>1. active'[IdOf[c]] = NoCall
      BY QueueTypes
    <2>2. active'[IdOf[c]] # c
      BY <2>1, QueueTypes
    <2> QED BY <1>1, <2>2, StatusNext DEF Answering
  <1>4. Places' /\ Received' /\ Chained'
    <2>1. /\ reading' \in BOOLEAN /\ input_drained' \in BOOLEAN /\ S \in SUBSET Calls
          /\ shutdown' \in {"serving", "settling", "closing", "ended"}
      BY DEF QueueInv, Places
    <2>2. \A b \in S : status'[b] = "Over"
      BY <1>3
    <2>3. \A b \in Calls : b \notin S => (IsActive(b) => active'[IdOf[b]] = b)
      BY <1>2 DEF IsActive
    <2>4. \A b \in Calls : \/ pc'[b] = pc[b]
                           \/ pc[b] \notin {"new", "over"} \cup Waiting /\ pc'[b] \notin {"new"} \cup Waiting
      BY <1>1 DEF Waiting
    <2>5. UNCHANGED <<pred, behind, closed_by>>
      OBVIOUS
    <2> QED BY <2>1, <2>2, <2>3, <2>4, <2>5, FinishKeeps
  <1>5. Owing'
    <2>1. \A b \in Calls : pc'[b] \in Waiting => node'[b] = node[b]
      BY <1>1 DEF FinishAdmission, Waiting, QueueInv, Received
    <2>2. active' = active \/ (active' = [active EXCEPT ![IdOf[c]] = NoCall] /\ IsActive(c))
      OBVIOUS
    <2>3. UNCHANGED closed_by
      OBVIOUS
    <2>4. active'[IdOf[c]] = c => /\ label = "answered" /\ call'[c].finished /\ pool'[IdOf[c]] = c
      BY <1>3 DEF IsActive
    <2>5. label \notin {"running", "visible"} \cup Waiting
      BY DEF Waiting
    <2>6. active' = active => pc[c] # "visible" \/ ~IsActive(c)
      BY <1>3 DEF IsActive
    <2>7. \A i \in Ids : pool'[i] = pool[i] \/ (pool'[i] = NoCall /\ pool[i] = c)
      OBVIOUS
    <2>8. \A b \in Calls : b # c => call'[b] = call[b]
      OBVIOUS
    <2> QED BY <2>1, <2>2, <2>3, <2>4, <2>5, <2>6, <2>7, <2>8, OwingKept DEF Answering
  <1> QED BY <1>4, <1>5

(* A handler whose predecessor is settled no longer waits for it.          *)
LEMMA SettledKeeps ==
    ASSUME QueueInv, [Next]_vars, NEW c \in Calls, PredecessorSettled(c)
    PROVE  Places' /\ Received' /\ Owing' /\ Chained'
  <1>1. /\ pc[c] = "queued" /\ SettledNode(pred[c]) /\ pc' = [pc EXCEPT ![c] = "gate"]
        /\ pred' = [pred EXCEPT ![c] = NoCall]
        /\ UNCHANGED <<active, tail, node, behind, closed_by, call, pool, input_drained, reading, shutdown>>
    BY DEF PredecessorSettled, At, Goto, rest
  <1>2. /\ pc'[c] = "gate" /\ pred'[c] = NoCall
        /\ \A b \in Calls : b # c => pc'[b] = pc[b] /\ pred'[b] = pred[b]
    BY <1>1, QueueTypes
  <1>3. Places'
    <2>1. pred' \in [Calls -> Maybe]
      BY <1>1, QueueTypes DEF Maybe
    <2>2. Descends(pred')
      <3>1. \A b \in Calls : pred[b] \in Maybe /\ pred[b] < b
        BY QueueTypes DEF Descends
      <3>2. NoCall \in Maybe /\ NoCall < c
        BY ConstantsAssumption DEF Maybe, Calls, NoCall
      <3>3. \A b \in Calls : pred'[b] \in Maybe /\ pred'[b] < b
        BY <1>2, <3>1, <3>2
      <3> QED BY <3>3 DEF Descends
    <2> QED BY <1>1, <2>1, <2>2 DEF QueueInv, Places
  <1>4. Received'
    <2>1. \A b \in Calls : pc'[b] = "new" <=> pc[b] = "new"
      BY <1>1, <1>2
    <2>2. \A b \in Calls : pc'[b] \in Waiting <=> pc[b] \in Waiting
      BY <1>1, <1>2 DEF Waiting
    <2>3. \A b, d \in Calls : b < d /\ pc'[d] # "new" => pc'[b] # "new"
      BY <2>1 DEF QueueInv, Received
    <2>4. \A b \in Calls : pred'[b] # NoCall => node'[pred'[b]] # "None"
      BY <1>1, <1>2 DEF QueueInv, Received
    <2>5. \A b \in Calls : /\ pc'[b] = "new" => node'[b] = "None"
                           /\ pc'[b] = "queued" => node'[b] = "Waiting"
                           /\ node'[b] = "Waiting" => pc'[b] \in Waiting
                           /\ node'[b] = "Skipped" => pc'[b] = "over"
      BY <1>1, <1>2, <2>1, <2>2 DEF QueueInv, Received
    <2>6. tail' # NoCall => node'[tail'] # "None"
      BY <1>1 DEF QueueInv, Received
    <2> QED BY <2>3, <2>4, <2>5, <2>6 DEF Received
  <1>5. call[c].delivery # "Registered" /\ ~IsActive(c)
    BY <1>1 DEF QueueInv, Owing, Ownership, Unadmitted, Waiting
  <1>6. Owing'
    <2>1. PICK label : label = "gate"
      OBVIOUS
    <2>2. pc' = [pc EXCEPT ![c] = label] /\ label \in Waiting /\ label \notin {"running"} \cup Answering
      BY <1>1, <2>1 DEF Waiting, Answering
    <2>3. pc[c] \in Waiting /\ active' = active /\ active'[IdOf[c]] # c /\ UNCHANGED closed_by
          /\ call'[c].delivery # "Registered"
      BY <1>1, <1>5 DEF Waiting, IsActive
    <2>4. /\ \A b \in Calls : b # c => call'[b] = call[b]
          /\ \A b \in Calls : pc'[b] \in Waiting => node'[b] = node[b]
          /\ \A i \in Ids : pool'[i] = pool[i] \/ (pool'[i] = NoCall /\ pool[i] = c)
      BY <1>1
    <2>5. label # "answered" /\ label # "running"
      BY <2>1
    <2> QED BY <1>5, <2>2, <2>3, <2>4, <2>5, OwingKept
  <1>7. ASSUME closed PROVE Chained'
    <2>1. closed'
      BY <1>1, <1>7 DEF closed
    <2> QED BY <2>1 DEF Chained
  <1>8. ASSUME ~closed PROVE Chained'
    <2>1. \A b \in Calls : Over(b) => status'[b] = "Over"
      BY OverStays
    <2>2. \A b \in behind[c] : status'[b] = "Over"
      <3>1. \A b \in behind[c] : b \in Calls /\ (Over(b) \/ Covered(pred[c], b)) /\ pred[c] \in Maybe
        BY <1>8, QueueTypes DEF QueueInv, Chained
      <3> QED BY <1>1, <1>8, <2>1, <3>1, SettledOver
    <2>3. \A b \in Calls : behind'[b] = behind[b] /\ behind[b] \subseteq Calls
      BY <1>1, QueueTypes
    <2>4. ASSUME NEW b \in Calls
          PROVE  /\ node'[b] = "Admitted" => active'[IdOf[b]] = b
                 /\ node'[b] = "Finished" => status'[b] = "Over"
                 /\ pc'[b] = "gate" \/ node'[b] \in {"Admitted", "Finished"} =>
                      \A d \in behind'[b] : status'[d] = "Over"
                 /\ \A d \in behind'[b] : status'[d] = "Over" \/ Covered(pred[b], d)'
      <3>1. node'[b] = "Admitted" => active'[IdOf[b]] = b
        BY <1>1, <1>8 DEF QueueInv, Chained, IsActive
      <3>2. node'[b] = "Finished" => status'[b] = "Over"
        BY <1>1, <1>8, <2>1 DEF QueueInv, Chained
      <3>3. CASE b = c
        BY <2>2, <2>3, <3>1, <3>2, <3>3
      <3>4. CASE b # c
        <4>1. pc[b] = "gate" \/ node[b] \in {"Admitted", "Finished"} =>
                \A d \in behind[b] : Over(d)
          BY <1>8 DEF QueueInv, Chained
        <4>2. \A d \in behind[b] : Over(d) \/ Covered(pred[b], d)
          BY <1>8 DEF QueueInv, Chained
        <4>3. pc'[b] = pc[b] /\ node'[b] = node[b] /\ pred'[b] = pred[b]
          BY <1>1, <1>2, <3>4
        <4>4. ASSUME NEW d \in behind'[b] PROVE status'[d] = "Over" \/ Covered(pred[b], d)'
          <5>1. d \in Calls /\ (Over(d) \/ Covered(pred[b], d))
            BY <2>3, <4>2
          <5>2. Covered(pred[b], d) => Covered(pred[b], d)'
            BY <1>1, <4>3 DEF Covered
          <5> QED BY <2>1, <5>1, <5>2
        <4> QED BY <2>1, <2>3, <3>1, <3>2, <4>1, <4>3, <4>4
      <3> QED BY <3>3, <3>4
    <2>5. \A b \in Calls : node'[b] = "Waiting" => Covered(tail, b)'
      BY <1>1, <1>8 DEF QueueInv, Chained, Covered
    <2>6. Chained' <=> (~closed' =>
            /\ \A b \in Calls :
                 /\ node'[b] = "Admitted" => active'[IdOf[b]] = b
                 /\ node'[b] = "Finished" => status'[b] = "Over"
                 /\ pc'[b] = "gate" \/ node'[b] \in {"Admitted", "Finished"} =>
                      \A d \in behind'[b] : status'[d] = "Over"
                 /\ \A d \in behind'[b] : status'[d] = "Over" \/ Covered(pred[b], d)'
            /\ \A b \in Calls : node'[b] = "Waiting" => Covered(tail, b)')
      BY DEF Chained, IsActive, Over
    <2> QED BY <2>4, <2>5, <2>6
  <1> QED BY <1>3, <1>4, <1>6, <1>7, <1>8

LEMMA OperationKeeps ==
    ASSUME QueueInv, [Next]_vars, NEW c \in Calls, CompleteOperation(c) \/ DropOperation(c)
    PROVE  Places' /\ Received' /\ Owing' /\ Chained'
  <1>1. PICK label : label = IF CompleteOperation(c) THEN "answered" ELSE "over"
    OBVIOUS
  <1>2. PICK completed \in BOOLEAN : /\ completed <=> label = "answered"
                                     /\ FinishOperation(c, completed)
    BY <1>1 DEF CompleteOperation, DropOperation
  <1>3. /\ pc[c] = "running" /\ pc' = [pc EXCEPT ![c] = label] /\ label \in {"answered", "over"}
        /\ UNCHANGED <<pred, behind, closed_by, input_drained, reading, shutdown>>
    BY <1>1 DEF CompleteOperation, DropOperation, At, Goto, rest
  <1>4. \A i \in Ids : \/ pool'[i] = pool[i]
                       \/ label = "over" /\ pool'[i] = NoCall /\ pool[i] = c
    BY <1>1, QueueTypes DEF CompleteOperation, DropOperation
  <1> DEFINE leaves == IsActive(c) /\ (~completed \/ ~call[c].live)
  <1>5. /\ node' = FinishAdmission(node, IF leaves THEN {c} ELSE {})
        /\ active' = IF leaves THEN [active EXCEPT ![IdOf[c]] = NoCall] ELSE active
        /\ tail' = tail \/ tail' = LastWaiting(node', tail)
        /\ call' = IF leaves THEN [call EXCEPT ![c] = Abandoned(@)]
                   ELSE IF IsActive(c) THEN [call EXCEPT ![c].finished = TRUE] ELSE call
    BY <1>2 DEF FinishOperation, PruneTail
  <1>6. \A b \in Calls : b # c => call'[b] = call[b]
    BY <1>5, QueueTypes
  <1>7. CASE leaves
    <2>1. call'[c] = Abandoned(call[c])
      BY <1>5, <1>7, QueueTypes
    <2>2. call'[c].delivery # "Registered"
      BY <2>1, QueueTypes DEF Abandoned, Cancelled, Settle, CallStates
    <2>3. /\ IsActive(c) /\ active' = [active EXCEPT ![IdOf[c]] = NoCall] /\ {c} \in SUBSET {c}
          /\ node' = FinishAdmission(node, {c})
      BY <1>5, <1>7
    <2>4. pc[c] \in {"running", "visible", "failed"} /\ label \in {"answered", "settling", "over"}
      BY <1>3
    <2>5. \A i \in Ids : pool'[i] = pool[i] \/ (pool'[i] = NoCall /\ pool[i] = c)
      BY <1>4
    <2> QED BY ONLY QueueInv, [Next]_vars, c \in Calls, <1>3, <1>5, <1>6, <2>2, <2>3, <2>4, <2>5, EndKeeps
  <1>8. CASE ~leaves /\ IsActive(c)
    <2>1. call'[c] = [call[c] EXCEPT !.finished = TRUE] /\ completed /\ call[c].live
      BY <1>5, <1>8, QueueTypes
    <2>2. call'[c].finished
      BY <2>1, QueueTypes DEF CallStates
    <2>3. label = "answered" /\ ~closed
      BY <1>2, <1>8, <2>1, QueueTypes DEF QueueInv, Owing, IsActive
    <2>4. pool[IdOf[c]] = c
      BY <1>3, <2>1, <2>3 DEF QueueInv, Owing
    <2>5. pool'[IdOf[c]] = c
      BY <1>4, <2>3, <2>4, QueueTypes
    <2>6. UNCHANGED active /\ {} \in SUBSET {c} /\ node' = FinishAdmission(node, {})
          /\ active'[IdOf[c]] = c
      BY <1>5, <1>8 DEF IsActive
    <2>7. pc[c] \in {"running", "visible", "failed"} /\ label \in {"answered", "settling", "over"}
      BY <1>3
    <2>8. \A i \in Ids : pool'[i] = pool[i] \/ (pool'[i] = NoCall /\ pool[i] = c)
      BY <1>4
    <2>9. /\ UNCHANGED active /\ label = "answered" /\ IsActive(c) /\ call'[c].finished
          /\ pool'[IdOf[c]] = c /\ pc[c] = "running"
      BY <1>3, <1>8, <2>2, <2>3, <2>5, <2>6
    <2>10. tail' = tail \/ tail' = LastWaiting(node', tail)
      BY <1>5
    <2> QED BY ONLY QueueInv, [Next]_vars, c \in Calls, <1>3, <1>6, <2>6, <2>7, <2>8, <2>9, <2>10,
                    EndKeeps
  <1>9. CASE ~IsActive(c)
    <2>1. call' = call /\ UNCHANGED active /\ {} \in SUBSET {c} /\ node' = FinishAdmission(node, {})
      BY <1>5, <1>9
    <2>2. call'[c].delivery # "Registered"
      BY <1>9, <2>1 DEF QueueInv, Owing
    <2>3. pc[c] \in {"running", "visible", "failed"} /\ label \in {"answered", "settling", "over"}
      BY <1>3
    <2>4. \A i \in Ids : pool'[i] = pool[i] \/ (pool'[i] = NoCall /\ pool[i] = c)
      BY <1>4
    <2> QED BY ONLY QueueInv, [Next]_vars, c \in Calls, <1>3, <1>5, <1>6, <1>9, <2>1, <2>2, <2>3, <2>4,
                    EndKeeps
  <1> QED BY <1>7, <1>8, <1>9

LEMMA TakeKeeps ==
    ASSUME QueueInv, [Next]_vars, NEW c \in Calls, TakeWriteDelivery(c)
    PROVE  Places' /\ Received' /\ Owing' /\ Chained'
  <1>1. PICK label : label = "settling"
    OBVIOUS
  <1>2. /\ pc[c] \in {"visible", "failed"} /\ pc' = [pc EXCEPT ![c] = label]
        /\ UNCHANGED <<pred, behind, closed_by, input_drained, reading, shutdown, pool>>
    BY <1>1 DEF TakeWriteDelivery, Goto, rest
  <1>3. /\ pc[c] \in {"running", "visible", "failed"} /\ label \in {"answered", "settling", "over"}
        /\ \A i \in Ids : pool'[i] = pool[i] \/ (pool'[i] = NoCall /\ pool[i] = c)
    BY <1>1, <1>2
  <1>4. CASE IsActive(c)
    <2>1. PICK outcome \in {"Delivered", "Returned"} : call' = [call EXCEPT ![c] = Written(@, outcome)]
      BY <1>4 DEF TakeWriteDelivery
    <2>2. call'[c] = Written(call[c], outcome) /\ \A b \in Calls : b # c => call'[b] = call[b]
      BY <2>1, QueueTypes
    <2>3. call'[c].delivery # "Registered"
      BY <2>2, QueueTypes DEF Written, Settle, CallStates
    <2>4. /\ active' = [active EXCEPT ![IdOf[c]] = NoCall] /\ {c} \in SUBSET {c}
          /\ node' = FinishAdmission(node, {c}) /\ (tail' = tail \/ tail' = LastWaiting(node', tail))
      BY <1>4 DEF TakeWriteDelivery, PruneTail
    <2> QED BY ONLY QueueInv, [Next]_vars, c \in Calls, <1>2, <1>3, <1>4, <2>2, <2>3, <2>4, EndKeeps
  <1>5. CASE ~IsActive(c)
    <2>1. UNCHANGED <<active, call, node, tail>>
      BY <1>5 DEF TakeWriteDelivery
    <2>2. node' = FinishAdmission(node, {}) /\ {} \in SUBSET {c}
      BY <2>1, NobodyFinishes
    <2>3. call'[c].delivery # "Registered" /\ \A b \in Calls : b # c => call'[b] = call[b]
      BY <1>5, <2>1 DEF QueueInv, Owing
    <2> QED BY ONLY QueueInv, [Next]_vars, c \in Calls, <1>2, <1>3, <1>5, <2>1, <2>2, <2>3, EndKeeps
  <1> QED BY <1>4, <1>5

(* A response is registered, forwarded or written, or its write settles.   *)
LEMMA ResponseKeeps ==
    ASSUME QueueInv, [Next]_vars, NEW c \in Calls,
           \/ Register(c) \/ Send(c) \/ WriteSucceeds(c) \/ WriteFails(c) \/ SettleWrite(c)
    PROVE  Places' /\ Received' /\ Owing' /\ Chained'
  <1>1. /\ UNCHANGED gate /\ UNCHANGED <<behind, closed_by, input_drained, reading, shutdown>>
        /\ UNCHANGED <<active, node>>
    BY DEF Register, Send, WriteSucceeds, WriteFails, SettleWrite, gate, rest
  <1>2. PICK label : label = pc'[c]
    OBVIOUS
  <1>3. /\ pc' = [pc EXCEPT ![c] = label]
        /\ \/ pc[c] = "running" /\ label = "running" /\ Register(c)
           \/ pc[c] = "answered" /\ label = "writing" /\ IsActive(c)
           \/ pc[c] = "answered" /\ label = "over" /\ ~(pool[IdOf[c]] = c /\ IsActive(c))
           \/ pc[c] = "writing" /\ label \in {"visible", "failed"}
           \/ pc[c] = "settling" /\ label = "over"
    <2>1. CASE Register(c)
      BY <1>2, <2>1, QueueTypes DEF Register, At
    <2>2. CASE Send(c)
      BY <1>2, <2>2, QueueTypes DEF Send, At, Goto
    <2>3. CASE WriteSucceeds(c) \/ WriteFails(c) \/ SettleWrite(c)
      BY <1>2, <2>3, QueueTypes DEF WriteSucceeds, WriteFails, SettleWrite, At, Goto
    <2> QED BY <2>1, <2>2, <2>3
  <1>4. Places' /\ Received' /\ Chained'
    <2>1. /\ reading' \in BOOLEAN /\ input_drained' \in BOOLEAN
          /\ shutdown' \in {"serving", "settling", "closing", "ended"}
      BY <1>1 DEF QueueInv, Places
    <2>2. \A b \in Calls : \/ pc'[b] = pc[b]
                           \/ pc[b] \notin {"new", "over"} \cup Waiting /\ pc'[b] \notin {"new"} \cup Waiting
      BY <1>3, QueueTypes DEF Waiting
    <2>3. UNCHANGED <<behind, closed_by>>
      BY <1>1
    <2> QED BY <1>1, <2>1, <2>2, <2>3, SameKeeps
  <1>5. /\ \A b \in Calls : b # c => call'[b] = call[b]
        /\ call'[c].finished = call[c].finished /\ call'[c].live = call[c].live
        /\ call'[c].delivery = "Registered" => \/ call[c].delivery = "Registered"
                                               \/ label = "running" /\ IsActive(c)
    <2>1. CASE Register(c)
      <3>1. call'[c] = [call[c] EXCEPT !.delivery = IF Registers(c) THEN "Registered" ELSE "Returned"]
            /\ \A b \in Calls : b # c => call'[b] = call[b]
        BY <2>1, QueueTypes DEF Register
      <3>2. call[c] \in CallStates
        BY QueueTypes
      <3>3. label = "running"
        BY <1>2, <2>1 DEF Register, At
      <3> QED BY <3>1, <3>2, <3>3 DEF CallStates, Registers
    <2>2. CASE ~Register(c)
      BY <2>2 DEF Send, WriteSucceeds, WriteFails, SettleWrite
    <2> QED BY <2>1, <2>2
  <1>6. /\ \A i \in Ids : pool'[i] = pool[i] \/ (pool'[i] = NoCall /\ pool[i] = c)
        /\ label = "running" => UNCHANGED pool
    <2>1. CASE Send(c)
      <3>1. label # "running"
        BY <1>3, <2>1 DEF Send, At
      <3> QED BY <2>1, <3>1, QueueTypes DEF Send
    <2>2. CASE ~Send(c)
      BY <2>2 DEF Register, WriteSucceeds, WriteFails, SettleWrite
    <2> QED BY <2>1, <2>2
  <1>7. Owing'
    <2>1. IsActive(c) => pc[c] \in {"running"} \cup Answering
      BY QueueTypes DEF IsActive, QueueInv, Owing
    <2>2. IsActive(c) /\ pc[c] = "answered" => pool[IdOf[c]] = c
      BY DEF QueueInv, Owing
    <2>3. call[c].delivery = "Registered" => IsActive(c)
      BY DEF QueueInv, Owing
    <2>4. IsActive(c) /\ label \in Answering => call[c].finished
      BY <1>3, <2>1 DEF QueueInv, Owing, Answering
    <2>5. /\ label \notin Waiting /\ label # "answered"
          /\ IsActive(c) => label \in {"running"} \cup Answering
      BY <1>3, <2>1, <2>2 DEF Waiting, Answering
    <2>6. label = "running" /\ call[c].live /\ ~closed => pool'[IdOf[c]] = c
      BY <1>3, <1>6 DEF QueueInv, Owing
    <2>7. active' = active /\ (active'[IdOf[c]] = c <=> IsActive(c))
      BY <1>1 DEF IsActive
    <2>8. /\ \A b \in Calls : pc'[b] \in Waiting => node'[b] = node[b]
          /\ UNCHANGED closed_by
      BY <1>1
    <2>9. call'[c].delivery = "Registered" => active'[IdOf[c]] = c
      BY <1>5, <2>3, <2>7
    <2>10. pc[c] # "visible"
      BY <1>3
    <2>11. label \in Answering /\ active'[IdOf[c]] = c => call'[c].finished
      BY <1>5, <2>4, <2>7
    <2>12. label = "running" /\ call'[c].live /\ ~closed => pool'[IdOf[c]] = c
      BY <1>5, <2>6
    <2> QED BY ONLY QueueInv, c \in Calls, <1>3, <1>5, <1>6, <2>5, <2>7, <2>8, <2>9, <2>10, <2>11, <2>12,
                    OwingKept
  <1> QED BY <1>4, <1>7

(* Every step keeps the queue's invariant.                                 *)
LEMMA QueueStep == QueueInv /\ [Next]_vars => QueueInv'
<1> SUFFICES ASSUME QueueInv, [Next]_vars PROVE QueueInv'
  OBVIOUS
<1>1. Ownership' /\ WritesCounted'
  BY OwnershipStep, WritesStep DEF QueueInv
<1>2. ASSUME NEW reason \in {"Settled", "Early"}, Close(reason), UNCHANGED pc,
             shutdown' \in {"serving", "settling", "closing", "ended"}
      PROVE  Places' /\ Received' /\ Owing' /\ Chained'
  BY <1>2, CloseKeeps
<1>3. shutdown \in {"serving", "settling", "closing", "ended"}
  BY DEF QueueInv, Places
<1>4. ASSUME NEW c \in Calls, Receive(c) PROVE Places' /\ Received' /\ Owing' /\ Chained'
  <2>1. CASE Close("Early") /\ UNCHANGED pc
    <3>1. UNCHANGED shutdown
      BY <1>4 DEF Receive
    <3> QED BY <1>2, <1>3, <2>1, <3>1
  <2>2. CASE ~(Close("Early") /\ UNCHANGED pc)
    BY <1>4, <2>2, ReceiveKeeps
  <2> QED BY <2>1, <2>2
<1>5. ASSUME NEW c \in Calls,
             \/ PredecessorSettled(c) \/ Admit(c) \/ DropAdmission(c)
             \/ CompleteOperation(c) \/ DropOperation(c) \/ TakeWriteDelivery(c)
             \/ Register(c) \/ Send(c) \/ WriteSucceeds(c) \/ WriteFails(c) \/ AbandonWrite(c)
             \/ SettleWrite(c)
      PROVE  Places' /\ Received' /\ Owing' /\ Chained'
  BY <1>5, SettledKeeps, AdmitKeeps, DropKeeps, OperationKeeps, TakeKeeps, ResponseKeeps
     DEF AbandonWrite
<1>6. ASSUME NEW i \in Ids, Cancel(i) PROVE Places' /\ Received' /\ Owing' /\ Chained'
  BY <1>6, CancelKeeps
<1>7. ASSUME \/ StopReading \/ InputDrained \/ StartSettling \/ ShutdownEnds \/ UNCHANGED vars
             \/ SettleBeforeClose /\ closed
      PROVE  Places' /\ Received' /\ Owing' /\ Chained'
  <2>1. /\ UNCHANGED gate /\ UNCHANGED <<behind, closed_by, pc, call, pool>>
        /\ reading' \in {reading, FALSE} /\ input_drained' \in {input_drained, TRUE}
        /\ shutdown' \in {shutdown, "settling", "closing", "ended"}
    BY <1>7 DEF StopReading, InputDrained, StartSettling, ShutdownEnds, SettleBeforeClose, vars, rest
  <2>2. reading' \in BOOLEAN /\ input_drained' \in BOOLEAN
        /\ shutdown' \in {"serving", "settling", "closing", "ended"}
    BY <1>3, <2>1 DEF QueueInv, Places
  <2>3. UNCHANGED <<behind, closed_by>> /\ \A c \in Calls : pc'[c] = pc[c]
    BY <2>1
  <2>4. Places' /\ Received' /\ Chained'
    BY <2>1, <2>2, <2>3, SameKeeps
  <2>5. UNCHANGED <<active, call, pc, pool, node, closed_by>>
    BY <2>1 DEF gate
  <2> QED BY <2>4, <2>5, OwingSame
<1>8. Places' /\ Received' /\ Owing' /\ Chained'
  <2>1. CASE SettleBeforeClose \/ CloseTransport
    <3>1. closed \/ \E reason \in {"Settled", "Early"} : Close(reason)
      BY <2>1 DEF SettleBeforeClose, CloseTransport
    <3>2. CASE \E reason \in {"Settled", "Early"} : Close(reason)
      <4>1. UNCHANGED pc /\ shutdown' \in {"serving", "settling", "closing", "ended"}
        BY <1>3, <2>1 DEF SettleBeforeClose, CloseTransport
      <4> QED BY <1>2, <3>2, <4>1
    <3>3. CASE SettleBeforeClose /\ closed
      BY <1>7, <3>3
    <3>4. CloseTransport => \E reason \in {"Settled", "Early"} : Close(reason)
      BY DEF CloseTransport
    <3> QED BY <2>1, <3>1, <3>2, <3>3, <3>4
  <2> QED BY <1>4, <1>5, <1>6, <1>7, <2>1 DEF Next
<1> QED BY <1>1, <1>8 DEF QueueInv

LEMMA QueueInit == Init => QueueInv /\ Contract!Init
<1> SUFFICES ASSUME Init PROVE QueueInv /\ Contract!Init
  OBVIOUS
<1>1. Ownership
  BY OwnershipInit
<1>2. WritesCounted
  <2>1. Writers = {}
    BY DEF Init, Writers, Writing
  <2> QED BY <2>1, FS_EmptySet DEF Init, WritesCounted
<1>3. \A c \in Calls : c \in Nat /\ NoCall < c
  BY ConstantsAssumption DEF Calls, NoCall
<1>4. Places
  BY <1>3 DEF Init, Places, Descends, Maybe, Nodes
<1>5. Received
  BY DEF Init, Received, Waiting
<1>6. Owing
  BY <1>3, ConstantsAssumption DEF Init, Owing, IsActive, closed, Waiting, Answering, NoCall
<1>7. Chained
  BY DEF Init, Chained
<1>8. Contract!Init
  <2>1. \A c \in Calls : pc[c] = "new" /\ call[c].delivery = "None"
    BY DEF Init
  <2>2. status = [c \in Calls |-> "New"]
    BY <2>1 DEF status
  <2>3. receipt = [c \in Calls |-> "None"]
    BY <2>1 DEF receipt
  <2> QED BY <2>2, <2>3 DEF Init, Contract!Init
<1> QED BY <1>1, <1>2, <1>4, <1>5, <1>6, <1>7, <1>8 DEF QueueInv

(* The invariant of the queue, in every state: who owns an ID, how many    *)
(* writes are pending, and that whatever a call was received behind is     *)
(* over or still covered by its predecessor, so that pruning the tail and  *)
(* skipping dropped admissions never lose a call that others wait behind.  *)
THEOREM QueueHolds == Spec => []QueueInv
<1> QED BY QueueInit, QueueStep, PTL DEF Spec

(* The domains of the transport's state, and the pending-write counter,    *)
(* which settle_write asserts to be positive: it is the number of          *)
(* responses between the start of their write and its settlement.          *)
THEOREM TypesHold == Spec => []TypeOK
<1>1. QueueInv => TypeOK
  BY QueueTypes DEF QueueInv, Ownership, Types, Places, WritesCounted, Writers, Writing, TypeOK
<1> QED BY <1>1, QueueHolds, PTL

(* The transport implements the contract of its deliveries: a call that    *)
(* was received behind another starts only when that one is over, even     *)
(* when it was cancelled while it ran, and the acknowledgment a response   *)
(* registered is settled exactly once, as delivered only after a           *)
(* successful write.                                                       *)
THEOREM DeliveriesKeepContract == Spec => KeepsContract
<1>1. QueueInv /\ [Next]_vars => [Contract!Next]_(Contract!vars)
  BY StepRefines
<1> QED BY <1>1, QueueInit, QueueHolds, PTL DEF Spec, KeepsContract, Contract!Spec

-----------------------------------------------------------------------------
(***************************************************************************)
(* What follows from the contract: what a user of the deliveries may       *)
(* conclude, and so what is true of the transport.                         *)
(***************************************************************************)

(* Every status, acknowledgment and set of predecessors has its domain.    *)
LEMMA ContractTypes == Contract!Spec => []Contract!TypeOK
<1>1. Contract!Init => Contract!TypeOK
  BY DEF Contract!Init, Contract!TypeOK, Contract!Statuses, Contract!Receipts
<1>2. Contract!TypeOK /\ [Contract!Next]_Contract!vars => Contract!TypeOK'
  <2> SUFFICES ASSUME Contract!TypeOK, [Contract!Next]_Contract!vars PROVE Contract!TypeOK'
    OBVIOUS
  <2> USE DEF Contract!TypeOK, Contract!Statuses, Contract!Receipts
  <2>1. ASSUME NEW c \in Calls, Contract!Accept(c) PROVE Contract!TypeOK'
    <3>1. PICK ahead \in SUBSET {b \in Calls : status[b] = "Waiting"} :
             behind' = [behind EXCEPT ![c] = ahead]
      BY <2>1 DEF Contract!Accept
    <3>2. ahead \in SUBSET Calls
      OBVIOUS
    <3> QED BY <2>1, <3>1, <3>2 DEF Contract!Accept
  <2>2. ASSUME NEW c \in Calls, Contract!Start(c) \/ Contract!Skip(c) \/ Contract!Answer(c)
        PROVE  Contract!TypeOK'
    BY <2>2 DEF Contract!Start, Contract!Skip, Contract!Answer
  <2>3. ASSUME NEW c \in Calls, Contract!Owe(c) PROVE Contract!TypeOK'
    BY <2>3 DEF Contract!Owe
  <2>4. ASSUME NEW c \in Calls, Contract!Finish(c) PROVE Contract!TypeOK'
    BY <2>4 DEF Contract!Finish
  <2>5. ASSUME NEW S \in SUBSET Calls, Contract!TakeBack(S) PROVE Contract!TypeOK'
    BY <2>5 DEF Contract!TakeBack
  <2>6. CASE UNCHANGED Contract!vars
    BY <2>6 DEF Contract!vars
  <2> QED BY <2>1, <2>2, <2>3, <2>4, <2>5, <2>6 DEF Contract!Next
<1> QED BY <1>1, <1>2, PTL DEF Contract!Spec

(* Only a call that ran can owe: Skip ends a call without settling         *)
(* anything, so OverOwesNothing alone is not inductive.                    *)
OwedWhileRun ==
    \A c \in Calls : receipt[c] = "Owed" => status[c] \in {"Running", "Answered"}

LEMMA ContractSettles == Contract!Spec => []Contract!OverOwesNothing
<1>1. Contract!Init => OwedWhileRun
  BY DEF Contract!Init, OwedWhileRun
<1>2. OwedWhileRun /\ Contract!TypeOK /\ [Contract!Next]_Contract!vars => OwedWhileRun'
  <2> SUFFICES ASSUME OwedWhileRun, Contract!TypeOK, [Contract!Next]_Contract!vars,
                      NEW d \in Calls, receipt'[d] = "Owed"
               PROVE  status'[d] \in {"Running", "Answered"}
    BY DEF OwedWhileRun
  <2> USE DEF OwedWhileRun, Contract!TypeOK
  <2>1. ASSUME NEW c \in Calls,
               Contract!Accept(c) \/ Contract!Start(c) \/ Contract!Skip(c) \/ Contract!Answer(c)
        PROVE  status'[d] \in {"Running", "Answered"}
    BY <2>1 DEF Contract!Accept, Contract!Start, Contract!Skip, Contract!Answer
  <2>2. ASSUME NEW c \in Calls, Contract!Owe(c) PROVE status'[d] \in {"Running", "Answered"}
    BY <2>2 DEF Contract!Owe
  <2>3. ASSUME NEW c \in Calls, Contract!Finish(c) PROVE status'[d] \in {"Running", "Answered"}
    BY <2>3 DEF Contract!Finish
  <2>4. ASSUME NEW S \in SUBSET Calls, Contract!TakeBack(S)
        PROVE  status'[d] \in {"Running", "Answered"}
    BY <2>4 DEF Contract!TakeBack
  <2>5. CASE UNCHANGED Contract!vars
    BY <2>5 DEF Contract!vars
  <2> QED BY <2>1, <2>2, <2>3, <2>4, <2>5 DEF Contract!Next
<1>3. OwedWhileRun => Contract!OverOwesNothing
  BY DEF OwedWhileRun, Contract!OverOwesNothing
<1> QED BY <1>1, <1>2, <1>3, ContractTypes, PTL DEF Contract!Spec

(* What is over stays over.                                                *)
LEMMA ContractOrders == Contract!Spec => []Contract!KeepsOrder
<1>1. Contract!Init => Contract!KeepsOrder
  BY DEF Contract!Init, Contract!KeepsOrder
<1>2. Contract!KeepsOrder /\ Contract!TypeOK /\ [Contract!Next]_Contract!vars => Contract!KeepsOrder'
  <2> SUFFICES ASSUME Contract!KeepsOrder, Contract!TypeOK, [Contract!Next]_Contract!vars
               PROVE  Contract!KeepsOrder'
    OBVIOUS
  <2> USE DEF Contract!KeepsOrder, Contract!TypeOK
  <2>1. ASSUME NEW c \in Calls, Contract!Accept(c) PROVE Contract!KeepsOrder'
    BY <2>1 DEF Contract!Accept
  <2>2. ASSUME NEW c \in Calls, Contract!Start(c) PROVE Contract!KeepsOrder'
    BY <2>2 DEF Contract!Start
  <2>3. ASSUME NEW c \in Calls, Contract!Skip(c) \/ Contract!Answer(c) \/ Contract!Owe(c)
        PROVE  Contract!KeepsOrder'
    BY <2>3 DEF Contract!Skip, Contract!Answer, Contract!Owe
  <2>4. ASSUME NEW c \in Calls, Contract!Finish(c) PROVE Contract!KeepsOrder'
    BY <2>4 DEF Contract!Finish
  <2>5. ASSUME NEW S \in SUBSET Calls, Contract!TakeBack(S) PROVE Contract!KeepsOrder'
    BY <2>5 DEF Contract!TakeBack
  <2>6. CASE UNCHANGED Contract!vars
    BY <2>6 DEF Contract!vars
  <2> QED BY <2>1, <2>2, <2>3, <2>4, <2>5, <2>6 DEF Contract!Next
<1> QED BY <1>1, <1>2, ContractTypes, PTL DEF Contract!Spec

(* A call that is over has settled the acknowledgment of its response: no  *)
(* claimed output stays owned by a call that cannot settle it any more.    *)
THEOREM OverSettled == Spec => []Contract!OverOwesNothing
<1> QED BY DeliveriesKeepContract, ContractSettles DEF KeepsContract

(* A call received behind another starts, and is answered, only after the  *)
(* other one is over.                                                      *)
THEOREM OrderKept == Spec => []Contract!KeepsOrder
<1> QED BY DeliveriesKeepContract, ContractOrders DEF KeepsContract
===============================================================================
