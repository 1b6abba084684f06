------------------------------- MODULE Responses -------------------------------
(***************************************************************************)
(* Who owns the output of a session: the tape, the evaluation in the       *)
(* active slot, a call that assembles or delivers a response, and the      *)
(* restart or follow-up that takes all of it over.  A response is the      *)
(* sequence of the output items it carries; notices and layout are left    *)
(* out.  One action is what happens under one lock of an evaluation or of  *)
(* the tape.                                                               *)
(*                                                                         *)
(* Startup is over and no requirements are prepared here; Lifecycle has    *)
(* both.  A call that is refused, or that answers without output,      *)
(* claims nothing and is over at once.  The transport starts a call when   *)
(* no response is being delivered (Deliveries has the gate itself).        *)
(***************************************************************************)
EXTENDS Naturals, Sequences, FiniteSets, SequencesExt

CONSTANTS MaxCalls,  \* bound on the calls of a session
          Sessions,  \* what the calls of a session ask for
          MaxOutput, \* bound on the output items a session publishes
          Spoken     \* of these, the bound on what its worker and the server say

Calls == 1..MaxCalls
NoCall == 0
Kinds == {"cell", "poll", "interrupt", "followup", "restart", "rerun"}
Controls == {"interrupt", "followup", "restart", "rerun"}

ASSUME ConstantsAssumption ==
    /\ MaxCalls \in Nat /\ MaxOutput \in Nat /\ Sessions \subseteq [Calls -> Kinds]
    /\ Spoken \in [Sessions -> 0..MaxOutput]

VARIABLES
    kind,       \* what each call asks for
    produced,   \* items published to the tape so far
    drained,    \* items that left the tape
    recovered,  \* OutputTapeState.recovered: no or one response
    ev,         \* EvaluationState and evaluator task of each call's cell
    active,     \* the cell in the evaluation slot
    running,    \* WorkerState is Running
    working,    \* the cell whose evaluator holds the worker lock
    control,    \* the call whose controlled send is admitted
    restarting, \* LifecycleState::Restarting
    generation, \* worker generation
    call,       \* what each call holds
    pc,         \* where each call is
    outcome,    \* history: where each item ended
    panicked    \* an assertion of the tape failed

tape == <<produced, drained, recovered>>
session == <<kind, active, running, working, control, restarting, generation>>
vars == <<tape, ev, session, call, pc, outcome, panicked>>

Labels == {"new", "start", "observe", "claim", "idle", "snapshot", "drain", "waiting",
           "signalled", "retry", "seen", "begun", "retiring", "taking", "delivering", "settling",
           "settled", "admitting", "answering", "over"}
Phases == {"None", "Evaluating", "Grace", "Starting", "Complete"}
Acknowledgments == {"None", "Pending", "Delivered", "Unclaimed"}
Maybe == Calls \cup {NoCall}
Items == 1..MaxOutput
Cuts == 0..MaxOutput
NoCut == MaxOutput + 1
MaybeResponse(s) == s = {} \/ \E r \in s : s = {r} /\ Range(r) \subseteq Items

NoCell == [phase |-> "None", task |-> "None", failed |-> FALSE, cut |-> NoCut,
           prelude |-> <<>>, reclaimed |-> {}, delivery |-> "None", returned |-> <<>>,
           collected |-> FALSE, waiting |-> FALSE, retired |-> FALSE, handoff |-> {}]
NoReservation == [of |-> NoCall, cut |-> NoCut, reclaimed |-> <<>>, pending |-> FALSE,
                  failed |-> FALSE]
NoClaim == [seen |-> NoCall, hand |-> <<>>, after |-> <<>>, target |-> "None", cut |-> NoCut,
            generation |-> 0, reserved |-> NoReservation]

(* Domains of the state.                                                   *)
TypeOK ==
    /\ kind \in [Calls -> Kinds]
    /\ produced \in Cuts /\ drained \in 0..produced
    /\ MaybeResponse(recovered)
    /\ active \in Maybe /\ working \in Maybe /\ control \in Maybe
    /\ running \in BOOLEAN /\ restarting \in BOOLEAN /\ panicked \in BOOLEAN
    /\ generation \in 0..MaxCalls
    /\ pc \in [Calls -> Labels]
    /\ outcome \in [Items -> {"Kept", "Delivered", "Dropped"}]
    /\ \A c \in Calls :
          /\ ev[c].phase \in Phases /\ ev[c].task \in {"None", "queued", "working", "done"}
          /\ ev[c].cut \in Cuts \cup {NoCut}
          /\ ev[c].delivery \in Acknowledgments
          /\ MaybeResponse(ev[c].reclaimed) /\ MaybeResponse(ev[c].handoff)
          /\ call[c].seen \in Maybe /\ call[c].cut \in Cuts \cup {NoCut}
          /\ call[c].target \in {"None", "Cell", "Tape"}

Init ==
    /\ kind \in Sessions
    /\ produced = 0 /\ drained = 0 /\ recovered = {}
    /\ ev = [c \in Calls |-> NoCell]
    /\ active = NoCall /\ working = NoCall /\ control = NoCall
    /\ running = TRUE /\ restarting = FALSE /\ generation = 0
    /\ call = [c \in Calls |-> NoClaim]
    /\ pc = [c \in Calls |-> "new"]
    /\ outcome = [i \in Items |-> "Kept"]
    /\ panicked = FALSE

At(c, label) == ~panicked /\ pc[c] = label
Goto(c, label) == pc' = [pc EXCEPT ![c] = label]
Over(c) == Goto(c, "over") /\ call' = [call EXCEPT ![c] = NoClaim]
Content(option) == IF option = {} THEN <<>> ELSE CHOOSE r \in option : TRUE
Later(a, b) == IF a < b THEN b ELSE a

-----------------------------------------------------------------------------
(* The tape.                                                               *)

(* Worker output while idle or in a cell, and notices of the server.       *)
Publish ==
    /\ ~panicked
    /\ produced < Spoken[kind]
    /\ produced' = produced + 1
    /\ UNCHANGED <<drained, recovered, ev, session, call, pc, outcome, panicked>>

(* What draining through a cut returns, and what it leaves.                *)
Through(cut) == Content(recovered) \o [i \in 1..(Later(drained, cut) - drained) |-> drained + i]
NothingAfter(cut) == <<>>
After(cut) == [i \in 1..(produced - Later(drained, cut)) |-> Later(drained, cut) + i]
Drain(cut) == drained' = Later(drained, cut) /\ recovered' = {} /\ UNCHANGED produced

(* push_failure: the text of a failure is output too.                      *)
PushFailure == produced' = IF produced < MaxOutput THEN produced + 1 ELSE produced

(* recover asserts that no response is recovered already.                  *)
Recover(response) ==
    IF recovered = {}
    THEN recovered' = {response} /\ UNCHANGED panicked
    ELSE panicked' = TRUE /\ UNCHANGED recovered

-----------------------------------------------------------------------------
(* Evaluations.                                                            *)

(* settle_delivery; a retired evaluation has given its receiver away.      *)
Settled(e) ==
    IF e.retired THEN e
    ELSE CASE e.delivery = "Delivered" -> [e EXCEPT !.delivery = "None"]
           [] e.delivery = "Unclaimed" -> [e EXCEPT !.delivery = "None", !.returned = <<>>,
                                                    !.reclaimed = {e.returned}]
           [] OTHER -> e
Unsettled(e) == ~e.retired /\ e.delivery = "Pending"

Reaps(e) == e.phase = "Complete" /\ e.collected /\ e.reclaimed = {} /\ ~e.waiting /\ ~e.retired
                /\ e.delivery = "None"

(* evaluation(): the slot is read after reaping a delivered completion.    *)
Observed == IF active = NoCall THEN ev ELSE [ev EXCEPT ![active] = Settled(@)]
Current == IF active # NoCall /\ Reaps(Observed[active]) THEN NoCall ELSE active

(* claim_wait_locked refuses a collected, retired or already watched cell. *)
Claimable(e) == ~(e.collected /\ e.reclaimed = {}) /\ ~e.retired /\ ~e.waiting

(* take_owned_response.                                                    *)
Owned(e, cut) == e.prelude \o Through(cut)

Unreadable == restarting \/ control # NoCall
Stale(c) == restarting \/ call[c].generation # generation
Readers == {c \in Calls : kind[c] = "poll" /\ pc[c] \in {"observe", "claim", "idle", "snapshot", "drain"}}
Release(c) == control' = IF control = c THEN NoCall ELSE control

(* start_evaluation_admitted: the cell takes what is idle, behind the      *)
(* response its control already owns, and is claimed by its own call.      *)
StartCell(c, prelude) ==
    /\ ev' = [Observed EXCEPT ![c] = [NoCell EXCEPT
                 !.phase = "Evaluating", !.task = "queued", !.waiting = TRUE,
                 !.prelude = prelude \o Through(produced)]]
    /\ active' = c
    /\ Drain(produced)
    /\ call' = [call EXCEPT ![c] = [NoClaim EXCEPT !.seen = c, !.generation = generation]]
    /\ Goto(c, "waiting")

-----------------------------------------------------------------------------
(* The evaluator of a cell.                                                *)

(* Under the worker lock and in its generation, the cell adopts what an    *)
(* established worker published since the cell was admitted.               *)
Dispatch(c) ==
    /\ ~panicked
    /\ ev[c].task = "queued" /\ working = NoCall
    /\ ~restarting /\ ~ev[c].retired
    /\ working' = c /\ running' = TRUE
    /\ IF running
       THEN /\ ev' = [ev EXCEPT ![c].task = "working", ![c].prelude = @ \o Through(produced)]
            /\ Drain(produced)
       ELSE ev' = [ev EXCEPT ![c].task = "working"] /\ UNCHANGED tape
    /\ UNCHANGED <<kind, active, control, restarting, generation, call, pc, outcome, panicked>>

Completed(e, failed) ==
    [e EXCEPT !.phase = "Complete", !.task = "done", !.failed = failed, !.cut = produced',
              !.collected = FALSE]

(* A cell of a restarted generation is not dispatched; nor is one whose    *)
(* worker cannot start.                                                    *)
Refuse(c) ==
    /\ ~panicked
    /\ ev[c].task = "queued"
    /\ restarting \/ ev[c].retired \/ (~running /\ working = NoCall)
    /\ IF ev[c].retired THEN UNCHANGED produced ELSE PushFailure
    /\ ev' = [ev EXCEPT ![c] = Completed(@, TRUE)]
    /\ UNCHANGED <<drained, recovered, session, call, pc, outcome, panicked>>

(* The completion's cut waits for output that other pipes still carry.     *)
CompleteAfterGrace(c) ==
    /\ ~panicked
    /\ working = c /\ ev[c].phase = "Evaluating"
    /\ working' = NoCall
    /\ ev' = [ev EXCEPT ![c].phase = "Grace", ![c].task = "done"]
    /\ UNCHANGED <<kind, tape, active, running, control, restarting, generation, call, pc, outcome,
                   panicked>>

FinishGrace(c) ==
    /\ ~panicked
    /\ ev[c].phase = "Grace"
    /\ UNCHANGED produced
    /\ ev' = [ev EXCEPT ![c] = Completed(@, FALSE)]
    /\ UNCHANGED <<drained, recovered, session, call, pc, outcome, panicked>>

(* A failure is published before the worker lock is released; of a cell    *)
(* that a restart retired, only one that was there before the restart.     *)
FailCell(c) ==
    /\ ~panicked
    /\ working = c /\ ev[c].phase = "Evaluating"
    /\ working' = NoCall /\ running' = FALSE
    /\ PushFailure \/ (ev[c].retired /\ UNCHANGED produced)
    /\ ev' = [ev EXCEPT ![c] = Completed(@, TRUE)]
    /\ UNCHANGED <<kind, drained, recovered, active, control, restarting, generation, call, pc,
                   outcome, panicked>>

(* The failed worker was stopped; its cell stays active while a            *)
(* replacement starts.                                                     *)
StartReplacement(c) ==
    /\ ~panicked
    /\ working = c /\ ev[c].phase = "Evaluating"
    /\ ~ev[c].retired /\ ~restarting
    /\ PushFailure
    /\ ev' = [ev EXCEPT ![c].phase = "Starting", ![c].cut = NoCut]
    /\ running' = FALSE
    /\ UNCHANGED <<kind, drained, recovered, active, working, control, restarting, generation, call,
                   pc, outcome, panicked>>

FinishReplacement(c) ==
    /\ ~panicked
    /\ working = c /\ ev[c].phase = "Starting"
    /\ working' = NoCall
    /\ \E ready \in BOOLEAN :
          /\ running' = ready
          /\ IF ready \/ ev[c].retired THEN UNCHANGED produced ELSE PushFailure
    /\ ev' = [ev EXCEPT ![c] = Completed(@, TRUE)]
    /\ UNCHANGED <<kind, drained, recovered, active, control, restarting, generation, call, pc,
                   outcome, panicked>>

-----------------------------------------------------------------------------
(* Calls and their observations.                                           *)

(* The transport's gate: no response is being delivered.                   *)
Start(c) ==
    /\ At(c, "new")
    /\ \A b \in Calls : pc[b] # "answering"
    /\ Goto(c, "start")
    /\ UNCHANGED <<tape, ev, session, call, outcome, panicked>>

Refused(c) ==
    /\ At(c, "start")
    /\ \/ Unreadable
       \/ kind[c] = "cell" /\ Current # NoCall
    /\ kind[c] # "interrupt"
    /\ ev' = IF Unreadable THEN ev ELSE Observed
    /\ active' = IF Unreadable THEN active ELSE Current
    /\ Over(c)
    /\ UNCHANGED <<kind, tape, running, working, control, restarting, generation, outcome, panicked>>

SendCell(c) ==
    /\ At(c, "start")
    /\ kind[c] = "cell" /\ ~Unreadable /\ Current = NoCall
    /\ StartCell(c, <<>>)
    /\ UNCHANGED <<kind, running, working, control, restarting, generation, outcome, panicked>>

SendPoll(c) ==
    /\ At(c, "start")
    /\ kind[c] = "poll" /\ ~Unreadable
    /\ call' = [call EXCEPT ![c].generation = generation]
    /\ Goto(c, "observe")
    /\ UNCHANGED <<tape, ev, session, outcome, panicked>>

(* claim_current_evaluation: the slot, then its claim.                     *)
ObserveSlot(c) ==
    /\ At(c, "observe")
    /\ ev' = Observed /\ active' = Current
    /\ IF Current = NoCall THEN Goto(c, "idle") /\ UNCHANGED call
       ELSE IF Unreadable \/ Stale(c) THEN Over(c)
       ELSE Goto(c, "claim") /\ call' = [call EXCEPT ![c].seen = Current]
    /\ UNCHANGED <<kind, tape, running, working, control, restarting, generation, outcome, panicked>>

(* A poll waits for a pending delivery before it claims, until its         *)
(* deadline; a delivered completion sends it back to the slot.             *)
ClaimAfterDelivery(c) ==
    /\ At(c, "claim")
    /\ LET e == Settled(ev[call[c].seen])
       IN \/ /\ Unsettled(e)
             /\ Over(c) /\ UNCHANGED ev
          \/ /\ ~Unsettled(e)
             /\ ev' = [ev EXCEPT ![call[c].seen] = IF Claimable(e) THEN [e EXCEPT !.waiting = TRUE] ELSE e]
             /\ IF Claimable(e) THEN Goto(c, "waiting") /\ UNCHANGED call
                ELSE IF e.collected /\ e.reclaimed = {} THEN Goto(c, "observe") /\ UNCHANGED call
                ELSE Over(c)
    /\ UNCHANGED <<tape, session, outcome, panicked>>

NotRetired(e) == ~e.retired
OwnsRegion(e) == ~e.retired /\ e.reclaimed = {}

(* track_delivery: the evaluation waits for this response to settle.       *)
Report(c, e, response) ==
    /\ ev' = [ev EXCEPT ![call[c].seen] = [e EXCEPT !.delivery = "Pending", !.waiting = FALSE]]
    /\ call' = [call EXCEPT ![c].hand = response, ![c].target = "Cell"]
    /\ Goto(c, "answering")
    /\ UNCHANGED <<produced, session, outcome, panicked>>

(* reported_state, and the end of the wait that drops the claim: nobody    *)
(* can take the claim of an evaluation whose delivery is pending.          *)
ReportReclaimed(c) ==
    /\ At(c, "waiting")
    /\ LET e == ev[call[c].seen]
       IN /\ ~e.retired /\ e.reclaimed # {}
          /\ Report(c, [e EXCEPT !.reclaimed = {}], Content(e.reclaimed))
    /\ UNCHANGED <<drained, recovered>>

ReportCompleted(c) ==
    /\ At(c, "waiting")
    /\ LET e == ev[call[c].seen]
       IN /\ OwnsRegion(e) /\ e.phase = "Complete"
          /\ Report(c, [e EXCEPT !.collected = TRUE, !.cut = NoCut, !.prelude = <<>>],
                    Owned(e, e.cut))
          /\ Drain(e.cut)

(* At the wait's deadline, or when managed input is requested.             *)
ReportRunning(c) ==
    /\ At(c, "waiting")
    /\ LET e == ev[call[c].seen]
       IN /\ OwnsRegion(e) /\ e.phase \in {"Evaluating", "Starting"}
          /\ Report(c, [e EXCEPT !.prelude = <<>>], Owned(e, produced))
          /\ Drain(produced)

(* The response that a restart or a follow-up handed to the waiter.        *)
ReportHandoff(c) ==
    /\ At(c, "waiting")
    /\ LET e == ev[call[c].seen]
       IN /\ e.retired /\ e.handoff # {}
          /\ Report(c, [e EXCEPT !.handoff = {}], Content(e.handoff))
    /\ UNCHANGED <<drained, recovered>>

(* The drop of a wait claim returns the response that was handed to it.    *)
ForgetHandoff(e) == [e EXCEPT !.waiting = FALSE]
ReleaseClaim(e) ==
    IF e.handoff = {} THEN [e EXCEPT !.waiting = FALSE]
    ELSE [e EXCEPT !.waiting = FALSE, !.handoff = {}, !.delivery = "Unclaimed",
                   !.returned = Content(e.handoff)]

(* A wait that began before startup was over ends with its request.        *)
DropWait(c) ==
    /\ At(c, "waiting")
    /\ ev' = [ev EXCEPT ![call[c].seen] = ReleaseClaim(@)]
    /\ Over(c)
    /\ UNCHANGED <<tape, session, outcome, panicked>>

-----------------------------------------------------------------------------
(* take_idle_response.                                                     *)

IdleSlot(c) ==
    /\ At(c, "idle")
    /\ ev' = Observed /\ active' = Current
    /\ IF Current # NoCall \/ Stale(c) THEN Over(c)
       ELSE Goto(c, "snapshot") /\ UNCHANGED call
    /\ UNCHANGED <<kind, tape, running, working, control, restarting, generation, outcome, panicked>>

IdleSnapshot(c) ==
    /\ At(c, "snapshot")
    /\ working = NoCall
    /\ IF Stale(c) THEN Over(c)
       ELSE Goto(c, "drain") /\ call' = [call EXCEPT ![c].cut = produced]
    /\ UNCHANGED <<tape, ev, session, outcome, panicked>>

(* An interrupt's response is recovered when it is not delivered, that of  *)
(* a poll is not.                                                          *)
IdleDrain(c) ==
    /\ At(c, "drain")
    /\ call' = [call EXCEPT ![c].hand = Through(call[c].cut),
                            ![c].target = IF control = c THEN "Tape" ELSE "None"]
    /\ Drain(call[c].cut)
    /\ Release(c)
    /\ Goto(c, "answering")
    /\ UNCHANGED <<kind, ev, active, running, working, restarting, generation, outcome, panicked>>

-----------------------------------------------------------------------------
(* Delivery of a response by the transport.                                *)

Ends(c, how) ==
    outcome' = [i \in Items |-> IF i \in Range(call[c].hand) THEN how ELSE outcome[i]]

Deliver(c) ==
    /\ At(c, "answering")
    /\ Ends(c, "Delivered")
    /\ ev' = IF call[c].target = "Cell"
             THEN [ev EXCEPT ![call[c].seen].delivery = "Delivered"] ELSE ev
    /\ Over(c)
    /\ UNCHANGED <<tape, session, panicked>>

(* A failed write, a cancelled request or the end of the connection.       *)
Return(c) ==
    /\ At(c, "answering")
    /\ CASE call[c].target = "Cell" ->
              /\ ev' = [ev EXCEPT ![call[c].seen].delivery = "Unclaimed",
                                  ![call[c].seen].returned = call[c].hand]
              /\ UNCHANGED <<recovered, outcome, panicked>>
         [] call[c].target = "Tape" -> Recover(call[c].hand) /\ UNCHANGED <<ev, outcome>>
         [] OTHER -> Ends(c, "Dropped") /\ UNCHANGED <<recovered, ev, panicked>>
    /\ IF panicked' THEN UNCHANGED <<pc, call>> ELSE Over(c)
    /\ UNCHANGED <<produced, drained, session>>

-----------------------------------------------------------------------------
(* Controls.                                                               *)

(* Answers with a response that goes back to the tape if it is not         *)
(* delivered (return_controlled_response), and ends the control.           *)
Answer(c, response) ==
    /\ call' = [call EXCEPT ![c] = [NoClaim EXCEPT !.hand = response, !.target = "Tape"]]
    /\ Goto(c, "answering")
    /\ Release(c)

BeginControl(c) ==
    /\ At(c, "start")
    /\ kind[c] \in Controls
    /\ IF Unreadable
       THEN kind[c] = "interrupt" /\ Goto(c, "retry") /\ UNCHANGED <<control, call>>
       ELSE /\ control' = c
            /\ call' = [call EXCEPT ![c].generation = generation]
            /\ Goto(c, IF kind[c] \in {"restart", "rerun"} THEN "begun" ELSE "signalled")
    /\ UNCHANGED <<kind, tape, ev, active, running, working, restarting, generation, outcome, panicked>>

(* An interrupt signals what a restart or another control runs, and tries  *)
(* once more after its grace.                                              *)
RetryControl(c) ==
    /\ At(c, "retry")
    /\ IF Unreadable THEN Over(c) /\ UNCHANGED control
       ELSE /\ control' = c
            /\ call' = [call EXCEPT ![c].generation = generation]
            /\ Goto(c, "signalled")
    /\ UNCHANGED <<kind, tape, ev, active, running, working, restarting, generation, outcome, panicked>>

(* A code-free interrupt does not wait for the admission of operations.    *)
InterruptSlot(c) ==
    /\ At(c, "signalled") /\ kind[c] = "interrupt"
    /\ ev' = Observed /\ active' = Current
    /\ IF Readers # {} THEN Over(c) /\ Release(c)
       ELSE /\ Goto(c, IF Current = NoCall THEN "idle" ELSE "seen")
            /\ call' = [call EXCEPT ![c].seen = Current]
            /\ UNCHANGED control
    /\ UNCHANGED <<kind, tape, running, working, restarting, generation, outcome, panicked>>

ClaimsWhilePending(e) == Claimable(e)
InterruptClaims(e) == ~Unsettled(e) /\ Claimable(e)

(* It observes the cell only when nobody else watches or owns its output.  *)
InterruptClaim(c) ==
    /\ At(c, "seen") /\ kind[c] = "interrupt"
    /\ LET e == Settled(ev[call[c].seen])
       IN IF InterruptClaims(e)
          THEN /\ ev' = [ev EXCEPT ![call[c].seen] = [e EXCEPT !.waiting = TRUE]]
               /\ Goto(c, "waiting") /\ UNCHANGED call
          ELSE ev' = [ev EXCEPT ![call[c].seen] = e] /\ Over(c)
    /\ Release(c)
    /\ UNCHANGED <<kind, tape, active, running, working, restarting, generation, outcome, panicked>>

(* reserve_for_restart and reserve_completed_for_handoff: the evaluation   *)
(* is retired, and its reclaimed response, its pending delivery and the    *)
(* cut of an uncollected completion pass to the reserving call.            *)
Reservation(a) ==
    [of |-> a, reclaimed |-> Content(Observed[a].reclaimed),
     cut |-> IF Observed[a].phase = "Complete" /\ ~Observed[a].collected THEN Observed[a].cut
             ELSE NoCut,
     pending |-> Observed[a].delivery # "None",
     failed |-> Observed[a].failed]

Reserve(c) ==
    /\ ev' = [Observed EXCEPT ![Current].retired = TRUE, ![Current].reclaimed = {}]
    /\ call' = [call EXCEPT ![c].reserved = Reservation(Current),
                            ![c].generation = generation']
    /\ active' = NoCall

FollowUpSlot(c) ==
    /\ At(c, "signalled") /\ kind[c] = "followup"
    /\ Readers = {}
    /\ UNCHANGED generation
    /\ IF Current = NoCall
       THEN ev' = Observed /\ active' = NoCall /\ Goto(c, "admitting") /\ UNCHANGED call
       ELSE /\ Observed[Current].phase # "Grace"
            /\ IF Observed[Current].phase = "Complete"
               THEN Reserve(c) /\ Goto(c, "taking")
               ELSE /\ ev' = Observed /\ Goto(c, "seen") /\ UNCHANGED active
                    /\ call' = [call EXCEPT ![c].seen = Current]
    /\ UNCHANGED <<kind, tape, running, working, control, restarting, outcome, panicked>>

(* The interrupted cell is still active: its state is reported, and the    *)
(* following cell is not run.                                              *)
FollowUpClaim(c) ==
    /\ At(c, "seen") /\ kind[c] = "followup"
    /\ LET e == Settled(ev[call[c].seen])
       IN IF ~Unsettled(e) /\ Claimable(e)
          THEN /\ ev' = [ev EXCEPT ![call[c].seen] = [e EXCEPT !.waiting = TRUE]]
               /\ Goto(c, "waiting") /\ Release(c) /\ UNCHANGED call
          ELSE ev' = [ev EXCEPT ![call[c].seen] = e] /\ Answer(c, <<>>)
    /\ UNCHANGED <<kind, tape, active, running, working, restarting, generation, outcome, panicked>>

BeginRestart(c) ==
    /\ At(c, "begun")
    /\ restarting' = TRUE /\ generation' = generation + 1
    /\ IF Current = NoCall
       THEN ev' = Observed /\ active' = NoCall /\ UNCHANGED call
       ELSE Observed[Current].phase # "Grace" /\ Reserve(c)
    /\ Goto(c, "retiring")
    /\ UNCHANGED <<kind, tape, running, working, control, outcome, panicked>>

(* Acquiring the worker waits for the retired cell to end.                 *)
RetireWorker(c) ==
    /\ At(c, "retiring")
    /\ working = NoCall
    /\ running' = FALSE
    /\ Goto(c, "taking")
    /\ UNCHANGED <<kind, tape, ev, active, working, control, restarting, generation, call, outcome,
                   panicked>>

(* settle_reserved_evaluation, in three steps.                             *)
TakeOutput(c) ==
    /\ At(c, "taking")
    /\ LET r == call[c].reserved
           cut == IF r.cut = NoCut THEN produced ELSE r.cut
           old == r.reclaimed \o Owned(ev[r.of], cut)
           post == After(cut)
       IN IF r.of = NoCall
          THEN /\ call' = [call EXCEPT ![c].hand = Through(produced)]
               /\ Goto(c, "settled") /\ UNCHANGED ev
          ELSE /\ ev' = [ev EXCEPT ![r.of].prelude = <<>>]
               /\ IF r.pending
                  THEN /\ call' = [call EXCEPT ![c].after = old \o post,
                                             ![c].reserved.reclaimed = <<>>]
                       /\ Goto(c, "settling")
                  ELSE /\ call' = [call EXCEPT ![c].hand = old, ![c].after = post,
                                             ![c].reserved.reclaimed = <<>>]
                       /\ Goto(c, "delivering")
    /\ Drain(produced)
    /\ UNCHANGED <<session, outcome, panicked>>

Watched(e) == e.waiting

(* A call that still waits on the retired cell gets the cell's response.   *)
HandOff(c) ==
    /\ At(c, "delivering")
    /\ LET of == call[c].reserved.of
       IN IF Watched(ev[of])
          THEN /\ ev' = [ev EXCEPT ![of].handoff = {call[c].hand}, ![of].delivery = "Pending"]
               /\ call' = [call EXCEPT ![c].hand = <<>>]
               /\ Goto(c, "settling")
          ELSE /\ call' = [call EXCEPT ![c].hand = @ \o call[c].after, ![c].after = <<>>]
               /\ Goto(c, "settled") /\ UNCHANGED ev
    /\ UNCHANGED <<tape, session, outcome, panicked>>

AwaitDelivery(c) ==
    /\ At(c, "settling")
    /\ LET of == call[c].reserved.of
       IN /\ ev[of].delivery \in {"Delivered", "Unclaimed"}
          /\ call' = [call EXCEPT ![c].hand = @ \o ev[of].returned \o call[c].after,
                                  ![c].after = <<>>]
          /\ ev' = [ev EXCEPT ![of].delivery = "None", ![of].returned = <<>>]
    /\ Goto(c, "settled")
    /\ UNCHANGED <<tape, session, outcome, panicked>>

FollowUpSettled(c) ==
    /\ At(c, "settled") /\ kind[c] = "followup"
    /\ IF call[c].reserved.failed THEN Answer(c, call[c].hand)
       ELSE Goto(c, "admitting") /\ UNCHANGED <<call, control>>
    /\ UNCHANGED <<kind, tape, ev, active, running, working, restarting, generation, outcome, panicked>>

(* The replacement starts, or fails to; its output joins the response.     *)
StartWorker(c) ==
    /\ At(c, "settled") /\ kind[c] \in {"restart", "rerun"}
    /\ \E ready \in BOOLEAN :
          /\ running' = ready
          /\ IF ready THEN UNCHANGED produced ELSE PushFailure
    /\ restarting' = FALSE
    /\ call' = [call EXCEPT ![c].hand = @ \o Through(produced')]
    /\ drained' = produced' /\ recovered' = {}
    /\ Goto(c, "admitting")
    /\ UNCHANGED <<kind, ev, active, working, control, generation, outcome, panicked>>

(* The control's own cell starts with the response as its prelude.         *)
StartFollowing(c) ==
    /\ At(c, "admitting")
    /\ Readers = {}
    /\ IF kind[c] # "restart" /\ (running \/ kind[c] = "followup")
       THEN StartCell(c, call[c].hand) /\ Release(c)
       ELSE Answer(c, call[c].hand) /\ UNCHANGED <<kind, tape, ev, active>>
    /\ UNCHANGED <<kind, running, working, restarting, generation, outcome, panicked>>

-----------------------------------------------------------------------------
(* What a cell does of itself, and for a restart that retired it.          *)
Cell(c) == FinishGrace(c) \/ Refuse(c) \/ (ev[c].retired /\ (FailCell(c) \/ FinishReplacement(c)))

(* The task of a call.                                                     *)
Task(c) ==
    \/ ObserveSlot(c) \/ ClaimAfterDelivery(c) \/ IdleSlot(c) \/ IdleSnapshot(c) \/ IdleDrain(c)
    \/ ReportReclaimed(c) \/ ReportCompleted(c) \/ ReportRunning(c) \/ ReportHandoff(c)
    \/ RetryControl(c) \/ InterruptSlot(c) \/ InterruptClaim(c) \/ FollowUpSlot(c)
    \/ FollowUpClaim(c) \/ BeginRestart(c) \/ RetireWorker(c) \/ TakeOutput(c) \/ HandOff(c)
    \/ AwaitDelivery(c) \/ FollowUpSettled(c) \/ StartWorker(c) \/ StartFollowing(c)
    \/ Deliver(c) \/ Return(c)

Next ==
    \/ Publish
    \/ \E c \in Calls :
          \/ Start(c) \/ Refused(c) \/ SendCell(c) \/ SendPoll(c) \/ BeginControl(c)
          \/ Dispatch(c) \/ Refuse(c) \/ CompleteAfterGrace(c) \/ FinishGrace(c) \/ FailCell(c)
          \/ StartReplacement(c) \/ FinishReplacement(c)
          \/ Task(c) \/ DropWait(c)

(* Waits have deadlines, a retired cell is shut down, the task of a call   *)
(* runs, and the transport settles every response it was given.            *)
Spec ==
    /\ Init /\ [][Next]_vars
    /\ \A c \in Calls : WF_vars(Cell(c)) /\ WF_vars(Task(c))

-----------------------------------------------------------------------------
(* What becomes of the output.                                             *)

(* What a call and its cell hold, besides a response being delivered.      *)
Held(c) ==
    (IF ev[c] = NoCell THEN <<>>
     ELSE ev[c].prelude \o Content(ev[c].reclaimed) \o ev[c].returned \o Content(ev[c].handoff))
    \o (IF call[c] = NoClaim THEN <<>>
        ELSE call[c].after \o call[c].reserved.reclaimed
             \o (IF pc[c] = "answering" THEN <<>> ELSE call[c].hand))
Offered(c) == IF pc[c] = "answering" THEN call[c].hand ELSE <<>>

CopiesOf(held(_), i) ==
    UNION {LET s == held(c) IN {<<c, k>> : k \in {k \in DOMAIN s : s[k] = i}} : c \in Calls}
OnTape(i) ==
    {<<NoCall, k>> : k \in {k \in DOMAIN Content(recovered) : Content(recovered)[k] = i}}
    \cup (IF drained < i /\ i <= produced THEN {<<NoCall, 0>>} ELSE {})
Ended(i) == IF outcome[i] = "Kept" THEN {} ELSE {outcome[i]}

(* An item in two places at once, or in none, is "Lost".                   *)
Place(i) ==
    LET kept == CopiesOf(Held, i) \cup OnTape(i)
        offered == CopiesOf(Offered, i)
    IN IF Cardinality(kept) + Cardinality(offered) + Cardinality(Ended(i)) # 1 THEN "Lost"
       ELSE IF kept # {} THEN "Kept"
       ELSE IF offered = {} THEN outcome[i]
       ELSE IF \E c \in Calls : i \in Range(Offered(c)) /\ call[c].target = "None" THEN "Idle"
       ELSE "Offered"
place == [i \in Items |-> IF i > produced THEN "New" ELSE Place(i)]

Carriers(i) == {c \in Calls : pc[c] = "answering" /\ i \in Range(call[c].hand)}
holder == [i \in Items |-> IF Carriers(i) = {} THEN NoCall ELSE CHOOSE c \in Carriers(i) : TRUE]

Contract == INSTANCE OutputContract

(* However polls, interrupts, restarts and lost deliveries interleave with *)
(* a cell, no output is reported twice and none disappears: an item is in  *)
(* one place, a response that is not delivered gives back all of its items *)
(* together, and only an idle poll's response gives nothing back.          *)
KeepsContract == Contract!Spec

(* tape.rs and evaluation.rs assert that an evaluation has at most one     *)
(* response under way: nobody claims a cell whose delivery is pending, and *)
(* a response that came back is replayed before the next is assembled.     *)
OneResponse ==
    \A c \in Calls : ~ev[c].retired =>
        /\ ev[c].waiting => ev[c].delivery = "None"
        /\ ev[c].delivery # "None" => ev[c].reclaimed = {}

CellHolds(a) ==
    {i \in Items : \/ i \in Range(Content(ev[a].reclaimed)) \cup Range(ev[a].returned)
                   \/ \E b \in Calls : pc[b] = "answering" /\ call[b].target = "Cell"
                          /\ call[b].seen = a /\ i \in Range(call[b].hand)}

(* A wait on a cell never reports later output while an earlier response   *)
(* of that cell is still being delivered or came back undelivered.         *)
ReplayedFirst ==
    [][\A c \in Calls : pc[c] = "waiting" /\ pc'[c] = "answering" =>
          \A i \in CellHolds(call[c].seen), j \in Range(call'[c].hand) :
              i \notin Range(call'[c].hand) => j < i]_vars

(* Every call that waits on a cell is answered, also when a restart or a   *)
(* follow-up retires the cell and takes its output meanwhile, and every    *)
(* restart ends, although it waits in turn for the worker of the cell it   *)
(* retired, for a response under way and for the waiter it handed one to.  *)
AllAnswered ==
    <>[](panicked \/ (~restarting /\ \A c \in Calls : pc[c] # "waiting"))

(* tape.rs:330 asserts that "only one response can be recovered at a       *)
(* time", whatever responses of controls are returned undelivered.         *)
NoPanic == ~panicked
===============================================================================
