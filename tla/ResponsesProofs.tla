---------------------------- MODULE ResponsesProofs ----------------------------
(***************************************************************************)
(* Theorems of Responses: an evaluation has one response under way, what   *)
(* came back is replayed before later output, and the domains of the       *)
(* state.  The invariant says of a cell which of its parts may hold output *)
(* in which phase (Single), of a call which cell it watches, answers for   *)
(* or has reserved (Joined), and that no two calls do so for the same cell *)
(* (Apart).  Each action has a lemma; CallSteps is what they share.  The   *)
(* last section is about the contract of the output alone.                 *)
(***************************************************************************)
EXTENDS Responses, FiniteSetTheorems, FunctionTheorems, SequenceTheorems, TLAPS

(***************************************************************************)
(* Types: a response is a sequence of items, and an option none or one.    *)
(***************************************************************************)
Texts == Seq(Items)
Options == {s \in SUBSET Texts : \A a, b \in s : a = b}
Tasks == {"None", "queued", "working", "done"}
Evaluations == [phase : Phases, task : Tasks, failed : BOOLEAN, cut : Cuts \cup {NoCut},
                prelude : Texts, reclaimed : Options, delivery : Acknowledgments,
                returned : Texts, collected : BOOLEAN, waiting : BOOLEAN, retired : BOOLEAN,
                handoff : Options]
Reservations == [of : Maybe, cut : Cuts \cup {NoCut}, reclaimed : Texts, pending : BOOLEAN,
                 failed : BOOLEAN]
Claims == [seen : Maybe, hand : Texts, after : Texts, target : {"None", "Cell", "Tape"},
           cut : Cuts \cup {NoCut}, generation : Nat, reserved : Reservations]
TapeTypes == produced \in Cuts /\ drained \in 0..produced /\ recovered \in Options
SessionTypes ==
    /\ kind \in Sessions
    /\ active \in Maybe /\ working \in Maybe /\ control \in Maybe
    /\ running \in BOOLEAN /\ restarting \in BOOLEAN /\ generation \in Nat
CallTypes == call \in [Calls -> Claims] /\ pc \in [Calls -> Labels]
Types ==
    /\ TapeTypes /\ SessionTypes /\ CallTypes
    /\ ev \in [Calls -> Evaluations]
    /\ outcome \in [Items -> {"Kept", "Delivered", "Dropped"}]
    /\ panicked \in BOOLEAN

(***************************************************************************)
(* A cut lies in what was published.                                       *)
(***************************************************************************)
Fits(e, n) == e.phase = "Complete" /\ ~e.collected => e.cut \in 0..n
Cutting(e) == Fits(e, produced)
Claimed(e) == ~e.retired /\ e.waiting /\ e.reclaimed = {} => ~e.collected
CutsFit ==
    /\ \A a \in Calls : Cutting(ev[a]) /\ Claimed(ev[a])
    /\ \A c \in Calls : /\ pc[c] = "drain" => call[c].cut \in 0..produced
                        /\ call[c].reserved.cut \in (0..produced) \cup {NoCut}

(***************************************************************************)
(* A cell, and who watches it, answers for it or has reserved it.          *)
(***************************************************************************)
Single(e) ==
    /\ e.phase = "None" => e.task = "None" /\ ~e.retired /\ ~e.waiting /\ e.delivery = "None"
    /\ ~e.retired => /\ e.waiting => e.delivery = "None"
                     /\ e.delivery # "None" => e.reclaimed = {}
                     /\ e.handoff = {}
    /\ e.retired => e.reclaimed = {}
    /\ e.returned # <<>> => e.delivery = "Unclaimed"
    /\ e.handoff # {} => e.delivery = "Pending"
Begun(a) == a \in Calls /\ ev[a].phase # "None"
Answers(c) == pc[c] = "answering" /\ call[c].target = "Cell"
Sees(c) == pc[c] \in {"claim", "seen", "waiting"} \/ Answers(c)
Vacant(c) == \/ pc[c] = "delivering"
             \/ /\ pc[c] \in {"retiring", "taking"} /\ call[c].reserved.of # NoCall
                /\ ~call[c].reserved.pending
Keeping == {"retiring", "taking", "delivering", "settling", "settled", "admitting"}
Joined(c) ==
    /\ Sees(c) => Begun(call[c].seen)
    /\ pc[c] = "waiting" => ev[call[c].seen].waiting
    /\ Answers(c) => ev[call[c].seen].delivery = "Pending" /\ ev[call[c].seen].handoff = {}
    /\ pc[c] \notin {"waiting", "answering", "over"} => ev[c].phase = "None"
    /\ call[c].reserved.of # NoCall => Begun(call[c].reserved.of) /\ ev[call[c].reserved.of].retired
    /\ pc[c] \in {"delivering", "settling"} => call[c].reserved.of # NoCall
    /\ call[c].reserved.of # NoCall => pc[c] \in Keeping
    /\ Vacant(c) => ev[call[c].reserved.of].delivery = "None"
Apart(c, d) ==
    /\ call[c].seen = call[d].seen =>
          ~(pc[c] = "waiting" /\ pc[d] = "waiting") /\ ~(Answers(c) /\ Answers(d))
    /\ call[c].reserved.of # NoCall => call[c].reserved.of # call[d].reserved.of
Slot == active # NoCall => Begun(active) /\ ~ev[active].retired
Owners ==
    /\ \A a \in Calls : Single(ev[a])
    /\ Slot
    /\ \A c \in Calls : Joined(c)
    /\ \A c, d \in Calls : c # d => Apart(c, d)
Inv == Types /\ CutsFit /\ Owners

(* What a step of c does to the cell a, as the other calls see it.         *)
Moves(c, a) ==
    /\ ev[a].phase # "None" => ev'[a].phase # "None"
    /\ a # c /\ ev[a].phase = "None" => ev'[a].phase = "None"
    /\ ev[a].retired => ev'[a].retired
    /\ ev[a].waiting /\ ~(pc[c] = "waiting" /\ call[c].seen = a) => ev'[a].waiting
    /\ ev[a].delivery = "Pending" /\ ev[a].handoff = {} /\ ~(Answers(c) /\ call[c].seen = a) =>
          ev'[a].delivery = "Pending" /\ ev'[a].handoff = {}
    /\ ev[a].retired /\ ev[a].delivery = "None" /\ call[c].reserved.of # a =>
          ev'[a].delivery = "None"
    /\ ev'[a].retired /\ ~ev[a].retired => active' # a
(* A cell that a step leaves to whoever watches or answers for it.         *)
Steady(a) ==
    /\ ev'[a].phase = "None" <=> ev[a].phase = "None"
    /\ ev[a].retired <=> ev'[a].retired
    /\ ev[a].waiting => ev'[a].waiting
    /\ ev[a].delivery = "Pending" /\ ev[a].handoff = {} =>
          ev'[a].delivery = "Pending" /\ ev'[a].handoff = {}
    /\ ev[a].retired /\ ev[a].delivery = "None" => ev'[a].delivery = "None"
Sound(a) == Single(ev[a]) /\ Cutting(ev[a]) /\ Claimed(ev[a])
Cells(c) == ev' \in [Calls -> Evaluations] /\ \A a \in Calls : Sound(a)' /\ Moves(c, a)
Others(c) == \A d \in Calls \ {c} : pc'[d] = pc[d] /\ call'[d] = call[d]
Rest == /\ TapeTypes' /\ SessionTypes' /\ CallTypes' /\ produced <= produced'
        /\ outcome' \in [Items -> {"Kept", "Delivered", "Dropped"}] /\ panicked' \in BOOLEAN
Cut(c) == /\ pc[c] = "drain" => call[c].cut \in 0..produced
          /\ call[c].reserved.cut \in (0..produced) \cup {NoCut}

LEMMA InvParts ==
    Inv <=> /\ TapeTypes /\ SessionTypes /\ CallTypes /\ ev \in [Calls -> Evaluations]
            /\ outcome \in [Items -> {"Kept", "Delivered", "Dropped"}] /\ panicked \in BOOLEAN
            /\ \A a \in Calls : Sound(a)
            /\ \A c \in Calls : Cut(c) /\ Joined(c)
            /\ Slot
            /\ \A c, d \in Calls : c # d => Apart(c, d)
  BY DEF Inv, Types, CutsFit, Owners, Sound, Cut

LEMMA InvNext ==
    ASSUME Rest, ev' \in [Calls -> Evaluations], \A a \in Calls : Sound(a)',
           \A c \in Calls : Cut(c)' /\ Joined(c)', Slot',
           \A c, d \in Calls : c # d => Apart(c, d)'
    PROVE  Inv'
  BY DEF Rest, Inv, Types, CutsFit, Owners, Sound, Cut, TapeTypes, SessionTypes, CallTypes

(* A step of a call, and what it has to do for the others.                 *)
LEMMA CallSteps ==
    ASSUME Inv, NEW c \in Calls, Cells(c), Rest, Others(c), Slot',
           Cut(c)', Joined(c)', \A d \in Calls \ {c} : Apart(c, d)'
    PROVE  Inv'
  <1> USE DEF Rest, Cells
  <1>1. ASSUME NEW d \in Calls \ {c} PROVE Cut(d)'
    BY <1>1, InvParts DEF Cut, Others, TapeTypes, Cuts
  <1>2. ASSUME NEW d \in Calls \ {c} PROVE Joined(d)'
    <2>1. pc'[d] = pc[d] /\ call'[d] = call[d] BY <1>2 DEF Others
    <2>2. Joined(d) /\ Apart(c, d) BY <1>2, InvParts
    <2>3. Moves(c, d) /\ (call[d].seen \in Calls => Moves(c, call[d].seen))
          /\ (call[d].reserved.of \in Calls => Moves(c, call[d].reserved.of))
      BY <1>2
    <2> QED BY <1>2, <2>1, <2>2, <2>3 DEF Joined, Vacant, Keeping, Apart, Moves, Answers, Sees, Begun
  <1>3. ASSUME NEW b \in Calls, NEW d \in Calls, b # d PROVE Apart(b, d)'
    <2>1. CASE b = c BY <1>3, <2>1
    <2>2. CASE d = c
      <3>1. Apart(c, b)' BY <1>3, <2>2
      <3> QED BY <2>2, <3>1 DEF Apart, Answers
    <2>3. CASE b # c /\ d # c
      <3>1. pc'[b] = pc[b] /\ call'[b] = call[b] /\ pc'[d] = pc[d] /\ call'[d] = call[d]
        BY <1>3, <2>3 DEF Others
      <3>2. Apart(b, d) /\ Joined(b) BY <1>3, InvParts
      <3>3. call[b].seen \in Calls => Moves(c, call[b].seen) OBVIOUS
      <3> QED BY <3>1, <3>2, <3>3 DEF Apart, Answers, Moves, Joined, Sees, Begun
    <2> QED BY <2>1, <2>2, <2>3
  <1> QED BY <1>1, <1>2, <1>3, InvNext

(* A step of an evaluator, which no call takes part in.                    *)
LEMMA CellSteps ==
    ASSUME Inv, UNCHANGED <<pc, call>>, Rest, ev' \in [Calls -> Evaluations],
           \A a \in Calls : Sound(a)' /\ Steady(a), Slot'
    PROVE  Inv'
  <1> USE DEF Rest
  <1>1. ASSUME NEW d \in Calls PROVE Cut(d)'
    BY <1>1, InvParts DEF Cut, TapeTypes, Cuts
  <1>2. ASSUME NEW d \in Calls PROVE Joined(d)'
    <2>1. Joined(d) BY <1>2, InvParts
    <2>2. Steady(d) /\ (call[d].seen \in Calls => Steady(call[d].seen))
          /\ (call[d].reserved.of \in Calls => Steady(call[d].reserved.of))
      BY <1>2
    <2> QED BY <1>2, <2>1, <2>2 DEF Joined, Vacant, Keeping, Steady, Answers, Sees, Begun
  <1>3. ASSUME NEW b \in Calls, NEW d \in Calls, b # d PROVE Apart(b, d)'
    <2>1. Apart(b, d) /\ Joined(b) BY <1>3, InvParts
    <2>2. call[b].seen \in Calls => Steady(call[b].seen) OBVIOUS
    <2> QED BY <2>1, <2>2 DEF Apart, Answers, Steady, Joined, Sees, Begun
  <1> QED BY <1>1, <1>2, <1>3, InvNext

(***************************************************************************)
(* The operators of the model.                                             *)
(***************************************************************************)
LEMMA Empty == <<>> \in Texts /\ {} \in Options
  BY DEF Texts, Options

LEMMA Joins == ASSUME NEW a \in Texts, NEW b \in Texts PROVE a \o b \in Texts
  BY DEF Texts

LEMMA OptionOf == ASSUME NEW r \in Texts PROVE {r} \in Options /\ {r} # {}
  BY DEF Options

LEMMA ContentOf == ASSUME NEW s \in Options PROVE Content(s) \in Texts
  <1>1. CASE s = {} BY <1>1, Empty DEF Content
  <1>2. CASE s # {}
    <2>1. Content(s) = CHOOSE r \in s : TRUE BY <1>2 DEF Content
    <2>2. (CHOOSE r \in s : TRUE) \in s BY <1>2
    <2> QED BY <2>1, <2>2 DEF Options
  <1> QED BY <1>1, <1>2

LEMMA LaterOf ==
    ASSUME TapeTypes, NEW cut \in 0..produced
    PROVE  Later(drained, cut) \in drained..produced /\ Later(drained, cut) \in Nat
  BY DEF Later, TapeTypes, Cuts

LEMMA Numbers ==
    ASSUME NEW n \in Nat, NEW m \in 0..MaxOutput, n <= m
    PROVE  [i \in 1..(m - n) |-> n + i] \in Texts
  <1>1. m - n \in Nat BY ConstantsAssumption
  <1>2. \A i \in 1..(m - n) : n + i \in Items BY ConstantsAssumption DEF Items
  <1>3. [i \in 1..(m - n) |-> n + i] \in [1..(m - n) -> Items] BY <1>2
  <1> QED BY <1>1, <1>3 DEF Texts

LEMMA ThroughOf ==
    ASSUME TapeTypes, NEW cut \in 0..produced
    PROVE  Through(cut) \in Texts
  <1>1. Content(recovered) \in Texts BY ContentOf DEF TapeTypes
  <1>2. Later(drained, cut) \in 0..MaxOutput /\ drained \in Nat /\ drained <= Later(drained, cut)
    BY LaterOf, ConstantsAssumption DEF TapeTypes, Cuts
  <1>3. [i \in 1..(Later(drained, cut) - drained) |-> drained + i] \in Texts
    BY <1>2, Numbers
  <1> QED BY <1>1, <1>3, Joins DEF Through

LEMMA AfterOf ==
    ASSUME TapeTypes, NEW cut \in 0..produced
    PROVE  After(cut) \in Texts
  <1>1. Later(drained, cut) \in Nat /\ Later(drained, cut) <= produced /\ produced \in 0..MaxOutput
    BY LaterOf DEF TapeTypes, Cuts
  <1> QED BY <1>1, Numbers DEF After

LEMMA DrainOf ==
    ASSUME TapeTypes, NEW cut \in 0..produced, Drain(cut)
    PROVE  TapeTypes' /\ produced' = produced
  <1>1. Later(drained, cut) \in drained..produced /\ Later(drained, cut) \in Nat BY LaterOf
  <1> QED BY <1>1, Empty DEF Drain, TapeTypes, Cuts

LEMMA All == ASSUME TapeTypes PROVE produced \in 0..produced /\ produced \in Nat
  BY DEF TapeTypes, Cuts

LEMMA Pushed ==
    ASSUME TapeTypes, PushFailure \/ UNCHANGED produced, UNCHANGED <<drained, recovered>>
    PROVE  TapeTypes' /\ produced <= produced'
  BY ConstantsAssumption DEF TapeTypes, Cuts, PushFailure

(* Settling an evaluation.                                                 *)
LEMMA SettledOf ==
    ASSUME NEW e \in Evaluations
    PROVE  /\ Settled(e) \in Evaluations
           /\ Settled(e).phase = e.phase /\ Settled(e).task = e.task /\ Settled(e).cut = e.cut
           /\ Settled(e).collected = e.collected /\ Settled(e).waiting = e.waiting
           /\ Settled(e).retired = e.retired /\ Settled(e).handoff = e.handoff
           /\ e.retired \/ e.delivery \in {"None", "Pending"} => Settled(e) = e
           /\ ~e.retired /\ e.delivery \in {"Delivered", "Unclaimed"} =>
                 Settled(e).delivery = "None"
           /\ e.reclaimed = {} \/ Settled(e).reclaimed # {}
           /\ Settled(e).returned \in {e.returned, <<>>}
           /\ ~e.retired /\ e.delivery = "Unclaimed" => Settled(e).returned = <<>>
  <1>1. CASE e.retired \/ e.delivery \in {"None", "Pending"}
    <2>1. Settled(e) = e BY <1>1 DEF Settled
    <2> QED BY <1>1, <2>1
  <1>2. CASE ~e.retired /\ e.delivery = "Delivered"
    <2>1. Settled(e) = [e EXCEPT !.delivery = "None"] BY <1>2 DEF Settled
    <2> QED BY <1>2, <2>1 DEF Evaluations, Acknowledgments
  <1>3. CASE ~e.retired /\ e.delivery = "Unclaimed"
    <2>1. Settled(e) = [e EXCEPT !.delivery = "None", !.returned = <<>>, !.reclaimed = {e.returned}]
      BY <1>3 DEF Settled
    <2>2. e.returned \in Texts BY DEF Evaluations
    <2>3. {e.returned} \in Options /\ {e.returned} # {} BY <2>2, OptionOf
    <2> QED BY <1>3, <2>1, <2>3, Empty DEF Evaluations, Acknowledgments
  <1>4. e.delivery \in Acknowledgments BY DEF Evaluations
  <1> QED BY <1>1, <1>2, <1>3, <1>4 DEF Acknowledgments

LEMMA SettledSound ==
    ASSUME NEW e \in Evaluations, Single(e), Cutting(e), Claimed(e)
    PROVE  Single(Settled(e)) /\ Cutting(Settled(e)) /\ Claimed(Settled(e))
  <1> DEFINE f == Settled(e)
  <1>1. e.delivery \in {"None", "Pending", "Delivered", "Unclaimed"}
    BY DEF Evaluations, Acknowledgments
  <1>2. /\ f.phase = e.phase /\ f.task = e.task /\ f.cut = e.cut /\ f.collected = e.collected
        /\ f.waiting = e.waiting /\ f.retired = e.retired /\ f.handoff = e.handoff
        /\ e.retired \/ e.delivery \in {"None", "Pending"} => f = e
        /\ ~e.retired /\ e.delivery \in {"Delivered", "Unclaimed"} => f.delivery = "None"
        /\ e.reclaimed = {} \/ f.reclaimed # {}
        /\ f.returned \in {e.returned, <<>>}
        /\ ~e.retired /\ e.delivery = "Unclaimed" => f.returned = <<>>
    BY SettledOf
  <1> HIDE DEF f
  <1>3. CASE e.retired \/ e.delivery \in {"None", "Pending"} BY <1>2, <1>3 DEF f
  <1>4. CASE ~e.retired /\ e.delivery \in {"Delivered", "Unclaimed"}
    <2>1. Single(f) BY <1>2, <1>4 DEF Single
    <2>2. Cutting(f) BY <1>2 DEF Cutting, Fits
    <2>3. Claimed(f) BY <1>2, <1>4 DEF Claimed, Single
    <2> QED BY <2>1, <2>2, <2>3 DEF f
  <1> QED BY <1>1, <1>3, <1>4

LEMMA ObservedOf ==
    ASSUME SessionTypes, ev \in [Calls -> Evaluations]
    PROVE  /\ Observed \in [Calls -> Evaluations]
           /\ \A a \in Calls : Observed[a] \in {ev[a], Settled(ev[a])}
           /\ Current \in {NoCall, active}
           /\ Current # NoCall => Observed[Current] = Settled(ev[Current])
  <1>1. Current \in {NoCall, active} BY DEF Current
  <1>2. CASE active = NoCall BY <1>1, <1>2 DEF Observed
  <1>3. CASE active # NoCall
    <2>1. active \in Calls BY <1>3 DEF SessionTypes, Maybe
    <2>2. Settled(ev[active]) \in Evaluations BY <2>1, SettledOf
    <2>3. Observed = [ev EXCEPT ![active] = Settled(ev[active])] BY <1>3 DEF Observed
    <2> QED BY <1>1, <2>1, <2>2, <2>3
  <1> QED BY <1>2, <1>3

(* A step that observes the slot and nothing else of the cells.            *)
LEMMA Observing ==
    ASSUME Inv, NEW c \in Calls, ev' = Observed, UNCHANGED produced
    PROVE  Cells(c) /\ \A a \in Calls : Steady(a)
  <1>1. /\ ev' \in [Calls -> Evaluations]
        /\ \A a \in Calls : ev'[a] \in {ev[a], Settled(ev[a])}
    BY ObservedOf, InvParts
  <1>2. ASSUME NEW a \in Calls PROVE Sound(a)' /\ Moves(c, a) /\ Steady(a)
    <2>1. ev[a] \in Evaluations /\ Sound(a) BY <1>2, InvParts
    <2>2. /\ Single(Settled(ev[a])) /\ Cutting(Settled(ev[a])) /\ Claimed(Settled(ev[a]))
      BY <2>1, SettledSound DEF Sound
    <2>3. Sound(a)' BY <1>1, <2>1, <2>2 DEF Sound, Cutting, Fits, Claimed, Single
    <2>4. Steady(a) BY <1>1, <2>1, SettledOf DEF Steady
    <2>5. Moves(c, a) BY <2>4 DEF Moves, Steady
    <2> QED BY <2>3, <2>4, <2>5
  <1> QED BY <1>1, <1>2 DEF Cells

LEMMA Standing ==
    ASSUME Inv, NEW c \in Calls, UNCHANGED <<ev, produced>>
    PROVE  Cells(c) /\ \A a \in Calls : Steady(a)
  BY InvParts DEF Cells, Sound, Cutting, Fits, Claimed, Single, Moves, Steady

(* One cell changes.                                                       *)
LEMMA Changing ==
    ASSUME Inv, NEW c \in Calls, NEW a \in Calls, NEW f \in Evaluations,
           ev' = [ev EXCEPT ![a] = f], produced <= produced', TapeTypes',
           Single(f), Fits(f, produced'), Claimed(f), Moves(c, a)
    PROVE  Cells(c)
  <1>1. ev' \in [Calls -> Evaluations] /\ ev'[a] = f /\ \A b \in Calls \ {a} : ev'[b] = ev[b]
    BY InvParts
  <1>2. ASSUME NEW b \in Calls \ {a} PROVE Sound(b)' /\ Moves(c, b)
    <2>1. Sound(b) /\ TapeTypes BY <1>2, InvParts
    <2> QED BY <1>1, <1>2, <2>1 DEF Sound, Single, Cutting, Fits, Claimed, Moves, TapeTypes, Cuts
  <1>3. Sound(a)' BY <1>1 DEF Sound, Single, Cutting, Fits, Claimed
  <1> QED BY <1>1, <1>2, <1>3 DEF Cells

(***************************************************************************)
(* The steps of an evaluator.                                              *)
(***************************************************************************)
LEMMA Evaluates ==
    ASSUME Inv, NEW c \in Calls, NEW f \in Evaluations, ev' = [ev EXCEPT ![c] = f],
           UNCHANGED <<pc, call, active>>, Rest, ev[c].phase # "None", f.phase # "None",
           f.retired = ev[c].retired, f.waiting = ev[c].waiting, f.delivery = ev[c].delivery,
           f.reclaimed = ev[c].reclaimed, f.handoff = ev[c].handoff, f.returned = ev[c].returned, Fits(f, produced'),
           f.collected => ev[c].collected
    PROVE  Inv'
  <1>1. ev' \in [Calls -> Evaluations] /\ ev'[c] = f /\ \A b \in Calls \ {c} : ev'[b] = ev[b]
    BY InvParts
  <1>2. ASSUME NEW b \in Calls PROVE Sound(b)' /\ Steady(b)
    <2>1. Sound(b) /\ TapeTypes BY <1>2, InvParts
    <2>2. CASE b = c
      BY <1>1, <2>1, <2>2 DEF Sound, Single, Cutting, Fits, Claimed, Steady
    <2>3. CASE b # c
      BY <1>1, <1>2, <2>1, <2>3 DEF Sound, Single, Cutting, Fits, Claimed, Steady, Rest, TapeTypes, Cuts
    <2> QED BY <2>2, <2>3
  <1>3. Slot'
    BY <1>2, InvParts DEF Begun, Slot, Steady
  <1> QED BY <1>1, <1>2, <1>3, CellSteps

LEMMA Restful ==
    ASSUME Inv, TapeTypes', SessionTypes', UNCHANGED <<pc, call, outcome, panicked>>,
           produced <= produced'
    PROVE  Rest
  BY InvParts DEF Rest, CallTypes

LEMMA Drained ==
    ASSUME Inv, NEW cut \in 0..produced, Drain(cut)
    PROVE  TapeTypes' /\ produced <= produced'
  <1>1. TapeTypes BY InvParts
  <1> QED BY <1>1, DrainOf, All

LEMMA SameTape == ASSUME Inv, UNCHANGED tape PROVE TapeTypes' /\ produced <= produced'
  BY InvParts DEF tape, TapeTypes, Cuts

LEMMA DispatchHolds == ASSUME Inv, NEW c \in Calls, Dispatch(c) PROVE Inv'
  <1>0. ev[c] \in Evaluations /\ Sound(c) /\ SessionTypes /\ TapeTypes BY InvParts
  <1>1. ev[c].phase # "None" BY <1>0 DEF Dispatch, Sound, Single
  <1>2. SessionTypes' BY <1>0 DEF Dispatch, SessionTypes, Maybe
  <1>3. TapeTypes' /\ produced <= produced' /\ produced' = produced
    <2>1. CASE running BY <2>1, <1>0, All, Drained, DrainOf DEF Dispatch
    <2>2. CASE ~running BY <2>2, <1>0, SameTape DEF Dispatch, tape
    <2> QED BY <2>1, <2>2
  <1>4. Rest BY <1>2, <1>3, Restful DEF Dispatch
  <1>5. ev[c].prelude \o Through(produced) \in Texts
    BY <1>0, All, ThroughOf, Joins DEF Evaluations
  <1>6. PICK p \in Texts : ev' = [ev EXCEPT ![c] = [ev[c] EXCEPT !.task = "working", !.prelude = p]]
    <2>1. CASE running BY <2>1, <1>5 DEF Dispatch
    <2>2. CASE ~running
      <3>1. ev' = [ev EXCEPT ![c] = [ev[c] EXCEPT !.task = "working", !.prelude = ev[c].prelude]]
        BY <2>2, <1>0 DEF Dispatch, Evaluations
      <3> QED BY <3>1, <1>0 DEF Evaluations
    <2> QED BY <2>1, <2>2
  <1> DEFINE f == [ev[c] EXCEPT !.task = "working", !.prelude = p]
  <1>7. f \in Evaluations BY <1>0 DEF Evaluations, Tasks
  <1>8. /\ f.phase = ev[c].phase /\ f.retired = ev[c].retired /\ f.waiting = ev[c].waiting
        /\ f.delivery = ev[c].delivery /\ f.reclaimed = ev[c].reclaimed
        /\ f.handoff = ev[c].handoff /\ f.returned = ev[c].returned /\ f.collected = ev[c].collected /\ f.cut = ev[c].cut
    BY <1>0 DEF Evaluations
  <1>9. ev' = [ev EXCEPT ![c] = f] BY <1>6
  <1> HIDE DEF f
  <1>10. Fits(f, produced') BY <1>0, <1>3, <1>8 DEF Cutting, Fits, Sound
  <1>11. UNCHANGED <<pc, call, active>> BY DEF Dispatch
  <1> QED BY <1>1, <1>4, <1>7, <1>8, <1>9, <1>10, <1>11, Evaluates

(* The phases of a cell, and its completion with a cut at what is          *)
(* published by then.                                                      *)
LEMMA Completes ==
    ASSUME Inv, NEW c \in Calls, NEW failed \in BOOLEAN, ev' = [ev EXCEPT ![c] = Completed(@, failed)],
           UNCHANGED <<pc, call, active>>, Rest, ev[c].phase # "None"
    PROVE  Inv'
  <1>0. ev[c] \in Evaluations BY InvParts
  <1> DEFINE f == Completed(ev[c], failed)
  <1>1. f = [ev[c] EXCEPT !.phase = "Complete", !.task = "done", !.failed = failed,
                          !.cut = produced', !.collected = FALSE]
    BY DEF Completed
  <1>2. produced' \in Cuts BY DEF Rest, TapeTypes
  <1>3. f \in Evaluations BY <1>0, <1>1, <1>2 DEF Evaluations, Phases, Tasks
  <1>4. /\ f.phase = "Complete" /\ f.retired = ev[c].retired /\ f.waiting = ev[c].waiting
        /\ f.delivery = ev[c].delivery /\ f.reclaimed = ev[c].reclaimed
        /\ f.handoff = ev[c].handoff /\ f.returned = ev[c].returned /\ f.collected = FALSE /\ f.cut = produced'
    BY <1>0, <1>1 DEF Evaluations
  <1>5. ev' = [ev EXCEPT ![c] = f] OBVIOUS
  <1> HIDE DEF f
  <1>6. Fits(f, produced') BY <1>2, <1>4 DEF Cutting, Fits, Cuts
  <1> QED BY <1>3, <1>4, <1>5, <1>6, Evaluates

LEMMA Fails ==
    ASSUME Inv, PushFailure \/ UNCHANGED produced,
           UNCHANGED <<kind, drained, recovered, active, control, restarting, generation,
                       call, pc, outcome, panicked>>,
           working' \in {working, NoCall}, running' \in BOOLEAN
    PROVE  Rest
  <1>1. TapeTypes' /\ produced <= produced' BY Pushed, InvParts
  <1>2. SessionTypes' BY InvParts DEF SessionTypes, Maybe
  <1> QED BY <1>1, <1>2, Restful

LEMMA RefuseHolds == ASSUME Inv, NEW c \in Calls, Refuse(c) PROVE Inv'
  <1>1. ev[c].phase # "None" BY InvParts DEF Refuse, Sound, Single
  <1>2. Rest BY Fails, InvParts DEF Refuse, session, SessionTypes
  <1> QED BY <1>1, <1>2, Completes DEF Refuse, session

LEMMA FinishGraceHolds == ASSUME Inv, NEW c \in Calls, FinishGrace(c) PROVE Inv'
  <1>1. ev[c].phase # "None" BY DEF FinishGrace
  <1>2. Rest BY Fails, InvParts DEF FinishGrace, session, SessionTypes
  <1> QED BY <1>1, <1>2, Completes DEF FinishGrace, session

LEMMA FailCellHolds == ASSUME Inv, NEW c \in Calls, FailCell(c) PROVE Inv'
  <1>1. ev[c].phase # "None" BY DEF FailCell
  <1>2. Rest BY Fails DEF FailCell
  <1> QED BY <1>1, <1>2, Completes DEF FailCell

LEMMA FinishReplacementHolds == ASSUME Inv, NEW c \in Calls, FinishReplacement(c) PROVE Inv'
  <1>1. ev[c].phase # "None" BY DEF FinishReplacement
  <1>2. Rest BY Fails DEF FinishReplacement
  <1> QED BY <1>1, <1>2, Completes DEF FinishReplacement

(* A cell that goes on to another phase.                                   *)
LEMMA Advances ==
    ASSUME Inv, NEW c \in Calls, NEW f \in Evaluations, ev' = [ev EXCEPT ![c] = f],
           UNCHANGED <<pc, call, active>>, Rest, ev[c].phase # "None",
           f.phase \notin {"None", "Complete"}, f.retired = ev[c].retired,
           f.waiting = ev[c].waiting, f.delivery = ev[c].delivery,
           f.reclaimed = ev[c].reclaimed, f.handoff = ev[c].handoff, f.returned = ev[c].returned,
           f.collected = ev[c].collected
    PROVE  Inv'
  <1>1. Fits(f, produced') BY DEF Cutting, Fits
  <1> QED BY <1>1, Evaluates

LEMMA CompleteAfterGraceHolds == ASSUME Inv, NEW c \in Calls, CompleteAfterGrace(c) PROVE Inv'
  <1>0. ev[c] \in Evaluations BY InvParts
  <1>1. ev[c].phase # "None" BY DEF CompleteAfterGrace
  <1>2. Rest BY Fails, InvParts DEF CompleteAfterGrace, tape, SessionTypes
  <1> DEFINE f == [ev[c] EXCEPT !.phase = "Grace", !.task = "done"]
  <1>3. f \in Evaluations BY <1>0 DEF Evaluations, Tasks, Phases
  <1>4. /\ f.phase = "Grace" /\ f.retired = ev[c].retired /\ f.waiting = ev[c].waiting
        /\ f.delivery = ev[c].delivery /\ f.reclaimed = ev[c].reclaimed
        /\ f.handoff = ev[c].handoff /\ f.returned = ev[c].returned /\ f.collected = ev[c].collected
    BY <1>0 DEF Evaluations
  <1>5. ev' = [ev EXCEPT ![c] = f] BY DEF CompleteAfterGrace
  <1> HIDE DEF f
  <1> QED BY <1>1, <1>2, <1>3, <1>4, <1>5, Advances DEF CompleteAfterGrace

LEMMA StartReplacementHolds == ASSUME Inv, NEW c \in Calls, StartReplacement(c) PROVE Inv'
  <1>0. ev[c] \in Evaluations BY InvParts
  <1>1. ev[c].phase # "None" BY DEF StartReplacement
  <1>2. Rest BY Fails, InvParts DEF StartReplacement, SessionTypes
  <1> DEFINE f == [ev[c] EXCEPT !.phase = "Starting", !.cut = NoCut]
  <1>3. f \in Evaluations BY <1>0 DEF Evaluations, Phases
  <1>4. /\ f.phase = "Starting" /\ f.retired = ev[c].retired /\ f.waiting = ev[c].waiting
        /\ f.delivery = ev[c].delivery /\ f.reclaimed = ev[c].reclaimed
        /\ f.handoff = ev[c].handoff /\ f.returned = ev[c].returned /\ f.collected = ev[c].collected
    BY <1>0 DEF Evaluations
  <1>5. ev' = [ev EXCEPT ![c] = f] BY DEF StartReplacement
  <1> HIDE DEF f
  <1> QED BY <1>1, <1>2, <1>3, <1>4, <1>5, Advances DEF StartReplacement

LEMMA PublishHolds == ASSUME Inv, Publish PROVE Inv'
  <1>1. produced \in Nat /\ produced < MaxOutput
    <2>1. kind \in Sessions BY InvParts DEF SessionTypes
    <2>2. Spoken[kind] \in 0..MaxOutput BY <2>1, ConstantsAssumption
    <2> QED BY <2>2, InvParts, ConstantsAssumption DEF Publish, TapeTypes, Cuts
  <1>2. TapeTypes' /\ produced <= produced'
    BY <1>1, InvParts, ConstantsAssumption DEF Publish, TapeTypes, Cuts
  <1>3. Rest BY <1>2, Restful, InvParts DEF Publish, session, SessionTypes
  <1>4. \A a \in Calls : Sound(a)' /\ Steady(a)
    BY <1>2, InvParts DEF Publish, Sound, Single, Cutting, Fits, Claimed, Steady, TapeTypes, Cuts
  <1>5. Slot' BY InvParts DEF Publish, session, Begun, Slot
  <1> QED BY <1>3, <1>4, <1>5, CellSteps, InvParts DEF Publish

(***************************************************************************)
(* What a step of a call changes of the calls, the slot and the tape.      *)
(***************************************************************************)
LEMMA NoClaims == NoReservation \in Reservations /\ NoClaim \in Claims
  BY Empty DEF NoReservation, NoClaim, Reservations, Claims, Maybe

LEMMA Turn ==
    ASSUME CallTypes, NEW c \in Calls, NEW l \in Labels, Goto(c, l),
           NEW k \in Claims, call' = [call EXCEPT ![c] = k]
    PROVE  CallTypes' /\ Others(c) /\ pc'[c] = l /\ call'[c] = k
  BY DEF CallTypes, Goto, Others

LEMMA Stay ==
    ASSUME CallTypes, NEW c \in Calls, NEW l \in Labels, Goto(c, l), UNCHANGED call
    PROVE  CallTypes' /\ Others(c) /\ pc'[c] = l /\ call'[c] = call[c]
  BY DEF CallTypes, Goto, Others

LEMMA Ending ==
    ASSUME CallTypes, NEW c \in Calls, Over(c)
    PROVE  CallTypes' /\ Others(c) /\ pc'[c] = "over" /\ call'[c] = NoClaim
  BY NoClaims, Turn DEF Over, Labels

(* A step that leaves the cells as they are, or only observes the slot.    *)
LEMMA Leaving ==
    ASSUME Inv, NEW c \in Calls, UNCHANGED ev, active' \in {active, NoCall},
           UNCHANGED <<kind, working, outcome, panicked>>, running' \in BOOLEAN,
           control' \in {control, NoCall, c}, restarting' \in BOOLEAN, generation' \in Nat,
           TapeTypes', produced <= produced', UNCHANGED produced, CallTypes'
    PROVE  Cells(c) /\ Rest /\ Slot' /\ \A a \in Calls : Steady(a)
  <1>1. SessionTypes' BY InvParts DEF SessionTypes, Maybe
  <1>2. Rest BY <1>1, InvParts DEF Rest
  <1>3. Cells(c) /\ \A a \in Calls : Steady(a) BY Standing
  <1>4. Slot' BY InvParts DEF Begun, Slot
  <1> QED BY <1>2, <1>3, <1>4

LEMMA Looking ==
    ASSUME Inv, NEW c \in Calls, ev' = Observed, active' \in {Current, NoCall}, UNCHANGED tape,
           UNCHANGED <<kind, working, outcome, panicked>>, running' \in BOOLEAN,
           control' \in {control, NoCall, c}, restarting' \in BOOLEAN, generation' \in Nat,
           CallTypes'
    PROVE  Cells(c) /\ Rest /\ Slot' /\ \A a \in Calls : Steady(a)
  <1>1. active' \in {active, NoCall} BY InvParts, ObservedOf
  <1>2. SessionTypes' BY <1>1, InvParts DEF SessionTypes, Maybe
  <1>3. TapeTypes' /\ produced <= produced' /\ produced' = produced BY SameTape DEF tape
  <1>4. Rest BY <1>2, <1>3, InvParts DEF Rest
  <1>5. Cells(c) /\ \A a \in Calls : Steady(a) BY <1>3, Observing
  <1>6. Slot'
    <2>1. Slot BY InvParts
    <2> QED BY <1>1, <1>5, <2>1 DEF Begun, Slot, Steady
  <1> QED BY <1>4, <1>5, <1>6

(* A call that neither waits on a cell nor answers for one.                *)
LEMMA Quiet ==
    ASSUME Inv, NEW c \in Calls, Cells(c), Rest, Others(c), Slot',
           pc'[c] \notin {"waiting", "drain", "delivering", "settling"}, ~Answers(c)',
           pc'[c] \in {"claim", "seen"} => (Begun(call[c].seen))',
           pc'[c] \in {"answering", "over"} \/ ev'[c].phase = "None",
           call'[c].reserved.of \in {call[c].reserved.of, NoCall},
           call'[c].reserved.cut \in {call[c].reserved.cut, NoCut},
           pc[c] \in Keeping /\ pc'[c] \notin Keeping => call'[c].reserved.of = NoCall,
           pc'[c] \in {"retiring", "taking"} =>
              (pc[c] = "retiring" /\ call'[c] = call[c] /\ ev' = ev) \/ call'[c].reserved.of = NoCall
    PROVE  Inv'
  <1>1. Cut(c) /\ Joined(c) BY InvParts
  <1>2. Cut(c)' BY <1>1, InvParts DEF Cut, Rest, TapeTypes, Cuts
  <1>3. call[c].reserved.of \in Calls => Moves(c, call[c].reserved.of) BY DEF Cells
  <1>4. Joined(c)'
    <2>1. /\ (Sees(c) => Begun(call[c].seen))' /\ (pc[c] = "waiting" => ev[call[c].seen].waiting)'
          /\ ~Answers(c)'
      BY DEF Sees
    <2>2. (call[c].reserved.of # NoCall =>
              Begun(call[c].reserved.of) /\ ev[call[c].reserved.of].retired /\ pc[c] \in Keeping)'
      BY <1>1, <1>3 DEF Joined, Moves, Begun
    <2>3. ASSUME Vacant(c)' PROVE (ev[call[c].reserved.of].delivery = "None")'
      <3>1. pc[c] = "retiring" /\ call'[c] = call[c] /\ ev' = ev /\ Vacant(c) BY <2>3 DEF Vacant
      <3> DEFINE b == call[c].reserved.of
      <3>2. b \in Calls /\ ev[b].delivery = "None" /\ ev[b].retired
        BY <1>1, <3>1 DEF Joined, Vacant, Begun
      <3> QED BY <3>1, <3>2
    <2> QED BY <1>1, <2>1, <2>2, <2>3 DEF Joined
  <1>5. ASSUME NEW d \in Calls \ {c} PROVE Apart(c, d)'
    <2>1. Apart(c, d) /\ call'[d] = call[d] BY <1>5, InvParts DEF Others
    <2> QED BY <2>1 DEF Apart
  <1> QED BY <1>2, <1>4, <1>5, CallSteps

LEMMA StartHolds == ASSUME Inv, NEW c \in Calls, Start(c) PROVE Inv'
  <1>1. CallTypes' /\ Others(c) /\ pc'[c] = "start" /\ call'[c] = call[c]
    BY InvParts, Stay DEF Start, Labels
  <1>2. Cells(c) /\ Rest /\ Slot' /\ \A a \in Calls : Steady(a)
    BY <1>1, Leaving, SameTape, InvParts DEF Start, tape, session, SessionTypes
  <1>3. ev[c].phase = "None" /\ pc[c] = "new" BY InvParts DEF Start, At, Joined
  <1> QED BY <1>1, <1>2, <1>3, Quiet DEF Keeping, Start, Answers

LEMMA RefusedHolds == ASSUME Inv, NEW c \in Calls, Refused(c) PROVE Inv'
  <1>1. CallTypes' /\ Others(c) /\ pc'[c] = "over" /\ call'[c] = NoClaim
    BY InvParts, Ending DEF Refused
  <1>2. Cells(c) /\ Rest /\ Slot'
    <2>1. CASE Unreadable
      BY <1>1, <2>1, Leaving, SameTape, InvParts DEF Refused, tape, SessionTypes
    <2>2. CASE ~Unreadable
      BY <1>1, <2>2, Looking, InvParts DEF Refused, SessionTypes
    <2> QED BY <2>1, <2>2
  <1> QED BY <1>1, <1>2, Quiet DEF Keeping, Answers, NoClaim, NoReservation

LEMMA SendPollHolds == ASSUME Inv, NEW c \in Calls, SendPoll(c) PROVE Inv'
  <1>0. CallTypes /\ call[c] \in Claims /\ SessionTypes BY InvParts DEF CallTypes
  <1> DEFINE k == [call[c] EXCEPT !.generation = generation]
  <1>1. k \in Claims /\ k.reserved = call[c].reserved BY <1>0 DEF Claims, SessionTypes
  <1>2. call' = [call EXCEPT ![c] = k] BY DEF SendPoll
  <1> HIDE DEF k
  <1>3. CallTypes' /\ Others(c) /\ pc'[c] = "observe" /\ call'[c] = k
    BY <1>0, <1>1, <1>2, Turn DEF SendPoll, Labels
  <1>4. Cells(c) /\ Rest /\ Slot' /\ \A a \in Calls : Steady(a)
    BY <1>0, <1>3, Leaving, SameTape DEF SendPoll, tape, session, SessionTypes
  <1>5. ev[c].phase = "None" /\ pc[c] = "start" BY InvParts DEF SendPoll, At, Joined
  <1> QED BY <1>1, <1>3, <1>4, <1>5, Quiet DEF Keeping, SendPoll, Answers

(* The cell in the slot is one that began.                                 *)
LEMMA ObserveSlotHolds == ASSUME Inv, NEW c \in Calls, ObserveSlot(c) PROVE Inv'
  <1>0. CallTypes /\ call[c] \in Claims /\ SessionTypes BY InvParts DEF CallTypes
  <1>1. Current \in Maybe BY <1>0, ObservedOf, InvParts DEF SessionTypes, Maybe
  <1> DEFINE k == [call[c] EXCEPT !.seen = Current]
  <1>2. k \in Claims /\ k.reserved = call[c].reserved /\ k.seen = Current
    BY <1>0, <1>1 DEF Claims
  <1> HIDE DEF k
  <1>3. CallTypes' /\ Others(c)
        /\ \/ pc'[c] = "idle" /\ call'[c] = call[c]
           \/ pc'[c] = "over" /\ call'[c] = NoClaim
           \/ pc'[c] = "claim" /\ call'[c] = k /\ Current # NoCall
    <2>1. CASE Current = NoCall BY <1>0, <2>1, Stay DEF ObserveSlot, Labels
    <2>2. CASE Current # NoCall /\ (Unreadable \/ Stale(c)) BY <1>0, <2>2, Ending DEF ObserveSlot
    <2>3. CASE Current # NoCall /\ ~(Unreadable \/ Stale(c))
      <3>1. call' = [call EXCEPT ![c] = k] BY <2>3 DEF ObserveSlot, k
      <3> QED BY <1>0, <1>2, <2>3, <3>1, Turn DEF ObserveSlot, Labels
    <2> QED BY <2>1, <2>2, <2>3
  <1>4. Cells(c) /\ Rest /\ Slot' /\ \A a \in Calls : Steady(a)
    BY <1>0, <1>3, Looking DEF ObserveSlot, SessionTypes
  <1>5. ev'[c].phase = "None" /\ pc[c] = "observe" BY <1>4, InvParts DEF ObserveSlot, At, Joined, Steady
  <1>6. pc'[c] = "claim" => (Begun(call[c].seen))' BY <1>2, <1>3, <1>4 DEF ObserveSlot, Begun, Slot
  <1> QED BY <1>2, <1>3, <1>4, <1>5, <1>6, Quiet DEF Keeping, Answers, NoClaim, NoReservation

(***************************************************************************)
(* The steps of a call that no cell answers for.                           *)
(***************************************************************************)
LEMMA IdleSlotHolds == ASSUME Inv, NEW c \in Calls, IdleSlot(c) PROVE Inv'
  <1>0. CallTypes /\ SessionTypes BY InvParts
  <1>1. CallTypes' /\ Others(c)
        /\ \/ pc'[c] = "snapshot" /\ call'[c] = call[c]
           \/ pc'[c] = "over" /\ call'[c] = NoClaim
    <2>1. CASE Current # NoCall \/ Stale(c) BY <1>0, <2>1, Ending DEF IdleSlot
    <2>2. CASE ~(Current # NoCall \/ Stale(c)) BY <1>0, <2>2, Stay DEF IdleSlot, Labels
    <2> QED BY <2>1, <2>2
  <1>2. Cells(c) /\ Rest /\ Slot' /\ \A a \in Calls : Steady(a)
    BY <1>0, <1>1, Looking DEF IdleSlot, SessionTypes
  <1>3. ev'[c].phase = "None" /\ pc[c] = "idle" BY <1>2, InvParts DEF IdleSlot, At, Joined, Steady
  <1> QED BY <1>1, <1>2, <1>3, Quiet DEF Keeping, Answers, NoClaim, NoReservation

(* The snapshot of the tape is the cut of the drain that follows.          *)
LEMMA IdleSnapshotHolds == ASSUME Inv, NEW c \in Calls, IdleSnapshot(c) PROVE Inv'
  <1>0. CallTypes /\ call[c] \in Claims /\ SessionTypes /\ TapeTypes BY InvParts DEF CallTypes
  <1> DEFINE k == [call[c] EXCEPT !.cut = produced]
  <1>1. k \in Claims /\ k.reserved = call[c].reserved /\ k.cut = produced
    BY <1>0 DEF Claims, TapeTypes
  <1> HIDE DEF k
  <1>2. Cut(c) /\ Joined(c) BY InvParts
  <1>3. CASE Stale(c)
    <2>1. CallTypes' /\ Others(c) /\ pc'[c] = "over" /\ call'[c] = NoClaim
      BY <1>0, <1>3, Ending DEF IdleSnapshot
    <2>2. Cells(c) /\ Rest /\ Slot'
      BY <1>0, <2>1, Leaving, SameTape DEF IdleSnapshot, tape, session, SessionTypes
    <2> QED BY <2>1, <2>2, Quiet DEF Keeping, Answers, NoClaim, NoReservation
  <1>4. CASE ~Stale(c)
    <2>0. call' = [call EXCEPT ![c] = k] BY <1>4 DEF IdleSnapshot, k
    <2>1. CallTypes' /\ Others(c) /\ pc'[c] = "drain" /\ call'[c] = k
      BY <1>0, <1>1, <1>4, <2>0, Turn DEF IdleSnapshot, Labels
    <2>2. Cells(c) /\ Rest /\ Slot'
      BY <1>0, <2>1, Leaving, SameTape DEF IdleSnapshot, tape, session, SessionTypes
    <2>3. Cut(c)'
      <3>1. produced' = produced BY DEF IdleSnapshot, tape
      <3>2. produced \in 0..produced BY <1>0, All
      <3> QED BY <1>1, <1>2, <2>1, <3>1, <3>2 DEF Cut
    <2>4. Joined(c)'
      <3>1. ev' = ev BY DEF IdleSnapshot
      <3>2. pc[c] = "snapshot" BY DEF IdleSnapshot, At
      <3> QED BY <1>1, <1>2, <2>1, <3>1, <3>2 DEF Joined, Vacant, Keeping, Sees, Answers, Begun
    <2>5. ASSUME NEW d \in Calls \ {c} PROVE Apart(c, d)'
      <3>1. Apart(c, d) /\ call'[d] = call[d] BY <2>1, <2>5, InvParts DEF Others
      <3> QED BY <1>1, <2>1, <3>1 DEF Apart, Answers
    <2> QED BY <2>1, <2>2, <2>3, <2>4, <2>5, CallSteps
  <1> QED BY <1>3, <1>4

LEMMA IdleDrainHolds == ASSUME Inv, NEW c \in Calls, IdleDrain(c) PROVE Inv'
  <1>0. CallTypes /\ call[c] \in Claims /\ SessionTypes /\ TapeTypes BY InvParts DEF CallTypes
  <1>1. call[c].cut \in 0..produced /\ pc[c] = "drain" BY InvParts DEF IdleDrain, At, Cut
  <1>2. Through(call[c].cut) \in Texts BY <1>0, <1>1, ThroughOf
  <1>3. TapeTypes' /\ produced' = produced /\ produced <= produced'
    BY <1>0, <1>1, Drained, DrainOf DEF IdleDrain
  <1> DEFINE k == [call[c] EXCEPT !.hand = Through(call[c].cut),
                                 !.target = IF control = c THEN "Tape" ELSE "None"]
  <1>4. k \in Claims /\ k.reserved = call[c].reserved /\ k.target # "Cell"
    BY <1>0, <1>2 DEF Claims
  <1>5. call' = [call EXCEPT ![c] = k] BY DEF IdleDrain
  <1> HIDE DEF k
  <1>6. CallTypes' /\ Others(c) /\ pc'[c] = "answering" /\ call'[c] = k
    BY <1>0, <1>4, <1>5, Turn DEF IdleDrain, Labels
  <1>7. Cells(c) /\ Rest /\ Slot'
    BY <1>0, <1>3, <1>6, Leaving DEF IdleDrain, SessionTypes, Release
  <1> QED BY <1>1, <1>4, <1>6, <1>7, Quiet DEF Keeping, Answers

(* Controls, before they look at the slot.                                 *)
LEMMA Controlling ==
    ASSUME Inv, NEW c \in Calls, NEW l \in {"over", "retry", "signalled", "begun"},
           ~panicked, pc[c] \in {"start", "retry"},
           UNCHANGED <<kind, tape, ev, active, running, working, restarting, generation, outcome,
                       panicked>>, control' \in {control, c},
           \/ Over(c) /\ l = "over"
           \/ Goto(c, l) /\ UNCHANGED call
           \/ Goto(c, l) /\ call' = [call EXCEPT ![c].generation = generation]
    PROVE  Inv'
  <1>0. CallTypes /\ call[c] \in Claims /\ SessionTypes BY InvParts DEF CallTypes
  <1> DEFINE k == [call[c] EXCEPT !.generation = generation]
  <1>1. k \in Claims /\ k.reserved = call[c].reserved BY <1>0 DEF Claims, SessionTypes
  <1>2. call' = [call EXCEPT ![c].generation = generation] => call' = [call EXCEPT ![c] = k]
    OBVIOUS
  <1> HIDE DEF k
  <1>3. CallTypes' /\ Others(c) /\ pc'[c] = l /\ call'[c] \in {call[c], k, NoClaim}
    <2>1. CASE Over(c) /\ l = "over" BY <1>0, <2>1, Ending
    <2>2. CASE Goto(c, l) /\ UNCHANGED call BY <1>0, <2>2, Stay DEF Labels
    <2>3. CASE Goto(c, l) /\ call' = [call EXCEPT ![c].generation = generation]
      <3>1. l \in Labels /\ k \in Claims /\ call' = [call EXCEPT ![c] = k]
        BY <1>1, <1>2, <2>3 DEF Labels
      <3>2. Goto(c, l) BY <2>3
      <3>3. CallTypes' /\ Others(c) /\ pc'[c] = l /\ call'[c] = k BY <1>0, <3>1, <3>2, Turn
      <3> QED BY <3>3
    <2> QED BY <2>1, <2>2, <2>3
  <1>4. Cells(c) /\ Rest /\ Slot'
    BY <1>0, <1>3, Leaving, SameTape DEF tape, SessionTypes
  <1>5. ev[c].phase = "None" BY InvParts DEF Joined
  <1> QED BY <1>1, <1>3, <1>4, <1>5, Quiet DEF Keeping, Answers, NoClaim, NoReservation

LEMMA BeginControlHolds == ASSUME Inv, NEW c \in Calls, BeginControl(c) PROVE Inv'
  <1>1. CASE Unreadable BY <1>1, Controlling DEF BeginControl, At
  <1>2. CASE ~Unreadable BY <1>2, Controlling DEF BeginControl, At
  <1> QED BY <1>1, <1>2

LEMMA RetryControlHolds == ASSUME Inv, NEW c \in Calls, RetryControl(c) PROVE Inv'
  <1>1. CASE Unreadable BY <1>1, Controlling DEF RetryControl, At
  <1>2. CASE ~Unreadable BY <1>2, Controlling DEF RetryControl, At
  <1> QED BY <1>1, <1>2

LEMMA InterruptSlotHolds == ASSUME Inv, NEW c \in Calls, InterruptSlot(c) PROVE Inv'
  <1>0. CallTypes /\ call[c] \in Claims /\ SessionTypes BY InvParts DEF CallTypes
  <1>1. Current \in Maybe BY <1>0, ObservedOf, InvParts DEF SessionTypes, Maybe
  <1> DEFINE k == [call[c] EXCEPT !.seen = Current]
  <1>2. k \in Claims /\ k.reserved = call[c].reserved /\ k.seen = Current
    BY <1>0, <1>1 DEF Claims
  <1> HIDE DEF k
  <1>3. CallTypes' /\ Others(c)
        /\ \/ pc'[c] = "idle" /\ call'[c] = k
           \/ pc'[c] = "over" /\ call'[c] = NoClaim
           \/ pc'[c] = "seen" /\ call'[c] = k /\ Current # NoCall
    <2>1. CASE Readers # {} BY <1>0, <2>1, Ending DEF InterruptSlot
    <2>2. CASE Readers = {}
      <3>1. call' = [call EXCEPT ![c] = k] BY <2>2 DEF InterruptSlot, k
      <3> QED BY <1>0, <1>2, <2>2, <3>1, Turn DEF InterruptSlot, Labels
    <2> QED BY <2>1, <2>2
  <1>4. Cells(c) /\ Rest /\ Slot' /\ \A a \in Calls : Steady(a)
    BY <1>0, <1>3, Looking DEF InterruptSlot, SessionTypes, Release
  <1>5. ev'[c].phase = "None" /\ pc[c] = "signalled" BY <1>4, InvParts DEF InterruptSlot, At, Joined, Steady
  <1>6. pc'[c] = "seen" => (Begun(call[c].seen))' BY <1>2, <1>3, <1>4 DEF InterruptSlot, Begun, Slot
  <1> QED BY <1>2, <1>3, <1>4, <1>5, <1>6, Quiet DEF Keeping, Answers, NoClaim, NoReservation

LEMMA RetireWorkerHolds == ASSUME Inv, NEW c \in Calls, RetireWorker(c) PROVE Inv'
  <1>1. CallTypes' /\ Others(c) /\ pc'[c] = "taking" /\ call'[c] = call[c]
    BY InvParts, Stay DEF RetireWorker, Labels
  <1>2. Cells(c) /\ Rest /\ Slot'
    BY <1>1, Leaving, SameTape, InvParts DEF RetireWorker, tape, SessionTypes
  <1>3. ev[c].phase = "None" /\ pc[c] = "retiring" BY InvParts DEF RetireWorker, At, Joined
  <1> QED BY <1>1, <1>2, <1>3, Quiet DEF Keeping, RetireWorker, Answers

(* An answer goes back to the tape when it is not delivered.               *)
LEMMA AnswerOf ==
    ASSUME CallTypes, NEW c \in Calls, NEW response \in Texts, Answer(c, response)
    PROVE  /\ CallTypes' /\ Others(c) /\ pc'[c] = "answering" /\ ~Answers(c)'
           /\ call'[c].reserved = NoReservation /\ control' \in {control, NoCall}
  <1> DEFINE k == [NoClaim EXCEPT !.hand = response, !.target = "Tape"]
  <1>1. k \in Claims /\ k.reserved = NoReservation /\ k.target = "Tape"
    BY NoClaims DEF Claims, NoClaim
  <1>2. call' = [call EXCEPT ![c] = k] BY DEF Answer
  <1> HIDE DEF k
  <1>3. CallTypes' /\ Others(c) /\ pc'[c] = "answering" /\ call'[c] = k
    BY <1>1, <1>2, Turn DEF Answer, Labels
  <1> QED BY <1>1, <1>3 DEF Answer, Answers, Release

LEMMA FollowUpSettledHolds == ASSUME Inv, NEW c \in Calls, FollowUpSettled(c) PROVE Inv'
  <1>0. CallTypes /\ call[c].hand \in Texts /\ SessionTypes BY InvParts DEF CallTypes, Claims
  <1>1. /\ CallTypes' /\ Others(c)
        /\ \/ pc'[c] = "answering" /\ ~Answers(c)' /\ call'[c].reserved = NoReservation
           \/ pc'[c] = "admitting" /\ call'[c] = call[c]
        /\ control' \in {control, NoCall}
    <2>1. CASE call[c].reserved.failed BY <1>0, <2>1, AnswerOf DEF FollowUpSettled
    <2>2. CASE ~call[c].reserved.failed BY <1>0, <2>2, Stay DEF FollowUpSettled, Labels
    <2> QED BY <2>1, <2>2
  <1>2. Cells(c) /\ Rest /\ Slot'
    BY <1>0, <1>1, Leaving, SameTape DEF FollowUpSettled, tape, SessionTypes
  <1>3. ev[c].phase = "None" /\ pc[c] = "settled" BY InvParts DEF FollowUpSettled, At, Joined
  <1> QED BY <1>1, <1>2, <1>3, Quiet DEF Keeping, FollowUpSettled, Answers, NoReservation

(***************************************************************************)
(* The claim of a cell, its reports, and what becomes of a response.       *)
(***************************************************************************)
LEMMA ClaimOf ==
    ASSUME Inv, NEW c \in Calls, NEW a \in Calls, NEW f \in Evaluations,
           \/ f = Settled(ev[a])
           \/ /\ f = [Settled(ev[a]) EXCEPT !.waiting = TRUE]
              /\ ~Unsettled(Settled(ev[a])) /\ Claimable(Settled(ev[a])),
           Begun(a), ev' = [ev EXCEPT ![a] = f], UNCHANGED <<produced, drained, recovered>>
    PROVE  Cells(c) /\ (\A b \in Calls : Steady(b)) /\ ev'[a] = f
  <1> DEFINE e == Settled(ev[a])
  <1>0. ev[a] \in Evaluations /\ Sound(a) /\ TapeTypes BY InvParts
  <1>1. /\ e \in Evaluations /\ e.phase = ev[a].phase /\ e.task = ev[a].task /\ e.cut = ev[a].cut
        /\ e.collected = ev[a].collected /\ e.waiting = ev[a].waiting
        /\ e.retired = ev[a].retired /\ e.handoff = ev[a].handoff
        /\ ev[a].retired \/ ev[a].delivery \in {"None", "Pending"} => e = ev[a]
        /\ ~ev[a].retired /\ ev[a].delivery \in {"Delivered", "Unclaimed"} => e.delivery = "None"
        /\ ev[a].reclaimed = {} \/ e.reclaimed # {}
    BY <1>0, SettledOf
  <1>2. Single(e) /\ Fits(e, produced) /\ Claimed(e)
    BY <1>0, SettledSound DEF Sound, Cutting
  <1>3. f = e \/ (f = [e EXCEPT !.waiting = TRUE] /\ ~Unsettled(e) /\ Claimable(e))
    OBVIOUS
  <1>4. ev[a].phase # "None" BY DEF Begun
  <1> HIDE DEF e
  <1>5. /\ f.phase = e.phase /\ f.task = e.task /\ f.cut = e.cut /\ f.collected = e.collected
        /\ f.retired = e.retired /\ f.handoff = e.handoff /\ f.delivery = e.delivery
        /\ f.reclaimed = e.reclaimed /\ f.returned = e.returned /\ (e.waiting => f.waiting)
    BY <1>1, <1>3 DEF Evaluations
  <1>6. Single(f) /\ Claimed(f)
    <2>1. CASE f = e BY <1>2, <2>1
    <2>2. CASE f # e
      <3>1. ~Unsettled(e) /\ Claimable(e) BY <1>3, <2>2
      <3>2. e.retired \/ e.delivery = "None"
        BY <1>0, <1>1, <3>1 DEF Unsettled, Evaluations, Acknowledgments
      <3> QED BY <1>1, <1>2, <1>4, <1>5, <3>1, <3>2 DEF Single, Claimed, Claimable
    <2> QED BY <2>1, <2>2
  <1>7. Fits(f, produced) BY <1>2, <1>5 DEF Fits
  <1>8. ev' \in [Calls -> Evaluations] /\ ev'[a] = f /\ \A b \in Calls \ {a} : ev'[b] = ev[b]
    BY InvParts
  <1>9. Steady(a)
    BY <1>0, <1>1, <1>5, <1>8 DEF Steady, Evaluations, Acknowledgments
  <1>10. Moves(c, a) BY <1>9, <1>4 DEF Steady, Moves
  <1>11. TapeTypes' /\ produced <= produced' BY <1>0 DEF TapeTypes, Cuts
  <1>12. Cells(c) BY <1>6, <1>7, <1>10, <1>11, Changing
  <1>13. ASSUME NEW b \in Calls \ {a} PROVE Steady(b) BY <1>8, <1>13 DEF Steady
  <1> QED BY <1>8, <1>9, <1>12, <1>13

(* Nobody else can wait on a cell that is claimed now.                     *)
LEMMA Waits ==
    ASSUME Inv, NEW c \in Calls, Cells(c), Rest, Others(c), Slot',
           pc[c] \in {"claim", "seen"}, pc'[c] = "waiting", call'[c] = call[c],
           ev'[call[c].seen].waiting, ~ev[call[c].seen].waiting
    PROVE  Inv'
  <1>1. Cut(c) /\ Joined(c) BY InvParts
  <1>2. Cut(c)' BY <1>1, InvParts DEF Cut, Rest, TapeTypes, Cuts
  <1>3. /\ Begun(call[c].seen) /\ Moves(c, call[c].seen)
        /\ (call[c].reserved.of \in Calls => Moves(c, call[c].reserved.of))
    BY <1>1 DEF Cells, Joined, Sees, Begun
  <1>4. Joined(c)' BY <1>1, <1>3 DEF Joined, Vacant, Keeping, Moves, Begun, Sees, Answers
  <1>5. ASSUME NEW d \in Calls \ {c} PROVE Apart(c, d)'
    <2>1. Joined(d) /\ pc'[d] = pc[d] /\ call'[d] = call[d] BY <1>5, InvParts DEF Others
    <2>2. Apart(c, d) BY <1>5, InvParts
    <2> QED BY <2>1, <2>2 DEF Apart, Joined, Answers
  <1> QED BY <1>2, <1>4, <1>5, CallSteps

(* An attempt to claim the cell that was seen in the slot.                 *)
LEMMA Claiming ==
    ASSUME Inv, NEW c \in Calls, NEW f \in Evaluations, pc[c] \in {"claim", "seen"},
           \/ f = Settled(ev[call[c].seen])
           \/ /\ f = [Settled(ev[call[c].seen]) EXCEPT !.waiting = TRUE]
              /\ ~Unsettled(Settled(ev[call[c].seen])) /\ Claimable(Settled(ev[call[c].seen]))
              /\ pc'[c] = "waiting",
           ev' = [ev EXCEPT ![call[c].seen] = f], CallTypes', Others(c),
           UNCHANGED <<kind, tape, active, running, working, restarting, generation, outcome,
                       panicked>>, control' \in {control, NoCall},
           \/ pc'[c] \in {"observe", "over"} /\ call'[c] \in {call[c], NoClaim}
           \/ pc'[c] = "answering" /\ ~Answers(c)' /\ call'[c].reserved = NoReservation
           \/ pc'[c] = "waiting" /\ call'[c] = call[c] /\ f.waiting /\ ~ev[call[c].seen].waiting
    PROVE  Inv'
  <1>1. Begun(call[c].seen) /\ ev[c].phase = "None" BY InvParts DEF Joined, Sees
  <1> DEFINE a == call[c].seen
  <1>2. a \in Calls /\ Begun(a) BY <1>1 DEF Begun
  <1>3. Cells(c) /\ (\A b \in Calls : Steady(b)) /\ ev'[a] = f
    BY <1>2, ClaimOf DEF tape
  <1>4. SessionTypes' BY InvParts DEF SessionTypes, Maybe
  <1>5. TapeTypes' /\ produced <= produced' BY SameTape
  <1>6. Rest BY <1>4, <1>5, InvParts DEF Rest
  <1>7. Slot' BY <1>3, InvParts DEF Begun, Slot, Steady
  <1>8. ev'[c].phase = "None" BY <1>1, <1>3 DEF Steady
  <1>9. CASE pc'[c] \in {"observe", "over"} /\ call'[c] \in {call[c], NoClaim}
    BY <1>3, <1>6, <1>7, <1>8, <1>9, Quiet DEF Keeping, Answers, NoClaim, NoReservation
  <1>10. CASE pc'[c] = "answering" /\ ~Answers(c)' /\ call'[c].reserved = NoReservation
    BY <1>3, <1>6, <1>7, <1>8, <1>10, Quiet DEF Keeping, NoReservation
  <1>11. CASE pc'[c] = "waiting" /\ call'[c] = call[c] /\ f.waiting /\ ~ev[a].waiting
    BY <1>3, <1>6, <1>7, <1>11, Waits
  <1> QED BY <1>9, <1>10, <1>11

LEMMA SeenOf ==
    ASSUME Inv, NEW c \in Calls, Sees(c)
    PROVE  /\ call[c].seen \in Calls /\ ev[call[c].seen] \in Evaluations
           /\ ev[call[c].seen].phase # "None" /\ Sound(call[c].seen)
           /\ Settled(ev[call[c].seen]) \in Evaluations
           /\ [Settled(ev[call[c].seen]) EXCEPT !.waiting = TRUE] \in Evaluations
           /\ [Settled(ev[call[c].seen]) EXCEPT !.waiting = TRUE].waiting
           /\ Claimable(Settled(ev[call[c].seen])) => ~ev[call[c].seen].waiting
           /\ ev = [ev EXCEPT ![call[c].seen] = ev[call[c].seen]]
  <1>1. Begun(call[c].seen) BY InvParts DEF Joined
  <1>2. call[c].seen \in Calls /\ ev[call[c].seen].phase # "None" BY <1>1 DEF Begun
  <1>3. ev[call[c].seen] \in Evaluations /\ Sound(call[c].seen) BY <1>2, InvParts
  <1>4. /\ Settled(ev[call[c].seen]) \in Evaluations
        /\ Settled(ev[call[c].seen]).waiting = ev[call[c].seen].waiting
    BY <1>3, SettledOf
  <1>5. Claimable(Settled(ev[call[c].seen])) => ~ev[call[c].seen].waiting
    BY <1>4 DEF Claimable
  <1>6. /\ [Settled(ev[call[c].seen]) EXCEPT !.waiting = TRUE] \in Evaluations
        /\ [Settled(ev[call[c].seen]) EXCEPT !.waiting = TRUE].waiting
    BY <1>4 DEF Evaluations
  <1>7. ev = [ev EXCEPT ![call[c].seen] = ev[call[c].seen]] BY <1>2, InvParts
  <1> QED BY <1>2, <1>3, <1>4, <1>5, <1>6, <1>7

LEMMA ClaimAfterDeliveryHolds == ASSUME Inv, NEW c \in Calls, ClaimAfterDelivery(c) PROVE Inv'
  <1>0. CallTypes /\ Sees(c) /\ pc[c] \in {"claim", "seen"} BY InvParts DEF ClaimAfterDelivery, At, Sees
  <1> DEFINE a == call[c].seen
             e == Settled(ev[a])
             g == [e EXCEPT !.waiting = TRUE]
  <1>1. /\ a \in Calls /\ ev[a] \in Evaluations /\ e \in Evaluations /\ g \in Evaluations
        /\ g.waiting /\ (Claimable(e) => ~ev[a].waiting) /\ ev = [ev EXCEPT ![a] = ev[a]]
    BY <1>0, SeenOf
  <1>2. \/ Unsettled(e) /\ Over(c) /\ ev' = ev
        \/ /\ ~Unsettled(e) /\ ev' = [ev EXCEPT ![a] = IF Claimable(e) THEN g ELSE e]
           /\ \/ Claimable(e) /\ Goto(c, "waiting") /\ UNCHANGED call
              \/ ~Claimable(e) /\ (Over(c) \/ (Goto(c, "observe") /\ UNCHANGED call))
    BY DEF ClaimAfterDelivery
  <1>3. UNCHANGED <<tape, session, outcome, panicked>> BY DEF ClaimAfterDelivery
  <1>4. Unsettled(e) => e = ev[a]
    BY <1>1, SettledOf DEF Unsettled, Evaluations, Acknowledgments
  <1>5. Over(c) => CallTypes' /\ Others(c) /\ pc'[c] = "over" /\ call'[c] = NoClaim
    BY <1>0, Ending
  <1>6. ASSUME NEW l \in {"waiting", "observe"}, Goto(c, l), UNCHANGED call
        PROVE  CallTypes' /\ Others(c) /\ pc'[c] = l /\ call'[c] = call[c]
    BY <1>0, <1>6, Stay DEF Labels
  <1> HIDE DEF a, e, g
  <1>7. CASE ev' = [ev EXCEPT ![a] = e] /\ (Over(c) \/ (Goto(c, "observe") /\ UNCHANGED call))
    <2>1. CallTypes' /\ Others(c) /\ pc'[c] \in {"observe", "over"} /\ call'[c] \in {call[c], NoClaim}
      BY <1>5, <1>6, <1>7
    <2> QED BY <1>0, <1>1, <1>3, <1>7, <2>1, Claiming DEF session, a, e
  <1>8. CASE ~Unsettled(e) /\ Claimable(e) /\ ev' = [ev EXCEPT ![a] = g] /\ Goto(c, "waiting") /\ UNCHANGED call
    <2>1. CallTypes' /\ Others(c) /\ pc'[c] = "waiting" /\ call'[c] = call[c]
      BY <1>6, <1>8
    <2> QED BY <1>0, <1>1, <1>3, <1>8, <2>1, Claiming DEF session, a, e, g
  <1> QED BY <1>1, <1>2, <1>4, <1>7, <1>8

LEMMA InterruptClaimHolds == ASSUME Inv, NEW c \in Calls, InterruptClaim(c) PROVE Inv'
  <1>0. CallTypes /\ Sees(c) /\ pc[c] \in {"claim", "seen"} BY InvParts DEF InterruptClaim, At, Sees
  <1> DEFINE a == call[c].seen
             e == Settled(ev[a])
             g == [e EXCEPT !.waiting = TRUE]
  <1>1. /\ a \in Calls /\ ev[a] \in Evaluations /\ e \in Evaluations /\ g \in Evaluations
        /\ g.waiting /\ (Claimable(e) => ~ev[a].waiting)
    BY <1>0, SeenOf
  <1>2. \/ /\ ~Unsettled(e) /\ Claimable(e) /\ ev' = [ev EXCEPT ![a] = g]
           /\ Goto(c, "waiting") /\ UNCHANGED call
        \/ ev' = [ev EXCEPT ![a] = e] /\ Over(c)
    BY DEF InterruptClaim, InterruptClaims
  <1>3. /\ UNCHANGED <<kind, tape, active, running, working, restarting, generation, outcome, panicked>>
        /\ control' \in {control, NoCall}
    BY DEF InterruptClaim, Release
  <1>4. Over(c) => CallTypes' /\ Others(c) /\ pc'[c] = "over" /\ call'[c] = NoClaim
    BY <1>0, Ending
  <1>5. Goto(c, "waiting") /\ UNCHANGED call =>
           CallTypes' /\ Others(c) /\ pc'[c] = "waiting" /\ call'[c] = call[c]
    BY <1>0, Stay DEF Labels
  <1> HIDE DEF a, e, g
  <1>6. CASE ev' = [ev EXCEPT ![a] = e] /\ Over(c)
    BY <1>0, <1>1, <1>3, <1>4, <1>6, Claiming DEF a, e
  <1>7. CASE ~Unsettled(e) /\ Claimable(e) /\ ev' = [ev EXCEPT ![a] = g] /\ Goto(c, "waiting") /\ UNCHANGED call
    BY <1>0, <1>1, <1>3, <1>5, <1>7, Claiming DEF a, e, g
  <1> QED BY <1>2, <1>6, <1>7

LEMMA FollowUpClaimHolds == ASSUME Inv, NEW c \in Calls, FollowUpClaim(c) PROVE Inv'
  <1>0. CallTypes /\ Sees(c) /\ pc[c] \in {"claim", "seen"} BY InvParts DEF FollowUpClaim, At, Sees
  <1> DEFINE a == call[c].seen
             e == Settled(ev[a])
             g == [e EXCEPT !.waiting = TRUE]
  <1>1. /\ a \in Calls /\ ev[a] \in Evaluations /\ e \in Evaluations /\ g \in Evaluations
        /\ g.waiting /\ (Claimable(e) => ~ev[a].waiting)
    BY <1>0, SeenOf
  <1>2. \/ /\ ~Unsettled(e) /\ Claimable(e) /\ ev' = [ev EXCEPT ![a] = g]
           /\ Goto(c, "waiting") /\ UNCHANGED call /\ Release(c)
        \/ ev' = [ev EXCEPT ![a] = e] /\ Answer(c, <<>>)
    BY DEF FollowUpClaim
  <1>3. UNCHANGED <<kind, tape, active, running, working, restarting, generation, outcome, panicked>>
    BY DEF FollowUpClaim
  <1>4. Answer(c, <<>>) =>
           /\ CallTypes' /\ Others(c) /\ pc'[c] = "answering" /\ ~Answers(c)'
           /\ call'[c].reserved = NoReservation /\ control' \in {control, NoCall}
    BY <1>0, Empty, AnswerOf
  <1>5. Goto(c, "waiting") /\ UNCHANGED call =>
           CallTypes' /\ Others(c) /\ pc'[c] = "waiting" /\ call'[c] = call[c]
    BY <1>0, Stay DEF Labels
  <1> HIDE DEF a, e, g
  <1>6. CASE ev' = [ev EXCEPT ![a] = e] /\ Answer(c, <<>>)
    BY <1>0, <1>1, <1>3, <1>4, <1>6, Claiming DEF a, e
  <1>7. CASE /\ ~Unsettled(e) /\ Claimable(e) /\ ev' = [ev EXCEPT ![a] = g]
             /\ Goto(c, "waiting") /\ UNCHANGED call /\ Release(c)
    <2>1. control' \in {control, NoCall} BY <1>7 DEF Release
    <2> QED BY <1>0, <1>1, <1>3, <1>5, <1>7, <2>1, Claiming DEF a, e, g
  <1> QED BY <1>2, <1>6, <1>7

(* A wait becomes a response under way, and the only one of its cell.      *)
LEMMA Reporting ==
    ASSUME Inv, NEW c \in Calls, NEW e \in Evaluations, NEW r \in Texts, pc[c] = "waiting",
           Report(c, e, r), TapeTypes', UNCHANGED <<kind, active, running, working, control>>,
           e.phase = ev[call[c].seen].phase, e.retired = ev[call[c].seen].retired,
           e.reclaimed = {}, e.handoff = {}, e.returned = ev[call[c].seen].returned,
           e.retired => ev[call[c].seen].handoff # {}, Fits(e, produced)
    PROVE  Inv'
  <1>0. CallTypes /\ call[c] \in Claims /\ TapeTypes BY InvParts DEF CallTypes
  <1>1. Cut(c) /\ Joined(c) BY InvParts
  <1> DEFINE a == call[c].seen
             f == [e EXCEPT !.delivery = "Pending", !.waiting = FALSE]
             k == [call[c] EXCEPT !.hand = r, !.target = "Cell"]
  <1>2. /\ a \in Calls /\ ev[a] \in Evaluations /\ ev[a].phase # "None" /\ Sound(a)
        /\ ev[a].waiting
    BY <1>1, SeenOf DEF Sees, Joined
  <1>3. /\ f \in Evaluations /\ f.phase = e.phase /\ f.retired = e.retired /\ f.cut = e.cut
        /\ f.collected = e.collected /\ f.reclaimed = e.reclaimed /\ f.handoff = e.handoff
        /\ f.delivery = "Pending" /\ ~f.waiting /\ f.returned = e.returned
    BY DEF Evaluations, Acknowledgments
  <1>4. k \in Claims /\ k.reserved = call[c].reserved /\ k.cut = call[c].cut /\ k.seen = a /\ k.target = "Cell"
    BY <1>0 DEF Claims
  <1>5. ev' = [ev EXCEPT ![a] = f] /\ call' = [call EXCEPT ![c] = k] /\ Goto(c, "answering")
        /\ UNCHANGED <<produced, session, outcome, panicked>>
    BY DEF Report
  <1>6. a = call[c].seen OBVIOUS
  <1>16. ev[a].delivery = "None" \/ (ev[a].delivery = "Pending" /\ ev[a].handoff # {})
    BY <1>2 DEF Sound, Single
  <1>17. ev[a].returned = <<>> /\ (ev[a].delivery = "None" => ~e.retired)
    BY <1>2, <1>16 DEF Sound, Single
  <1> HIDE DEF a, f, k
  <1>7. CallTypes' /\ Others(c) /\ pc'[c] = "answering" /\ call'[c] = k
    BY <1>0, <1>4, <1>5, Turn DEF Labels
  <1>8. Single(f) /\ Claimed(f) /\ Fits(f, produced') /\ Moves(c, a)
    <2>1. ev'[a] = f BY <1>2, <1>5, InvParts
    <2>2. Moves(c, a) BY <1>2, <1>3, <1>6, <1>16, <1>17, <2>1 DEF Moves
    <2>3. Fits(f, produced') BY <1>3, <1>5 DEF Fits
    <2> QED BY <1>2, <1>3, <1>6, <1>17, <2>2, <2>3 DEF Single, Claimed
  <1>9. produced <= produced' BY <1>0, <1>5 DEF TapeTypes, Cuts
  <1>10. Cells(c) BY <1>2, <1>3, <1>5, <1>8, <1>9, Changing
  <1>11. Rest BY <1>5, <1>7, <1>9, InvParts DEF Rest, session, SessionTypes
  <1>12. Slot'
    <2>1. active \in Calls => Moves(c, active) BY <1>10 DEF Cells
    <2> QED BY <1>5, <2>1, InvParts DEF Begun, Slot, Moves, session
  <1>13. Cut(c)' BY <1>1, <1>4, <1>5, <1>7 DEF Cut
  <1>14. Joined(c)'
    <2>1. call[c].reserved.of = NoCall BY <1>1 DEF Joined, Keeping
    <2>2. ev'[a] = f BY <1>2, <1>5, InvParts
    <2> QED BY <1>2, <1>3, <1>4, <1>6, <1>7, <2>1, <2>2 DEF Joined, Vacant, Begun, Sees, Answers
  <1>15. ASSUME NEW d \in Calls \ {c} PROVE Apart(c, d)'
    <2>1. Joined(d) /\ pc'[d] = pc[d] /\ call'[d] = call[d] BY <1>7, <1>15, InvParts DEF Others
    <2>2. ev'[a] = f BY <1>2, <1>5, InvParts
    <2>3. call[c].reserved.of = NoCall BY <1>1 DEF Joined, Keeping
    <2> QED BY <1>4, <1>6, <1>7, <1>16, <2>1, <2>3 DEF Apart, Joined, Answers
  <1> QED BY <1>7, <1>10, <1>11, <1>12, <1>13, <1>14, <1>15, CallSteps

LEMMA ReportReclaimedHolds == ASSUME Inv, NEW c \in Calls, ReportReclaimed(c) PROVE Inv'
  <1> DEFINE a == call[c].seen
             e == [ev[a] EXCEPT !.reclaimed = {}]
  <1>0. pc[c] = "waiting" BY DEF ReportReclaimed, At
  <1>1. a \in Calls /\ ev[a] \in Evaluations /\ Sound(a) /\ TapeTypes
    BY <1>0, SeenOf, InvParts DEF Sees
  <1>2. ~ev[a].retired /\ ev[a].reclaimed # {} /\ Report(c, e, Content(ev[a].reclaimed))
    BY DEF ReportReclaimed
  <1>3. Content(ev[a].reclaimed) \in Texts BY <1>1, ContentOf DEF Evaluations
  <1>4. /\ e \in Evaluations /\ e.phase = ev[a].phase /\ e.retired = ev[a].retired
        /\ e.handoff = ev[a].handoff /\ e.reclaimed = {} /\ e.returned = ev[a].returned /\ e.collected = ev[a].collected
        /\ e.cut = ev[a].cut
    BY <1>1, Empty DEF Evaluations
  <1>5. TapeTypes' /\ UNCHANGED <<kind, active, running, working, control>>
    <2>1. UNCHANGED <<produced, session>> BY <1>2 DEF Report
    <2> QED BY <1>1, <2>1 DEF ReportReclaimed, TapeTypes, session
  <1>6. /\ e.handoff = {} /\ e.returned = ev[a].returned /\ e.reclaimed = {} /\ Fits(e, produced)
        /\ e.retired => ev[a].handoff # {}
    BY <1>1, <1>2, <1>4 DEF Sound, Single, Cutting, Fits
  <1> HIDE DEF e
  <1> QED BY <1>0, <1>2, <1>3, <1>4, <1>5, <1>6, Reporting

LEMMA OwnedOf ==
    ASSUME TapeTypes, NEW e \in Evaluations, NEW cut \in 0..produced
    PROVE  Owned(e, cut) \in Texts
  <1>1. e.prelude \in Texts /\ Through(cut) \in Texts BY ThroughOf DEF Evaluations
  <1> QED BY <1>1, Joins DEF Owned

LEMMA ReportCompletedHolds == ASSUME Inv, NEW c \in Calls, ReportCompleted(c) PROVE Inv'
  <1> DEFINE a == call[c].seen
             e == [ev[a] EXCEPT !.collected = TRUE, !.cut = NoCut, !.prelude = <<>>]
  <1>0. pc[c] = "waiting" BY DEF ReportCompleted, At
  <1>1. a \in Calls /\ ev[a] \in Evaluations /\ Sound(a) /\ TapeTypes /\ ev[a].waiting
    BY <1>0, SeenOf, InvParts DEF Sees, Joined
  <1>2. /\ ~ev[a].retired /\ ev[a].reclaimed = {} /\ ev[a].phase = "Complete"
        /\ Report(c, e, Owned(ev[a], ev[a].cut)) /\ Drain(ev[a].cut)
    BY DEF ReportCompleted, OwnsRegion
  <1>3. ~ev[a].collected BY <1>1, <1>2 DEF Sound, Claimed
  <1>4. ev[a].cut \in 0..produced BY <1>1, <1>2, <1>3 DEF Sound, Cutting, Fits
  <1>5. Owned(ev[a], ev[a].cut) \in Texts BY <1>1, <1>4, OwnedOf
  <1>6. /\ e \in Evaluations /\ e.phase = ev[a].phase /\ e.retired = ev[a].retired
        /\ e.handoff = ev[a].handoff /\ e.reclaimed = ev[a].reclaimed /\ e.returned = ev[a].returned /\ e.collected = TRUE
    BY <1>1, Empty DEF Evaluations
  <1>7. TapeTypes' BY <1>2, <1>4, Drained
  <1>8. /\ e.handoff = {} /\ e.returned = ev[a].returned /\ e.reclaimed = {} /\ Fits(e, produced)
        /\ e.retired => ev[a].handoff # {}
    BY <1>1, <1>2, <1>6 DEF Sound, Single, Fits
  <1>9. UNCHANGED <<kind, active, running, working, control>> BY <1>2 DEF Report, session
  <1> HIDE DEF e
  <1> QED BY <1>0, <1>2, <1>5, <1>6, <1>7, <1>8, <1>9, Reporting

LEMMA ReportRunningHolds == ASSUME Inv, NEW c \in Calls, ReportRunning(c) PROVE Inv'
  <1> DEFINE a == call[c].seen
             e == [ev[a] EXCEPT !.prelude = <<>>]
  <1>0. pc[c] = "waiting" BY DEF ReportRunning, At
  <1>1. a \in Calls /\ ev[a] \in Evaluations /\ Sound(a) /\ TapeTypes
    BY <1>0, SeenOf, InvParts DEF Sees
  <1>2. /\ ~ev[a].retired /\ ev[a].reclaimed = {} /\ ev[a].phase # "Complete"
        /\ Report(c, e, Owned(ev[a], produced)) /\ Drain(produced)
    BY DEF ReportRunning, OwnsRegion
  <1>3. produced \in 0..produced BY <1>1, All
  <1>4. Owned(ev[a], produced) \in Texts BY <1>1, <1>3, OwnedOf
  <1>5. /\ e \in Evaluations /\ e.phase = ev[a].phase /\ e.retired = ev[a].retired
        /\ e.handoff = ev[a].handoff /\ e.reclaimed = ev[a].reclaimed /\ e.returned = ev[a].returned
    BY <1>1, Empty DEF Evaluations
  <1>6. TapeTypes' BY <1>2, <1>3, Drained
  <1>7. /\ e.handoff = {} /\ e.returned = ev[a].returned /\ e.reclaimed = {} /\ Fits(e, produced)
        /\ e.retired => ev[a].handoff # {}
    BY <1>1, <1>2, <1>5 DEF Sound, Single, Fits
  <1>8. UNCHANGED <<kind, active, running, working, control>> BY <1>2 DEF Report, session
  <1> HIDE DEF e
  <1> QED BY <1>0, <1>2, <1>4, <1>5, <1>6, <1>7, <1>8, Reporting

LEMMA ReportHandoffHolds == ASSUME Inv, NEW c \in Calls, ReportHandoff(c) PROVE Inv'
  <1> DEFINE a == call[c].seen
             e == [ev[a] EXCEPT !.handoff = {}]
  <1>0. pc[c] = "waiting" BY DEF ReportHandoff, At
  <1>1. a \in Calls /\ ev[a] \in Evaluations /\ Sound(a) /\ TapeTypes
    BY <1>0, SeenOf, InvParts DEF Sees
  <1>2. ev[a].retired /\ ev[a].handoff # {} /\ Report(c, e, Content(ev[a].handoff)) BY DEF ReportHandoff
  <1>3. Content(ev[a].handoff) \in Texts BY <1>1, ContentOf DEF Evaluations
  <1>4. /\ e \in Evaluations /\ e.phase = ev[a].phase /\ e.retired = ev[a].retired
        /\ e.collected = ev[a].collected /\ e.cut = ev[a].cut /\ e.handoff = {}
        /\ e.reclaimed = ev[a].reclaimed /\ e.returned = ev[a].returned
    BY <1>1, Empty DEF Evaluations
  <1>5. TapeTypes' /\ UNCHANGED <<kind, active, running, working, control>>
    <2>1. UNCHANGED <<produced, session>> BY <1>2 DEF Report
    <2> QED BY <1>1, <2>1 DEF ReportHandoff, TapeTypes, session
  <1>6. /\ e.reclaimed = {} /\ e.handoff = {} /\ e.returned = ev[a].returned /\ Fits(e, produced)
        /\ e.retired => ev[a].handoff # {}
    BY <1>1, <1>2, <1>4 DEF Sound, Single, Cutting, Fits
  <1> HIDE DEF e
  <1> QED BY <1>0, <1>2, <1>3, <1>4, <1>5, <1>6, Reporting

(* A call that lets go of the cell it waited on or answered for.           *)
LEMMA LetsGo ==
    ASSUME Inv, NEW c \in Calls, pc[c] = "waiting" \/ Answers(c), NEW f \in Evaluations,
           ev' = [ev EXCEPT ![call[c].seen] = f], Over(c), UNCHANGED <<tape, session, panicked>>,
           outcome' \in [Items -> {"Kept", "Delivered", "Dropped"}],
           f.phase = ev[call[c].seen].phase, f.retired = ev[call[c].seen].retired,
           f.collected = ev[call[c].seen].collected, f.cut = ev[call[c].seen].cut,
           f.handoff = {}, f.reclaimed = ev[call[c].seen].reclaimed,
           f.returned = ev[call[c].seen].returned \/ f.delivery = "Unclaimed",
           f.waiting = ev[call[c].seen].waiting \/ (pc[c] = "waiting" /\ ~f.waiting),
           \/ f.delivery = ev[call[c].seen].delivery /\ ev[call[c].seen].handoff = {}
           \/ Answers(c)
           \/ f.delivery = "Unclaimed" /\ ev[call[c].seen].handoff # {}
    PROVE  Inv'
  <1>0. CallTypes /\ SessionTypes BY InvParts
  <1> DEFINE a == call[c].seen
  <1>1. /\ a \in Calls /\ ev[a] \in Evaluations /\ ev[a].phase # "None" /\ Sound(a)
        /\ (pc[c] = "waiting" => ev[a].waiting)
        /\ (Answers(c) => ev[a].delivery = "Pending" /\ ev[a].handoff = {})
    BY SeenOf, InvParts DEF Sees, Joined
  <1>2. a = call[c].seen OBVIOUS
  <1> HIDE DEF a
  <1>3. Single(f)
    <2>1. CASE Answers(c)
      BY <1>1, <1>2, <2>1 DEF Sound, Single, Answers
    <2>2. CASE ~Answers(c)
      BY <1>1, <1>2, <2>2 DEF Sound, Single
    <2> QED BY <2>1, <2>2
  <1>4. Claimed(f)
    <2>1. CASE Answers(c)
      BY <1>1, <1>2, <2>1 DEF Sound, Single, Answers, Claimed
    <2>2. CASE ~Answers(c)
      BY <1>1, <1>2, <2>2 DEF Sound, Single, Claimed
    <2> QED BY <2>1, <2>2
  <1>5. produced' = produced /\ TapeTypes' /\ produced <= produced' BY SameTape DEF tape
  <1>6. Fits(f, produced') BY <1>1, <1>2, <1>5 DEF Sound, Cutting, Fits
  <1>7. ev'[a] = f BY <1>1, <1>2, InvParts
  <1>8. Moves(c, a) BY <1>1, <1>2, <1>7 DEF Moves, Sound, Single
  <1>9. Cells(c) BY <1>1, <1>2, <1>3, <1>4, <1>5, <1>6, <1>8, Changing
  <1>10. CallTypes' /\ Others(c) /\ pc'[c] = "over" /\ call'[c] = NoClaim BY <1>0, Ending
  <1>11. Rest BY <1>0, <1>5, <1>10, InvParts DEF Rest, session, SessionTypes
  <1>12. Slot'
    <2>1. active \in Calls => Moves(c, active) BY <1>9 DEF Cells
    <2> QED BY <2>1, InvParts DEF Begun, Slot, Moves, session
  <1> QED BY <1>9, <1>10, <1>11, <1>12, Quiet DEF Keeping, Answers, NoClaim, NoReservation

LEMMA DropWaitHolds == ASSUME Inv, NEW c \in Calls, DropWait(c) PROVE Inv'
  <1> DEFINE a == call[c].seen
             f == ReleaseClaim(ev[a])
  <1>0. pc[c] = "waiting" BY DEF DropWait, At
  <1>1. a \in Calls /\ ev[a] \in Evaluations /\ Sound(a)
    BY <1>0, SeenOf DEF Sees
  <1>2. Content(ev[a].handoff) \in Texts BY <1>1, ContentOf DEF Evaluations
  <1>3. ev' = [ev EXCEPT ![a] = f] BY DEF DropWait
  <1>4. /\ f \in Evaluations /\ f.phase = ev[a].phase /\ f.retired = ev[a].retired
        /\ f.collected = ev[a].collected /\ f.cut = ev[a].cut /\ ~f.waiting
        /\ f.reclaimed = ev[a].reclaimed /\ f.handoff = {}
        /\ ev[a].handoff = {} => f.delivery = ev[a].delivery
        /\ ev[a].handoff # {} => f.delivery = "Unclaimed"
        /\ f.returned = ev[a].returned \/ f.delivery = "Unclaimed"
    <2>1. CASE ev[a].handoff = {}
      <3>1. f = [ev[a] EXCEPT !.waiting = FALSE] BY <2>1 DEF ReleaseClaim
      <3> QED BY <1>1, <2>1, <3>1 DEF Evaluations
    <2>2. CASE ev[a].handoff # {}
      <3>1. f = [ev[a] EXCEPT !.waiting = FALSE, !.handoff = {}, !.delivery = "Unclaimed",
                              !.returned = Content(ev[a].handoff)]
        BY <2>2 DEF ReleaseClaim
      <3> QED BY <1>1, <1>2, <2>2, <3>1, Empty DEF Evaluations, Acknowledgments
    <2> QED BY <2>1, <2>2
  <1>5. ev[a].handoff = {} \/ ev[a].retired BY <1>1 DEF Sound, Single
  <1>6. outcome' \in [Items -> {"Kept", "Delivered", "Dropped"}] BY InvParts DEF DropWait
  <1> HIDE DEF f
  <1> QED BY <1>0, <1>3, <1>4, <1>5, <1>6, LetsGo DEF DropWait

(* How a response that was given to the transport ends.                    *)
LEMMA EndsOf ==
    ASSUME NEW c \in Calls, NEW how \in {"Delivered", "Dropped"}, Ends(c, how), Inv
    PROVE  outcome' \in [Items -> {"Kept", "Delivered", "Dropped"}]
  BY InvParts DEF Ends

LEMMA DeliverHolds == ASSUME Inv, NEW c \in Calls, Deliver(c) PROVE Inv'
  <1>0. CallTypes /\ SessionTypes /\ pc[c] = "answering" BY InvParts DEF Deliver, At
  <1>1. outcome' \in [Items -> {"Kept", "Delivered", "Dropped"}]
    <2>1. Ends(c, "Delivered") BY DEF Deliver
    <2> QED BY <2>1, EndsOf
  <1>2. CASE call[c].target = "Cell"
    <2> DEFINE a == call[c].seen
               f == [ev[a] EXCEPT !.delivery = "Delivered"]
    <2>1. Answers(c) BY <1>0, <1>2 DEF Answers
    <2>2. a \in Calls /\ ev[a] \in Evaluations /\ ev[a].handoff = {}
      BY <2>1, SeenOf, InvParts DEF Sees, Joined
    <2>3. ev' = [ev EXCEPT ![a] = f] BY <1>2 DEF Deliver
    <2>4. /\ f \in Evaluations /\ f.phase = ev[a].phase /\ f.retired = ev[a].retired
          /\ f.collected = ev[a].collected /\ f.cut = ev[a].cut /\ f.waiting = ev[a].waiting
          /\ f.reclaimed = ev[a].reclaimed /\ f.handoff = {} /\ f.returned = ev[a].returned
      BY <2>2 DEF Evaluations, Acknowledgments
    <2> HIDE DEF f
    <2> QED BY <1>1, <2>1, <2>3, <2>4, LetsGo DEF Deliver
  <1>3. CASE call[c].target # "Cell"
    <2>1. CallTypes' /\ Others(c) /\ pc'[c] = "over" /\ call'[c] = NoClaim
      BY <1>0, Ending DEF Deliver
    <2>2. ev' = ev /\ UNCHANGED <<tape, session, panicked>> BY <1>3 DEF Deliver
    <2>3. TapeTypes' /\ produced <= produced' /\ produced' = produced BY <2>2, SameTape DEF tape
    <2>4. Cells(c) BY <2>2, <2>3, Standing
    <2>5. Rest BY <1>0, <1>1, <2>1, <2>2, <2>3, InvParts DEF Rest, session, SessionTypes
    <2>6. Slot' BY <2>2, InvParts DEF Begun, Slot, session
    <2> QED BY <2>1, <2>4, <2>5, <2>6, Quiet DEF Keeping, Answers, NoClaim, NoReservation
  <1> QED BY <1>2, <1>3

LEMMA ReturnHolds == ASSUME Inv, NEW c \in Calls, Return(c) PROVE Inv'
  <1>0. /\ CallTypes /\ SessionTypes /\ TapeTypes /\ pc[c] = "answering"
        /\ call[c].hand \in Texts /\ call[c].target \in {"None", "Cell", "Tape"}
        /\ ~panicked
    BY InvParts DEF Return, At, CallTypes, Claims
  <1>1. CASE call[c].target = "Cell"
    <2> DEFINE a == call[c].seen
               f == [ev[a] EXCEPT !.delivery = "Unclaimed", !.returned = call[c].hand]
    <2>1. Answers(c) BY <1>0, <1>1 DEF Answers
    <2>2. a \in Calls /\ ev[a] \in Evaluations /\ ev[a].handoff = {}
      BY <2>1, SeenOf, InvParts DEF Sees, Joined
    <2>3. /\ ev' = [ev EXCEPT ![a].delivery = "Unclaimed", ![a].returned = call[c].hand]
          /\ UNCHANGED <<recovered, outcome, panicked>> /\ UNCHANGED <<produced, drained, session>>
      BY <1>1 DEF Return
    <2>4. ev' = [ev EXCEPT ![a] = f] BY <2>2, <2>3, InvParts
    <2>5. Over(c) BY <1>0, <2>3 DEF Return
    <2>6. /\ f \in Evaluations /\ f.phase = ev[a].phase /\ f.retired = ev[a].retired
          /\ f.collected = ev[a].collected /\ f.cut = ev[a].cut /\ f.waiting = ev[a].waiting
          /\ f.reclaimed = ev[a].reclaimed /\ f.handoff = {} /\ f.delivery = "Unclaimed"
      BY <1>0, <2>2 DEF Evaluations, Acknowledgments
    <2>7. outcome' \in [Items -> {"Kept", "Delivered", "Dropped"}] BY <2>3, InvParts
    <2> HIDE DEF f
    <2> QED BY <2>1, <2>3, <2>4, <2>5, <2>6, <2>7, LetsGo DEF tape
  <1>2. CASE call[c].target # "Cell"
    <2>1. /\ ev' = ev /\ UNCHANGED <<produced, drained, session>> /\ recovered' \in Options
          /\ outcome' \in [Items -> {"Kept", "Delivered", "Dropped"}] /\ panicked' \in BOOLEAN
          /\ IF panicked' THEN UNCHANGED <<pc, call>> ELSE Over(c)
      <3>1. CASE call[c].target = "Tape"
        <4>1. Recover(call[c].hand) /\ UNCHANGED <<ev, outcome>> BY <3>1 DEF Return
        <4>2. {call[c].hand} \in Options BY <1>0, OptionOf
        <4> QED BY <1>0, <4>1, <4>2, InvParts DEF Return, Recover, TapeTypes
      <3>2. CASE call[c].target = "None"
        <4>1. Ends(c, "Dropped") /\ UNCHANGED <<recovered, ev, panicked>> BY <3>2 DEF Return
        <4>2. outcome' \in [Items -> {"Kept", "Delivered", "Dropped"}] BY <4>1, EndsOf
        <4>3. UNCHANGED <<produced, drained, session>>
              /\ IF panicked' THEN UNCHANGED <<pc, call>> ELSE Over(c)
          BY DEF Return
        <4> QED BY <1>0, <4>1, <4>2, <4>3, InvParts DEF TapeTypes
      <3> QED BY <1>0, <1>2, <3>1, <3>2
    <2>2. CallTypes' /\ Others(c)
          /\ \/ pc'[c] = "over" /\ call'[c] = NoClaim
             \/ pc'[c] = "answering" /\ call'[c] = call[c]
      <3>1. CASE panicked' BY <1>0, <2>1, <3>1 DEF CallTypes, Others
      <3>2. CASE ~panicked' BY <1>0, <2>1, <3>2, Ending
      <3> QED BY <3>1, <3>2
    <2>3. TapeTypes' /\ produced <= produced' /\ produced' = produced
      BY <1>0, <2>1 DEF TapeTypes, Cuts
    <2>4. Cells(c) BY <2>1, <2>3, Standing
    <2>5. Rest BY <1>0, <2>1, <2>2, <2>3 DEF Rest, session, SessionTypes
    <2>6. Slot' BY <2>1, InvParts DEF Begun, Slot, session
    <2>7. ~Answers(c)' BY <1>2, <2>2 DEF Answers
    <2> QED BY <1>0, <2>2, <2>4, <2>5, <2>6, <2>7, Quiet DEF Keeping, NoClaim, NoReservation
  <1> QED BY <1>1, <1>2

(* A cell is begun by its own call.                                        *)
LEMMA StartCellHolds ==
    ASSUME Inv, NEW c \in Calls, pc[c] \in {"start", "admitting"}, NEW prelude \in Texts,
           StartCell(c, prelude), control' \in {control, NoCall},
           UNCHANGED <<kind, running, working, restarting, generation, outcome, panicked>>
    PROVE  Inv'
  <1>0. CallTypes /\ SessionTypes /\ TapeTypes /\ ev[c].phase = "None" BY InvParts DEF Joined
  <1>1. produced \in 0..produced /\ produced \in Nat BY <1>0, All
  <1>2. TapeTypes' /\ produced' = produced /\ produced <= produced'
    BY <1>0, <1>1, Drained, DrainOf DEF StartCell
  <1>3. prelude \o Through(produced) \in Texts BY <1>0, <1>1, ThroughOf, Joins
  <1> DEFINE f == [NoCell EXCEPT !.phase = "Evaluating", !.task = "queued", !.waiting = TRUE,
                                !.prelude = prelude \o Through(produced)]
             k == [NoClaim EXCEPT !.seen = c, !.generation = generation]
  <1>4. /\ f \in Evaluations /\ f.phase = "Evaluating" /\ f.waiting /\ ~f.retired
        /\ f.delivery = "None" /\ f.handoff = {} /\ f.reclaimed = {} /\ ~f.collected /\ f.returned = <<>>
    BY <1>3, Empty DEF NoCell, Evaluations, Phases, Tasks, Acknowledgments
  <1>5. /\ k \in Claims /\ k.seen = c /\ k.reserved = NoReservation
    BY <1>0, NoClaims DEF NoClaim, Claims, SessionTypes, Maybe
  <1>6. ev' = [Observed EXCEPT ![c] = f] /\ call' = [call EXCEPT ![c] = k]
        /\ active' = c /\ Goto(c, "waiting")
    BY DEF StartCell
  <1> HIDE DEF f, k
  <1>7. CallTypes' /\ Others(c) /\ pc'[c] = "waiting" /\ call'[c] = k
    BY <1>0, <1>5, <1>6, Turn DEF Labels
  <1>8. /\ Observed \in [Calls -> Evaluations]
        /\ \A a \in Calls : Observed[a] \in {ev[a], Settled(ev[a])}
    BY <1>0, ObservedOf, InvParts
  <1>9. ev' \in [Calls -> Evaluations] /\ ev'[c] = f
        /\ \A a \in Calls \ {c} : ev'[a] \in {ev[a], Settled(ev[a])}
    BY <1>4, <1>6, <1>8
  <1>10. ASSUME NEW a \in Calls PROVE Sound(a)' /\ Moves(c, a)
    <2>1. ev[a] \in Evaluations /\ Sound(a) BY InvParts
    <2>2. CASE a = c
      <3>1. Sound(a)' BY <1>4, <1>9, <2>2 DEF Sound, Single, Cutting, Fits, Claimed
      <3>2. Moves(c, a) BY <1>0, <1>4, <1>9, <2>1, <2>2 DEF Moves, Sound, Single
      <3> QED BY <3>1, <3>2
    <2>3. CASE a # c
      <3>1. Single(Settled(ev[a])) /\ Cutting(Settled(ev[a])) /\ Claimed(Settled(ev[a]))
        BY <2>1, SettledSound DEF Sound
      <3>2. ev'[a] \in {ev[a], Settled(ev[a])} BY <1>9, <2>3
      <3>3. Sound(a)' BY <1>2, <2>1, <3>1, <3>2 DEF Sound, Single, Cutting, Fits, Claimed
      <3>4. Moves(c, a) BY <2>1, <3>2, SettledOf DEF Moves
      <3> QED BY <3>3, <3>4
    <2> QED BY <2>2, <2>3
  <1>11. Cells(c) BY <1>9, <1>10 DEF Cells
  <1>12. Rest BY <1>0, <1>2, <1>6, <1>7, InvParts DEF Rest, SessionTypes, Maybe
  <1>13. Slot' BY <1>4, <1>6, <1>9 DEF Begun, Slot
  <1>14. Cut(c)' BY <1>5, <1>7 DEF Cut, NoReservation
  <1>15. Joined(c)' BY <1>4, <1>5, <1>7, <1>9 DEF Joined, Vacant, Sees, Answers, Begun, Slot, NoReservation
  <1>16. ASSUME NEW d \in Calls \ {c} PROVE Apart(c, d)'
    <2>1. Joined(d) /\ pc'[d] = pc[d] /\ call'[d] = call[d] BY <1>7, <1>16, InvParts DEF Others
    <2> QED BY <1>0, <1>5, <1>7, <2>1 DEF Apart, Joined, Sees, Begun, Answers, NoReservation
  <1> QED BY <1>7, <1>11, <1>12, <1>13, <1>14, <1>15, <1>16, CallSteps

LEMMA SendCellHolds == ASSUME Inv, NEW c \in Calls, SendCell(c) PROVE Inv'
  BY StartCellHolds, Empty DEF SendCell, At

LEMMA StartFollowingHolds == ASSUME Inv, NEW c \in Calls, StartFollowing(c) PROVE Inv'
  <1>0. CallTypes /\ call[c].hand \in Texts /\ SessionTypes BY InvParts DEF CallTypes, Claims
  <1>1. CASE kind[c] # "restart" /\ (running \/ kind[c] = "followup")
    <2>1. StartCell(c, call[c].hand) /\ Release(c) BY <1>1 DEF StartFollowing
    <2>2. control' \in {control, NoCall} BY <2>1 DEF Release
    <2>3. pc[c] \in {"start", "admitting"} BY DEF StartFollowing, At
    <2>4. UNCHANGED <<kind, running, working, restarting, generation, outcome, panicked>>
      BY DEF StartFollowing
    <2> QED BY <1>0, <2>1, <2>2, <2>3, <2>4, StartCellHolds
  <1>2. CASE ~(kind[c] # "restart" /\ (running \/ kind[c] = "followup"))
    <2>1. Answer(c, call[c].hand) /\ UNCHANGED <<kind, tape, ev, active>>
      BY <1>2 DEF StartFollowing
    <2>2. /\ CallTypes' /\ Others(c) /\ pc'[c] = "answering" /\ ~Answers(c)'
          /\ call'[c].reserved = NoReservation /\ control' \in {control, NoCall}
      BY <1>0, <2>1, AnswerOf
    <2>3. Cells(c) /\ Rest /\ Slot'
      BY <1>0, <2>1, <2>2, Leaving, SameTape DEF StartFollowing, tape, SessionTypes
    <2> QED BY <2>2, <2>3, Quiet DEF Keeping, NoReservation
  <1> QED BY <1>1, <1>2

(***************************************************************************)
(* A restart or a follow-up takes over what the cell holds.                *)
(***************************************************************************)
LEMMA ReserveHolds ==
    ASSUME Inv, NEW c \in Calls, NEW l \in {"taking", "retiring"}, Reserve(c), Goto(c, l),
           pc[c] \notin {"waiting", "answering", "over"}, Current # NoCall,
           UNCHANGED <<kind, tape, running, working, control, outcome, panicked>>,
           restarting' \in BOOLEAN, generation' \in Nat
    PROVE  Inv'
  <1>0. CallTypes /\ SessionTypes /\ TapeTypes /\ ev[c].phase = "None" /\ call[c] \in Claims
    BY InvParts DEF Joined, CallTypes
  <1> DEFINE a == Current
             e == Observed[a]
             f == [e EXCEPT !.retired = TRUE, !.reclaimed = {}]
             k == [call[c] EXCEPT !.reserved = Reservation(a), !.generation = generation']
  <1>1. a \in Calls /\ a = active /\ ev[a].phase # "None" /\ ev[a] \in Evaluations /\ Sound(a)
        /\ ~ev[a].retired /\ e = Settled(ev[a]) /\ Observed = [ev EXCEPT ![a] = e]
    <2>1. Current = active /\ active \in Calls /\ Observed[Current] = Settled(ev[Current])
      BY <1>0, ObservedOf, InvParts DEF SessionTypes, Maybe
    <2>2. Begun(active) /\ ~ev[active].retired BY <2>1, InvParts DEF Slot, Calls, NoCall
    <2>3. Observed = [ev EXCEPT ![active] = Settled(ev[active])] BY <2>1 DEF Observed
    <2> QED BY <2>1, <2>2, <2>3, InvParts DEF Begun
  <1>2. /\ e \in Evaluations /\ e.phase = ev[a].phase /\ e.cut = ev[a].cut
        /\ e.collected = ev[a].collected /\ e.waiting = ev[a].waiting
        /\ (ev[a].delivery = "Pending" => e.delivery = "Pending") /\ e.handoff = {}
        /\ Single(e) /\ Fits(e, produced)
    BY <1>1, SettledOf, SettledSound DEF Sound, Cutting, Single
  <1>3. /\ f \in Evaluations /\ f.phase = e.phase /\ f.cut = e.cut /\ f.collected = e.collected
        /\ f.waiting = e.waiting /\ f.retired /\ f.task = e.task /\ f.delivery = e.delivery
        /\ f.returned = e.returned /\ f.handoff = e.handoff /\ f.reclaimed = {}
    BY <1>2, Empty DEF Evaluations
  <1>4. Reservation(a) \in Reservations /\ Reservation(a).of = a
        /\ Reservation(a).cut \in (0..produced) \cup {NoCut}
        /\ (~Reservation(a).pending => e.delivery = "None")
    <2>1. Content(e.reclaimed) \in Texts BY <1>2, ContentOf DEF Evaluations
    <2>2. (IF e.phase = "Complete" /\ ~e.collected THEN e.cut ELSE NoCut) \in (0..produced) \cup {NoCut}
      BY <1>2 DEF Fits
    <2>3. 0..produced \subseteq Cuts BY <1>0, ConstantsAssumption DEF TapeTypes, Cuts
    <2> QED BY <1>1, <1>2, <2>1, <2>2, <2>3 DEF Reservation, Reservations, Maybe, Evaluations
  <1>5. k \in Claims /\ k.reserved = Reservation(a) BY <1>0, <1>4 DEF Claims
  <1>6. ev' = [ev EXCEPT ![a] = f] /\ call' = [call EXCEPT ![c] = k] /\ active' = NoCall
    <2>1. ev' = [Observed EXCEPT ![a].retired = TRUE, ![a].reclaimed = {}]
          /\ call' = [call EXCEPT ![c].reserved = Reservation(a), ![c].generation = generation']
          /\ active' = NoCall
      BY DEF Reserve
    <2>2. e = Observed[a] OBVIOUS
    <2> HIDE DEF a, e
    <2>3. ev' = [ev EXCEPT ![a] = f] BY <1>1, <1>2, <2>1, <2>2, InvParts
    <2>4. call' = [call EXCEPT ![c] = k] BY <1>0, <2>1 DEF CallTypes
    <2> QED BY <2>1, <2>3, <2>4
  <1> HIDE DEF a, e, f, k
  <1>7. CallTypes' /\ Others(c) /\ pc'[c] = l /\ call'[c] = k
    <2>1. l \in Labels BY DEF Labels
    <2> QED BY <1>0, <1>5, <1>6, <2>1, Turn
  <1>8. ev'[a] = f /\ ev'[c] = ev[c] BY <1>0, <1>1, <1>6, InvParts
  <1>9. TapeTypes' /\ produced' = produced /\ produced <= produced' BY SameTape DEF tape
  <1>10. Single(f) /\ Claimed(f) /\ Fits(f, produced')
    BY <1>1, <1>2, <1>3, <1>9 DEF Single, Claimed, Fits
  <1>11. Moves(c, a)
    BY <1>0, <1>1, <1>2, <1>3, <1>6, <1>8 DEF Moves, Calls, NoCall
  <1>12. Cells(c) BY <1>1, <1>3, <1>6, <1>9, <1>10, <1>11, Changing
  <1>13. Rest BY <1>0, <1>6, <1>7, <1>9, InvParts DEF Rest, SessionTypes, Maybe
  <1>14. Cut(c)' BY <1>4, <1>5, <1>7, <1>9 DEF Cut
  <1>15. Joined(c)'
    BY <1>0, <1>1, <1>2, <1>3, <1>4, <1>5, <1>7, <1>8 DEF Joined, Vacant, Keeping, Sees, Answers, Begun
  <1>16. ASSUME NEW d \in Calls \ {c} PROVE Apart(c, d)'
    <2>1. Joined(d) /\ call'[d] = call[d] BY <1>7, <1>16, InvParts DEF Others
    <2> QED BY <1>1, <1>4, <1>5, <1>7, <2>1 DEF Apart, Answers, Joined
  <1> QED BY <1>6, <1>7, <1>12, <1>13, <1>14, <1>15, <1>16, CallSteps DEF Slot

LEMMA BeginRestartHolds == ASSUME Inv, NEW c \in Calls, BeginRestart(c) PROVE Inv'
  <1>0. CallTypes /\ SessionTypes /\ pc[c] = "begun" BY InvParts DEF BeginRestart, At
  <1>1. restarting' \in BOOLEAN /\ generation' \in Nat BY <1>0 DEF BeginRestart, SessionTypes
  <1>2. CASE Current = NoCall
    <2>1. CallTypes' /\ Others(c) /\ pc'[c] = "retiring" /\ call'[c] = call[c]
      BY <1>0, <1>2, Stay DEF BeginRestart, Labels
    <2>2. ev' = Observed /\ active' = NoCall BY <1>2 DEF BeginRestart
    <2>3. Cells(c) /\ Rest /\ Slot' /\ \A a \in Calls : Steady(a)
      BY <1>0, <1>1, <2>1, <2>2, Looking DEF BeginRestart, SessionTypes
    <2>4. ev'[c].phase = "None" BY <1>0, <2>3, InvParts DEF Joined, Steady
    <2>5. call[c].reserved.of = NoCall BY <1>0, InvParts DEF Joined, Keeping
    <2> QED BY <1>0, <2>1, <2>3, <2>4, <2>5, Quiet DEF Keeping, Answers
  <1>3. CASE Current # NoCall
    BY <1>0, <1>1, <1>3, ReserveHolds DEF BeginRestart
  <1> QED BY <1>2, <1>3

LEMMA FollowUpSlotHolds == ASSUME Inv, NEW c \in Calls, FollowUpSlot(c) PROVE Inv'
  <1>0. CallTypes /\ SessionTypes /\ pc[c] = "signalled" /\ call[c] \in Claims
    BY InvParts DEF FollowUpSlot, At, CallTypes
  <1>1. restarting' \in BOOLEAN /\ generation' \in Nat BY <1>0 DEF FollowUpSlot, SessionTypes
  <1>2. CASE Current # NoCall /\ Observed[Current].phase = "Complete"
    BY <1>0, <1>1, <1>2, ReserveHolds DEF FollowUpSlot
  <1>3. CASE ~(Current # NoCall /\ Observed[Current].phase = "Complete")
    <2> DEFINE k == [call[c] EXCEPT !.seen = Current]
    <2>1. Current \in Maybe BY <1>0, ObservedOf, InvParts DEF SessionTypes, Maybe
    <2>2. k \in Claims /\ k.reserved = call[c].reserved /\ k.seen = Current
      BY <1>0, <2>1 DEF Claims
    <2>3. \/ Current = NoCall /\ active' = NoCall /\ Goto(c, "admitting") /\ UNCHANGED call
          \/ /\ Current # NoCall /\ active' = active /\ Goto(c, "seen")
             /\ call' = [call EXCEPT ![c] = k]
      BY <1>3 DEF FollowUpSlot
    <2>4. ev' = Observed BY <1>3 DEF FollowUpSlot
    <2> HIDE DEF k
    <2>5. CallTypes' /\ Others(c)
          /\ \/ pc'[c] = "admitting" /\ call'[c] = call[c] /\ active' = NoCall
             \/ pc'[c] = "seen" /\ call'[c] = k /\ Current # NoCall /\ active' = active
      <3>1. CASE Current = NoCall BY <1>0, <2>3, <3>1, Stay DEF Labels
      <3>2. CASE Current # NoCall
        <4>1. Goto(c, "seen") /\ call' = [call EXCEPT ![c] = k] /\ active' = active BY <2>3, <3>2
        <4> QED BY <1>0, <2>2, <3>2, <4>1, Turn DEF Labels
      <3> QED BY <3>1, <3>2
    <2>6. active' \in {Current, NoCall} BY <1>0, <2>5, ObservedOf, InvParts
    <2>7. Cells(c) /\ Rest /\ Slot' /\ \A a \in Calls : Steady(a)
      BY <1>0, <1>1, <2>4, <2>5, <2>6, Looking DEF FollowUpSlot, SessionTypes
    <2>8. ev'[c].phase = "None" BY <1>0, <2>7, InvParts DEF Joined, Steady
    <2>9. pc'[c] = "seen" => (Begun(call[c].seen))'
      <3>1. Current # NoCall => Current = active BY <1>0, ObservedOf, InvParts
      <3> QED BY <1>0, <2>2, <2>5, <2>7, <3>1 DEF Begun, Slot
    <2> QED BY <1>0, <2>2, <2>5, <2>7, <2>8, <2>9, Quiet DEF Keeping, Answers
  <1> QED BY <1>2, <1>3

LEMMA ThroughTo ==
    ASSUME TapeTypes, NEW cut \in Cuts
    PROVE  Through(cut) \in Texts
  <1>1. Content(recovered) \in Texts BY ContentOf DEF TapeTypes
  <1>2. Later(drained, cut) \in 0..MaxOutput /\ drained \in Nat /\ drained <= Later(drained, cut)
    BY ConstantsAssumption DEF TapeTypes, Cuts, Later
  <1>3. [i \in 1..(Later(drained, cut) - drained) |-> drained + i] \in Texts
    BY <1>2, Numbers
  <1> QED BY <1>1, <1>3, Joins DEF Through

LEMMA StartWorkerHolds == ASSUME Inv, NEW c \in Calls, StartWorker(c) PROVE Inv'
  <1>0. CallTypes /\ SessionTypes /\ TapeTypes /\ pc[c] = "settled" /\ call[c] \in Claims
    BY InvParts DEF StartWorker, At, CallTypes
  <1>1. PICK ready \in BOOLEAN : running' = ready /\ IF ready THEN UNCHANGED produced ELSE PushFailure
    BY DEF StartWorker
  <1>2. produced' \in Cuts /\ produced <= produced'
    BY <1>0, <1>1, ConstantsAssumption DEF PushFailure, TapeTypes, Cuts
  <1>3. TapeTypes' BY <1>2, Empty DEF StartWorker, TapeTypes, Cuts
  <1> DEFINE n == produced'
  <1>4. Through(n) \in Texts BY <1>0, <1>2, ThroughTo
  <1> DEFINE k == [call[c] EXCEPT !.hand = @ \o Through(produced')]
  <1>5. call[c].hand \o Through(n) \in Texts BY <1>0, <1>4, Joins DEF Claims
  <1>6. k \in Claims /\ k.reserved = call[c].reserved BY <1>0, <1>5 DEF Claims
  <1>7. call' = [call EXCEPT ![c] = k] BY DEF StartWorker
  <1> HIDE DEF k
  <1>8. CallTypes' /\ Others(c) /\ pc'[c] = "admitting" /\ call'[c] = k
    BY <1>0, <1>6, <1>7, Turn DEF StartWorker, Labels
  <1>9. ASSUME NEW a \in Calls PROVE Sound(a)' /\ Moves(c, a)
    BY <1>0, <1>2, <1>9, InvParts DEF StartWorker, Sound, Single, Cutting, Fits, Claimed, Moves, TapeTypes, Cuts
  <1>10. Cells(c) BY <1>9, InvParts DEF Cells, StartWorker
  <1>11. Rest BY <1>0, <1>1, <1>2, <1>3, <1>8, InvParts DEF Rest, StartWorker, SessionTypes
  <1>12. Slot' BY InvParts DEF Begun, Slot, StartWorker
  <1>13. ev'[c].phase = "None" BY <1>0, InvParts DEF Joined, StartWorker
  <1> QED BY <1>6, <1>8, <1>10, <1>11, <1>12, <1>13, Quiet DEF Keeping, Answers

LEMMA OutputOf ==
    ASSUME Inv, NEW c \in Calls
    PROVE  LET r == call[c].reserved
               cut == IF r.cut = NoCut THEN produced ELSE r.cut
           IN /\ cut \in 0..produced /\ After(cut) \in Texts
              /\ r.of # NoCall => r.reclaimed \o Owned(ev[r.of], cut) \in Texts
  <1> DEFINE r == call[c].reserved
             cut == IF r.cut = NoCut THEN produced ELSE r.cut
  <1>1. TapeTypes /\ call[c] \in Claims /\ Cut(c) /\ Joined(c) BY InvParts DEF CallTypes
  <1>2. r \in Reservations BY <1>1 DEF Claims
  <1>3. cut \in 0..produced BY <1>1, All DEF Cut
  <1> HIDE DEF cut
  <1>4. After(cut) \in Texts BY <1>1, <1>3, AfterOf
  <1>5. ASSUME r.of # NoCall PROVE r.reclaimed \o Owned(ev[r.of], cut) \in Texts
    <2>1. r.of \in Calls BY <1>1, <1>5 DEF Joined, Begun
    <2>2. ev[r.of] \in Evaluations BY <2>1, InvParts
    <2>3. Owned(ev[r.of], cut) \in Texts /\ r.reclaimed \in Texts
      BY <1>1, <1>2, <1>3, <2>2, OwnedOf DEF Reservations
    <2> QED BY <2>3, Joins
  <1> QED BY <1>3, <1>4, <1>5 DEF cut

(* The retired cell that c reserved changes, and c goes on.                *)
LEMMA Settling ==
    ASSUME Inv, NEW c \in Calls, NEW l \in {"delivering", "settling", "settled"}, Goto(c, l),
           NEW k \in Claims, call' = [call EXCEPT ![c] = k],
           NEW f \in Evaluations, call[c].reserved.of # NoCall,
           pc[c] \in {"taking", "delivering", "settling"},
           ev' = [ev EXCEPT ![call[c].reserved.of] = f], TapeTypes', UNCHANGED produced,
           UNCHANGED <<session, outcome, panicked>>,
           k.reserved.of = call[c].reserved.of, k.reserved.cut = call[c].reserved.cut,
           f.phase = ev[call[c].reserved.of].phase, f.retired = ev[call[c].reserved.of].retired,
           f.waiting = ev[call[c].reserved.of].waiting, f.cut = ev[call[c].reserved.of].cut,
           f.collected = ev[call[c].reserved.of].collected,
           Single(f), l = "delivering" => f.delivery = "None",
           ev[call[c].reserved.of].delivery = "Pending" =>
              f.delivery = "Pending" /\ f.handoff = ev[call[c].reserved.of].handoff
    PROVE  Inv'
  <1> DEFINE a == call[c].reserved.of
  <1>0. CallTypes /\ SessionTypes /\ TapeTypes /\ Cut(c) /\ Joined(c) /\ ev[c].phase = "None"
    BY InvParts DEF Joined
  <1>1. /\ a \in Calls /\ ev[a].phase # "None" /\ ev[a].retired /\ ev[a] \in Evaluations /\ Sound(a)
    BY <1>0, InvParts DEF Joined, Begun
  <1>2. a = call[c].reserved.of OBVIOUS
  <1> HIDE DEF a
  <1>3. CallTypes' /\ Others(c) /\ pc'[c] = l /\ call'[c] = k
    <2>1. l \in Labels BY DEF Labels
    <2> QED BY <1>0, <2>1, Turn
  <1>4. ev'[a] = f /\ ev'[c] = ev[c] BY <1>0, <1>1, <1>2, InvParts
  <1>5. Single(f) /\ Claimed(f) /\ Fits(f, produced')
    BY <1>1, <1>2 DEF Sound, Single, Claimed, Cutting, Fits
  <1>6. Moves(c, a) BY <1>1, <1>2, <1>4 DEF Moves
  <1>7. produced <= produced' BY <1>0 DEF TapeTypes, Cuts
  <1>8. Cells(c) BY <1>1, <1>2, <1>5, <1>6, <1>7, Changing
  <1>9. Rest BY <1>0, <1>3, <1>7, InvParts DEF Rest, session, SessionTypes
  <1>10. Slot'
    <2>1. active \in Calls => Moves(c, active) BY <1>8 DEF Cells
    <2> QED BY <2>1, InvParts DEF Begun, Slot, Moves, session
  <1>11. Cut(c)' BY <1>0, <1>3 DEF Cut
  <1>12. Joined(c)'
    BY <1>0, <1>1, <1>2, <1>3, <1>4 DEF Joined, Vacant, Keeping, Sees, Answers, Begun
  <1>13. ASSUME NEW d \in Calls \ {c} PROVE Apart(c, d)'
    <2>1. Apart(c, d) /\ call'[d] = call[d] BY <1>3, <1>13, InvParts DEF Others
    <2> QED BY <1>3, <2>1 DEF Apart, Answers
  <1> QED BY <1>3, <1>8, <1>9, <1>10, <1>11, <1>12, <1>13, CallSteps

LEMMA TakeOutputHolds == ASSUME Inv, NEW c \in Calls, TakeOutput(c) PROVE Inv'
  <1> DEFINE r == call[c].reserved
             cut == IF r.cut = NoCut THEN produced ELSE r.cut
             old == r.reclaimed \o Owned(ev[r.of], cut)
             post == After(cut)
  <1>0. /\ CallTypes /\ SessionTypes /\ TapeTypes /\ pc[c] = "taking" /\ call[c] \in Claims
        /\ r \in Reservations
    BY InvParts DEF TakeOutput, At, CallTypes, Claims
  <1>1. produced \in 0..produced /\ Drain(produced) BY <1>0, All DEF TakeOutput
  <1>2. TapeTypes' /\ produced' = produced /\ produced <= produced'
    BY <1>0, <1>1, Drained, DrainOf
  <1>3. post \in Texts /\ (r.of # NoCall => old \in Texts) BY OutputOf
  <1>4. \/ /\ r.of = NoCall /\ call' = [call EXCEPT ![c].hand = Through(produced)]
           /\ Goto(c, "settled") /\ UNCHANGED ev
        \/ /\ r.of # NoCall /\ ev' = [ev EXCEPT ![r.of].prelude = <<>>]
           /\ \/ /\ call' = [call EXCEPT ![c].after = old \o post, ![c].reserved.reclaimed = <<>>]
                 /\ Goto(c, "settling")
              \/ /\ ~r.pending
                 /\ call' = [call EXCEPT ![c].hand = old, ![c].after = post,
                                        ![c].reserved.reclaimed = <<>>]
                 /\ Goto(c, "delivering")
    BY DEF TakeOutput
  <1>5. UNCHANGED <<session, outcome, panicked>> BY DEF TakeOutput
  <1>6. r = call[c].reserved OBVIOUS
  <1> HIDE DEF r, old, post
  <1>7. CASE r.of = NoCall
    <2> DEFINE k == [call[c] EXCEPT !.hand = Through(produced)]
    <2>1. Through(produced) \in Texts BY <1>0, <1>1, ThroughOf
    <2>2. k \in Claims /\ k.reserved = call[c].reserved BY <1>0, <2>1 DEF Claims
    <2>3. call' = [call EXCEPT ![c] = k] /\ Goto(c, "settled") /\ UNCHANGED ev
      BY <1>4, <1>7
    <2> HIDE DEF k
    <2>4. CallTypes' /\ Others(c) /\ pc'[c] = "settled" /\ call'[c] = k
      BY <1>0, <2>2, <2>3, Turn DEF Labels
    <2>5. Cells(c) /\ Rest /\ Slot'
      BY <1>0, <1>2, <1>5, <2>3, <2>4, Leaving DEF session, SessionTypes
    <2>6. ev'[c].phase = "None" BY <1>0, <2>3, InvParts DEF Joined
    <2> QED BY <2>2, <2>4, <2>5, <2>6, Quiet DEF Keeping, Answers
  <1>8. CASE r.of # NoCall
    <2> DEFINE f == [ev[r.of] EXCEPT !.prelude = <<>>]
               q == [r EXCEPT !.reclaimed = <<>>]
               k1 == [call[c] EXCEPT !.after = old \o post, !.reserved = q]
               k2 == [call[c] EXCEPT !.hand = old, !.after = post, !.reserved = q]
    <2>1. r.of \in Calls BY <1>6, <1>8, InvParts DEF Joined, Begun
    <2>2. /\ ev[r.of] \in Evaluations /\ Single(ev[r.of])
          /\ ~r.pending => ev[r.of].delivery = "None"
      BY <1>0, <1>6, <1>8, <2>1, InvParts DEF Sound, Joined, Vacant
    <2>3. /\ f \in Evaluations /\ f.phase = ev[r.of].phase /\ f.retired = ev[r.of].retired
          /\ f.waiting = ev[r.of].waiting /\ f.cut = ev[r.of].cut
          /\ f.collected = ev[r.of].collected /\ f.delivery = ev[r.of].delivery
          /\ f.handoff = ev[r.of].handoff /\ Single(f)
      BY <2>2, Empty DEF Evaluations, Single
    <2>4. q \in Reservations /\ q.of = r.of /\ q.cut = r.cut BY <1>0, Empty DEF Reservations
    <2>5. old \o post \in Texts BY <1>3, <1>8, Joins
    <2> HIDE DEF q
    <2>6. k1 \in Claims /\ k1.reserved = q /\ k2 \in Claims /\ k2.reserved = q
      BY <1>0, <1>3, <1>8, <2>4, <2>5 DEF Claims
    <2>7. ev' = [ev EXCEPT ![r.of] = f] BY <1>4, <1>8, <2>2
    <2>8. \/ call' = [call EXCEPT ![c] = k1] /\ Goto(c, "settling")
          \/ call' = [call EXCEPT ![c] = k2] /\ Goto(c, "delivering") /\ ~r.pending
      <3>1. CASE /\ call' = [call EXCEPT ![c].after = old \o post, ![c].reserved.reclaimed = <<>>]
                 /\ Goto(c, "settling")
        BY <1>0, <1>6, <3>1 DEF CallTypes, q
      <3>2. CASE /\ ~r.pending
                 /\ call' = [call EXCEPT ![c].hand = old, ![c].after = post,
                                        ![c].reserved.reclaimed = <<>>]
                 /\ Goto(c, "delivering")
        BY <1>0, <1>6, <3>2 DEF CallTypes, q
      <3> QED BY <1>4, <1>8, <3>1, <3>2
    <2> HIDE DEF f, k1, k2
    <2>9. CASE call' = [call EXCEPT ![c] = k1] /\ Goto(c, "settling")
      BY <1>0, <1>2, <1>5, <1>6, <1>8, <2>3, <2>4, <2>6, <2>7, <2>9, Settling
    <2>10. CASE call' = [call EXCEPT ![c] = k2] /\ Goto(c, "delivering") /\ ~r.pending
      BY <1>0, <1>2, <2>2, <1>5, <1>6, <1>8, <2>3, <2>4, <2>6, <2>7, <2>10, Settling
    <2> QED BY <2>8, <2>9, <2>10
  <1> QED BY <1>7, <1>8

LEMMA HandOffHolds == ASSUME Inv, NEW c \in Calls, HandOff(c) PROVE Inv'
  <1> DEFINE a == call[c].reserved.of
             f == [ev[a] EXCEPT !.handoff = {call[c].hand}, !.delivery = "Pending"]
             k1 == [call[c] EXCEPT !.hand = <<>>]
             k2 == [call[c] EXCEPT !.hand = @ \o call[c].after, !.after = <<>>]
  <1>0. /\ CallTypes /\ TapeTypes /\ pc[c] = "delivering" /\ call[c] \in Claims /\ a # NoCall
        /\ call[c].hand \in Texts /\ call[c].after \in Texts
    BY InvParts DEF HandOff, At, CallTypes, Claims, Joined
  <1>1. /\ a \in Calls /\ ev[a] \in Evaluations /\ ev = [ev EXCEPT ![a] = ev[a]]
        /\ Single(ev[a]) /\ ev[a].retired /\ ev[a].delivery = "None" /\ ev[a].phase # "None"
    BY <1>0, InvParts DEF Joined, Begun, Vacant, Sound
  <1>2. TapeTypes' /\ UNCHANGED produced /\ UNCHANGED <<session, outcome, panicked>>
    BY <1>0 DEF HandOff, tape, TapeTypes
  <1>3. {call[c].hand} \in Options BY <1>0, OptionOf
  <1>4. /\ f \in Evaluations /\ f.phase = ev[a].phase /\ f.retired = ev[a].retired
        /\ f.waiting = ev[a].waiting /\ f.cut = ev[a].cut /\ f.collected = ev[a].collected
        /\ f.delivery = "Pending" /\ f.reclaimed = ev[a].reclaimed /\ f.returned = ev[a].returned
    BY <1>1, <1>3 DEF Evaluations, Acknowledgments
  <1>10. Single(f) BY <1>1, <1>4 DEF Single
  <1>5. call[c].hand \o call[c].after \in Texts BY <1>0, Joins
  <1>6. k1 \in Claims /\ k1.reserved = call[c].reserved /\ k2 \in Claims /\ k2.reserved = call[c].reserved
    BY <1>0, <1>5, Empty DEF Claims
  <1>7. \/ ev' = [ev EXCEPT ![a] = f] /\ call' = [call EXCEPT ![c] = k1] /\ Goto(c, "settling")
        \/ ev' = ev /\ call' = [call EXCEPT ![c] = k2] /\ Goto(c, "settled")
    <2>1. CASE Watched(ev[a])
      <3>1. /\ ev' = [ev EXCEPT ![a].handoff = {call[c].hand}, ![a].delivery = "Pending"]
            /\ call' = [call EXCEPT ![c].hand = <<>>] /\ Goto(c, "settling")
        BY <2>1 DEF HandOff
      <3> QED BY <1>1, <3>1, InvParts
    <2>2. CASE ~Watched(ev[a])
      <3>1. /\ call' = [call EXCEPT ![c].hand = @ \o call[c].after, ![c].after = <<>>]
            /\ Goto(c, "settled") /\ ev' = ev
        BY <2>2 DEF HandOff
      <3> QED BY <1>0, <3>1 DEF CallTypes
    <2> QED BY <2>1, <2>2
  <1> HIDE DEF f, k1, k2
  <1>8. CASE ev' = [ev EXCEPT ![a] = f] /\ call' = [call EXCEPT ![c] = k1] /\ Goto(c, "settling")
    BY <1>0, <1>1, <1>2, <1>4, <1>6, <1>8, <1>10, Settling
  <1>9. CASE ev' = ev /\ call' = [call EXCEPT ![c] = k2] /\ Goto(c, "settled")
    BY <1>0, <1>1, <1>2, <1>6, <1>9, Settling
  <1> QED BY <1>7, <1>8, <1>9

LEMMA AwaitDeliveryHolds == ASSUME Inv, NEW c \in Calls, AwaitDelivery(c) PROVE Inv'
  <1> DEFINE a == call[c].reserved.of
             f == [ev[a] EXCEPT !.delivery = "None", !.returned = <<>>]
             k == [call[c] EXCEPT !.hand = @ \o ev[a].returned \o call[c].after, !.after = <<>>]
  <1>0. /\ CallTypes /\ TapeTypes /\ pc[c] = "settling" /\ call[c] \in Claims /\ a # NoCall
        /\ call[c].hand \in Texts /\ call[c].after \in Texts
    BY InvParts DEF AwaitDelivery, At, CallTypes, Claims, Joined
  <1>1. /\ a \in Calls /\ ev[a] \in Evaluations /\ ev[a].returned \in Texts
        /\ Single(ev[a]) /\ ev[a].retired /\ ev[a].phase # "None"
    BY <1>0, InvParts DEF Joined, Begun, Evaluations, Sound
  <1>2. TapeTypes' /\ UNCHANGED produced /\ UNCHANGED <<session, outcome, panicked>>
    BY <1>0 DEF AwaitDelivery, tape, TapeTypes
  <1>3. /\ f \in Evaluations /\ f.phase = ev[a].phase /\ f.retired = ev[a].retired
        /\ f.waiting = ev[a].waiting /\ f.cut = ev[a].cut /\ f.collected = ev[a].collected
        /\ f.delivery = "None" /\ f.reclaimed = ev[a].reclaimed /\ f.returned = <<>>
        /\ f.handoff = ev[a].handoff
    BY <1>1, Empty DEF Evaluations, Acknowledgments
  <1>9. ev[a].delivery \in {"Delivered", "Unclaimed"} BY DEF AwaitDelivery
  <1>10. Single(f) BY <1>1, <1>3, <1>9 DEF Single
  <1>4. call[c].hand \o ev[a].returned \o call[c].after \in Texts BY <1>0, <1>1, Joins
  <1>5. k \in Claims /\ k.reserved = call[c].reserved BY <1>0, <1>4, Empty DEF Claims
  <1>6. /\ call' = [call EXCEPT ![c].hand = @ \o ev[a].returned \o call[c].after, ![c].after = <<>>]
        /\ ev' = [ev EXCEPT ![a].delivery = "None", ![a].returned = <<>>] /\ Goto(c, "settled")
    BY DEF AwaitDelivery
  <1>7. ev' = [ev EXCEPT ![a] = f] BY <1>1, <1>6, InvParts
  <1>8. call' = [call EXCEPT ![c] = k] BY <1>0, <1>6 DEF CallTypes
  <1> HIDE DEF f, k
  <1> QED BY <1>0, <1>2, <1>3, <1>5, <1>6, <1>7, <1>8, <1>9, <1>10, Settling

(***************************************************************************)
(* The theorems.                                                           *)
(***************************************************************************)
LEMMA InitHolds == ASSUME Init PROVE Inv
  <1>1. \A a \in Calls : ev[a] = NoCell /\ pc[a] = "new" /\ call[a] = NoClaim BY DEF Init
  <1>2. NoCell \in Evaluations
    BY Empty DEF NoCell, Evaluations, Phases, Tasks, Acknowledgments
  <1>3. TapeTypes BY ConstantsAssumption, Empty DEF Init, TapeTypes, Cuts
  <1>4. SessionTypes BY ConstantsAssumption DEF Init, SessionTypes, Maybe
  <1>5. CallTypes BY NoClaims DEF Init, CallTypes, Labels
  <1>6. Types BY <1>2, <1>3, <1>4, <1>5 DEF Init, Types
  <1>7. CutsFit
    BY <1>1 DEF CutsFit, Cutting, Fits, Claimed, NoCell, NoClaim, NoReservation
  <1>8. Owners
    BY <1>1 DEF Init, Owners, Slot, Single, Joined, Vacant, Keeping, Apart, Sees, Answers, NoCell,
                NoClaim, NoReservation
  <1> QED BY <1>6, <1>7, <1>8 DEF Inv

LEMMA StutterHolds == ASSUME Inv, UNCHANGED vars PROVE Inv'
  <1>1. UNCHANGED <<pc, call, active, ev, produced, drained, recovered>> BY DEF vars, tape, session
  <1>2. Rest BY <1>1, Restful, SameTape, InvParts DEF vars, tape, session, SessionTypes
  <1>3. \A a \in Calls : Sound(a)' /\ Steady(a)
    BY <1>1, InvParts DEF Sound, Single, Cutting, Fits, Claimed, Steady
  <1>4. Slot' BY <1>1, InvParts DEF Slot, Begun
  <1> QED BY <1>1, <1>2, <1>3, <1>4, CellSteps, InvParts

LEMMA TaskHolds == ASSUME Inv, NEW c \in Calls, Task(c) PROVE Inv'
  BY ObserveSlotHolds, ClaimAfterDeliveryHolds, IdleSlotHolds, IdleSnapshotHolds, IdleDrainHolds,
     ReportReclaimedHolds, ReportCompletedHolds, ReportRunningHolds, ReportHandoffHolds,
     RetryControlHolds, InterruptSlotHolds, InterruptClaimHolds, FollowUpSlotHolds,
     FollowUpClaimHolds, BeginRestartHolds, RetireWorkerHolds, TakeOutputHolds, HandOffHolds,
     AwaitDeliveryHolds, FollowUpSettledHolds, StartWorkerHolds, StartFollowingHolds,
     DeliverHolds, ReturnHolds
  DEF Task

LEMMA StepHolds == ASSUME Inv, [Next]_vars PROVE Inv'
  <1>1. CASE UNCHANGED vars BY <1>1, StutterHolds
  <1>2. CASE Publish BY <1>2, PublishHolds
  <1>3. ASSUME NEW c \in Calls,
               \/ Start(c) \/ Refused(c) \/ SendCell(c) \/ SendPoll(c) \/ BeginControl(c)
               \/ Dispatch(c) \/ Refuse(c) \/ CompleteAfterGrace(c) \/ FinishGrace(c) \/ FailCell(c)
               \/ StartReplacement(c) \/ FinishReplacement(c)
               \/ Task(c) \/ DropWait(c)
        PROVE  Inv'
    BY <1>3, StartHolds, RefusedHolds, SendCellHolds, SendPollHolds, BeginControlHolds,
       DispatchHolds, RefuseHolds, CompleteAfterGraceHolds, FinishGraceHolds, FailCellHolds,
       StartReplacementHolds, FinishReplacementHolds, TaskHolds, DropWaitHolds
  <1> QED BY <1>1, <1>2, <1>3 DEF Next

LEMMA InvHolds == Spec => []Inv
  <1>1. Init => Inv BY InitHolds
  <1>2. Inv /\ [Next]_vars => Inv' BY StepHolds
  <1> QED BY <1>1, <1>2, PTL DEF Spec

(* At most one response of a cell is under way, and one that came back is  *)
(* replayed before the next is assembled, with any number of calls and     *)
(* items: the assertions of tape.rs and evaluation.rs cannot fail.         *)
THEOREM OneResponseHolds == Spec => []OneResponse
  <1>1. Inv => OneResponse
    <2>1. ASSUME Inv, NEW c \in Calls, ~ev[c].retired
          PROVE  /\ ev[c].waiting => ev[c].delivery = "None"
                 /\ ev[c].delivery # "None" => ev[c].reclaimed = {}
      BY <2>1, InvParts DEF Sound, Single
    <2> QED BY <2>1 DEF OneResponse
  <1> QED BY <1>1, InvHolds, PTL

(***************************************************************************)
(* What a cell holds when a call reports on it.                            *)
(***************************************************************************)
Replays(c) == pc[c] = "waiting" /\ pc'[c] = "answering" =>
                  \A i \in CellHolds(call[c].seen), j \in Range(call'[c].hand) :
                      i \notin Range(call'[c].hand) => j < i

LEMMA HoldsNothing ==
    ASSUME Inv, NEW c \in Calls, pc[c] = "waiting",
           ev[call[c].seen].retired => ev[call[c].seen].handoff # {}
    PROVE  \A i \in CellHolds(call[c].seen) :
              ~ev[call[c].seen].retired /\ i \in Range(Content(ev[call[c].seen].reclaimed))
  <1> DEFINE a == call[c].seen
  <1>1. a \in Calls /\ ev[a].waiting /\ Single(ev[a])
    BY InvParts DEF Joined, Sees, Begun, Sound
  <1>2. ev[a].returned = <<>> /\ (ev[a].delivery = "Pending" => ev[a].handoff # {})
    BY <1>1 DEF Single
  <1>3. \A b \in Calls : ~(pc[b] = "answering" /\ call[b].target = "Cell" /\ call[b].seen = a)
    BY <1>2, InvParts DEF Joined, Answers
  <1>4. Range(<<>>) = {} BY DEF Range
  <1>5. ev[a].retired => Content(ev[a].reclaimed) = <<>> BY <1>1 DEF Single, Content
  <1> QED BY <1>2, <1>3, <1>4, <1>5 DEF CellHolds

(* A report: the response is the reclaimed one, or nothing is reclaimed.   *)
LEMMA ReportReplays ==
    ASSUME Inv, NEW c \in Calls, pc[c] = "waiting", NEW e, NEW r, Report(c, e, r),
           ev[call[c].seen].retired => ev[call[c].seen].handoff # {},
           \/ ev[call[c].seen].reclaimed = {}
           \/ r = Content(ev[call[c].seen].reclaimed)
    PROVE  Replays(c)
  <1>1. call'[c].hand = r BY InvParts DEF Report, CallTypes, Claims
  <1>2. Range(<<>>) = {} BY DEF Range
  <1>3. \A i \in CellHolds(call[c].seen) : i \in Range(Content(ev[call[c].seen].reclaimed))
    BY HoldsNothing
  <1> QED BY <1>1, <1>2, <1>3 DEF Replays, Content

(* Only a report turns a wait into an answer.                              *)
LEMMA ReportsAnswer ==
    ASSUME CallTypes, NEW x \in Calls, pc[x] = "waiting", pc'[x] = "answering", [Next]_vars
    PROVE  ReportReclaimed(x) \/ ReportCompleted(x) \/ ReportRunning(x) \/ ReportHandoff(x)
  <1> USE DEF At, Goto, Over, CallTypes
  <1>1. CASE UNCHANGED vars BY <1>1 DEF vars
  <1>2. CASE Publish BY <1>2 DEF Publish
  <1>3. ASSUME NEW c \in Calls,
               \/ Start(c) \/ Refused(c) \/ SendCell(c) \/ SendPoll(c) \/ BeginControl(c)
               \/ DropWait(c) \/ RetryControl(c)
        PROVE  FALSE
    BY <1>3 DEF Start, Refused, SendCell, SendPoll, BeginControl, DropWait, RetryControl, StartCell
  <1>4. ASSUME NEW c \in Calls,
               \/ Dispatch(c) \/ Refuse(c) \/ CompleteAfterGrace(c) \/ FinishGrace(c) \/ FailCell(c)
               \/ StartReplacement(c) \/ FinishReplacement(c)
        PROVE  FALSE
    BY <1>4 DEF Dispatch, Refuse, CompleteAfterGrace, FinishGrace, FailCell, StartReplacement,
                FinishReplacement
  <1>5. ASSUME NEW c \in Calls,
               \/ ObserveSlot(c) \/ ClaimAfterDelivery(c) \/ IdleSlot(c) \/ IdleSnapshot(c)
               \/ IdleDrain(c)
        PROVE  FALSE
    BY <1>5 DEF ObserveSlot, ClaimAfterDelivery, IdleSlot, IdleSnapshot, IdleDrain
  <1>6. ASSUME NEW c \in Calls, InterruptSlot(c) \/ InterruptClaim(c) \/ FollowUpSlot(c) \/ BeginRestart(c)
        PROVE  FALSE
    BY <1>6 DEF InterruptSlot, InterruptClaim, FollowUpSlot, BeginRestart
  <1>7. ASSUME NEW c \in Calls, RetireWorker(c) \/ TakeOutput(c) \/ HandOff(c) \/ AwaitDelivery(c)
                                 \/ StartWorker(c)
        PROVE  FALSE
    BY <1>7 DEF RetireWorker, TakeOutput, HandOff, AwaitDelivery, StartWorker
  <1>8. ASSUME NEW c \in Calls, FollowUpClaim(c) \/ FollowUpSettled(c) \/ StartFollowing(c)
        PROVE  FALSE
    BY <1>8 DEF FollowUpClaim, FollowUpSettled, StartFollowing, Answer, StartCell
  <1>9. ASSUME NEW c \in Calls, Deliver(c) \/ Return(c) PROVE FALSE
    BY <1>9 DEF Deliver, Return
  <1>10. ASSUME NEW c \in Calls,
                ReportReclaimed(c) \/ ReportCompleted(c) \/ ReportRunning(c) \/ ReportHandoff(c)
         PROVE  c = x
    BY <1>10 DEF ReportReclaimed, ReportCompleted, ReportRunning, ReportHandoff, Report
  <1> QED BY <1>1, <1>2, <1>3, <1>4, <1>5, <1>6, <1>7, <1>8, <1>9, <1>10 DEF Next, Task

LEMMA CallReplays == ASSUME Inv, NEW c \in Calls, [Next]_vars PROVE Replays(c)
  <1> SUFFICES ASSUME pc[c] = "waiting", pc'[c] = "answering" PROVE Replays(c) BY DEF Replays
  <1>1. CASE ReportReclaimed(c) BY <1>1, ReportReplays DEF ReportReclaimed
  <1>2. CASE ReportCompleted(c) BY <1>2, ReportReplays DEF ReportCompleted, OwnsRegion
  <1>3. CASE ReportRunning(c) BY <1>3, ReportReplays DEF ReportRunning, OwnsRegion
  <1>4. CASE ReportHandoff(c)
    <2> DEFINE a == call[c].seen
    <2>1. ev[a].retired /\ ev[a].handoff # {} /\ Sound(a)
      BY <1>4, SeenOf DEF ReportHandoff, Sees
    <2>2. ev[a].reclaimed = {} BY <2>1 DEF Sound, Single
    <2> QED BY <1>4, <2>1, <2>2, ReportReplays DEF ReportHandoff
  <1>5. CallTypes BY InvParts
  <1> QED BY <1>1, <1>2, <1>3, <1>4, <1>5, ReportsAnswer

(* A wait on a cell never reports later output while an earlier response   *)
(* of that cell is still being delivered or came back undelivered,         *)
(* whatever restart or follow-up retires the cell meanwhile: a report      *)
(* takes everything the cell holds, or the cell holds nothing.             *)
THEOREM ReplaysFirst == Spec => ReplayedFirst
  <1>1. Inv /\ [Next]_vars => \A c \in Calls : Replays(c) BY CallReplays
  <1>2. (\A c \in Calls : Replays(c)) => [\A c \in Calls : Replays(c)]_vars OBVIOUS
  <1>3. Inv /\ [Next]_vars =>
           [\A c \in Calls : pc[c] = "waiting" /\ pc'[c] = "answering" =>
              \A i \in CellHolds(call[c].seen), j \in Range(call'[c].hand) :
                  i \notin Range(call'[c].hand) => j < i]_vars
    BY <1>1 DEF Replays
  <1> QED BY <1>3, InvHolds, PTL DEF Spec, ReplayedFirst

(***************************************************************************)
(* A generation is begun by a call that never begins another.              *)
(***************************************************************************)
Past == {"retiring", "taking", "delivering", "settling", "settled", "admitting", "waiting",
         "answering", "over"}
Counted == generation <= Cardinality({c \in Calls : pc[c] \in Past})

LEMMA NeverBack ==
    ASSUME CallTypes, [Next]_vars, NEW x \in Calls, pc[x] \in Past
    PROVE  pc'[x] \in Past
  <1> USE DEF At, Goto, Over, CallTypes, Past
  <1>1. CASE UNCHANGED vars BY <1>1 DEF vars
  <1>2. CASE Publish BY <1>2 DEF Publish
  <1>3. ASSUME NEW c \in Calls,
               \/ Start(c) \/ Refused(c) \/ SendCell(c) \/ SendPoll(c) \/ BeginControl(c)
               \/ DropWait(c) \/ RetryControl(c)
        PROVE  pc'[x] \in Past
    BY <1>3 DEF Start, Refused, SendCell, SendPoll, BeginControl, DropWait, RetryControl, StartCell
  <1>4. ASSUME NEW c \in Calls,
               \/ Dispatch(c) \/ Refuse(c) \/ CompleteAfterGrace(c) \/ FinishGrace(c) \/ FailCell(c)
               \/ StartReplacement(c) \/ FinishReplacement(c)
        PROVE  pc'[x] \in Past
    BY <1>4 DEF Dispatch, Refuse, CompleteAfterGrace, FinishGrace, FailCell, StartReplacement,
                FinishReplacement
  <1>5. ASSUME NEW c \in Calls,
               \/ ObserveSlot(c) \/ ClaimAfterDelivery(c) \/ IdleSlot(c) \/ IdleSnapshot(c)
               \/ IdleDrain(c)
        PROVE  pc'[x] \in Past
    BY <1>5 DEF ObserveSlot, ClaimAfterDelivery, IdleSlot, IdleSnapshot, IdleDrain
  <1>6. ASSUME NEW c \in Calls, InterruptSlot(c) \/ InterruptClaim(c) \/ FollowUpSlot(c) \/ BeginRestart(c)
        PROVE  pc'[x] \in Past
    BY <1>6 DEF InterruptSlot, InterruptClaim, FollowUpSlot, BeginRestart
  <1>7. ASSUME NEW c \in Calls, RetireWorker(c) \/ TakeOutput(c) \/ HandOff(c) \/ AwaitDelivery(c)
                                 \/ StartWorker(c)
        PROVE  pc'[x] \in Past
    BY <1>7 DEF RetireWorker, TakeOutput, HandOff, AwaitDelivery, StartWorker
  <1>8. ASSUME NEW c \in Calls, FollowUpClaim(c) \/ FollowUpSettled(c) \/ StartFollowing(c)
        PROVE  pc'[x] \in Past
    BY <1>8 DEF FollowUpClaim, FollowUpSettled, StartFollowing, Answer, StartCell
  <1>9. ASSUME NEW c \in Calls, Deliver(c) \/ Return(c) PROVE pc'[x] \in Past
    BY <1>9 DEF Deliver, Return
  <1>10. ASSUME NEW c \in Calls,
                ReportReclaimed(c) \/ ReportCompleted(c) \/ ReportRunning(c) \/ ReportHandoff(c)
         PROVE  pc'[x] \in Past
    BY <1>10 DEF ReportReclaimed, ReportCompleted, ReportRunning, ReportHandoff, Report
  <1> QED BY <1>1, <1>2, <1>3, <1>4, <1>5, <1>6, <1>7, <1>8, <1>9, <1>10 DEF Next, Task

LEMMA OnlyRestarts ==
    ASSUME [Next]_vars
    PROVE  generation' = generation \/ \E c \in Calls : BeginRestart(c)
  <1> USE DEF session
  <1>1. CASE UNCHANGED vars BY <1>1 DEF vars
  <1>2. CASE Publish BY <1>2 DEF Publish
  <1>3. ASSUME NEW c \in Calls,
               \/ Start(c) \/ Refused(c) \/ SendCell(c) \/ SendPoll(c) \/ BeginControl(c)
               \/ DropWait(c) \/ RetryControl(c)
        PROVE  generation' = generation
    BY <1>3 DEF Start, Refused, SendCell, SendPoll, BeginControl, DropWait, RetryControl
  <1>4. ASSUME NEW c \in Calls,
               \/ Dispatch(c) \/ Refuse(c) \/ CompleteAfterGrace(c) \/ FinishGrace(c) \/ FailCell(c)
               \/ StartReplacement(c) \/ FinishReplacement(c)
        PROVE  generation' = generation
    BY <1>4 DEF Dispatch, Refuse, CompleteAfterGrace, FinishGrace, FailCell, StartReplacement,
                FinishReplacement
  <1>5. ASSUME NEW c \in Calls,
               \/ ObserveSlot(c) \/ ClaimAfterDelivery(c) \/ IdleSlot(c) \/ IdleSnapshot(c)
               \/ IdleDrain(c)
        PROVE  generation' = generation
    BY <1>5 DEF ObserveSlot, ClaimAfterDelivery, IdleSlot, IdleSnapshot, IdleDrain
  <1>6. ASSUME NEW c \in Calls, InterruptSlot(c) \/ InterruptClaim(c) \/ FollowUpSlot(c)
        PROVE  generation' = generation
    BY <1>6 DEF InterruptSlot, InterruptClaim, FollowUpSlot
  <1>7. ASSUME NEW c \in Calls, RetireWorker(c) \/ TakeOutput(c) \/ HandOff(c) \/ AwaitDelivery(c)
                                 \/ StartWorker(c)
        PROVE  generation' = generation
    BY <1>7 DEF RetireWorker, TakeOutput, HandOff, AwaitDelivery, StartWorker
  <1>8. ASSUME NEW c \in Calls, FollowUpClaim(c) \/ FollowUpSettled(c) \/ StartFollowing(c)
        PROVE  generation' = generation
    BY <1>8 DEF FollowUpClaim, FollowUpSettled, StartFollowing
  <1>9. ASSUME NEW c \in Calls, Deliver(c) \/ Return(c) PROVE generation' = generation
    BY <1>9 DEF Deliver, Return
  <1>10. ASSUME NEW c \in Calls,
                ReportReclaimed(c) \/ ReportCompleted(c) \/ ReportRunning(c) \/ ReportHandoff(c)
         PROVE  generation' = generation
    BY <1>10 DEF ReportReclaimed, ReportCompleted, ReportRunning, ReportHandoff, Report
  <1> QED BY <1>1, <1>2, <1>3, <1>4, <1>5, <1>6, <1>7, <1>8, <1>9, <1>10 DEF Next, Task

LEMMA CallsFinite == IsFiniteSet(Calls) /\ Cardinality(Calls) = MaxCalls
  BY FS_Interval, ConstantsAssumption DEF Calls

LEMMA CountedHolds == ASSUME Inv, Counted, [Next]_vars PROVE Counted'
  <1> DEFINE P == {c \in Calls : pc[c] \in Past}
             Q == {c \in Calls : pc'[c] \in Past}
  <1>1. CallTypes /\ generation \in Nat BY InvParts DEF SessionTypes
  <1>2. P \subseteq Q BY <1>1, NeverBack
  <1>3. IsFiniteSet(P) /\ IsFiniteSet(Q) BY CallsFinite, FS_Subset
  <1>4. Cardinality(P) \in Nat /\ Cardinality(Q) \in Nat /\ Cardinality(P) <= Cardinality(Q)
    BY <1>2, <1>3, FS_CardinalityType, FS_Subset
  <1>5. CASE generation' = generation BY <1>1, <1>4, <1>5 DEF Counted
  <1>6. CASE \E c \in Calls : BeginRestart(c)
    <2>1. PICK c \in Calls : BeginRestart(c) BY <1>6
    <2>2. pc[c] = "begun" /\ pc'[c] = "retiring" /\ generation' = generation + 1
      BY <1>1, <2>1 DEF BeginRestart, At, Goto, CallTypes
    <2>3. c \notin P /\ c \in Q BY <2>2 DEF Past
    <2>4. P \cup {c} \subseteq Q BY <1>2, <2>3
    <2>5. IsFiniteSet(P \cup {c}) /\ Cardinality(P \cup {c}) = Cardinality(P) + 1
      BY <1>3, <2>3, FS_AddElement
    <2>6. Cardinality(P \cup {c}) <= Cardinality(Q) BY <1>3, <2>4, FS_Subset
    <2> QED BY <1>1, <1>4, <2>2, <2>5, <2>6 DEF Counted
  <1> QED BY <1>5, <1>6, OnlyRestarts

LEMMA ResponseOf == ASSUME NEW s \in Options PROVE MaybeResponse(s)
  <1>1. CASE s = {} BY <1>1 DEF MaybeResponse
  <1>2. CASE s # {}
    <2>1. PICK r \in s : TRUE BY <1>2
    <2>2. s = {r} /\ r \in Seq(Items) BY <2>1 DEF Options, Texts
    <2>3. Range(r) \subseteq Items BY <2>2 DEF Range
    <2> QED BY <2>2, <2>3 DEF MaybeResponse
  <1> QED BY <1>1, <1>2

(* Every variable stays in its domain, for any number of calls and items;  *)
(* a generation is begun by a call that begins no other.                   *)
THEOREM TypesHold == Spec => []TypeOK
  <1>1. Init => Counted
    <2> SUFFICES ASSUME Init PROVE Counted OBVIOUS
    <2>1. {c \in Calls : pc[c] \in Past} = {} BY DEF Init, Past
    <2> QED BY <2>1, FS_EmptySet DEF Counted, Init
  <1>2. Inv /\ Counted /\ [Next]_vars => Counted' BY CountedHolds
  <1>3. Spec => []Counted BY <1>1, <1>2, InvHolds, PTL DEF Spec
  <1>4. Inv /\ Counted => TypeOK
    <2> SUFFICES ASSUME Inv, Counted PROVE TypeOK OBVIOUS
    <2>1. /\ TapeTypes /\ SessionTypes /\ CallTypes /\ ev \in [Calls -> Evaluations]
          /\ outcome \in [Items -> {"Kept", "Delivered", "Dropped"}] /\ panicked \in BOOLEAN
      BY InvParts
    <2>2. generation \in 0..MaxCalls
      <3> DEFINE P == {c \in Calls : pc[c] \in Past}
      <3>1. Cardinality(P) \in Nat /\ Cardinality(P) <= MaxCalls
        BY CallsFinite, FS_Subset, FS_CardinalityType
      <3> QED BY <2>1, <3>1, ConstantsAssumption DEF Counted, SessionTypes
    <2>3. kind \in [Calls -> Kinds] BY <2>1, ConstantsAssumption DEF SessionTypes
    <2>4. MaybeResponse(recovered) BY <2>1, ResponseOf DEF TapeTypes
    <2>5. ASSUME NEW c \in Calls
          PROVE  /\ ev[c].phase \in Phases /\ ev[c].task \in {"None", "queued", "working", "done"}
                 /\ ev[c].cut \in Cuts \cup {NoCut}
                 /\ ev[c].delivery \in Acknowledgments
                 /\ MaybeResponse(ev[c].reclaimed) /\ MaybeResponse(ev[c].handoff)
                 /\ call[c].seen \in Maybe /\ call[c].cut \in Cuts \cup {NoCut}
                 /\ call[c].target \in {"None", "Cell", "Tape"}
      BY <2>1, ResponseOf DEF Evaluations, Tasks, CallTypes, Claims
    <2> QED BY <2>1, <2>2, <2>3, <2>4, <2>5 DEF TypeOK, TapeTypes, SessionTypes, CallTypes
  <1> QED BY <1>3, <1>4, InvHolds, PTL

-----------------------------------------------------------------------------
(***************************************************************************)
(* What follows from the contract of the output: what a client may         *)
(* conclude from it.                                                       *)
(***************************************************************************)
(* Every item has a place and a holder of the domain.                      *)
THEOREM OutputTypes == Contract!Spec => []Contract!TypeOK
<1>1. Contract!Init => Contract!TypeOK
  BY DEF Contract!Init, Contract!TypeOK, Contract!Places
<1>2. Contract!TypeOK /\ [Contract!Next]_Contract!vars => Contract!TypeOK'
  <2> SUFFICES ASSUME Contract!TypeOK, [Contract!Next]_Contract!vars PROVE Contract!TypeOK'
    OBVIOUS
  <2> USE DEF Contract!TypeOK, Contract!Places
  <2>1. ASSUME NEW i \in Items, Contract!Publish(i) PROVE Contract!TypeOK'
    BY <2>1 DEF Contract!Publish
  <2>2. ASSUME NEW c \in Calls, Contract!Offer(c) PROVE Contract!TypeOK'
    BY <2>2 DEF Contract!Offer
  <2>3. ASSUME NEW c \in Calls, NEW end \in {"Delivered", "Kept", "Dropped"}, Contract!Leave(c, end)
        PROVE  Contract!TypeOK'
    BY <2>3 DEF Contract!Leave
  <2>4. ASSUME NEW c \in Calls, Contract!Deliver(c) \/ Contract!Restore(c) \/ Contract!Drop(c)
        PROVE  Contract!TypeOK'
    BY <2>3, <2>4 DEF Contract!Deliver, Contract!Restore, Contract!Drop
  <2>5. CASE UNCHANGED Contract!vars
    BY <2>5 DEF Contract!vars
  <2> QED BY <2>1, <2>2, <2>4, <2>5 DEF Contract!Next
<1> QED BY <1>1, <1>2, PTL DEF Contract!Spec

(* An item is held exactly while a response carries it.                    *)
HeldWhileCarried == \A i \in Items : holder[i] # NoCall <=> place[i] \in Contract!InResponse

(* An item that no response carries has no holder: output that came back   *)
(* undelivered is free for the next response, and output that reached the  *)
(* client belongs to no call any more.                                     *)
THEOREM CarriedHeld == KeepsContract => []HeldWhileCarried
<1>0. NoCall \notin Calls BY DEF NoCall, Calls
<1>1. Contract!Init => HeldWhileCarried
  BY DEF Contract!Init, HeldWhileCarried, Contract!InResponse
<1>2. HeldWhileCarried /\ Contract!TypeOK /\ [Contract!Next]_Contract!vars => HeldWhileCarried'
  <2> SUFFICES ASSUME HeldWhileCarried, Contract!TypeOK, [Contract!Next]_Contract!vars, NEW i \in Items
               PROVE  holder'[i] # NoCall <=> place'[i] \in Contract!InResponse
    BY DEF HeldWhileCarried
  <2> USE DEF HeldWhileCarried, Contract!TypeOK, Contract!InResponse
  <2>1. ASSUME NEW j \in Items, Contract!Publish(j)
        PROVE  holder'[i] # NoCall <=> place'[i] \in Contract!InResponse
    BY <2>1 DEF Contract!Publish
  <2>2. ASSUME NEW c \in Calls, Contract!Offer(c)
        PROVE  holder'[i] # NoCall <=> place'[i] \in Contract!InResponse
    BY <1>0, <2>2 DEF Contract!Offer
  <2>3. ASSUME NEW c \in Calls, NEW end \in {"Delivered", "Kept", "Dropped"}, Contract!Leave(c, end)
        PROVE  holder'[i] # NoCall <=> place'[i] \in Contract!InResponse
    BY <1>0, <2>3 DEF Contract!Leave, Contract!Carried
  <2>4. ASSUME NEW c \in Calls, Contract!Deliver(c) \/ Contract!Restore(c) \/ Contract!Drop(c)
        PROVE  holder'[i] # NoCall <=> place'[i] \in Contract!InResponse
    BY <2>3, <2>4 DEF Contract!Deliver, Contract!Restore, Contract!Drop
  <2>5. CASE UNCHANGED Contract!vars
    BY <2>5 DEF Contract!vars
  <2> QED BY <2>1, <2>2, <2>4, <2>5 DEF Contract!Next
<1> QED BY <1>1, <1>2, OutputTypes, PTL DEF KeepsContract, Contract!Spec

ReportedOnce ==
    \A i \in Items : place[i] \in {"Delivered", "Dropped"} => place'[i] = place[i]

(* Nothing that the client received, or that an idle poll lost, appears in *)
(* a later response: no item is reported twice.                            *)
THEOREM OnceReported == KeepsContract => [][ReportedOnce]_(Contract!vars)
<1>0. NoCall \notin Calls BY DEF NoCall, Calls
<1>1. HeldWhileCarried /\ Contract!TypeOK /\ Contract!Next => ReportedOnce
  <2> SUFFICES ASSUME HeldWhileCarried, Contract!TypeOK, Contract!Next,
                      NEW i \in Items, place[i] \in {"Delivered", "Dropped"}
               PROVE  place'[i] = place[i]
    BY DEF ReportedOnce
  <2>1. holder[i] = NoCall
    BY DEF HeldWhileCarried, Contract!InResponse
  <2> USE DEF Contract!TypeOK
  <2>2. ASSUME NEW j \in Items, Contract!Publish(j) PROVE place'[i] = place[i]
    BY <2>2 DEF Contract!Publish
  <2>3. ASSUME NEW c \in Calls, Contract!Offer(c) PROVE place'[i] = place[i]
    BY <1>0, <2>3 DEF Contract!Offer
  <2>4. ASSUME NEW c \in Calls, NEW end \in {"Delivered", "Kept", "Dropped"}, Contract!Leave(c, end)
        PROVE  place'[i] = place[i]
    BY <1>0, <2>1, <2>4 DEF Contract!Leave, Contract!Carried
  <2>5. ASSUME NEW c \in Calls, Contract!Deliver(c) \/ Contract!Restore(c) \/ Contract!Drop(c)
        PROVE  place'[i] = place[i]
    BY <2>4, <2>5 DEF Contract!Deliver, Contract!Restore, Contract!Drop
  <2> QED BY <2>2, <2>3, <2>5 DEF Contract!Next
<1> QED BY <1>1, OutputTypes, CarriedHeld, PTL DEF KeepsContract, Contract!Spec
===============================================================================
