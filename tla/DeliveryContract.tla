--------------------------- MODULE DeliveryContract ---------------------------
(***************************************************************************)
(* What the transport's response deliveries promise to the console calls   *)
(* of one connection: a call starts only after the calls it was received   *)
(* behind are over, and the acknowledgment a response owes is settled      *)
(* once, as delivered only for a response that was assembled, before the   *)
(* call is over.                                                           *)
(***************************************************************************)
CONSTANT Calls

VARIABLES
    status,  \* "New", "Waiting", "Running", "Answered" or "Over"
    receipt, \* acknowledgment of its response: "None", "Owed", "Delivered" or "Returned"
    behind   \* the waiting calls it was received behind

vars == <<status, receipt, behind>>

Statuses == {"New", "Waiting", "Running", "Answered", "Over"}
Receipts == {"None", "Owed", "Delivered", "Returned"}

TypeOK ==
    /\ status \in [Calls -> Statuses]
    /\ receipt \in [Calls -> Receipts]
    /\ behind \in [Calls -> SUBSET Calls]

Init ==
    /\ status = [c \in Calls |-> "New"]
    /\ receipt = [c \in Calls |-> "None"]
    /\ behind = [c \in Calls |-> {}]

Accept(c) ==
    /\ status[c] = "New"
    /\ status' = [status EXCEPT ![c] = "Waiting"]
    /\ \E ahead \in SUBSET {b \in Calls : status[b] = "Waiting"} :
          behind' = [behind EXCEPT ![c] = ahead]
    /\ UNCHANGED receipt

Start(c) ==
    /\ status[c] = "Waiting"
    /\ \A b \in behind[c] : status[b] = "Over"
    /\ status' = [status EXCEPT ![c] = "Running"]
    /\ UNCHANGED <<receipt, behind>>

(* Cancellation or the end of the connection comes before the call starts. *)
Skip(c) ==
    /\ status[c] = "Waiting"
    /\ status' = [status EXCEPT ![c] = "Over"]
    /\ UNCHANGED <<receipt, behind>>

(* The response owes an acknowledgment; a call that is already cancelled   *)
(* returns it at once.                                                     *)
Owe(c) ==
    /\ status[c] = "Running"
    /\ receipt[c] = "None"
    /\ \E r \in {"Owed", "Returned"} : receipt' = [receipt EXCEPT ![c] = r]
    /\ UNCHANGED <<status, behind>>

Answer(c) ==
    /\ status[c] = "Running"
    /\ status' = [status EXCEPT ![c] = "Answered"]
    /\ UNCHANGED <<receipt, behind>>

(* The call ends with its acknowledgment settled: delivered when an        *)
(* assembled response was written, returned otherwise.                     *)
Finish(c) ==
    /\ status[c] \in {"Running", "Answered"}
    /\ status' = [status EXCEPT ![c] = "Over"]
    /\ IF receipt[c] = "Owed"
       THEN \E r \in {"Delivered", "Returned"} :
               /\ r = "Delivered" => status[c] = "Answered"
               /\ receipt' = [receipt EXCEPT ![c] = r]
       ELSE UNCHANGED receipt
    /\ UNCHANGED behind

(* A cancellation, or the end of the connection for every call at once,    *)
(* takes back what is owed; an answered call is over.                      *)
TakeBack(S) ==
    /\ \A c \in S : status[c] \in {"Running", "Answered"}
    /\ status' = [c \in Calls |->
                    IF c \in S /\ status[c] = "Answered" THEN "Over" ELSE status[c]]
    /\ receipt' = [c \in Calls |->
                     IF c \in S /\ receipt[c] = "Owed" THEN "Returned" ELSE receipt[c]]
    /\ UNCHANGED behind

Next ==
    \/ \E c \in Calls : Accept(c) \/ Start(c) \/ Skip(c) \/ Owe(c) \/ Answer(c) \/ Finish(c)
    \/ \E S \in SUBSET Calls : TakeBack(S)

Spec == Init /\ [][Next]_vars

(* A call that is over owes nothing: the output its response claimed was   *)
(* delivered or returned.                                                  *)
OverOwesNothing == \A c \in Calls : status[c] = "Over" => receipt[c] # "Owed"

(* Between two calls of which one was received behind the other, the       *)
(* later never runs, nor is answered, before the earlier is over.          *)
KeepsOrder ==
    \A c \in Calls : status[c] \in {"Running", "Answered"} =>
        \A b \in behind[c] : status[b] = "Over"
===============================================================================
