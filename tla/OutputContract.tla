---------------------------- MODULE OutputContract ----------------------------
(***************************************************************************)
(* What a session promises for its output: every item it publishes is kept *)
(* for one later response; a response carries it once; and a response that *)
(* is not delivered gives back everything it carried.  Only the response   *)
(* of a poll that found no active cell gives nothing back.                 *)
(***************************************************************************)
CONSTANTS Items, Calls, NoCall

VARIABLES
    place,  \* "New", "Kept", "Offered", "Idle", "Delivered" or "Dropped"
    holder  \* the call whose response carries an offered item

vars == <<place, holder>>

Places == {"New", "Kept", "Offered", "Idle", "Delivered", "Dropped"}
InResponse == {"Offered", "Idle"}
Carried(c) == {i \in Items : holder[i] = c}

TypeOK == place \in [Items -> Places] /\ holder \in [Items -> Calls \cup {NoCall}]

Init ==
    /\ place = [i \in Items |-> "New"]
    /\ holder = [i \in Items |-> NoCall]

Publish(i) ==
    /\ place[i] = "New"
    /\ place' = [place EXCEPT ![i] = "Kept"]
    /\ UNCHANGED holder

(* A response takes everything it claims at once.                          *)
Offer(c) ==
    /\ Carried(c) = {} /\ Carried(c)' # {}
    /\ place' \in [Items -> Places] /\ holder' \in [Items -> Calls \cup {NoCall}]
    /\ \E how \in InResponse :
          \A i \in Items :
             \/ holder'[i] = holder[i] /\ place'[i] = place[i]
             \/ holder'[i] = c /\ place[i] = "Kept" /\ place'[i] = how

(* The whole response leaves its call.                                     *)
Leave(c, end) ==
    /\ Carried(c) # {}
    /\ place' = [i \in Items |-> IF i \in Carried(c) THEN end ELSE place[i]]
    /\ holder' = [i \in Items |-> IF i \in Carried(c) THEN NoCall ELSE holder[i]]

Deliver(c) == Leave(c, "Delivered")
Restore(c) == (\A i \in Carried(c) : place[i] = "Offered") /\ Leave(c, "Kept")
Drop(c) == (\A i \in Carried(c) : place[i] = "Idle") /\ Leave(c, "Dropped")

Next ==
    \/ \E i \in Items : Publish(i)
    \/ \E c \in Calls : Offer(c) \/ Deliver(c) \/ Restore(c) \/ Drop(c)

Spec == Init /\ [][Next]_vars
===============================================================================
