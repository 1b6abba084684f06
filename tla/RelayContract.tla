--------------------------- MODULE RelayContract ---------------------------
(***************************************************************************)
(* What the relay promises about the events it writes, in the words of     *)
(* docs/RELAY_PROTOCOL.md: the worker is announced before anything it      *)
(* says, each producer keeps its own order and loses nothing but a tail,   *)
(* no raw bytes follow their stream's closure, the failure of the relay is *)
(* told once between the closures of the streams and of the sideband, no   *)
(* event follows the outcome of the worker; and once the relay retires it  *)
(* ends, whoever holds its streams and whether or not somebody reads.      *)
(***************************************************************************)
EXTENDS Naturals

CONSTANTS Producers, \* the numbered frames' producers, with "Lifetime"
          Raw,       \* the producers whose closure is told
          Sideband   \* the worker's own producer

VARIABLES told,     \* told[p]: frames of p on the wire
          closed,   \* the producers whose closure was told
          fatal,    \* was a failure told
          outcome,  \* was the end of the worker told
          retiring, \* has retirement begun
          ended     \* has the relay ended

vars == <<told, closed, fatal, outcome, retiring, ended>>

Init ==
    /\ told = [p \in Producers |-> 0]
    /\ closed = {} /\ fatal = FALSE /\ outcome = FALSE /\ retiring = FALSE /\ ended = FALSE

Tell(p) ==
    /\ ~outcome /\ p \notin closed
    /\ p \in Raw \cup {Sideband} => told["Lifetime"] > 0
    /\ told' = [told EXCEPT ![p] = @ + 1]
    /\ UNCHANGED <<closed, fatal, outcome, retiring, ended>>

Close(p) ==
    /\ retiring /\ ~outcome /\ p \notin closed
    /\ p = Sideband => Raw \subseteq closed
    /\ closed' = closed \cup {p}
    /\ UNCHANGED <<told, fatal, outcome, retiring, ended>>

(* A relay that could not start its worker has no streams to close.        *)
TellFatal ==
    /\ retiring /\ ~fatal /\ Sideband \notin closed
    /\ Raw \subseteq closed \/ told["Lifetime"] = 0
    /\ fatal' = TRUE
    /\ UNCHANGED <<told, closed, outcome, retiring, ended>>

TellOutcome ==
    /\ ~outcome /\ closed = Raw \cup {Sideband}
    /\ outcome' = TRUE
    /\ UNCHANGED <<told, closed, fatal, retiring, ended>>

Retire ==
    /\ ~retiring
    /\ retiring' = TRUE
    /\ UNCHANGED <<told, closed, fatal, outcome, ended>>

End ==
    /\ retiring /\ ~ended
    /\ ended' = TRUE
    /\ UNCHANGED <<told, closed, fatal, outcome, retiring>>

Next ==
    \/ \E p \in Producers : Tell(p)
    \/ \E p \in Raw \cup {Sideband} : Close(p)
    \/ TellFatal \/ TellOutcome \/ Retire \/ End

Spec == Init /\ [][Next]_vars /\ WF_vars(End)
=============================================================================
