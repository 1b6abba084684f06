------------------------- MODULE RetirementContract -------------------------
(***************************************************************************)
(* What retirement promises to those who ask for it, whatever the worker   *)
(* does: there is one retirement, it publishes one outcome, every caller   *)
(* returns with it, and only an outcome that says that the child is still  *)
(* there is published before everything that belongs to the launch ended.  *)
(***************************************************************************)
CONSTANTS Callers, Outcomes, Abandoned

VARIABLES asked,   \* the callers that asked for the retirement
          quiet,   \* has everything that belongs to the launch ended
          result,  \* the published outcome
          told     \* the callers that returned

vars == <<asked, quiet, result, told>>

Init == asked = {} /\ quiet = FALSE /\ result = "None" /\ told = {}

Ask(c) ==
    /\ c \in Callers \ asked
    /\ asked' = asked \cup {c}
    /\ UNCHANGED <<quiet, result, told>>

(* Nothing of a launch is taken from it before somebody asks.              *)
Quieten ==
    /\ asked # {} /\ ~quiet
    /\ quiet' = TRUE
    /\ UNCHANGED <<asked, result, told>>

Publish(o) ==
    /\ result = "None" /\ asked # {}
    /\ o # Abandoned => quiet
    /\ result' = o
    /\ UNCHANGED <<asked, quiet>>
    /\ told' \in {told} \cup {told \cup {c} : c \in asked}

Tell(c) ==
    /\ result # "None" /\ c \in asked \ told
    /\ told' = told \cup {c}
    /\ UNCHANGED <<asked, quiet, result>>

Next == \/ \E c \in Callers : Ask(c) \/ Tell(c)
        \/ Quieten
        \/ \E o \in Outcomes : Publish(o)

(* While a caller waits, some step is taken that brings its answer closer. *)
Spec == Init /\ [][Next]_vars
             /\ WF_vars((\E o \in Outcomes : Publish(o)) \/ \E c \in Callers : Tell(c))
=============================================================================
