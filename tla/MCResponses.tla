----------------------------- MODULE MCResponses ------------------------------
(* Sessions with a cell, a call that observes it and a control.            *)
EXTENDS Responses

Controlled3 ==
    {<<"cell", observer, c>> : observer \in {"poll", "interrupt"}, c \in {"rerun", "followup"}}

(* The worker has one thing to say, before a failure or without one; when  *)
(* a poll meets a follow-up it has two.                                    *)
SpokenOf3 == [s \in Controlled3 |-> IF s[2] = "poll" /\ s[3] = "followup" THEN 2 ELSE 1]
SpokenOnce3 == [s \in Controlled3 |-> 1]
===============================================================================
