----------------------------- MODULE MCTranscript -----------------------------
(* Small behaviours of each kind: sends and cells, a worker and its output, *)
(* their meetings, and one fault with each.                                 *)
EXTENDS Transcript

Budget(calls, cells, workers, outputs, faults) ==
    [calls |-> calls, cells |-> cells, workers |-> workers, outputs |-> outputs, faults |-> faults]
SmallBudgets == {Budget(2, 1, 0, 0, 0), Budget(1, 0, 1, 1, 0), Budget(1, 1, 1, 0, 0),
                 Budget(0, 0, 1, 1, 1), Budget(1, 0, 1, 0, 1), Budget(1, 0, 0, 1, 1),
                 Budget(2, 0, 0, 0, 1), Budget(0, 0, 1, 2, 0)}

(* A send that meets a worker does so on an open connection, its cell comes *)
(* to an acquired worker after the publication, and the meeting is over     *)
(* when the send and its cell are settled.                                  *)
Meeting ==
    LET celled == \E c \in Calls : source[c] # "None"
        over == \E c \in Calls : /\ handler[c].at = "Settled"
                                 /\ source[c] \in {"Done", "Settled"}
    IN
    transport.received > 0 /\ (worker # "None" \/ queue.sessions > 0) =>
      /\ closing = "No"
      /\ worker = "Ended" => celled
      /\ ~over
      /\ celled => worker \in {"Acquired", "Startup", "Ready", "Ended"} /\ journal.published
==============================================================================
