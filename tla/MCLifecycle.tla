----------------------------- MODULE MCLifecycle -----------------------------
(***************************************************************************)
(* Small sessions of Lifecycle: each run names the calls that contend in   *)
(* it, and how the retirement of a launch may end.                         *)
(***************************************************************************)
EXTENDS Lifecycle

CONSTANT Contending \* the sets of calls of which one is made

EveryRetirement == {"Clean", "Unclean", "BadIO", "Stuck"}
CleanOrStuck == {"Clean", "Stuck"}
OnlyClean == {"Clean"}

(* The calls of a behaviour are among those of one contention.             *)
Contention == \E calls \in Contending : \A o \in Ops \ calls : op[o].pc = "idle"
=============================================================================
