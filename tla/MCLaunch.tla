------------------------------ MODULE MCLaunch ------------------------------
(* Small instances of Launch for TLC. *)
EXTENDS Launch

(* The instance that is about operations ends where a retirement asks for  *)
(* the relay's shutdown: what follows is the subject of the other.         *)
UntilRetired == \A c \in Callers : caller[c] \in {"idle", "request"}
=============================================================================
