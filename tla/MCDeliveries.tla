----------------------------- MODULE MCDeliveries -----------------------------
(* Three requests, the last of which carries the ID of the first, and four *)
(* requests with IDs of their own.                                         *)
EXTENDS Deliveries

CONSTANTS i1, i2, i3, i4

ReusedId == <<i1, i2, i1>>
DistinctIds == <<i1, i2, i3, i4>>
===============================================================================
