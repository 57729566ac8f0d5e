----------------------------- MODULE MCKmalloc -----------------------------
(* An arena of 7 units (112 bytes) is enough for three blocks of one unit, or *)
(* for a block that needs all three merged.  Requests: zero, the least one,   *)
(* one past a unit, one that no split fits, the largest one the arena can     *)
(* serve, and one that is not valid.                                          *)
EXTENDS Kmalloc
MCRequests == {0, 1, 17, 80, 96, 112}
=============================================================================
