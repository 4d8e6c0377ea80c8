----------------------------- MODULE MCJobQueue -----------------------------
(* Model-checking instances of JobQueue. *)
EXTENDS JobQueue, TLC

CONSTANTS p1, p2

Partitions == Permutations(Partition)
=============================================================================
