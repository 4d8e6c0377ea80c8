-------------------------------- MODULE MCKv --------------------------------
(***************************************************************************)
(* Small instances of Kv.  Keys and values are interchangeable.            *)
(***************************************************************************)
EXTENDS Kv

CONSTANTS k1, k2, v1, v2

Symmetry == Permutations(Key) \union Permutations(Value)
=============================================================================
