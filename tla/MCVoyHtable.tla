----------------------------- MODULE MCVoyHtable ------------------------------
(***************************************************************************)
(* A table of two buckets for TLC: two keys with one hash, one with another*)
(* hash in the same bucket, and one in the other bucket.                   *)
(***************************************************************************)
EXTENDS VoyHtable, TLC

MCHash == [k \in Keys |-> CASE k = "a" -> 1 [] k = "same" -> 1 [] k = "near" -> 3 [] OTHER -> 2]

Symmetry == Permutations(Nodes) \cup Permutations(Values)
===============================================================================
