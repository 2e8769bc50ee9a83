------------------------------ MODULE MCVoyArray ------------------------------
(***************************************************************************)
(* VoyArray for TLC, with capacities of 2, 4 and 6 and the indices up to   *)
(* one beyond the largest array.                                           *)
(***************************************************************************)
EXTENDS VoyArray, TLC

MCIndices == 0 .. MaxLen + 1

Symmetry == Permutations(Elems)
===============================================================================
