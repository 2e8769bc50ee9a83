--------------------------------- MODULE CInt ---------------------------------
(***************************************************************************)
(* The int of C, into which voy_request.c puts the length a client declares*)
(* and voy_response.c the size of a file.                                  *)
(***************************************************************************)
EXTENDS Integers

CONSTANT INT_MAX

ASSUME IntMaxAssumption == INT_MAX \in Nat \ {0}

\* The int a larger number becomes: its low bits, in two's complement.
ToInt(n) == ((n + INT_MAX + 1) % (2 * (INT_MAX + 1))) - (INT_MAX + 1)
===============================================================================
