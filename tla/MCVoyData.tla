------------------------------- MODULE MCVoyData -------------------------------
(***************************************************************************)
(* The data structures without a state of the server, side by side: a run  *)
(* uses an array, a list of nodes or a string. Of the array the capacities *)
(* are 2, 4 and 6 and the indices go up to one beyond the largest; the     *)
(* list has up to four nodes, the string up to five characters.            *)
(***************************************************************************)
EXTENDS VoyStr

CONSTANTS
  Elems,                                                                    \* of both lists
  Junk, InitCapacity, EXPAND_RATE, Indices, MaxLen, SetMayGrow, ExpandMayFail,
  Nodes

VARIABLES
  contents, len, capacity, ret, overrun,    \* of VoyArray
  heap, first, answer, crashed              \* of VoyDlList

Arr == INSTANCE VoyArray
Dl  == INSTANCE VoyDlList WITH ret <- answer

ASSUME SizesAssumption == Arr!Sizes
ASSUME AddressesAssumption == Dl!Addresses

arrvars == <<contents, len, capacity, ret, overrun>>
dlvars  == <<heap, first, answer, crashed>>

MCIndices == 0 .. MaxLen + 1

Symmetry == Permutations(Elems) \cup Permutations(Nodes)

MCInit == Init /\ Arr!Init /\ Dl!Init

NoStr   == Init
NoArray == len = 0 /\ capacity = InitCapacity /\ ret = NULL /\ \A k \in DOMAIN contents : contents[k] = NULL
NoList  == Dl!Init

MCNext ==
  \/ NoArray /\ NoList /\ Next /\ UNCHANGED arrvars /\ UNCHANGED dlvars
  \/ NoStr /\ NoList /\ Arr!Next /\ UNCHANGED vars /\ UNCHANGED dlvars
  \/ NoStr /\ NoArray /\ Dl!Next /\ UNCHANGED vars /\ UNCHANGED arrvars

MCSpec == MCInit /\ [][MCNext]_<<vars, arrvars, dlvars>>

TypeOK   == Arr!TypeOK
InBounds == Arr!InBounds
IsList   == Arr!IsList

DlTypeOK == Dl!DlTypeOK
BrokenAtEndOnly == Dl!BrokenAtEndOnly
IsListWhileSound == Dl!IsListWhileSound
===============================================================================
