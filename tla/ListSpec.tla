------------------------------- MODULE ListSpec -------------------------------
(***************************************************************************)
(* What a caller of voy_array.c expects: a list with operations at both    *)
(* ends and at an index. The names are those of voy_array.c, in which      *)
(* shift adds the first element and unshift takes it.                      *)
(***************************************************************************)
EXTENDS Integers, Sequences

CONSTANTS Elems, NULL, Indices

VARIABLES
  list,     \* the elements
  ret       \* what the last call returned

lvars == <<list, ret>>

LInit == list = <<>> /\ ret = NULL

Push(v) == list' = Append(list, v) /\ ret' = NULL

Shift(v) == list' = <<v>> \o list /\ ret' = NULL

Pop ==
  IF list = <<>> THEN ret' = NULL /\ UNCHANGED list
  ELSE list' = SubSeq(list, 1, Len(list) - 1) /\ ret' = list[Len(list)]

Unshift ==
  IF list = <<>> THEN ret' = NULL /\ UNCHANGED list
  ELSE list' = Tail(list) /\ ret' = Head(list)

\* Indices are those of C: the first element is at 0.
Set(v, i) ==
  /\ i + 1 \in DOMAIN list
  /\ list' = [list EXCEPT ![i + 1] = v]
  /\ ret' = NULL

Get(i) ==
  /\ ret' = IF i + 1 \in DOMAIN list THEN list[i + 1] ELSE NULL
  /\ UNCHANGED list

Remove(i) ==
  IF i + 1 \notin DOMAIN list THEN ret' = NULL /\ UNCHANGED list
  ELSE /\ list' = [j \in 1 .. Len(list) - 1 |-> IF j <= i THEN list[j] ELSE list[j + 1]]
       /\ ret' = list[i + 1]

Swap(a, b) ==
  /\ ret' = NULL
  /\ list' = IF {a + 1, b + 1} \subseteq DOMAIN list
             THEN [list EXCEPT ![a + 1] = list[b + 1], ![b + 1] = list[a + 1]]
             ELSE list

Clear == list' = <<>> /\ ret' = NULL

LNext ==
  \/ \E v \in Elems : Push(v) \/ Shift(v)
  \/ Pop \/ Unshift \/ Clear
  \/ \E i \in Indices : Get(i) \/ Remove(i)
  \/ \E v \in Elems, i \in Indices : Set(v, i)
  \/ \E a, b \in Indices : Swap(a, b)

LSpec == LInit /\ [][LNext]_lvars
===============================================================================
