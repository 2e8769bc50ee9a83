------------------------------ MODULE VoyStrText ------------------------------
(***************************************************************************)
(* What trimming and splitting a voy_str_t give, as functions of the text. *)
(* VoyConf uses them on texts whose elements are words, VoyStr shows that  *)
(* the loops of voy_str.c compute them on texts of characters.             *)
(***************************************************************************)
EXTENDS Integers, Sequences, FiniteSets, SequencesExt

Space == "_"    \* any white space
Comma == ","

Has(s, t) == t \in ToSet(s)

\* voy_str_trim. The loop from the right stops before the first character, so a
\* text of one character keeps the white space that follows it. Short are the
\* elements of one character.
Trim(s, Short) ==
  LET black == {k \in DOMAIN s : s[k] # Space}
      first == Min(black)
      last  == Max(black)
  IN  IF black = {} THEN <<>>
      ELSE IF first = last /\ s[first] \in Short THEN SubSeq(s, first, Len(s))
      ELSE SubSeq(s, first, last)

\* The k-th of the numbers of S, from the smallest.
Nth(S, k) == CHOOSE x \in S : Cardinality({y \in S : y < x}) = k - 1

\* voy_str_split_by_char: the last character belongs to the last part even when
\* it is the delimiter.
Split(s, d) ==
  LET cuts == {k \in 1 .. Len(s) - 1 : s[k] = d}
      from == {0} \cup cuts
      to   == cuts \cup {Len(s) + 1}
  IN  IF s = <<>> THEN <<>>
      ELSE [k \in 1 .. Cardinality(from) |-> SubSeq(s, Nth(from, k) + 1, Nth(to, k) - 1)]
===============================================================================
