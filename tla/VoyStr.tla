-------------------------------- MODULE VoyStr --------------------------------
(***************************************************************************)
(* voy_str.c: a string with its length, which trimming moves along in the  *)
(* block it was allocated in. A use of the block that malloc() does not    *)
(* allow is undefined behaviour, recorded in fault, and ends the program.  *)
(* Allocations succeed. The functions that only look at a string have no   *)
(* state. The server makes, trims, splits and frees strings; only the test *)
(* concatenates them.                                                      *)
(***************************************************************************)
EXTENDS VoyStrText

CONSTANTS
  Chars,      \* the characters that are no white space
  MaxText,    \* bound: characters of a string
  NULL

VARIABLES
  str,        \* the voy_str_t, NULL if there is none
  parts,      \* what the last split returned
  fault       \* the misuse of memory

vars == <<str, parts, fault>>

Texts == BoundedSeq(Chars \cup {Space}, MaxText)

ASSUME MaxTextAssumption == MaxText \in Nat

\* text is what is at str->string, at is where in the block that is, start where
\* str->start_p is, and room the size of the block.
Made(s) == [text |-> s, len |-> Len(s), at |-> 0, start |-> 0, room |-> Len(s) + 1]

Init == str = NULL /\ parts = <<>> /\ fault = "none"

-------------------------------------------------------------------------------
New(s) ==
  /\ str = NULL
  /\ str' = Made(s)
  /\ UNCHANGED <<parts, fault>>

\* Mutant of Free: what the string points to is freed.
FreeString ==
  /\ str # NULL
  /\ str' = NULL
  /\ parts' = <<>>
  /\ fault' = IF str.at # 0 THEN "free" ELSE fault

\* voy_str_free frees start_p.
Free ==
  /\ str # NULL
  /\ str' = NULL
  /\ parts' = <<>>
  /\ fault' = IF str.start # 0 THEN "free" ELSE fault

\* Mutant of RightLoop: it ends one character too early.
RightLoopShort(s, n) == 2 .. n - 1

\* The indices the loop from the right of a string of length n looks at.
RightLoop(s, n) == 1 .. n - 1

\* voy_str_trim: white space on the left is skipped; what is on the right is
\* counted, and cut off where the loop meets another character.
TrimStr ==
  /\ str # NULL
  /\ LET left  == Min({str.len} \cup {k \in 0 .. str.len - 1 : str.text[k + 1] # Space})
         s     == SubSeq(str.text, left + 1, Len(str.text))
         n     == str.len - left
         met   == {k \in RightLoop(s, n) : s[k + 1] # Space}
         right == IF met # {} THEN n - 1 - Max(met) ELSE Cardinality(RightLoop(s, n))
     IN  str' = [str EXCEPT !.at = @ + left, !.len = n - right,
                            !.text = IF met # {} /\ right > 0 THEN SubSeq(s, 1, n - right) ELSE s]
  /\ UNCHANGED <<parts, fault>>

\* Mutant of Piece: the buffer is not reset.
PieceKept(buf) == buf

\* What is in the buffer after a part was taken.
Piece(buf) == <<>>

\* One turn of the loop of voy_str_split_by_char; top is the highest index of the
\* buffer it has written to.
SplitTurn(s, d, k, loop) ==
  LET last == k = Len(s)
      buf  == IF s[k] = d /\ ~last THEN loop.buf ELSE Append(loop.buf, s[k])
  IN  IF s[k] = d \/ last
      THEN [buf |-> Piece(buf), parts |-> Append(loop.parts, buf), top |-> Max({loop.top, Len(buf)})]
      ELSE [loop EXCEPT !.buf = buf]

SplitLoop(s, d) ==
  FoldLeftDomain(LAMBDA loop, k : SplitTurn(s, d, k, loop), [buf |-> <<>>, parts |-> <<>>, top |-> 0], s)

\* The buffer has room for the characters of the string, not for a NUL.
SplitStr(d) ==
  /\ str # NULL
  /\ IF str.len = 0 THEN parts' = <<>> /\ UNCHANGED fault
     ELSE IF ~Has(str.text, d) THEN parts' = <<str.text>> /\ UNCHANGED fault
     ELSE LET loop == SplitLoop(str.text, d)
          IN  /\ parts' = loop.parts
              /\ fault' = IF loop.top >= Len(str.text) THEN "split" ELSE fault
  /\ UNCHANGED str

\* voy_str_concat and concat_chars: the block gets room for what is added only.
Concat(s) ==
  /\ str # NULL /\ Len(str.text) + Len(s) <= MaxText
  /\ IF s = <<>> THEN str' = [str EXCEPT !.start = str.at] /\ UNCHANGED fault
     ELSE /\ str' = [text |-> str.text \o s, len |-> str.len + Len(s), at |-> 0, start |-> 0, room |-> Len(s) + 1]
          /\ fault' = IF str.at # 0 THEN "realloc"
                      ELSE IF Len(str.text) + Len(s) + 1 > Len(s) + 1 THEN "concat" ELSE fault
  /\ UNCHANGED parts

Next ==
  /\ fault = "none"
  /\ \/ \E s \in Texts : New(s) \/ Concat(s)
     \/ TrimStr \/ Free
     \/ \E d \in Chars : SplitStr(d)

Spec == Init /\ [][Next]_vars

-------------------------------------------------------------------------------
\* The string ends inside of its block, and its length is that of its text, but
\* for the white space that trimming leaves after a single character.
StrOK ==
  str # NULL /\ fault = "none" =>
    /\ str.at \in Nat /\ str.at + Len(str.text) < str.room
    /\ \/ str.len = Len(str.text)
       \/ str.len = 1 /\ str.len < Len(str.text) /\ \A k \in 2 .. Len(str.text) : str.text[k] = Space

\* Trimming leaves exactly the text that Trim says, whatever was done to the
\* string before, and a split at d returns exactly the pieces that Split says.
TextsAsTold ==
  [][/\ TrimStr => str'.text = Trim(str.text, Chars)
     /\ \A d \in Chars : SplitStr(d) => parts' = Split(str.text, d)]_vars

\* Memory is misused by these calls and by no others: a split at a delimiter
\* that is only at the end, a concatenation to a string that is not empty or was
\* trimmed on its left, and the free of one that was trimmed on its left and
\* then had nothing added.
MisuseKnown ==
  [][fault' # "none" <=>
       \/ \E d \in Chars : SplitStr(d) /\ str.len # 0 /\ Has(str.text, d) /\ Len(Split(str.text, d)) = 1
       \/ \E s \in Texts \ {<<>>} : Concat(s) /\ (str.text # <<>> \/ str.at # 0)
       \/ Free /\ str.start # 0]_vars
===============================================================================
