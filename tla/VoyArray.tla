------------------------------- MODULE VoyArray -------------------------------
(***************************************************************************)
(* voy_array.c: the pointer array every other part of voy keeps its data   *)
(* in. Memory is a function of the slots that are allocated; an access     *)
(* outside of them is undefined behaviour, recorded in overrun.            *)
(*                                                                         *)
(* The callers in src/ keep arrays dense: they push non-NULL elements and  *)
(* set only indices in use. (The buckets of a hash table are an array of a *)
(* fixed length that is only read and set at an index.) SetMayGrow lets a  *)
(* caller set any index, which the function and its tests permit.          *)
(***************************************************************************)
EXTENDS Integers, FiniteSets

CONSTANTS
  Elems,          \* the pointers callers store
  NULL,
  Junk,           \* what realloc() leaves in memory it adds
  InitCapacity,   \* the capacity voy_array_new is called with
  EXPAND_RATE,
  Indices,        \* the indices callers pass
  MaxLen,         \* bound: elements an array is filled with
  SetMayGrow,     \* callers use voy_array_set beyond the last element
  ExpandMayFail   \* realloc() may fail

\* What the constants are; a module that uses this one assumes it.
Sizes ==
  /\ NULL \notin Elems /\ Junk \notin Elems
  /\ Indices \subseteq Nat
  /\ InitCapacity \in Nat \ {0} /\ EXPAND_RATE \in Nat \ {0}
  /\ MaxLen \in Nat /\ SetMayGrow \in BOOLEAN /\ ExpandMayFail \in BOOLEAN

VARIABLES
  contents,   \* the allocated slots
  len,
  capacity,
  ret,        \* what the last call returned
  overrun     \* a slot that is not allocated was accessed

vars == <<contents, len, capacity, ret, overrun>>

TypeOK ==
  /\ capacity \in Nat /\ len \in 0 .. capacity
  /\ contents \in [0 .. capacity - 1 -> Elems \cup {NULL, Junk}]
  /\ ret \in Elems \cup {NULL, Junk}
  /\ overrun \in BOOLEAN

\* voy_array_new callocs the slots.
Init ==
  /\ capacity = InitCapacity
  /\ contents = [k \in 0 .. InitCapacity - 1 |-> NULL]
  /\ len = 0
  /\ ret = NULL
  /\ overrun = FALSE

-------------------------------------------------------------------------------
\* memmove() of n slots.
Moved(mem, dst, src, n) ==
  [k \in DOMAIN mem |-> IF k \in dst .. dst + n - 1 THEN mem[k - dst + src] ELSE mem[k]]

\* Mutant of Enlarged: only the capacity is updated.
EnlargedNot(mem) == mem

\* realloc() with room for EXPAND_RATE more.
Enlarged(mem) ==
  [k \in 0 .. capacity + EXPAND_RATE - 1 |-> IF k < capacity THEN mem[k] ELSE Junk]

\* Mutant of MustExpand: one element late.
MustExpandLate(n) == n > capacity

MustExpand(n) == n >= capacity

\* voy_array_push and voy_array_shift end with this; voy_array_expand leaves
\* the array as it is when realloc() fails.
Store(mem, n) ==
  /\ len' = n
  /\ \/ /\ MustExpand(n)
        /\ contents' = Enlarged(mem)
        /\ capacity' = capacity + EXPAND_RATE
     \/ /\ ~MustExpand(n) \/ ExpandMayFail
        /\ contents' = mem
        /\ UNCHANGED capacity

\* The call goes on only if it stays within the slots.
Overrun == overrun' = TRUE /\ UNCHANGED <<contents, len, capacity, ret>>

Within(k) == k < capacity

Push(v) ==
  /\ len < MaxLen
  /\ IF Within(len)
     THEN Store([contents EXCEPT ![len] = v], len + 1) /\ ret' = NULL /\ UNCHANGED overrun
     ELSE Overrun

\* voy_array_shift moves the elements up by one and sets the first.
Shift(v) ==
  /\ len < MaxLen
  /\ IF Within(len)
     THEN /\ Store([Moved(contents, 1, 0, len) EXCEPT ![0] = v], len + 1)
          /\ ret' = NULL /\ UNCHANGED overrun
     ELSE Overrun

\* voy_array_pop: a NULL element is not removed (voy_array_remove_element_at).
Pop ==
  /\ IF len = 0 \/ contents[len - 1] = NULL
     THEN ret' = NULL /\ UNCHANGED <<contents, len>>
     ELSE /\ ret' = contents[len - 1]
          /\ contents' = [contents EXCEPT ![len - 1] = NULL]
          /\ len' = len - 1
  /\ UNCHANGED <<capacity, overrun>>

\* voy_array_unshift takes the first and moves the others down; the slot that
\* was the last keeps its element.
Unshift ==
  IF len = 0 THEN ret' = NULL /\ UNCHANGED <<contents, len, capacity, overrun>>
  ELSE LET n == IF contents[0] = NULL THEN len ELSE len - 1
       IN  IF Within(n)
           THEN /\ ret' = contents[0]
                /\ len' = n
                /\ contents' = Moved([contents EXCEPT ![0] = NULL], 0, 1, n)
                /\ UNCHANGED <<capacity, overrun>>
           ELSE Overrun

\* Mutant of MovedDown: one element too few.
MovedDownShort(i) == Moved([contents EXCEPT ![i] = NULL], i, i + 1, len - 1 - i - 1)

\* The elements above i, after the one at i was removed.
MovedDown(i) == Moved([contents EXCEPT ![i] = NULL], i, i + 1, len - 1 - i)

\* voy_array_remove: only a non-NULL successor makes it close the gap.
Remove(i) ==
  IF i >= len \/ contents[i] = NULL
  THEN ret' = NULL /\ UNCHANGED <<contents, len, capacity, overrun>>
  ELSE IF Within(i + 1)
       THEN /\ ret' = contents[i]
            /\ len' = len - 1
            /\ contents' = IF contents[i + 1] # NULL THEN MovedDown(i)
                           ELSE [contents EXCEPT ![i] = NULL]
            /\ UNCHANGED <<capacity, overrun>>
       ELSE Overrun

\* voy_array_set ignores an index beyond the capacity, and lengthens the array
\* for one beyond the last element, without expanding it.
Set(v, i) ==
  /\ i < len \/ SetMayGrow
  /\ IF i >= capacity THEN UNCHANGED <<contents, len>>
     ELSE /\ len' = IF i >= len THEN i + 1 ELSE len
          /\ contents' = [contents EXCEPT ![i] = v]
  /\ ret' = NULL
  /\ UNCHANGED <<capacity, overrun>>

Get(i) ==
  /\ ret' = IF i >= len THEN NULL ELSE contents[i]
  /\ UNCHANGED <<contents, len, capacity, overrun>>

\* voy_array_swap does nothing if either element is NULL or not there.
Swap(a, b) ==
  /\ IF a # b /\ a < len /\ b < len /\ contents[a] # NULL /\ contents[b] # NULL
     THEN contents' = [contents EXCEPT ![a] = contents[b], ![b] = contents[a]]
     ELSE UNCHANGED contents
  /\ ret' = NULL
  /\ UNCHANGED <<len, capacity, overrun>>

Clear ==
  /\ contents' = [k \in DOMAIN contents |-> IF k < len THEN NULL ELSE contents[k]]
  /\ len' = 0
  /\ ret' = NULL
  /\ UNCHANGED <<capacity, overrun>>

Next ==
  \/ \E v \in Elems : Push(v) \/ Shift(v)
  \/ Pop \/ Unshift \/ Clear
  \/ \E i \in Indices : Get(i) \/ Remove(i)
  \/ \E v \in Elems, i \in Indices : Set(v, i)
  \/ \E a, b \in Indices : Swap(a, b)

Spec == Init /\ [][Next]_vars

-------------------------------------------------------------------------------
\* No call touches memory that is not the array's: voy_array_push and
\* voy_array_shift "expand if necessary", whatever was called before.
NoOverrun == ~overrun

\* After every call there is a free slot for the next push or shift, which
\* store first and expand afterwards.
InBounds == NoOverrun /\ len < capacity

\* The list the array stands for.
TheList == [j \in 1 .. len |-> contents[j - 1]]

List == INSTANCE ListSpec WITH list <- TheList

\* The array is the list its caller thinks it is, whatever is left over in the
\* slots beyond len by earlier calls.
IsList == List!LSpec
===============================================================================
