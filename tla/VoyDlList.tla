------------------------------- MODULE VoyDlList -------------------------------
(***************************************************************************)
(* voy_dl_list.c: a list of nodes with two links. No part of the server    *)
(* uses it, its test does. Memory is a function of the addresses malloc()  *)
(* may return; an access to an address that is not allocated is undefined  *)
(* behaviour and ends the program here.                                    *)
(***************************************************************************)
EXTENDS Integers, Sequences, FiniteSets

CONSTANTS
  Nodes,      \* addresses of nodes
  Elems,      \* the values callers store
  NULL        \* no address and no value

\* What the constants are; a module that uses this one assumes it.
Addresses ==
  /\ IsFiniteSet(Nodes) /\ NULL \notin Nodes
  /\ NULL \notin [value : Elems, prev : Nodes \cup {NULL}, next : Nodes \cup {NULL}]

VARIABLES
  heap,       \* heap[n] is the node at n, NULL if it is not allocated
  first,      \* list->first
  ret,        \* what the last call returned
  crashed     \* memory that is not allocated was accessed

vars == <<heap, first, ret, crashed>>

Pointers == Nodes \cup {NULL}

\* A pointer the list may hold; first may point to a node that was freed.
DlTypeOK ==
  /\ heap \in [Nodes -> [value : Elems, prev : Pointers, next : Pointers] \cup {NULL}]
  /\ first \in Pointers
  /\ ret \in Elems \cup {NULL} \cup 0 .. Cardinality(Nodes)
  /\ crashed \in BOOLEAN

Init ==
  /\ heap = [n \in Nodes |-> NULL]
  /\ first = NULL
  /\ ret = NULL
  /\ crashed = FALSE

-------------------------------------------------------------------------------
Allocated == {n \in Nodes : heap[n] # NULL}

\* Where the loops of every function are, following next from the first node.
At[k \in 1 .. Cardinality(Nodes)] ==
  IF k = 1 THEN first ELSE IF At[k - 1] \in Allocated THEN heap[At[k - 1]].next ELSE NULL

\* The nodes they pass.
Chain == SubSeq(At, 1, Cardinality({k \in DOMAIN At : At[k] \in Allocated}))

TheList == [k \in DOMAIN Chain |-> heap[Chain[k]].value]

Last == Chain[Len(Chain)]

Dangling == first # NULL /\ first \notin Allocated

\* A function that is called with a first node that was freed reads it.
Crash == crashed' = TRUE /\ UNCHANGED <<heap, first, ret>>

\* Mutant of Node: the value is not stored.
NodeUnset(v, p, n) == [value |-> NULL, prev |-> p, next |-> n]

Node(v, p, n) == [value |-> v, prev |-> p, next |-> n]

Free(n) == [heap EXCEPT ![n] = NULL]

\* malloc() finds no memory: the first element is lost, another is dereferenced.
NoMemory == IF first = NULL THEN ret' = NULL /\ UNCHANGED <<heap, first, crashed>> ELSE Crash

Push(v) ==
  \/ NoMemory
  \/ Dangling /\ Crash
  \/ ~Dangling /\ \E n \in Nodes \ Allocated :
       /\ IF first = NULL
          THEN heap' = [heap EXCEPT ![n] = Node(v, NULL, NULL)] /\ first' = n
          ELSE /\ heap' = [heap EXCEPT ![n] = Node(v, Last, NULL), ![Last].next = n]
               /\ UNCHANGED first
       /\ ret' = NULL /\ UNCHANGED crashed

\* voy_dl_list_shift inserts at the beginning, as voy_array_shift does.
Shift(v) ==
  \/ NoMemory
  \/ Dangling /\ Crash
  \/ ~Dangling /\ \E n \in Nodes \ Allocated :
       /\ heap' = IF first = NULL THEN [heap EXCEPT ![n] = Node(v, NULL, NULL)]
                  ELSE [heap EXCEPT ![n] = Node(v, NULL, first), ![first].prev = n]
       /\ first' = n
       /\ ret' = NULL /\ UNCHANGED crashed

\* Mutant of NewFirst: the new first node keeps its link to the freed one.
NewFirstLinked(n) == Free(first)

\* The first node is freed and n is the first.
NewFirst(n) == [Free(first) EXCEPT ![n].prev = NULL]

Unshift ==
  IF Dangling THEN Crash
  ELSE /\ UNCHANGED crashed
       /\ IF first = NULL THEN ret' = NULL /\ UNCHANGED <<heap, first>>
          ELSE /\ ret' = heap[first].value
               /\ first' = heap[first].next
               /\ heap' = IF heap[first].next = NULL THEN Free(first) ELSE NewFirst(heap[first].next)

\* Mutant of NewLast: the node before the last keeps its link to the freed one.
NewLastLinked == Free(Last)

NewLast == [Free(Last) EXCEPT ![heap[Last].prev].next = NULL]

Pop ==
  IF Dangling THEN Crash
  ELSE /\ UNCHANGED crashed
       /\ IF first = NULL THEN ret' = NULL /\ UNCHANGED <<heap, first>>
          ELSE /\ ret' = heap[Last].value
               /\ first' = IF heap[first].next = NULL THEN NULL ELSE first
               /\ heap' = IF heap[first].next = NULL THEN Free(first) ELSE NewLast

\* Mutant of Finds: the loop goes on after it has found a node.
FindsAny(v, n) == \E k \in DOMAIN Chain : Chain[k] = n /\ heap[n].value = v

\* n is the first node of the chain with value v.
Finds(v, n) ==
  \E k \in DOMAIN Chain : Chain[k] = n /\ heap[n].value = v /\ \A l \in 1 .. k - 1 : heap[Chain[l]].value # v

Has(v) == \E k \in DOMAIN Chain : heap[Chain[k]].value = v

\* A bool of C as what a caller sees of it.
Bool(b) == IF b THEN 1 ELSE 0

\* Of a node between two others both links are closed.
Unlinked(n) == [Free(n) EXCEPT ![heap[n].prev].next = heap[n].next, ![heap[n].next].prev = heap[n].prev]

\* voy_dl_list_remove frees the only node and leaves first; of the last of
\* several it dereferences the node after it.
Remove(v) ==
  \/ Dangling /\ Crash
  \/ ~Dangling /\ ~Has(v) /\ ret' = NULL /\ UNCHANGED <<heap, first, crashed>>
  \/ ~Dangling /\ \E n \in Allocated :
       /\ Finds(v, n)
       /\ \/ n = first /\ heap[n].next = NULL
             /\ heap' = Free(n) /\ ret' = NULL /\ UNCHANGED <<first, crashed>>
          \/ n = first /\ heap[n].next # NULL
             /\ heap' = NewFirst(heap[n].next) /\ first' = heap[n].next /\ ret' = NULL /\ UNCHANGED crashed
          \/ n # first /\ heap[n].next # NULL
             /\ heap' = Unlinked(n) /\ ret' = NULL /\ UNCHANGED <<first, crashed>>
          \/ n # first /\ heap[n].next = NULL /\ Crash

\* voy_dl_list_exists and voy_dl_list_len
Read(answer) ==
  IF Dangling THEN Crash ELSE ret' = answer /\ UNCHANGED <<heap, first, crashed>>

\* voy_dl_list_clear: every node of the chain is freed.
Clear ==
  IF Dangling THEN Crash
  ELSE /\ heap' = [n \in Nodes |-> IF \E k \in DOMAIN Chain : Chain[k] = n THEN NULL ELSE heap[n]]
       /\ first' = NULL /\ ret' = NULL /\ UNCHANGED crashed

Next ==
  /\ ~crashed
  /\ \/ \E v \in Elems : Push(v) \/ Shift(v) \/ Remove(v) \/ Read(Bool(Has(v)))
     \/ Unshift \/ Pop \/ Clear \/ Read(Len(Chain))

Spec == Init /\ [][Next]_vars

-------------------------------------------------------------------------------
\* The two links agree, and the nodes that are allocated are those of the list.
Sound ==
  /\ ~crashed /\ ~Dangling
  /\ Allocated = {Chain[k] : k \in DOMAIN Chain}
  /\ \A n \in Allocated :
       /\ heap[n].prev = NULL <=> n = first
       /\ heap[n].next # NULL => heap[n].next \in Allocated /\ heap[heap[n].next].prev = n

\* What is removed is the last node, or the only one.
AtEnd(v) == \E n \in Allocated : Finds(v, n) /\ heap[n].next = NULL

\* The list is broken by a call that removes the value of its last node, by
\* every such call, and by no other call but one that malloc() fails.
BrokenAtEndOnly ==
  [][Sound => (Sound' <=> ~((\E v \in Elems : AtEnd(v) /\ Remove(v)) \/ (first # NULL /\ NoMemory)))]_vars

List == INSTANCE ListSpec WITH list <- TheList, Indices <- {}

\* The first element that equals v is taken out.
Without(v) ==
  \E k \in DOMAIN TheList :
    /\ TheList[k] = v /\ \A l \in 1 .. k - 1 : TheList[l] # v
    /\ TheList' = [l \in 1 .. Len(TheList) - 1 |-> IF l < k THEN TheList[l] ELSE TheList[l + 1]]

\* While it is not broken the list is the one ListSpec describes: what is in it
\* and in what order, and what each call returns.
IsListWhileSound ==
  [][Sound /\ Sound' =>
       \/ \E v \in Elems : List!Push(v) \/ List!Shift(v) \/ Without(v)
       \/ List!Pop \/ List!Unshift \/ List!Clear
       \/ /\ UNCHANGED TheList
          /\ ret' \in {NULL, Len(TheList)} \cup {Bool(\E k \in DOMAIN TheList : TheList[k] = v) : v \in Elems}]_vars
===============================================================================
