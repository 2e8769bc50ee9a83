---------------------------- MODULE VoyListProofs ----------------------------
(***************************************************************************)
(* Proofs about the two lists, as MCVoyData instantiates them: VoyArray    *)
(* for any elements, capacity and expansion rate, VoyDlList for any nodes  *)
(* and values. A dense array never runs out of its slots and is a list;    *)
(* the linked list is one until a call breaks it.                          *)
(***************************************************************************)
EXTENDS MCVoyData, FiniteSetTheorems, SequenceTheorems, WellFoundedInduction, TLAPS

LEMMA ElemsAssumption == NULL \notin Elems /\ Junk \notin Elems
BY SizesAssumption DEF Arr!Sizes

LEMMA IndicesAssumption == Indices \subseteq Nat
BY SizesAssumption DEF Arr!Sizes

LEMMA CapacityAssumption == InitCapacity \in Nat \ {0} /\ EXPAND_RATE \in Nat \ {0}
BY SizesAssumption DEF Arr!Sizes

\* How the callers in src/ use arrays, with an allocator that does not fail.
Dense == ~SetMayGrow /\ ~ExpandMayFail

\* The array is dense: its elements are pointers of its callers. That is what
\* makes pop, remove and unshift see no NULL below len, so that each of them
\* takes an element, and what is above len does not matter.
Inv ==
  /\ Arr!TypeOK
  /\ Arr!InBounds
  /\ \A k \in 0 .. len - 1 : contents[k] \in Elems

LEMMA InvInit == Arr!Init => Inv
<1> SUFFICES ASSUME Arr!Init PROVE Inv
  OBVIOUS
<1>1. InitCapacity \in Nat /\ 0 < InitCapacity
  BY CapacityAssumption
<1>2. capacity \in Nat /\ len \in 0 .. capacity /\ len < capacity
  BY <1>1 DEF Arr!Init
<1>3. contents \in [0 .. capacity - 1 -> Elems \cup {NULL, Junk}]
  BY DEF Arr!Init
<1>4. 0 .. len - 1 = {}
  BY DEF Arr!Init
<1> QED
  BY <1>2, <1>3, <1>4 DEF Arr!Init, Inv, Arr!TypeOK, Arr!InBounds, Arr!NoOverrun

\* What push and shift have in common: n elements are in the array after them.
LEMMA StoreKeepsInv ==
  ASSUME Dense, Inv, NEW n \in Nat, n <= capacity,
         NEW mem \in [0 .. capacity - 1 -> Elems \cup {NULL, Junk}],
         \A k \in 0 .. n - 1 : mem[k] \in Elems,
         Arr!Store(mem, n), ret' = NULL, UNCHANGED overrun
  PROVE  Inv'
<1> USE DEF Inv, Arr!TypeOK, Arr!InBounds, Arr!NoOverrun
<1>1. CASE Arr!MustExpand(n)
  <2>1. capacity' = capacity + EXPAND_RATE /\ len' = n /\ contents' = Arr!Enlarged(mem)
    BY <1>1 DEF Arr!Store, Dense
  <2>2. capacity' \in Nat /\ len' \in 0 .. capacity' /\ len' < capacity'
    BY <2>1, CapacityAssumption
  <2>3. contents' \in [0 .. capacity' - 1 -> Elems \cup {NULL, Junk}]
    BY <2>1, CapacityAssumption DEF Arr!Enlarged
  <2>4. \A k \in 0 .. len' - 1 : contents'[k] \in Elems
    BY <2>1, CapacityAssumption DEF Arr!Enlarged
  <2> QED
    BY <2>2, <2>3, <2>4
<1>2. CASE ~Arr!MustExpand(n)
  BY <1>2 DEF Arr!Store, Arr!MustExpand
<1> QED
  BY <1>1, <1>2

LEMMA InvStep == ASSUME Dense PROVE Inv /\ [Arr!Next]_arrvars => Inv'
<1> SUFFICES ASSUME Inv, [Arr!Next]_arrvars PROVE Inv'
  OBVIOUS
<1> USE DEF Inv, Arr!TypeOK, Arr!InBounds, Arr!NoOverrun
<1>1. ASSUME NEW v \in Elems, Arr!Push(v) PROVE Inv'
  <2> DEFINE mem == [contents EXCEPT ![len] = v]
  <2>1. Arr!Store(mem, len + 1) /\ ret' = NULL /\ UNCHANGED overrun
    BY <1>1 DEF Arr!Push, Arr!Within
  <2>2. \A k \in 0 .. len : mem[k] \in Elems
    OBVIOUS
  <2>3. mem \in [0 .. capacity - 1 -> Elems \cup {NULL, Junk}]
    OBVIOUS
  <2>4. len + 1 \in Nat /\ len + 1 <= capacity /\ (len + 1) - 1 = len
    OBVIOUS
  <2> HIDE DEF mem
  <2> QED
    BY <2>1, <2>2, <2>3, <2>4, StoreKeepsInv
<1>2. ASSUME NEW v \in Elems, Arr!Shift(v) PROVE Inv'
  <2> DEFINE mem == [Arr!Moved(contents, 1, 0, len) EXCEPT ![0] = v]
  <2>1. Arr!Store(mem, len + 1) /\ ret' = NULL /\ UNCHANGED overrun
    BY <1>2 DEF Arr!Shift, Arr!Within
  <2>2. \A k \in 0 .. len : mem[k] \in Elems
    BY DEF Arr!Moved
  <2>3. mem \in [0 .. capacity - 1 -> Elems \cup {NULL, Junk}]
    BY DEF Arr!Moved
  <2>4. len + 1 \in Nat /\ len + 1 <= capacity /\ (len + 1) - 1 = len
    OBVIOUS
  <2> HIDE DEF mem
  <2> QED
    BY <2>1, <2>2, <2>3, <2>4, StoreKeepsInv
<1>3. CASE Arr!Pop
  BY <1>3 DEF Arr!Pop
<1>4. CASE Arr!Unshift
  BY <1>4, ElemsAssumption DEF Arr!Unshift, Arr!Within, Arr!Moved
<1>5. CASE Arr!Clear
  BY <1>5 DEF Arr!Clear
<1>6. ASSUME NEW i \in Indices, Arr!Get(i) PROVE Inv'
  BY <1>6, IndicesAssumption DEF Arr!Get
<1>7. ASSUME NEW i \in Indices, Arr!Remove(i) PROVE Inv'
  BY <1>7, ElemsAssumption, IndicesAssumption DEF Arr!Remove, Arr!Within, Arr!Moved, Arr!MovedDown
<1>8. ASSUME NEW v \in Elems, NEW i \in Indices, Arr!Set(v, i) PROVE Inv'
  BY <1>8, IndicesAssumption DEF Arr!Set, Dense
<1>9. ASSUME NEW a \in Indices, NEW b \in Indices, Arr!Swap(a, b) PROVE Inv'
  BY <1>9, IndicesAssumption DEF Arr!Swap
<1>10. CASE UNCHANGED arrvars
  BY <1>10 DEF arrvars
<1> QED
  BY <1>1, <1>2, <1>3, <1>4, <1>5, <1>6, <1>7, <1>8, <1>9, <1>10 DEF Arr!Next

\* A dense array has its type: there are as many slots as capacity says, after
\* every expansion.
THEOREM DenseTypeOK == ASSUME Dense PROVE Arr!Spec => []TypeOK
<1>1. Inv => TypeOK
  BY DEF Inv, TypeOK
<1>2. Inv /\ [Arr!Next]_arrvars => Inv'
  BY InvStep
<1> QED
  BY <1>1, <1>2, InvInit, PTL DEF Arr!Spec, Arr!vars, arrvars

\* No call on a dense array touches memory beyond its slots.
THEOREM DenseInBounds == ASSUME Dense PROVE Arr!Spec => []InBounds
<1>1. Inv => InBounds
  BY DEF Inv, InBounds
<1>2. Inv /\ [Arr!Next]_arrvars => Inv'
  BY InvStep
<1> QED
  BY <1>1, <1>2, InvInit, PTL DEF Arr!Spec, Arr!vars, arrvars

-------------------------------------------------------------------------------
\* The array stands for a sequence of elements.
LEMMA TheListIsSeq == Inv => Arr!TheList \in Seq(Elems) /\ Len(Arr!TheList) = len
BY DEF Inv, Arr!TypeOK, Arr!TheList

\* An expansion does not change the elements: what realloc() leaves is above them.
LEMMA StoreElements ==
  ASSUME Dense, Inv, NEW n \in Nat, n <= capacity,
         NEW mem \in [0 .. capacity - 1 -> Elems \cup {NULL, Junk}],
         Arr!Store(mem, n)
  PROVE  len' = n /\ \A k \in 0 .. n - 1 : contents'[k] = mem[k]
BY CapacityAssumption DEF Arr!Store, Arr!Enlarged, Inv, Arr!TypeOK

LEMMA ListStep == ASSUME Dense, Inv, Inv', [Arr!Next]_arrvars PROVE [Arr!List!LNext]_(Arr!List!lvars)
<1>i. /\ capacity \in Nat /\ len \in Nat /\ len < capacity
      /\ contents \in [0 .. capacity - 1 -> Elems \cup {NULL, Junk}]
      /\ \A k \in 0 .. len - 1 : contents[k] \in Elems
      /\ NULL \notin Elems
  BY ElemsAssumption DEF Inv, Arr!TypeOK, Arr!InBounds
<1>s. Arr!TheList \in Seq(Elems) /\ Len(Arr!TheList) = len /\ DOMAIN Arr!TheList = 1 .. len
  BY TheListIsSeq DEF Arr!TheList
<1>l. \A j \in 1 .. len : Arr!TheList[j] = contents[j - 1]
  BY DEF Arr!TheList
<1>e. ASSUME NEW t \in Seq(Elems), Len(t) = len', \A j \in 1 .. len' : t[j] = contents'[j - 1]
      PROVE  Arr!TheList' = t
  <2>1. (Arr!TheList \in Seq(Elems) /\ Len(Arr!TheList) = len)'
    BY TheListIsSeq, PTL
  <2>2. \A j \in 1 .. len' : Arr!TheList'[j] = contents'[j - 1]
    BY DEF Arr!TheList
  <2> QED
    BY <1>e, <2>1, <2>2, SeqEqual
<1>n. Arr!TheList = <<>> <=> len = 0
  BY <1>s, EmptySeq
<1>1. ASSUME NEW v \in Elems, Arr!Push(v) PROVE Arr!List!Push(v)
  <2> DEFINE mem == [contents EXCEPT ![len] = v]
  <2>1. Arr!Store(mem, len + 1) /\ ret' = NULL
    BY <1>1, <1>i DEF Arr!Push, Arr!Within
  <2>2. mem \in [0 .. capacity - 1 -> Elems \cup {NULL, Junk}]
    BY <1>i
  <2>3. len' = len + 1 /\ \A k \in 0 .. len : contents'[k] = mem[k]
    <3>1. len + 1 \in Nat /\ len + 1 <= capacity /\ (len + 1) - 1 = len
      BY <1>i
    <3> HIDE DEF mem
    <3> QED
      BY <2>1, <2>2, <3>1, StoreElements
  <2>4. Append(Arr!TheList, v) \in Seq(Elems) /\ Len(Append(Arr!TheList, v)) = len + 1
    BY <1>s
  <2>5. \A j \in 1 .. len + 1 : Append(Arr!TheList, v)[j] = contents'[j - 1]
    BY <1>i, <1>s, <1>l, <2>3
  <2> QED
    BY <1>e, <2>1, <2>3, <2>4, <2>5 DEF Arr!List!Push
<1>2. ASSUME NEW v \in Elems, Arr!Shift(v) PROVE Arr!List!Shift(v)
  <2> DEFINE mem == [Arr!Moved(contents, 1, 0, len) EXCEPT ![0] = v]
  <2>1. Arr!Store(mem, len + 1) /\ ret' = NULL
    BY <1>2, <1>i DEF Arr!Shift, Arr!Within
  <2>2. mem \in [0 .. capacity - 1 -> Elems \cup {NULL, Junk}]
    BY <1>i DEF Arr!Moved
  <2>3. len' = len + 1 /\ \A k \in 0 .. len : contents'[k] = mem[k]
    <3>1. len + 1 \in Nat /\ len + 1 <= capacity /\ (len + 1) - 1 = len
      BY <1>i
    <3> HIDE DEF mem
    <3> QED
      BY <2>1, <2>2, <3>1, StoreElements
  <2>4. \A k \in 0 .. len : mem[k] = IF k = 0 THEN v ELSE contents[k - 1]
    BY <1>i DEF Arr!Moved
  <2>5. <<v>> \in Seq(Elems) /\ Len(<<v>>) = 1 /\ <<v>>[1] = v
    OBVIOUS
  <2>6. /\ <<v>> \o Arr!TheList \in Seq(Elems) /\ Len(<<v>> \o Arr!TheList) = len + 1
        /\ \A j \in 1 .. len + 1 : (<<v>> \o Arr!TheList)[j] = IF j <= 1 THEN v ELSE Arr!TheList[j - 1]
    BY <1>i, <1>s, <2>5, ConcatProperties
  <2>7. \A j \in 1 .. len + 1 : (<<v>> \o Arr!TheList)[j] = contents'[j - 1]
    <3> HIDE DEF mem
    <3> QED
      BY <1>i, <1>l, <2>3, <2>4, <2>6
  <2> QED
    BY <1>e, <2>1, <2>3, <2>6, <2>7 DEF Arr!List!Shift
<1>3. ASSUME Arr!Pop PROVE Arr!List!Pop
  <2>1. CASE len = 0
    <3>1. ret' = NULL /\ contents' = contents /\ len' = len
      BY <2>1, <1>3 DEF Arr!Pop
    <3>2. Arr!TheList' = Arr!TheList
      BY <3>1 DEF Arr!TheList
    <3> QED
      BY <2>1, <3>1, <3>2, <1>n DEF Arr!List!Pop
  <2>2. CASE len # 0
    <3>1. contents[len - 1] # NULL
      BY <2>2, <1>i
    <3>2. ret' = Arr!TheList[len] /\ len' = len - 1 /\ contents' = [contents EXCEPT ![len - 1] = NULL]
      BY <2>2, <3>1, <1>3, <1>i, <1>l DEF Arr!Pop
    <3>3. /\ SubSeq(Arr!TheList, 1, len - 1) \in Seq(Elems)
          /\ Len(SubSeq(Arr!TheList, 1, len - 1)) = len - 1
          /\ \A j \in 1 .. len - 1 : SubSeq(Arr!TheList, 1, len - 1)[j] = Arr!TheList[j]
      BY <2>2, <1>i, <1>s
    <3>4. \A j \in 1 .. len - 1 : Arr!TheList[j] = contents'[j - 1]
      BY <2>2, <3>2, <1>i, <1>l
    <3>5. Arr!TheList' = SubSeq(Arr!TheList, 1, len - 1)
      BY <1>e, <3>2, <3>3, <3>4
    <3> QED
      BY <2>2, <3>2, <3>5, <1>s, <1>n DEF Arr!List!Pop
  <2> QED
    BY <2>1, <2>2
<1>4. ASSUME Arr!Unshift PROVE Arr!List!Unshift
  <2>1. CASE len = 0
    <3>1. ret' = NULL /\ contents' = contents /\ len' = len
      BY <2>1, <1>4 DEF Arr!Unshift
    <3>2. Arr!TheList' = Arr!TheList
      BY <3>1 DEF Arr!TheList
    <3> QED
      BY <2>1, <3>1, <3>2, <1>n DEF Arr!List!Unshift
  <2>2. CASE len # 0
    <3>1. contents[0] # NULL /\ Arr!Within(len - 1)
      BY <2>2, <1>i DEF Arr!Within
    <3>2. /\ ret' = Arr!TheList[1] /\ len' = len - 1
          /\ contents' = Arr!Moved([contents EXCEPT ![0] = NULL], 0, 1, len - 1)
      BY <2>2, <3>1, <1>4, <1>i, <1>l DEF Arr!Unshift
    <3>3. /\ Tail(Arr!TheList) \in Seq(Elems) /\ Len(Tail(Arr!TheList)) = len - 1
          /\ \A j \in 1 .. len - 1 : Tail(Arr!TheList)[j] = Arr!TheList[j + 1]
      BY <2>2, <1>i, <1>s
    <3>4. \A j \in 1 .. len - 1 : Arr!TheList[j + 1] = contents'[j - 1]
      BY <2>2, <3>2, <1>i, <1>l DEF Arr!Moved
    <3>5. Arr!TheList' = Tail(Arr!TheList)
      BY <1>e, <3>2, <3>3, <3>4
    <3>6. Head(Arr!TheList) = Arr!TheList[1]
      BY <1>s
    <3> QED
      BY <2>2, <3>2, <3>5, <3>6, <1>n DEF Arr!List!Unshift
  <2> QED
    BY <2>1, <2>2
<1>5. ASSUME Arr!Clear PROVE Arr!List!Clear
  <2>1. len' = 0 /\ ret' = NULL
    BY <1>5 DEF Arr!Clear
  <2> QED
    BY <2>1 DEF Arr!List!Clear, Arr!TheList
<1>6. ASSUME NEW i \in Indices, Arr!Get(i) PROVE Arr!List!Get(i)
  <2>1. i \in Nat
    BY IndicesAssumption
  <2>2. Arr!TheList' = Arr!TheList /\ ret' = IF i >= len THEN NULL ELSE contents[i]
    BY <1>6 DEF Arr!Get, Arr!TheList
  <2> QED
    BY <2>1, <2>2, <1>i, <1>s, <1>l DEF Arr!List!Get
<1>7. ASSUME NEW i \in Indices, Arr!Remove(i) PROVE Arr!List!Remove(i)
  <2>0. i \in Nat
    BY IndicesAssumption
  <2>1. CASE i >= len
    <3>1. Arr!TheList' = Arr!TheList /\ ret' = NULL
      BY <2>1, <1>7 DEF Arr!Remove, Arr!TheList
    <3> QED
      BY <2>0, <2>1, <3>1, <1>i, <1>s DEF Arr!List!Remove
  <2>2. CASE i < len
    <3> DEFINE t == [j \in 1 .. Len(Arr!TheList) - 1 |-> IF j <= i THEN Arr!TheList[j] ELSE Arr!TheList[j + 1]]
    <3>1. contents[i] # NULL /\ Arr!Within(i + 1)
      BY <2>0, <2>2, <1>i DEF Arr!Within
    <3>2. ret' = Arr!TheList[i + 1] /\ len' = len - 1
      BY <2>0, <2>2, <3>1, <1>7, <1>i, <1>l DEF Arr!Remove
    <3>3. \A k \in 0 .. len - 2 : contents'[k] = IF k < i THEN contents[k] ELSE contents[k + 1]
      <4>1. CASE i = len - 1
        BY <2>0, <4>1, <3>1, <2>2, <1>7, <1>i DEF Arr!Remove, Arr!MovedDown, Arr!Moved
      <4>2. CASE i < len - 1
        <5>1. contents[i + 1] # NULL
          BY <2>0, <4>2, <1>i
        <5>2. contents' = Arr!MovedDown(i)
          BY <5>1, <3>1, <2>0, <2>2, <1>7, <1>i DEF Arr!Remove
        <5> QED
          BY <5>2, <2>0, <4>2, <1>i DEF Arr!MovedDown, Arr!Moved
      <4> QED
        BY <4>1, <4>2, <2>0, <2>2, <1>i
    <3>4. t \in Seq(Elems) /\ Len(t) = len - 1
      BY <2>0, <2>2, <1>i, <1>s
    <3>5. \A j \in 1 .. len - 1 : t[j] = contents'[j - 1]
      BY <3>3, <2>0, <2>2, <1>i, <1>s, <1>l
    <3> HIDE DEF t
    <3>6. Arr!TheList' = t
      BY <1>e, <3>2, <3>4, <3>5
    <3> USE DEF t
    <3> QED
      BY <2>0, <2>2, <3>2, <3>6, <1>i, <1>s DEF Arr!List!Remove
  <2> QED
    BY <2>0, <2>1, <2>2, <1>i
<1>8. ASSUME NEW v \in Elems, NEW i \in Indices, Arr!Set(v, i) PROVE Arr!List!Set(v, i)
  <2>1. i \in Nat /\ i < len
    BY <1>8, IndicesAssumption DEF Arr!Set, Dense
  <2>2. len' = len /\ contents' = [contents EXCEPT ![i] = v] /\ ret' = NULL
    BY <1>8, <1>i, <2>1 DEF Arr!Set
  <2>3. Arr!TheList' = [Arr!TheList EXCEPT ![i + 1] = v]
    <3> DEFINE t == [Arr!TheList EXCEPT ![i + 1] = v]
    <3>1. t \in Seq(Elems) /\ Len(t) = len
      BY <1>i, <1>s, <2>1
    <3>2. \A j \in 1 .. len : t[j] = contents'[j - 1]
      BY <1>i, <1>s, <1>l, <2>1, <2>2
    <3> HIDE DEF t
    <3>3. Arr!TheList' = t
      BY <1>e, <2>2, <3>1, <3>2
    <3> QED
      BY <3>3 DEF t
  <2> QED
    BY <2>1, <2>2, <2>3, <1>i, <1>s DEF Arr!List!Set
<1>9. ASSUME NEW a \in Indices, NEW b \in Indices, Arr!Swap(a, b) PROVE Arr!List!Swap(a, b)
  <2>0. a \in Nat /\ b \in Nat
    BY IndicesAssumption
  <2>1. CASE a < len /\ b < len /\ a # b
    <3>1. contents[a] # NULL /\ contents[b] # NULL
      BY <2>0, <2>1, <1>i
    <3>2. contents' = [contents EXCEPT ![a] = contents[b], ![b] = contents[a]] /\ len' = len /\ ret' = NULL
      BY <2>1, <3>1, <1>9 DEF Arr!Swap
    <3>3. Arr!TheList' = [Arr!TheList EXCEPT ![a + 1] = Arr!TheList[b + 1], ![b + 1] = Arr!TheList[a + 1]]
      <4> DEFINE t == [Arr!TheList EXCEPT ![a + 1] = Arr!TheList[b + 1], ![b + 1] = Arr!TheList[a + 1]]
      <4>1. t \in Seq(Elems) /\ Len(t) = len
        BY <1>i, <1>s, <2>0, <2>1
      <4>2. \A j \in 1 .. len : t[j] = contents'[j - 1]
        <5>1. \A j \in 1 .. len : t[j] = IF j = b + 1 THEN Arr!TheList[a + 1]
                                       ELSE IF j = a + 1 THEN Arr!TheList[b + 1] ELSE Arr!TheList[j]
          BY <1>i, <1>s, <2>0, <2>1
        <5>2. \A k \in 0 .. len - 1 : contents'[k] = IF k = b THEN contents[a]
                                       ELSE IF k = a THEN contents[b] ELSE contents[k]
          BY <1>i, <2>0, <2>1, <3>2
        <5>3. Arr!TheList[a + 1] = contents[a] /\ Arr!TheList[b + 1] = contents[b]
          BY <1>i, <1>l, <2>0, <2>1
        <5> HIDE DEF t
        <5> QED
          BY <5>1, <5>2, <5>3, <1>i, <1>l, <2>0
      <4> HIDE DEF t
      <4>3. Arr!TheList' = t
        BY <1>e, <3>2, <4>1, <4>2
      <4> QED
        BY <4>3 DEF t
    <3>4. {a + 1, b + 1} \subseteq DOMAIN Arr!TheList
      BY <2>0, <2>1, <1>i, <1>s
    <3> QED
      BY <3>2, <3>3, <3>4 DEF Arr!List!Swap
  <2>2. CASE ~(a < len /\ b < len /\ a # b)
    <3>1. Arr!TheList' = Arr!TheList /\ ret' = NULL
      BY <2>2, <1>9 DEF Arr!Swap, Arr!TheList
    <3>2. CASE {a + 1, b + 1} \subseteq DOMAIN Arr!TheList
      <4>1. a = b
        BY <2>0, <2>2, <3>2, <1>i, <1>s
      <4>2. Arr!TheList = [Arr!TheList EXCEPT ![a + 1] = Arr!TheList[b + 1], ![b + 1] = Arr!TheList[a + 1]]
        BY <4>1 DEF Arr!TheList
      <4> QED
        BY <3>1, <3>2, <4>2 DEF Arr!List!Swap
    <3>3. CASE ~({a + 1, b + 1} \subseteq DOMAIN Arr!TheList)
      BY <3>1, <3>3 DEF Arr!List!Swap
    <3> QED
      BY <3>2, <3>3
  <2> QED
    BY <2>1, <2>2
<1>10. CASE UNCHANGED arrvars
  BY <1>10 DEF arrvars, Arr!List!lvars, Arr!TheList
<1> QED
  BY <1>1, <1>2, <1>3, <1>4, <1>5, <1>6, <1>7, <1>8, <1>9, <1>10 DEF Arr!Next, Arr!List!LNext

\* A dense array implements ListSpec, whatever the order of the calls.
THEOREM DenseIsList == ASSUME Dense PROVE Arr!Spec => IsList
<1>1. Arr!Init => Arr!List!LInit
  BY DEF Arr!Init, Arr!List!LInit, Arr!TheList
<1>2. Inv /\ [Arr!Next]_arrvars => Inv'
  BY InvStep
<1>3. Inv /\ Inv' /\ [Arr!Next]_arrvars => [Arr!List!LNext]_(Arr!List!lvars)
  BY ListStep
<1> QED
  BY <1>1, <1>2, <1>3, InvInit, PTL DEF Arr!Spec, Arr!vars, arrvars, IsList, Arr!IsList, Arr!List!LSpec

-------------------------------------------------------------------------------
\* A set of numbers has a least one.
LEMMA Least ==
  ASSUME NEW T \in SUBSET Nat, T # {}
  PROVE  \E x \in T : \A y \in T : x <= y
<1> DEFINE R == OpToRel(<, Nat)
<1>1. \E x \in T : \A y \in T : <<y, x>> \notin R
  <2>1. IsWellFoundedOn(R, Nat)
    BY NatLessThanWellFounded
  <2> HIDE DEF R
  <2> QED  BY <2>1, WFMin
<1>2. \A x, y \in Nat : y < x => <<y, x>> \in R
  BY DEF OpToRel
<1> HIDE DEF R
<1>3. \A x, y \in T : x \in Nat /\ y \in Nat
  OBVIOUS
<1>4. \A x, y \in Nat : <<y, x>> \notin R => x <= y
  BY <1>2
<1> QED BY <1>1, <1>3, <1>4, Zenon

\* The instance has operators of its own for finite sets.
LEMMA SizeOf == \A S : Dl!Cardinality(S) = Cardinality(S)
BY DEF Dl!Cardinality, Cardinality

\* The assumption on nodes, in the operators of this module.
LEMMA AddressesAre ==
  /\ IsFiniteSet(Nodes) /\ NULL \notin Nodes
  /\ NULL \notin [value : Elems, prev : Nodes \cup {NULL}, next : Nodes \cup {NULL}]
<1>1. Dl!IsFiniteSet(Nodes) <=> IsFiniteSet(Nodes)
  BY DEF Dl!IsFiniteSet, IsFiniteSet
<1> QED
  BY <1>1, AddressesAssumption DEF Dl!Addresses

\* In memory h with the first node f the list has the nodes of q: those are the
\* nodes that are allocated, and the links of each lead to its neighbours.
Linked(h, f, q) ==
  /\ q \in Seq(Nodes)
  /\ \A i, j \in 1 .. Len(q) : q[i] = q[j] => i = j
  /\ \A n \in Nodes : h[n] # NULL <=> \E i \in 1 .. Len(q) : n = q[i]
  /\ f = IF Len(q) = 0 THEN NULL ELSE q[1]
  /\ \A i \in 1 .. Len(q) : /\ h[q[i]].prev = IF i = 1 THEN NULL ELSE q[i - 1]
                            /\ h[q[i]].next = IF i = Len(q) THEN NULL ELSE q[i + 1]

\* FS_Interval for the indices of a sequence.
LEMMA UpTo == \A n \in Nat : IsFiniteSet(1 .. n) /\ Cardinality(1 .. n) = n
<1>1. \A a, b \in Int : IsFiniteSet(a .. b) /\ Cardinality(a .. b) = IF a > b THEN 0 ELSE b - a + 1
  BY FS_Interval
<1> SUFFICES ASSUME NEW n \in Nat PROVE IsFiniteSet(1 .. n) /\ Cardinality(1 .. n) = n
  OBVIOUS
<1>2. IsFiniteSet(1 .. n) /\ Cardinality(1 .. n) = IF 1 > n THEN 0 ELSE n - 1 + 1
  BY <1>1
<1> QED
  BY <1>2

\* As no node is in the list twice, it has no more nodes than there are.
LEMMA AtMost ==
  ASSUME NEW q \in Seq(Nodes), \A i, j \in 1 .. Len(q) : q[i] = q[j] => i = j
  PROVE  Cardinality(Nodes) \in Nat /\ Len(q) <= Cardinality(Nodes)
<1>1. Cardinality(Nodes) \in Nat
  BY AddressesAre, FS_CardinalityType
<1>2. Len(q) \in Nat
  OBVIOUS
<1>3. IsFiniteSet(1 .. Len(q)) /\ Cardinality(1 .. Len(q)) = Len(q)
  BY <1>2, UpTo
<1>4. q \in [1 .. Len(q) -> Nodes]
  OBVIOUS
<1>5. ASSUME Cardinality(Nodes) < Len(q) PROVE FALSE
  <2>1. \E x, y \in 1 .. Len(q) : x # y /\ q[x] = q[y]
    BY <1>3, <1>4, <1>5, AddressesAre, FS_PigeonHole
  <2> QED
    BY <2>1
<1> QED
  BY <1>1, <1>2, <1>5

\* The loops pass the nodes of the list, in its order.
LEMMA ChainIs == \A q : Linked(heap, first, q) => Dl!Chain = q
<1> SUFFICES ASSUME NEW q, Linked(heap, first, q) PROVE Dl!Chain = q
  OBVIOUS
<1> DEFINE N == Cardinality(Nodes)
           n == Len(q)
           Follows(g) == g = [k \in 1 .. N |-> IF k = 1 THEN first
                                ELSE IF g[k - 1] \in Dl!Allocated THEN heap[g[k - 1]].next ELSE NULL]
           g == [k \in 1 .. N |-> IF k <= n THEN q[k] ELSE NULL]
<1>q. /\ q \in Seq(Nodes) /\ n \in Nat /\ N \in Nat /\ n <= N
      /\ \A k \in 1 .. n : q[k] \in Nodes
      /\ NULL \notin Nodes
  BY AtMost, AddressesAre DEF Linked
<1>a. \A x : x \in Dl!Allocated <=> \E k \in 1 .. n : x = q[k]
  BY <1>q DEF Linked, Dl!Allocated
<1>f. \A k \in 1 .. N : g[k] \in Dl!Allocated <=> k <= n
  BY <1>q, <1>a
<1>l. first = IF n = 0 THEN NULL ELSE q[1]
  BY DEF Linked
<1>n. \A k \in 1 .. n : heap[q[k]].next = IF k = n THEN NULL ELSE q[k + 1]
  BY DEF Linked
<1>1. Follows(g)
  <2>1. ASSUME NEW k \in 1 .. N
        PROVE  g[k] = IF k = 1 THEN first
                      ELSE IF g[k - 1] \in Dl!Allocated THEN heap[g[k - 1]].next ELSE NULL
    <3>1. CASE k = 1
      BY <3>1, <1>q, <1>l
    <3>2. CASE k # 1
      <4>1. k - 1 \in 1 .. N
        BY <3>2, <1>q
      <4>2. CASE k - 1 <= n
        <5>1. k - 1 \in 1 .. n /\ g[k - 1] = q[k - 1] /\ g[k - 1] \in Dl!Allocated
          BY <4>1, <4>2, <1>f, <1>q
        <5>2. heap[q[k - 1]].next = IF k - 1 = n THEN NULL ELSE q[k]
          BY <5>1, <1>n
        <5>3. g[k] = IF k - 1 = n THEN NULL ELSE q[k]
          BY <5>1, <1>q
        <5> QED
          BY <5>1, <5>2, <5>3, <3>2
      <4>3. CASE ~(k - 1 <= n)
        <5>1. g[k - 1] \notin Dl!Allocated /\ g[k] = NULL
          BY <4>1, <4>3, <1>f, <1>q
        <5> QED
          BY <5>1, <3>2
      <4> QED
        BY <4>2, <4>3
    <3> QED
      BY <3>1, <3>2
  <2> QED
    BY <2>1
<1>2. Follows(Dl!At)
  <2>1. Dl!At = CHOOSE f : Follows(f)
    BY SizeOf DEF Dl!At
  <2> HIDE DEF Follows, g
  <2> QED
    BY <1>1, <2>1
<1>3. Dl!At = g
  <2> DEFINE at == Dl!At
  <2> HIDE DEF at
  <2>0. Follows(at)
    BY <1>2 DEF at
  <2>1. \A k \in 1 .. N : at[k] = IF k = 1 THEN first
                       ELSE IF at[k - 1] \in Dl!Allocated THEN heap[at[k - 1]].next ELSE NULL
    BY <2>0
  <2>2. \A k \in 1 .. N : g[k] = IF k = 1 THEN first
                       ELSE IF g[k - 1] \in Dl!Allocated THEN heap[g[k - 1]].next ELSE NULL
    BY <1>1
  <2>3. at = [k \in 1 .. N |-> at[k]] /\ g = [k \in 1 .. N |-> g[k]]
    BY <2>0
  <2>g. g \in [1 .. N -> Nodes \cup {NULL}]
    BY <1>q
  <2> HIDE DEF g, N, Follows
  <2> DEFINE T == {k \in 1 .. N : at[k] # g[k]}
  <2>4. ASSUME T # {} PROVE FALSE
    <3>0. T \in SUBSET Nat
      BY <1>q
    <3>1. PICK k \in T : \A j \in T : k <= j
      <4> HIDE DEF T
      <4> QED
        BY <2>4, <3>0, Least
    <3>2. k \in 1 .. N /\ at[k] # g[k] /\ \A j \in 1 .. N : j < k => at[j] = g[j]
      BY <3>1, <1>q
    <3>3. k # 1
      BY <3>2, <2>1, <2>2
    <3>4. k - 1 \in 1 .. N /\ k - 1 < k
      BY <3>2, <3>3, <1>q
    <3>5. at[k - 1] = g[k - 1]
      BY <3>2, <3>4
    <3> HIDE DEF T
    <3> QED
      BY <3>2, <3>5, <2>1, <2>2
  <2>5. \A k \in 1 .. N : at[k] = g[k]
    BY <2>4
  <2>6. at = g
    <3>1. [k \in 1 .. N |-> at[k]] = [k \in 1 .. N |-> g[k]]
      BY <2>5
    <3> QED
      BY <3>1, <2>3
  <2> QED
    BY <2>6 DEF at
<1>4. {k \in DOMAIN Dl!At : Dl!At[k] \in Dl!Allocated} = 1 .. n
  <2>1. DOMAIN g = 1 .. N
    OBVIOUS
  <2>2. {k \in 1 .. N : g[k] \in Dl!Allocated} = 1 .. n
    <3> HIDE DEF g
    <3> QED
      BY <1>f, <1>q
  <2> HIDE DEF g
  <2> QED
    BY <1>3, <2>1, <2>2
<1>5. Cardinality(1 .. n) = n
  BY <1>q, UpTo
<1>6. Dl!Chain = SubSeq(g, 1, n)
  BY <1>3, <1>4, <1>5, SizeOf DEF Dl!Chain
<1>7. g \in Seq(Nodes \cup {NULL}) /\ Len(g) = N
  BY <1>q
<1>8. SubSeq(g, 1, n) \in Seq(Nodes \cup {NULL}) /\ Len(SubSeq(g, 1, n)) = n
      /\ \A k \in 1 .. n : SubSeq(g, 1, n)[k] = g[k]
  <2> HIDE DEF g
  <2> QED
    BY <1>7, <1>q
<1>9. \A k \in 1 .. n : g[k] = q[k]
  BY <1>q
<1>10. q \in Seq(Nodes \cup {NULL})
  BY <1>q
<1> HIDE DEF g
<1>11. SubSeq(g, 1, n) = q
  BY <1>8, <1>9, <1>10, SeqEqual
<1> QED
  BY <1>6, <1>11

\* What malloc() makes room for.
Records == [value : Elems, prev : Nodes \cup {NULL}, next : Nodes \cup {NULL}]

\* Memory: a record at each node that is allocated.
Typed(h) == h \in [Nodes -> Records \cup {NULL}]

\* The nodes of the list are records.
LEMMA LinkedNodes ==
  ASSUME NEW h, Typed(h), NEW f, NEW q, Linked(h, f, q)
  PROVE  \A i \in 1 .. Len(q) : q[i] \in Nodes /\ h[q[i]] # NULL /\ h[q[i]] \in Records
BY DEF Linked, Typed

\* The values of the nodes, in the order of the list.
LEMMA ListIs ==
  \A q : Typed(heap) /\ Linked(heap, first, q) =>
           /\ Dl!TheList \in Seq(Elems) /\ Len(Dl!TheList) = Len(q)
           /\ \A k \in 1 .. Len(q) : Dl!TheList[k] = heap[q[k]].value
<1> SUFFICES ASSUME NEW q, Typed(heap), Linked(heap, first, q)
             PROVE  /\ Dl!TheList \in Seq(Elems) /\ Len(Dl!TheList) = Len(q)
                    /\ \A k \in 1 .. Len(q) : Dl!TheList[k] = heap[q[k]].value
  OBVIOUS
<1>1. Dl!TheList = [k \in DOMAIN q |-> heap[q[k]].value]
  BY ChainIs DEF Dl!TheList
<1>2. q \in Seq(Nodes) /\ DOMAIN q = 1 .. Len(q) /\ Len(q) \in Nat
  BY DEF Linked
<1>3. \A k \in 1 .. Len(q) : heap[q[k]].value \in Elems
  BY LinkedNodes DEF Records
<1> QED
  BY <1>1, <1>2, <1>3

\* The same of the next state.
LEMMA ListIsNext ==
  \A q : Typed(heap') /\ Linked(heap', first', q) =>
           /\ Dl!TheList' \in Seq(Elems) /\ Len(Dl!TheList') = Len(q)
           /\ \A k \in 1 .. Len(q) : Dl!TheList'[k] = heap'[q[k]].value
<1>1. (\A q : Typed(heap) /\ Linked(heap, first, q) =>
           /\ Dl!TheList \in Seq(Elems) /\ Len(Dl!TheList) = Len(q)
           /\ \A k \in 1 .. Len(q) : Dl!TheList[k] = heap[q[k]].value)'
  BY ListIs, PTL
<1> QED
  BY <1>1

\* n becomes the last node.
LEMMA Appended ==
  ASSUME NEW h, NEW f, NEW q, Linked(h, f, q), NEW n \in Nodes, h[n] = NULL,
         NEW g, g[n] # NULL, g[n].next = NULL,
         g[n].prev = IF Len(q) = 0 THEN NULL ELSE q[Len(q)],
         \A i \in 1 .. Len(q) : /\ g[q[i]] # NULL /\ g[q[i]].prev = h[q[i]].prev
                                /\ g[q[i]].next = IF i = Len(q) THEN n ELSE h[q[i]].next,
         \A m \in Nodes : m # n /\ h[m] = NULL => g[m] = NULL
  PROVE  Linked(g, IF Len(q) = 0 THEN n ELSE f, Append(q, n))
<1> DEFINE r == Append(q, n)
           e == Len(q)
<1>1. q \in Seq(Nodes) /\ e \in Nat
  BY DEF Linked
<1>2. r \in Seq(Nodes) /\ Len(r) = e + 1 /\ r[e + 1] = n /\ \A i \in 1 .. e : r[i] = q[i]
  BY <1>1
<1> HIDE DEF r
<1>3. /\ \A i, j \in 1 .. e : q[i] = q[j] => i = j
      /\ \A m \in Nodes : h[m] # NULL <=> \E i \in 1 .. e : m = q[i]
      /\ f = IF e = 0 THEN NULL ELSE q[1]
      /\ \A i \in 1 .. e : /\ h[q[i]].prev = IF i = 1 THEN NULL ELSE q[i - 1]
                           /\ h[q[i]].next = IF i = e THEN NULL ELSE q[i + 1]
  BY DEF Linked
<1>4. \A i \in 1 .. e : q[i] \in Nodes /\ q[i] # n
  BY <1>1, <1>3
<1>5. \A i \in 1 .. e : /\ g[q[i]] # NULL /\ g[q[i]].prev = h[q[i]].prev
                        /\ g[q[i]].next = IF i = e THEN n ELSE h[q[i]].next
  OBVIOUS
<1>6. g[n].prev = IF e = 0 THEN NULL ELSE q[e]
  OBVIOUS
<1> HIDE DEF e
<1>7. \A i, j \in 1 .. e + 1 : r[i] = r[j] => i = j
  BY <1>1, <1>2, <1>3, <1>4
<1>8. ASSUME NEW m \in Nodes PROVE g[m] # NULL <=> \E i \in 1 .. e + 1 : m = r[i]
  <2>1. CASE m = n
    <3>1. e + 1 \in 1 .. e + 1
      BY <1>1
    <3> QED
      BY <2>1, <3>1, <1>2
  <2>2. CASE m # n /\ h[m] = NULL
    <3>1. g[m] = NULL
      BY <2>2
    <3>2. ASSUME NEW i \in 1 .. e + 1, m = r[i] PROVE FALSE
      BY <3>2, <2>2, <1>1, <1>2, <1>3
    <3> QED
      BY <3>1, <3>2
  <2>3. CASE h[m] # NULL
    <3>1. PICK i \in 1 .. e : m = q[i]
      BY <2>3, <1>3
    <3>2. i \in 1 .. e + 1 /\ r[i] = m
      BY <3>1, <1>1, <1>2
    <3> QED
      BY <3>1, <3>2, <1>5
  <2> QED
    BY <2>1, <2>2, <2>3
<1>9. (IF e = 0 THEN n ELSE f) = r[1]
  BY <1>1, <1>2, <1>3
<1>10. ASSUME NEW i \in 1 .. e + 1
       PROVE  /\ g[r[i]].prev = IF i = 1 THEN NULL ELSE r[i - 1]
              /\ g[r[i]].next = IF i = e + 1 THEN NULL ELSE r[i + 1]
  <2>1. CASE i = e + 1
    BY <2>1, <1>1, <1>2, <1>6
  <2>2. CASE i # e + 1
    <3>1. i \in 1 .. e /\ r[i] = q[i]
      BY <2>2, <1>1, <1>2
    <3>2. i # 1 => i - 1 \in 1 .. e /\ r[i - 1] = q[i - 1]
      BY <3>1, <1>1, <1>2
    <3>3. i # e => i + 1 \in 1 .. e /\ r[i + 1] = q[i + 1]
      BY <3>1, <1>1, <1>2
    <3>4. i = e => r[i + 1] = n
      BY <1>2
    <3> QED
      BY <2>2, <3>1, <3>2, <3>3, <3>4, <1>3, <1>5
  <2> QED
    BY <2>1, <2>2
<1>11. Len(r) # 0
  BY <1>1, <1>2
<1> HIDE DEF Linked
<1>12. (IF e = 0 THEN n ELSE f) = IF Len(r) = 0 THEN NULL ELSE r[1]
  BY <1>9, <1>11
<1>13. \A i \in 1 .. Len(r) : /\ g[r[i]].prev = IF i = 1 THEN NULL ELSE r[i - 1]
                              /\ g[r[i]].next = IF i = Len(r) THEN NULL ELSE r[i + 1]
  BY <1>2, <1>10
<1>14. Linked(g, IF e = 0 THEN n ELSE f, r)
  BY <1>2, <1>7, <1>8, <1>12, <1>13 DEF Linked
<1> QED
  BY <1>14 DEF e, r

\* n becomes the first node.
LEMMA Prepended ==
  ASSUME NEW h, NEW f, NEW q, Linked(h, f, q), NEW n \in Nodes, h[n] = NULL,
         NEW g, g[n] # NULL, g[n].prev = NULL, g[n].next = f,
         \A i \in 1 .. Len(q) : /\ g[q[i]] # NULL /\ g[q[i]].next = h[q[i]].next
                                /\ g[q[i]].prev = IF i = 1 THEN n ELSE h[q[i]].prev,
         \A m \in Nodes : m # n /\ h[m] = NULL => g[m] = NULL,
         NEW r \in Seq(Nodes), Len(r) = Len(q) + 1, r[1] = n,
         \A i \in 1 .. Len(q) : r[i + 1] = q[i]
  PROVE  Linked(g, n, r)
<1> DEFINE e == Len(q)
<1>1. q \in Seq(Nodes) /\ e \in Nat /\ Len(r) = e + 1
  BY DEF Linked
<1>2. /\ \A i, j \in 1 .. e : q[i] = q[j] => i = j
      /\ \A m \in Nodes : h[m] # NULL <=> \E i \in 1 .. e : m = q[i]
      /\ f = IF e = 0 THEN NULL ELSE q[1]
      /\ \A i \in 1 .. e : /\ h[q[i]].prev = IF i = 1 THEN NULL ELSE q[i - 1]
                           /\ h[q[i]].next = IF i = e THEN NULL ELSE q[i + 1]
  BY DEF Linked
<1>3. \A i \in 1 .. e : q[i] \in Nodes /\ q[i] # n
  BY <1>1, <1>2
<1>4. \A i \in 1 .. e : /\ g[q[i]] # NULL /\ g[q[i]].next = h[q[i]].next
                        /\ g[q[i]].prev = IF i = 1 THEN n ELSE h[q[i]].prev
  OBVIOUS
<1>5. \A i \in 1 .. e : r[i + 1] = q[i]
  OBVIOUS
<1> HIDE DEF e
<1>6. \A i \in 1 .. e + 1 : i # 1 => i - 1 \in 1 .. e /\ r[i] = q[i - 1]
  <2> SUFFICES ASSUME NEW i \in 1 .. e + 1, i # 1 PROVE i - 1 \in 1 .. e /\ r[i] = q[i - 1]
    OBVIOUS
  <2>1. i - 1 \in 1 .. e /\ (i - 1) + 1 = i
    BY <1>1
  <2> QED
    BY <2>1, <1>5
<1>7. \A i, j \in 1 .. e + 1 : r[i] = r[j] => i = j
  <2> SUFFICES ASSUME NEW i \in 1 .. e + 1, NEW j \in 1 .. e + 1, r[i] = r[j] PROVE i = j
    OBVIOUS
  <2>1. CASE i = 1 \/ j = 1
    BY <2>1, <1>3, <1>6
  <2>2. CASE i # 1 /\ j # 1
    <3>1. i - 1 = j - 1
      BY <2>2, <1>2, <1>6
    <3> QED
      BY <3>1, <1>1
  <2> QED
    BY <2>1, <2>2
<1>8. ASSUME NEW m \in Nodes PROVE g[m] # NULL <=> \E i \in 1 .. e + 1 : m = r[i]
  <2>1. CASE m = n
    <3>1. 1 \in 1 .. e + 1
      BY <1>1
    <3> QED
      BY <2>1, <3>1
  <2>2. CASE m # n /\ h[m] = NULL
    <3>1. g[m] = NULL
      BY <2>2
    <3>2. ASSUME NEW i \in 1 .. e + 1, m = r[i] PROVE FALSE
      BY <3>2, <2>2, <1>2, <1>6
    <3> QED
      BY <3>1, <3>2
  <2>3. CASE h[m] # NULL
    <3>1. PICK i \in 1 .. e : m = q[i]
      BY <2>3, <1>2
    <3>2. i + 1 \in 1 .. e + 1 /\ r[i + 1] = m
      BY <3>1, <1>1, <1>5
    <3> QED
      BY <3>1, <3>2, <1>4
  <2> QED
    BY <2>1, <2>2, <2>3
<1>10. ASSUME NEW i \in 1 .. e + 1
       PROVE  /\ g[r[i]].prev = IF i = 1 THEN NULL ELSE r[i - 1]
              /\ g[r[i]].next = IF i = e + 1 THEN NULL ELSE r[i + 1]
  <2>1. CASE i = 1
    <3>1. e # 0 => 1 \in 1 .. e /\ r[1 + 1] = q[1]
      BY <1>1, <1>5
    <3>2. f = IF 1 = e + 1 THEN NULL ELSE r[1 + 1]
      BY <3>1, <1>1, <1>2
    <3> QED
      BY <2>1, <3>2
  <2>2. CASE i # 1
    <3> DEFINE k == i - 1
    <3>1. k \in 1 .. e /\ r[i] = q[k] /\ i = k + 1
      BY <2>2, <1>6
    <3>2. k # 1 => r[k] = q[k - 1]
      BY <3>1, <1>1, <1>6
    <3>3. k # e => k + 1 \in 1 .. e /\ r[i + 1] = q[k + 1]
      BY <3>1, <1>1, <1>5
    <3>4. g[q[k]].prev = r[k] /\ r[k] = r[i - 1]
      <4>1. g[q[k]].prev = IF k = 1 THEN n ELSE h[q[k]].prev
        BY <3>1, <1>4
      <4>2. h[q[k]].prev = IF k = 1 THEN NULL ELSE q[k - 1]
        BY <3>1, <1>2
      <4>3. k = i - 1
        OBVIOUS
      <4>4. r[1] = n
        OBVIOUS
      <4> HIDE DEF k
      <4> QED
        BY <3>2, <4>1, <4>2, <4>3, <4>4
    <3>5. g[q[k]].next = IF k = e THEN NULL ELSE r[i + 1]
      <4>1. g[q[k]].next = h[q[k]].next
        BY <3>1, <1>4
      <4>2. h[q[k]].next = IF k = e THEN NULL ELSE q[k + 1]
        BY <3>1, <1>2
      <4> HIDE DEF k
      <4> QED
        BY <3>3, <4>1, <4>2
    <3>6. k = e <=> i = e + 1
      BY <3>1, <1>1
    <3> HIDE DEF k
    <3> QED
      BY <2>2, <3>1, <3>4, <3>5, <3>6
  <2> QED
    BY <2>1, <2>2
<1>11. n = IF Len(r) = 0 THEN NULL ELSE r[1]
  BY <1>1
<1>12. \A i \in 1 .. Len(r) : /\ g[r[i]].prev = IF i = 1 THEN NULL ELSE r[i - 1]
                              /\ g[r[i]].next = IF i = Len(r) THEN NULL ELSE r[i + 1]
  BY <1>1, <1>10
<1> QED
  <2>1. \A i, j \in 1 .. Len(r) : r[i] = r[j] => i = j
    BY <1>1, <1>7
  <2>2. \A m \in Nodes : g[m] # NULL <=> \E i \in 1 .. Len(r) : m = r[i]
    BY <1>1, <1>8
  <2> QED
    BY ONLY <2>1, <2>2, <1>11, <1>12, r \in Seq(Nodes) DEF Linked

\* The k-th node is freed, and the links of its neighbours close the gap.
LEMMA Dropped ==
  ASSUME NEW h, NEW f, NEW q, Linked(h, f, q), NEW k \in 1 .. Len(q), NEW g, g[q[k]] = NULL,
         \A i \in 1 .. Len(q) : i # k =>
            /\ g[q[i]] # NULL
            /\ g[q[i]].prev = IF i = k + 1 THEN h[q[k]].prev ELSE h[q[i]].prev
            /\ g[q[i]].next = IF i = k - 1 THEN h[q[k]].next ELSE h[q[i]].next,
         \A m \in Nodes : h[m] = NULL => g[m] = NULL,
         NEW r \in Seq(Nodes), Len(r) = Len(q) - 1,
         \A i \in 1 .. Len(q) - 1 : r[i] = IF i < k THEN q[i] ELSE q[i + 1]
  PROVE  Linked(g, IF k = 1 THEN h[f].next ELSE f, r)
<1> DEFINE e == Len(q)
           To(i) == IF i < k THEN i ELSE i + 1
<1>1. q \in Seq(Nodes) /\ e \in Nat /\ k \in 1 .. e /\ Len(r) = e - 1
  BY DEF Linked
<1>2. \A i \in 1 .. e : q[i] \in Nodes
  BY <1>1 DEF Linked
<1>3. \A i \in 1 .. e - 1 : To(i) \in 1 .. e /\ To(i) # k /\ r[i] = q[To(i)]
  BY <1>1
<1>f. f = q[1]
  BY <1>1 DEF Linked
<1> HIDE DEF e
<1>4. \A i, j \in 1 .. e - 1 : r[i] = r[j] => i = j
  <2>1. \A i, j \in 1 .. e : q[i] = q[j] => i = j
    BY DEF Linked, e
  <2>2. \A i, j \in 1 .. e - 1 : To(i) = To(j) => i = j
    BY <1>1
  <2> HIDE DEF To
  <2> QED
    BY <2>1, <2>2, <1>3
<1>g. \A i \in 1 .. e : i # k =>
        /\ g[q[i]] # NULL
        /\ g[q[i]].prev = IF i = k + 1 THEN h[q[k]].prev ELSE h[q[i]].prev
        /\ g[q[i]].next = IF i = k - 1 THEN h[q[k]].next ELSE h[q[i]].next
  BY DEF e
<1>h. /\ \A m \in Nodes : h[m] # NULL <=> \E i \in 1 .. e : m = q[i]
      /\ \A i, j \in 1 .. e : q[i] = q[j] => i = j
      /\ \A i \in 1 .. e : /\ h[q[i]].prev = IF i = 1 THEN NULL ELSE q[i - 1]
                           /\ h[q[i]].next = IF i = e THEN NULL ELSE q[i + 1]
  BY DEF Linked, e
<1>5. ASSUME NEW m \in Nodes PROVE g[m] # NULL <=> \E i \in 1 .. e - 1 : m = r[i]
  <2>1. CASE h[m] = NULL
    <3>1. ASSUME NEW i \in 1 .. e - 1, m = r[i] PROVE FALSE
      <4>1. To(i) \in 1 .. e /\ m = q[To(i)]
        BY <3>1, <1>3
      <4> HIDE DEF To
      <4> QED
        BY <4>1, <2>1, <1>h
    <3> QED
      BY <2>1, <3>1
  <2>2. CASE h[m] # NULL
    <3>1. PICK i \in 1 .. e : m = q[i]
      BY <2>2, <1>h
    <3>2. CASE i = k
      <4>1. ASSUME NEW j \in 1 .. e - 1, m = r[j] PROVE FALSE
        <5>1. To(j) \in 1 .. e /\ To(j) # k /\ q[To(j)] = q[k]
          BY <4>1, <3>1, <3>2, <1>3
        <5> HIDE DEF To
        <5> QED
          BY <5>1, <1>1, <1>h
      <4> QED
        BY <4>1, <3>1, <3>2
    <3>3. CASE i < k
      <4>1. i \in 1 .. e - 1 /\ To(i) = i
        BY <3>3, <1>1
      <4>2. m = r[i] /\ g[m] # NULL
        BY <4>1, <3>1, <3>3, <1>1, <1>3, <1>g
      <4> QED
        BY <4>1, <4>2
    <3>4. CASE i > k
      <4>1. i - 1 \in 1 .. e - 1 /\ To(i - 1) = i
        BY <3>4, <1>1
      <4>2. r[i - 1] = q[To(i - 1)]
        BY <4>1, <1>3
      <4>3. m = r[i - 1] /\ g[m] # NULL
        BY <4>1, <4>2, <3>1, <3>4, <1>1, <1>g
      <4> QED
        BY <4>1, <4>3
    <3> QED
      BY <3>2, <3>3, <3>4, <1>1
  <2> QED
    BY <2>1, <2>2
<1>6. ASSUME NEW i \in 1 .. e - 1
      PROVE  /\ g[r[i]].prev = IF i = 1 THEN NULL ELSE r[i - 1]
             /\ g[r[i]].next = IF i = e - 1 THEN NULL ELSE r[i + 1]
  <2> DEFINE t == To(i)
  <2>1. t \in 1 .. e /\ t # k /\ r[i] = q[t]
    BY <1>3
  <2>2. /\ g[q[t]].prev = IF t = k + 1 THEN h[q[k]].prev ELSE h[q[t]].prev
        /\ g[q[t]].next = IF t = k - 1 THEN h[q[k]].next ELSE h[q[t]].next
    <3> HIDE DEF t
    <3> QED
      BY <2>1, <1>g
  <2>3. ASSUME i # 1
        PROVE  i - 1 \in 1 .. e - 1 /\ r[i - 1] = q[IF t = k + 1 THEN k - 1 ELSE t - 1]
    <3>1. i - 1 \in 1 .. e - 1
      BY <2>3, <1>1
    <3>2. To(i - 1) = IF t = k + 1 THEN k - 1 ELSE t - 1
      BY <3>1, <1>1
    <3>3. r[i - 1] = q[To(i - 1)]
      BY <3>1, <1>3
    <3> QED
      BY <3>1, <3>2, <3>3
  <2>4. ASSUME i # e - 1
        PROVE  i + 1 \in 1 .. e - 1 /\ r[i + 1] = q[IF t = k - 1 THEN k + 1 ELSE t + 1]
    <3>1. i + 1 \in 1 .. e - 1
      BY <2>4, <1>1
    <3>2. To(i + 1) = IF t = k - 1 THEN k + 1 ELSE t + 1
      BY <3>1, <1>1
    <3>3. r[i + 1] = q[To(i + 1)]
      BY <3>1, <1>3
    <3> QED
      BY <3>1, <3>2, <3>3
  <2>5. /\ i = 1 <=> (IF t = k + 1 THEN k = 1 ELSE t = 1)
        /\ i = e - 1 <=> (IF t = k - 1 THEN k = e ELSE t = e)
    BY <1>1
  <2> HIDE DEF t
  <2>6. g[q[t]].prev = IF i = 1 THEN NULL ELSE r[i - 1]
    BY <2>1, <2>2, <2>3, <2>5, <1>1, <1>h
  <2>7. g[q[t]].next = IF i = e - 1 THEN NULL ELSE r[i + 1]
    BY <2>1, <2>2, <2>4, <2>5, <1>1, <1>h
  <2> QED
    BY <2>1, <2>6, <2>7
<1>8. (IF k = 1 THEN h[f].next ELSE f) = IF e - 1 = 0 THEN NULL ELSE r[1]
  <2>1. h[q[1]].next = IF 1 = e THEN NULL ELSE q[1 + 1]
    BY <1>1 DEF Linked, e
  <2>2. e # 1 => 1 \in 1 .. e - 1 /\ r[1] = q[To(1)]
    BY <1>1, <1>3
  <2> QED
    BY <2>1, <2>2, <1>1, <1>f
<1>9. \A i \in 1 .. Len(r) : /\ g[r[i]].prev = IF i = 1 THEN NULL ELSE r[i - 1]
                             /\ g[r[i]].next = IF i = Len(r) THEN NULL ELSE r[i + 1]
  BY <1>1, <1>6
<1> QED
  BY <1>1, <1>4, <1>5, <1>8, <1>9 DEF Linked

\* The list is not broken and has the nodes of q.
Good(q) == Typed(heap) /\ ~crashed /\ Linked(heap, first, q)

\* The calls that break it: a value is removed that the last node has, or the
\* only one, and a second node finds no memory.
Breaks == (\E v \in Elems : Dl!AtEnd(v) /\ Dl!Remove(v)) \/ (first # NULL /\ Dl!NoMemory)

\* A step of the list its caller sees.
ListStepOf ==
  \/ \E v \in Elems : Dl!List!Push(v) \/ Dl!List!Shift(v) \/ Dl!Without(v)
  \/ Dl!List!Pop \/ Dl!List!Unshift \/ Dl!List!Clear
  \/ /\ UNCHANGED Dl!TheList
     /\ answer' \in {NULL, Len(Dl!TheList)} \cup
          {Dl!Bool(\E k \in DOMAIN Dl!TheList : Dl!TheList[k] = v) : v \in Elems}

\* What a call may return.
Answers == Elems \cup {NULL} \cup 0 .. Cardinality(Nodes)

\* What a call on a good list does.
Outcome ==
  \/ Breaks /\ Dl!Crash
  \/ /\ Breaks /\ Typed(heap') /\ Dl!Dangling' /\ UNCHANGED crashed
     /\ first' \in Nodes /\ answer' \in Answers
  \/ /\ \E r : Typed(heap') /\ ~crashed' /\ Linked(heap', first', r)
     /\ UNCHANGED crashed /\ ListStepOf /\ answer' \in Answers

\* What is known of a list that is not broken.
LEMMA GoodFacts ==
  ASSUME NEW q, Good(q)
  PROVE  /\ q \in Seq(Nodes) /\ Len(q) \in Nat /\ Len(q) <= Cardinality(Nodes)
         /\ ~Dl!Dangling /\ Dl!Chain = q /\ Dl!Last = q[Len(q)]
         /\ (first = NULL <=> Len(q) = 0)
         /\ first = IF Len(q) = 0 THEN NULL ELSE q[1]
         /\ \A i \in 1 .. Len(q) : q[i] \in Nodes /\ heap[q[i]] # NULL /\ heap[q[i]] \in Records
         /\ NULL \notin Nodes /\ NULL \notin Records
         /\ \A m \in Nodes : m \in Dl!Allocated <=> heap[m] # NULL
<1>1. q \in Seq(Nodes) /\ Len(q) \in Nat /\ Len(q) <= Cardinality(Nodes)
  BY AtMost DEF Good, Linked
<1>2. Dl!Chain = q /\ Dl!Last = q[Len(q)]
  BY ChainIs DEF Good, Dl!Last
<1>3. \A i \in 1 .. Len(q) : q[i] \in Nodes /\ heap[q[i]] # NULL /\ heap[q[i]] \in Records
  BY LinkedNodes DEF Good
<1>4. NULL \notin Nodes /\ NULL \notin Records
  BY AddressesAre DEF Records
<1>5. first = IF Len(q) = 0 THEN NULL ELSE q[1]
  BY DEF Good, Linked
<1>6. \A m \in Nodes : m \in Dl!Allocated <=> heap[m] # NULL
  BY DEF Dl!Allocated
<1>7. Len(q) # 0 => q[1] \in Dl!Allocated /\ q[1] # NULL
  BY <1>1, <1>3, <1>4, <1>6
<1> QED
  BY <1>1, <1>2, <1>3, <1>4, <1>5, <1>6, <1>7 DEF Dl!Dangling

\* The list after a step, by the values of its nodes.
LEMMA ListAfter ==
  ASSUME NEW r, Typed(heap'), Linked(heap', first', r),
         NEW s \in Seq(Elems), Len(s) = Len(r),
         \A k \in 1 .. Len(r) : s[k] = heap'[r[k]].value
  PROVE  Dl!TheList' = s
<1>1. /\ Dl!TheList' \in Seq(Elems) /\ Len(Dl!TheList') = Len(r)
      /\ \A k \in 1 .. Len(r) : Dl!TheList'[k] = heap'[r[k]].value
  BY ListIsNext
<1> QED
  BY <1>1, SeqEqual

\* malloc() finds no memory: nothing is added, or the call crashes.
LEMMA NoMemoryOutcome ==
  ASSUME NEW q, Good(q), Dl!NoMemory
  PROVE  Outcome
<1>1. CASE first # NULL
  BY <1>1 DEF Outcome, Breaks, Dl!NoMemory
<1>2. CASE first = NULL
  <2>1. answer' = NULL /\ UNCHANGED <<heap, first, crashed>>
    BY <1>2 DEF Dl!NoMemory
  <2>2. Typed(heap') /\ ~crashed' /\ Linked(heap', first', q)
    BY <2>1 DEF Good
  <2>3. Dl!TheList' = Dl!TheList
    <3>1. /\ Dl!TheList \in Seq(Elems) /\ Len(Dl!TheList) = Len(q)
          /\ \A k \in 1 .. Len(q) : Dl!TheList[k] = heap[q[k]].value
      BY ListIs DEF Good
    <3> QED
      BY <2>1, <2>2, <3>1, ListAfter
  <2>4. ListStepOf
    BY <2>1, <2>3 DEF ListStepOf
  <2> QED
    BY <2>1, <2>2, <2>4 DEF Outcome, Answers
<1> QED
  BY <1>1, <1>2

\* Concatenation with one element.
LEMMA InFront ==
  ASSUME NEW S, NEW x \in S, NEW s \in Seq(S)
  PROVE  /\ <<x>> \o s \in Seq(S) /\ Len(<<x>> \o s) = Len(s) + 1 /\ (<<x>> \o s)[1] = x
         /\ \A i \in 1 .. Len(s) : (<<x>> \o s)[i + 1] = s[i]
<1>1. <<x>> \in Seq(S) /\ Len(<<x>>) = 1 /\ <<x>>[1] = x
  OBVIOUS
<1>2. /\ <<x>> \o s \in Seq(S) /\ Len(<<x>> \o s) = 1 + Len(s)
      /\ \A i \in 1 .. Len(s) + 1 : (<<x>> \o s)[i] = IF i <= 1 THEN x ELSE s[i - 1]
  BY <1>1, ConcatProperties
<1> HIDE DEF Records
<1> QED
  BY <1>2

\* Each call does what Outcome says.
LEMMA PushOutcome ==
  ASSUME NEW q, Good(q), NEW v \in Elems, Dl!Push(v)
  PROVE  Outcome
<1> DEFINE e == Len(q)
<1>q. /\ q \in Seq(Nodes) /\ e \in Nat /\ e <= Cardinality(Nodes)
      /\ ~Dl!Dangling /\ Dl!Chain = q /\ Dl!Last = q[e]
      /\ (first = NULL <=> e = 0)
      /\ first = IF e = 0 THEN NULL ELSE q[1]
      /\ \A i \in 1 .. e : q[i] \in Nodes /\ heap[q[i]] # NULL /\ heap[q[i]] \in Records
      /\ NULL \notin Nodes /\ NULL \notin Records
      /\ \A m \in Nodes : m \in Dl!Allocated <=> heap[m] # NULL
  BY GoodFacts
<1>t. /\ Dl!TheList \in Seq(Elems) /\ Len(Dl!TheList) = e
      /\ \A k \in 1 .. e : Dl!TheList[k] = heap[q[k]].value
  BY ListIs DEF Good
<1>h. Typed(heap) /\ ~crashed /\ Linked(heap, first, q) /\ heap \in [Nodes -> Records \cup {NULL}]
  BY DEF Good, Typed
<1>1. CASE Dl!NoMemory
  BY <1>1, NoMemoryOutcome
<1>2. CASE ~Dl!NoMemory
  <2>1. PICK n \in Nodes \ Dl!Allocated :
          /\ IF first = NULL
             THEN heap' = [heap EXCEPT ![n] = Dl!Node(v, NULL, NULL)] /\ first' = n
             ELSE /\ heap' = [heap EXCEPT ![n] = Dl!Node(v, Dl!Last, NULL), ![Dl!Last].next = n]
                  /\ UNCHANGED first
          /\ answer' = NULL /\ UNCHANGED crashed
    BY <1>2, <1>q DEF Dl!Push
  <2>2. n \in Nodes /\ heap[n] = NULL /\ \A i \in 1 .. e : q[i] # n
    BY <1>q
  <2> DEFINE p == IF e = 0 THEN NULL ELSE q[e]
             node == [value |-> v, prev |-> p, next |-> NULL]
  <2>3. node \in Records /\ node # NULL /\ node.value = v /\ node.prev = p /\ node.next = NULL
    BY <1>q DEF Records
  <2>4. /\ Typed(heap') /\ heap'[n] = node
        /\ \A i \in 1 .. e : /\ heap'[q[i]] # NULL /\ heap'[q[i]].value = heap[q[i]].value
                             /\ heap'[q[i]].prev = heap[q[i]].prev
                             /\ heap'[q[i]].next = IF i = e THEN n ELSE heap[q[i]].next
        /\ \A m \in Nodes : m # n /\ heap[m] = NULL => heap'[m] = NULL
    <3>1. CASE e = 0
      <4>1. heap' = [heap EXCEPT ![n] = node]
        BY <3>1, <2>1, <1>q DEF Dl!Node
      <4> HIDE DEF node
      <4> QED
        BY <3>1, <4>1, <2>2, <2>3, <1>h DEF Typed
    <3>2. CASE e # 0
      <4> DEFINE l == q[e]
                 last == [heap[l] EXCEPT !.next = n]
      <4>0. l \in Nodes /\ l # n /\ heap[l] \in Records /\ heap[l] # NULL
        BY <3>2, <2>2, <1>q
      <4>1. heap' = [heap EXCEPT ![n] = node, ![l] = last]
        BY <3>2, <2>1, <2>2, <4>0, <1>q, <1>h DEF Dl!Node
      <4>2. last \in Records /\ last.value = heap[l].value /\ last.prev = heap[l].prev /\ last.next = n
        BY <4>0, <2>2 DEF Records
      <4>3. \A i \in 1 .. e : q[i] = l <=> i = e
        BY <3>2, <1>h, <1>q DEF Linked
      <4> HIDE DEF node, last, l
      <4>4. heap'[n] = node /\ heap'[l] = last /\ \A m \in Nodes : m # n /\ m # l => heap'[m] = heap[m]
        BY <4>0, <4>1, <2>2, <1>h
      <4>5. Typed(heap')
        BY <4>0, <4>1, <4>2, <2>2, <2>3, <1>h DEF Typed
      <4>6. ASSUME NEW i \in 1 .. e
            PROVE /\ heap'[q[i]] # NULL /\ heap'[q[i]].value = heap[q[i]].value
                  /\ heap'[q[i]].prev = heap[q[i]].prev
                  /\ heap'[q[i]].next = IF i = e THEN n ELSE heap[q[i]].next
        <5>1. CASE i = e
          BY <5>1, <4>2, <4>3, <4>4, <1>q
        <5>2. CASE i # e
          BY <5>2, <4>3, <4>4, <2>2, <1>q
        <5> QED
          BY <5>1, <5>2
      <4> QED
        BY <4>0, <4>4, <4>5, <4>6
    <3> QED
      BY <3>1, <3>2
  <2> DEFINE r == Append(q, n)
             f == IF e = 0 THEN n ELSE first
  <2>5. first' = f
    BY <2>1, <1>q
  <2>6. Linked(heap', f, r)
    <3> DEFINE g == heap'
    <3>1. g[n] # NULL /\ g[n].next = NULL /\ g[n].prev = IF e = 0 THEN NULL ELSE q[e]
      BY <2>3, <2>4
    <3>2. /\ \A i \in 1 .. e : /\ g[q[i]] # NULL /\ g[q[i]].prev = heap[q[i]].prev
                               /\ g[q[i]].next = IF i = e THEN n ELSE heap[q[i]].next
          /\ \A m \in Nodes : m # n /\ heap[m] = NULL => g[m] = NULL
      BY <2>4
    <3>3. n \in Nodes /\ heap[n] = NULL
      BY <2>2
    <3> HIDE DEF g, node, p
    <3> QED
      BY <3>1, <3>2, <3>3, <1>h, Appended DEF g
  <2>7. Linked(heap', first', r)
    BY <2>5, <2>6
  <2> HIDE DEF node, f
  <2>8. r \in Seq(Nodes) /\ Len(r) = e + 1 /\ r[e + 1] = n /\ \A i \in 1 .. e : r[i] = q[i]
    BY <2>2, <1>q
  <2> DEFINE s == Append(Dl!TheList, v)
  <2>9. s \in Seq(Elems) /\ Len(s) = e + 1 /\ s[e + 1] = v /\ \A i \in 1 .. e : s[i] = Dl!TheList[i]
    BY <1>t, <1>q
  <2> HIDE DEF r, s
  <2>10. \A k \in 1 .. Len(r) : s[k] = heap'[r[k]].value
    BY <2>3, <2>4, <2>8, <2>9, <1>t, <1>q
  <2>11. Dl!TheList' = s
    BY <2>4, <2>7, <2>8, <2>9, <2>10, ListAfter
  <2>12. ListStepOf
    BY <2>1, <2>11 DEF ListStepOf, Dl!List!Push, s
  <2> QED
    BY <2>1, <2>4, <2>7, <2>12, <1>h DEF Outcome, Answers
<1> QED
  BY <1>1, <1>2

LEMMA ShiftOutcome ==
  ASSUME NEW q, Good(q), NEW v \in Elems, Dl!Shift(v)
  PROVE  Outcome
<1> DEFINE e == Len(q)
<1>q. /\ q \in Seq(Nodes) /\ e \in Nat /\ e <= Cardinality(Nodes)
      /\ ~Dl!Dangling /\ Dl!Chain = q /\ Dl!Last = q[e]
      /\ (first = NULL <=> e = 0)
      /\ first = IF e = 0 THEN NULL ELSE q[1]
      /\ \A i \in 1 .. e : q[i] \in Nodes /\ heap[q[i]] # NULL /\ heap[q[i]] \in Records
      /\ NULL \notin Nodes /\ NULL \notin Records
      /\ \A m \in Nodes : m \in Dl!Allocated <=> heap[m] # NULL
  BY GoodFacts
<1>t. /\ Dl!TheList \in Seq(Elems) /\ Len(Dl!TheList) = e
      /\ \A k \in 1 .. e : Dl!TheList[k] = heap[q[k]].value
  BY ListIs DEF Good
<1>h. Typed(heap) /\ ~crashed /\ Linked(heap, first, q) /\ heap \in [Nodes -> Records \cup {NULL}]
  BY DEF Good, Typed
<1>1. CASE Dl!NoMemory
  BY <1>1, NoMemoryOutcome
<1>2. CASE ~Dl!NoMemory
  <2>1. PICK n \in Nodes \ Dl!Allocated :
          /\ heap' = IF first = NULL THEN [heap EXCEPT ![n] = Dl!Node(v, NULL, NULL)]
                     ELSE [heap EXCEPT ![n] = Dl!Node(v, NULL, first), ![first].prev = n]
          /\ first' = n
          /\ answer' = NULL /\ UNCHANGED crashed
    BY <1>2, <1>q DEF Dl!Shift
  <2>2. n \in Nodes /\ heap[n] = NULL /\ \A i \in 1 .. e : q[i] # n
    BY <1>q
  <2> DEFINE node == [value |-> v, prev |-> NULL, next |-> first]
  <2>3. /\ node \in Records /\ node # NULL
        /\ node.value = v /\ node.prev = NULL /\ node.next = first
    <3>1. first \in Nodes \cup {NULL}
      BY <1>q
    <3> QED
      BY <3>1, <1>q DEF Records
  <2>4. /\ Typed(heap') /\ heap'[n] = node
        /\ \A i \in 1 .. e : /\ heap'[q[i]] # NULL /\ heap'[q[i]].value = heap[q[i]].value
                             /\ heap'[q[i]].next = heap[q[i]].next
                             /\ heap'[q[i]].prev = IF i = 1 THEN n ELSE heap[q[i]].prev
        /\ \A m \in Nodes : m # n /\ heap[m] = NULL => heap'[m] = NULL
    <3>1. CASE e = 0
      <4>1. heap' = [heap EXCEPT ![n] = node]
        BY <3>1, <2>1, <1>q DEF Dl!Node
      <4> HIDE DEF node
      <4> QED
        BY <3>1, <4>1, <2>2, <2>3, <1>h DEF Typed
    <3>2. CASE e # 0
      <4> DEFINE l == q[1]
                 second == [heap[l] EXCEPT !.prev = n]
      <4>0. l \in Nodes /\ l # n /\ heap[l] \in Records /\ heap[l] # NULL /\ first = l
        BY <3>2, <2>2, <1>q
      <4>1. heap' = [heap EXCEPT ![n] = node, ![l] = second]
        BY <3>2, <2>1, <2>2, <4>0, <1>q, <1>h DEF Dl!Node
      <4>2. /\ second \in Records /\ second.value = heap[l].value
            /\ second.next = heap[l].next /\ second.prev = n
        BY <4>0, <2>2 DEF Records
      <4>3. \A i \in 1 .. e : q[i] = l <=> i = 1
        BY <3>2, <1>h, <1>q DEF Linked
      <4> HIDE DEF node, second, l
      <4>4. heap'[n] = node /\ heap'[l] = second /\ \A m \in Nodes : m # n /\ m # l => heap'[m] = heap[m]
        BY <4>0, <4>1, <2>2, <1>h
      <4>5. Typed(heap')
        BY <4>0, <4>1, <4>2, <2>2, <2>3, <1>h DEF Typed
      <4>6. ASSUME NEW i \in 1 .. e
            PROVE /\ heap'[q[i]] # NULL /\ heap'[q[i]].value = heap[q[i]].value
                  /\ heap'[q[i]].next = heap[q[i]].next
                  /\ heap'[q[i]].prev = IF i = 1 THEN n ELSE heap[q[i]].prev
        <5>1. CASE i = 1
          BY <5>1, <4>2, <4>3, <4>4, <1>q
        <5>2. CASE i # 1
          BY <5>2, <4>3, <4>4, <2>2, <1>q
        <5> QED
          BY <5>1, <5>2
      <4> QED
        BY <4>0, <4>4, <4>5, <4>6
    <3> QED
      BY <3>1, <3>2
  <2> DEFINE r == <<n>> \o q
  <2>5. r \in Seq(Nodes) /\ Len(r) = e + 1 /\ r[1] = n /\ \A i \in 1 .. e : r[i + 1] = q[i]
    BY <2>2, <1>q, InFront
  <2> HIDE DEF r
  <2>6. Linked(heap', n, r)
    <3> DEFINE g == heap'
    <3>1. g[n] # NULL /\ g[n].prev = NULL /\ g[n].next = first
      BY <2>3, <2>4
    <3>2. /\ \A i \in 1 .. e : /\ g[q[i]] # NULL /\ g[q[i]].next = heap[q[i]].next
                               /\ g[q[i]].prev = IF i = 1 THEN n ELSE heap[q[i]].prev
          /\ \A m \in Nodes : m # n /\ heap[m] = NULL => g[m] = NULL
      BY <2>4
    <3>3. n \in Nodes /\ heap[n] = NULL
      BY <2>2
    <3> HIDE DEF g, node
    <3> QED
      BY <3>1, <3>2, <3>3, <2>5, <1>h, Prepended DEF g
  <2>7. Linked(heap', first', r)
    BY <2>1, <2>6
  <2> HIDE DEF node
  <2> DEFINE s == <<v>> \o Dl!TheList
  <2>9. s \in Seq(Elems) /\ Len(s) = e + 1 /\ s[1] = v /\ \A i \in 1 .. e : s[i + 1] = Dl!TheList[i]
    BY <1>t, <1>q, InFront
  <2> HIDE DEF s
  <2>10. \A k \in 1 .. Len(r) : s[k] = heap'[r[k]].value
    <3>1. \A k \in 1 .. e : s[k + 1] = heap'[r[k + 1]].value
      BY <2>4, <2>5, <2>9, <1>t
    <3>2. s[1] = heap'[r[1]].value
      BY <2>3, <2>4, <2>5, <2>9
    <3>3. \A k \in 1 .. e + 1 : k = 1 \/ (k - 1 \in 1 .. e /\ (k - 1) + 1 = k)
      BY <1>q
    <3> QED
      BY <3>1, <3>2, <3>3, <2>5
  <2>11. Dl!TheList' = s
    BY <2>4, <2>5, <2>7, <2>9, <2>10, ListAfter
  <2>12. ListStepOf
    BY <2>1, <2>11 DEF ListStepOf, Dl!List!Shift, s
  <2> QED
    BY <2>1, <2>4, <2>7, <2>12, <1>h DEF Outcome, Answers
<1> QED
  BY <1>1, <1>2

-------------------------------------------------------------------------------
\* A sequence without its k-th element.
Minus(s, k) == [i \in 1 .. Len(s) - 1 |-> IF i < k THEN s[i] ELSE s[i + 1]]

\* Minus is a sequence, one shorter.
LEMMA MinusIs ==
  ASSUME NEW S, NEW s \in Seq(S), NEW k \in 1 .. Len(s)
  PROVE  /\ Minus(s, k) \in Seq(S) /\ Len(Minus(s, k)) = Len(s) - 1
         /\ \A i \in 1 .. Len(s) - 1 : Minus(s, k)[i] = IF i < k THEN s[i] ELSE s[i + 1]
BY DEF Minus

\* g is h without the k-th node of q, whose neighbours are linked.
Closed(h, q, k, g) ==
  /\ Typed(g) /\ g[q[k]] = NULL
  /\ \A i \in 1 .. Len(q) : i # k =>
       /\ g[q[i]] # NULL /\ g[q[i]].value = h[q[i]].value
       /\ g[q[i]].prev = IF i = k + 1 THEN h[q[k]].prev ELSE h[q[i]].prev
       /\ g[q[i]].next = IF i = k - 1 THEN h[q[k]].next ELSE h[q[i]].next
  /\ \A m \in Nodes : h[m] = NULL => g[m] = NULL

\* The list is then the one without its k-th element.
LEMMA ClosedList ==
  ASSUME NEW q, Good(q), NEW k \in 1 .. Len(q), Closed(heap, q, k, heap'),
         first' = IF k = 1 THEN heap[first].next ELSE first
  PROVE  /\ Typed(heap') /\ Linked(heap', first', Minus(q, k))
         /\ Dl!TheList' = Minus(Dl!TheList, k)
<1> DEFINE e == Len(q)
           r == Minus(q, k)
           s == Minus(Dl!TheList, k)
           g == heap'
           f == IF k = 1 THEN heap[first].next ELSE first
<1>1. q \in Seq(Nodes) /\ e \in Nat /\ k \in 1 .. e
  BY GoodFacts
<1>2. /\ Dl!TheList \in Seq(Elems) /\ Len(Dl!TheList) = e
      /\ \A i \in 1 .. e : Dl!TheList[i] = heap[q[i]].value
  BY ListIs DEF Good
<1>3. /\ r \in Seq(Nodes) /\ Len(r) = e - 1
      /\ \A i \in 1 .. e - 1 : r[i] = IF i < k THEN q[i] ELSE q[i + 1]
  BY <1>1, MinusIs
<1>4. /\ s \in Seq(Elems) /\ Len(s) = e - 1
      /\ \A i \in 1 .. e - 1 : s[i] = IF i < k THEN Dl!TheList[i] ELSE Dl!TheList[i + 1]
  BY <1>1, <1>2, MinusIs
<1> HIDE DEF r, s, g, f
<1>5. Linked(g, f, r)
  <2>1. Linked(heap, first, q)
    BY DEF Good
  <2>2. /\ g[q[k]] = NULL
        /\ \A i \in 1 .. Len(q) : i # k =>
              /\ g[q[i]] # NULL
              /\ g[q[i]].prev = IF i = k + 1 THEN heap[q[k]].prev ELSE heap[q[i]].prev
              /\ g[q[i]].next = IF i = k - 1 THEN heap[q[k]].next ELSE heap[q[i]].next
        /\ \A m \in Nodes : heap[m] = NULL => g[m] = NULL
    BY DEF Closed, g
  <2>3. /\ r \in Seq(Nodes) /\ Len(r) = Len(q) - 1
        /\ \A i \in 1 .. Len(q) - 1 : r[i] = IF i < k THEN q[i] ELSE q[i + 1]
    BY <1>3
  <2>4. Linked(g, IF k = 1 THEN heap[first].next ELSE first, r)
    BY <2>1, <2>2, <2>3, Dropped
  <2> QED
    BY <2>4 DEF f
<1>6. Typed(heap') /\ Linked(heap', first', r)
  BY <1>5 DEF g, f, Closed
<1>7. \A i \in 1 .. Len(r) : s[i] = heap'[r[i]].value
  <2>1. \A i \in 1 .. e : i # k => heap'[q[i]].value = heap[q[i]].value
    BY DEF Closed
  <2> SUFFICES ASSUME NEW i \in 1 .. e - 1 PROVE s[i] = heap'[r[i]].value
    BY <1>3
  <2>2. CASE i < k
    BY <2>1, <2>2, <1>1, <1>2, <1>3, <1>4
  <2>3. CASE ~(i < k)
    <3>1. i + 1 \in 1 .. e /\ i + 1 # k
      BY <2>3, <1>1
    <3> QED
      BY <2>1, <2>3, <3>1, <1>2, <1>3, <1>4
  <2> QED
    BY <2>2, <2>3
<1>8. Dl!TheList' = s
  BY <1>3, <1>4, <1>6, <1>7, ListAfter
<1> QED
  BY <1>6, <1>8 DEF r, s

\* The first node is freed.
LEMMA ClosedFirst ==
  ASSUME NEW q, Good(q), Len(q) # 0,
         heap' = IF heap[first].next = NULL THEN Dl!Free(first) ELSE Dl!NewFirst(heap[first].next)
  PROVE  Closed(heap, q, 1, heap')
<1> DEFINE e == Len(q)
           h == heap
           g == heap'
<1>1. /\ e \in Nat /\ e # 0 /\ first = q[1] /\ NULL \notin Nodes /\ NULL \notin Records
      /\ \A i \in 1 .. e : q[i] \in Nodes /\ h[q[i]] # NULL /\ h[q[i]] \in Records
  BY GoodFacts
<1>2. /\ h \in [Nodes -> Records \cup {NULL}]
      /\ \A i, j \in 1 .. e : q[i] = q[j] => i = j
      /\ \A i \in 1 .. e : /\ h[q[i]].prev = IF i = 1 THEN NULL ELSE q[i - 1]
                           /\ h[q[i]].next = IF i = e THEN NULL ELSE q[i + 1]
  BY DEF Good, Typed, Linked
<1>3. g = IF h[first].next = NULL THEN [h EXCEPT ![first] = NULL]
          ELSE [[h EXCEPT ![first] = NULL] EXCEPT ![h[first].next].prev = NULL]
  BY DEF Dl!Free, Dl!NewFirst
<1> HIDE DEF e, g, h
<1>4. 1 \in 1 .. e
  BY <1>1
<1>5. CASE e = 1
  <2>1. g = [h EXCEPT ![q[1]] = NULL]
    BY <1>1, <1>2, <1>3, <1>4, <1>5
  <2>2. \A i \in 1 .. e : i = 1
    BY <1>5
  <2>3. Typed(g) /\ g[q[1]] = NULL /\ \A m \in Nodes : h[m] = NULL => g[m] = NULL
    BY <2>1, <1>1, <1>2, <1>4 DEF Typed
  <2> QED
    BY <2>2, <2>3 DEF Closed, e, g, h
<1>6. CASE e # 1
  <2> DEFINE l == q[2]
             node == [h[l] EXCEPT !.prev = NULL]
  <2>1. 2 \in 1 .. e /\ l \in Nodes /\ l # q[1] /\ h[l] \in Records /\ h[q[1]].next = l
    BY <1>1, <1>2, <1>4, <1>6
  <2>2. g = [h EXCEPT ![q[1]] = NULL, ![l] = node]
    BY <2>1, <1>1, <1>2, <1>3, <1>4
  <2>3. node \in Records /\ node.value = h[l].value /\ node.prev = NULL /\ node.next = h[l].next
    BY <2>1 DEF Records
  <2>4. \A i \in 1 .. e : (q[i] = l <=> i = 2) /\ (q[i] = q[1] <=> i = 1)
    BY <2>1, <1>2, <1>4
  <2>n. h[q[1]].prev = NULL /\ h[l] # NULL
    BY <1>1, <1>2, <1>4, <2>1
  <2> HIDE DEF l, node
  <2>5. g[q[1]] = NULL /\ g[l] = node /\ \A m \in Nodes : m # q[1] /\ m # l => g[m] = h[m]
    BY <2>1, <2>2, <1>1, <1>2, <1>4
  <2>6. Typed(g)
    BY <2>1, <2>2, <2>3, <1>1, <1>2, <1>4 DEF Typed
  <2>7. ASSUME NEW i \in 1 .. e, i # 1
        PROVE  /\ g[q[i]] # NULL /\ g[q[i]].value = h[q[i]].value
               /\ g[q[i]].prev = IF i = 1 + 1 THEN h[q[1]].prev ELSE h[q[i]].prev
               /\ g[q[i]].next = IF i = 1 - 1 THEN h[q[1]].next ELSE h[q[i]].next
    <3>1. CASE i = 2
      BY <3>1, <2>3, <2>4, <2>5, <2>n, <1>1
    <3>2. CASE i # 2
      BY <3>2, <2>4, <2>5, <2>7, <1>1
    <3> QED
      BY <3>1, <3>2
  <2>8. \A m \in Nodes : h[m] = NULL => g[m] = NULL
    BY <2>5, <2>n
  <2> QED
    BY <2>5, <2>6, <2>7, <2>8 DEF Closed, e, g, h
<1> QED
  BY <1>5, <1>6

\* The last node of several is freed.
LEMMA ClosedLast ==
  ASSUME NEW q, Good(q), Len(q) # 0, Len(q) # 1, heap' = Dl!NewLast
  PROVE  Closed(heap, q, Len(q), heap')
<1> DEFINE e == Len(q)
           h == heap
           g == heap'
           l == q[e - 1]
           node == [h[l] EXCEPT !.next = NULL]
<1>1. /\ e \in Nat /\ e # 0 /\ Dl!Last = q[e] /\ NULL \notin Nodes /\ NULL \notin Records
      /\ \A i \in 1 .. e : q[i] \in Nodes /\ h[q[i]] # NULL /\ h[q[i]] \in Records
  BY GoodFacts
<1>2. /\ h \in [Nodes -> Records \cup {NULL}]
      /\ \A i, j \in 1 .. e : q[i] = q[j] => i = j
      /\ \A i \in 1 .. e : /\ h[q[i]].prev = IF i = 1 THEN NULL ELSE q[i - 1]
                           /\ h[q[i]].next = IF i = e THEN NULL ELSE q[i + 1]
  BY DEF Good, Typed, Linked
<1>3. g = [[h EXCEPT ![q[e]] = NULL] EXCEPT ![h[q[e]].prev].next = NULL]
  BY <1>1 DEF Dl!Free, Dl!NewLast
<1>4. e # 1
  OBVIOUS
<1> HIDE DEF e, g, h
<1>5. e \in 1 .. e /\ e - 1 \in 1 .. e /\ e - 1 # e
  BY <1>1, <1>4
<1>6. l \in Nodes /\ l # q[e] /\ h[l] \in Records /\ h[l] # NULL /\ h[q[e]].prev = l /\ h[q[e]].next = NULL
  BY <1>1, <1>2, <1>4, <1>5
<1>7. g = [h EXCEPT ![q[e]] = NULL, ![l] = node]
  BY <1>1, <1>2, <1>3, <1>5, <1>6
<1>8. node \in Records /\ node.value = h[l].value /\ node.next = NULL /\ node.prev = h[l].prev
  BY <1>6 DEF Records
<1>9. \A i \in 1 .. e : (q[i] = l <=> i = e - 1) /\ (q[i] = q[e] <=> i = e)
  BY <1>2, <1>5
<1> HIDE DEF l, node
<1>10. g[q[e]] = NULL /\ g[l] = node /\ \A m \in Nodes : m # q[e] /\ m # l => g[m] = h[m]
  BY <1>1, <1>2, <1>5, <1>6, <1>7
<1>11. Typed(g)
  BY <1>1, <1>2, <1>5, <1>6, <1>7, <1>8 DEF Typed
<1>12. ASSUME NEW i \in 1 .. e, i # e
       PROVE  /\ g[q[i]] # NULL /\ g[q[i]].value = h[q[i]].value
              /\ g[q[i]].prev = IF i = e + 1 THEN h[q[e]].prev ELSE h[q[i]].prev
              /\ g[q[i]].next = IF i = e - 1 THEN h[q[e]].next ELSE h[q[i]].next
  <2>0. i # e + 1
    BY <1>1
  <2>1. CASE i = e - 1
    BY <2>0, <2>1, <1>1, <1>6, <1>8, <1>9, <1>10
  <2>2. CASE i # e - 1
    BY <2>0, <2>2, <1>1, <1>9, <1>10, <1>12
  <2> QED
    BY <2>1, <2>2
<1>13. \A m \in Nodes : h[m] = NULL => g[m] = NULL
  BY <1>6, <1>10
<1> QED
  BY <1>10, <1>11, <1>12, <1>13 DEF Closed, e, g, h

\* A node between two others is freed.
LEMMA ClosedMiddle ==
  ASSUME NEW q, Good(q), NEW k \in 1 .. Len(q), k # 1, k # Len(q), heap' = Dl!Unlinked(q[k])
  PROVE  Closed(heap, q, k, heap')
<1> DEFINE e == Len(q)
           h == heap
           g == heap'
           x == q[k]
           a == q[k - 1]
           b == q[k + 1]
           na == [h[a] EXCEPT !.next = b]
           nb == [h[b] EXCEPT !.prev = a]
<1>1. /\ e \in Nat /\ NULL \notin Nodes /\ NULL \notin Records
      /\ \A i \in 1 .. e : q[i] \in Nodes /\ h[q[i]] # NULL /\ h[q[i]] \in Records
  BY GoodFacts
<1>2. /\ h \in [Nodes -> Records \cup {NULL}]
      /\ \A i, j \in 1 .. e : q[i] = q[j] => i = j
      /\ \A i \in 1 .. e : /\ h[q[i]].prev = IF i = 1 THEN NULL ELSE q[i - 1]
                           /\ h[q[i]].next = IF i = e THEN NULL ELSE q[i + 1]
  BY DEF Good, Typed, Linked
<1>3. g = [[h EXCEPT ![q[k]] = NULL] EXCEPT ![h[q[k]].prev].next = h[q[k]].next, ![h[q[k]].next].prev = h[q[k]].prev]
  BY DEF Dl!Free, Dl!Unlinked
<1>4. k \in 1 .. e /\ k # 1 /\ k # e
  OBVIOUS
<1> HIDE DEF e, g, h
<1>5. k - 1 \in 1 .. e /\ k + 1 \in 1 .. e /\ k - 1 # k /\ k + 1 # k /\ k - 1 # k + 1
  BY <1>1, <1>4
<1>6. /\ x \in Nodes /\ a \in Nodes /\ b \in Nodes /\ a # x /\ b # x /\ a # b
      /\ h[a] \in Records /\ h[b] \in Records /\ h[a] # NULL /\ h[b] # NULL
      /\ h[x].prev = a /\ h[x].next = b
  BY <1>1, <1>2, <1>4, <1>5
<1>7. \A i \in 1 .. e : (q[i] = x <=> i = k) /\ (q[i] = a <=> i = k - 1) /\ (q[i] = b <=> i = k + 1)
  BY <1>2, <1>4, <1>5
<1>8. g = [[h EXCEPT ![x] = NULL] EXCEPT ![a].next = b, ![b].prev = a]
  BY <1>3, <1>6
<1> HIDE DEF x, a, b
<1>9. /\ na \in Records /\ na.value = h[a].value /\ na.next = b /\ na.prev = h[a].prev
      /\ nb \in Records /\ nb.value = h[b].value /\ nb.prev = a /\ nb.next = h[b].next
  BY <1>6 DEF Records
<1>10. g = [h EXCEPT ![x] = NULL, ![a] = na, ![b] = nb]
  BY <1>2, <1>6, <1>8
<1> HIDE DEF na, nb
<1>11. /\ g[x] = NULL /\ g[a] = na /\ g[b] = nb
       /\ \A m \in Nodes : m # x /\ m # a /\ m # b => g[m] = h[m]
  BY <1>2, <1>6, <1>10
<1>12. Typed(g)
  BY <1>2, <1>6, <1>9, <1>10 DEF Typed
<1>13. ASSUME NEW i \in 1 .. e, i # k
       PROVE  /\ g[q[i]] # NULL /\ g[q[i]].value = h[q[i]].value
              /\ g[q[i]].prev = IF i = k + 1 THEN h[x].prev ELSE h[q[i]].prev
              /\ g[q[i]].next = IF i = k - 1 THEN h[x].next ELSE h[q[i]].next
  <2>1. CASE i = k - 1
    BY <2>1, <1>1, <1>5, <1>6, <1>7, <1>9, <1>11
  <2>2. CASE i = k + 1
    BY <2>2, <1>1, <1>5, <1>6, <1>7, <1>9, <1>11
  <2>3. CASE i # k - 1 /\ i # k + 1
    BY <2>3, <1>1, <1>7, <1>11, <1>13
  <2> QED
    BY <2>1, <2>2, <2>3
<1>14. \A m \in Nodes : h[m] = NULL => g[m] = NULL
  BY <1>6, <1>11
<1> QED
  BY <1>11, <1>12, <1>13, <1>14 DEF Closed, e, g, h, x

\* Without its first element a sequence is its tail.
LEMMA MinusFirst ==
  ASSUME NEW S, NEW s \in Seq(S), Len(s) # 0
  PROVE  s # <<>> /\ Tail(s) = Minus(s, 1) /\ Head(s) = s[1]
<1>1. Len(s) \in Nat /\ 1 \in 1 .. Len(s)
  OBVIOUS
<1>2. /\ Minus(s, 1) \in Seq(S) /\ Len(Minus(s, 1)) = Len(s) - 1
      /\ \A i \in 1 .. Len(s) - 1 : Minus(s, 1)[i] = s[i + 1]
  BY <1>1 DEF Minus
<1>3. s # <<>>
  BY <1>1
<1>4. /\ Tail(s) \in Seq(S) /\ Len(Tail(s)) = Len(s) - 1
      /\ \A i \in 1 .. Len(s) - 1 : Tail(s)[i] = s[i + 1]
  BY <1>3, HeadTailProperties
<1> DEFINE m == Minus(s, 1)
           t == Tail(s)
<1> HIDE DEF m, t
<1>5. t = m
  BY <1>2, <1>4, SeqEqual DEF m, t
<1> QED
  BY <1>3, <1>5 DEF m, t

\* Without its last element it is the part before it.
LEMMA MinusLast ==
  ASSUME NEW S, NEW s \in Seq(S), Len(s) # 0
  PROVE  s # <<>> /\ SubSeq(s, 1, Len(s) - 1) = Minus(s, Len(s))
<1> DEFINE e == Len(s)
           m == Minus(s, e)
           t == SubSeq(s, 1, e - 1)
<1>1. e \in Nat /\ e \in 1 .. e
  OBVIOUS
<1>2. m \in Seq(S) /\ Len(m) = e - 1 /\ \A i \in 1 .. e - 1 : m[i] = s[i]
  BY <1>1 DEF Minus
<1>3. t \in Seq(S) /\ Len(t) = e - 1 /\ \A i \in 1 .. e - 1 : t[i] = s[i]
  <2> DEFINE p == e - 1
  <2>1. p \in Nat /\ p <= Len(s)
    BY <1>1
  <2> HIDE DEF p
  <2>2. SubSeq(s, 1, p) \in Seq(S) /\ Len(SubSeq(s, 1, p)) = p /\ \A i \in 1 .. p : SubSeq(s, 1, p)[i] = s[i]
    BY <2>1
  <2> QED
    BY <2>2 DEF p
<1> HIDE DEF m, t
<1>4. t = m
  BY <1>2, <1>3, SeqEqual
<1>5. s # <<>>
  BY <1>1
<1> QED
  BY <1>4, <1>5 DEF m, t

\* A call that changes nothing but what it returns.
LEMMA SameOutcome ==
  ASSUME NEW q, Good(q), UNCHANGED <<heap, first, crashed>>, answer' \in Answers,
         answer' \in {NULL, Len(Dl!TheList)} \cup
            {Dl!Bool(\E k \in DOMAIN Dl!TheList : Dl!TheList[k] = v) : v \in Elems}
  PROVE  Outcome
<1>1. Typed(heap') /\ ~crashed' /\ Linked(heap', first', q)
  BY DEF Good
<1>2. Dl!TheList' = Dl!TheList
  <2>1. /\ Dl!TheList \in Seq(Elems) /\ Len(Dl!TheList) = Len(q)
        /\ \A k \in 1 .. Len(q) : Dl!TheList[k] = heap[q[k]].value
    BY ListIs DEF Good
  <2> QED
    BY <1>1, <2>1, ListAfter
<1>3. ListStepOf
  BY <1>2 DEF ListStepOf
<1> QED
  BY <1>1, <1>3 DEF Outcome

LEMMA UnshiftOutcome == ASSUME NEW q, Good(q), Dl!Unshift PROVE Outcome
<1>1. /\ Len(q) \in Nat /\ ~Dl!Dangling /\ first = IF Len(q) = 0 THEN NULL ELSE q[1]
      /\ (first = NULL <=> Len(q) = 0)
      /\ \A i \in 1 .. Len(q) : heap[q[i]] \in Records
  BY GoodFacts
<1>2. /\ Dl!TheList \in Seq(Elems) /\ Len(Dl!TheList) = Len(q)
      /\ \A k \in 1 .. Len(q) : Dl!TheList[k] = heap[q[k]].value
  BY ListIs DEF Good
<1>3. CASE Len(q) = 0
  <2>1. answer' = NULL /\ UNCHANGED <<heap, first, crashed>>
    BY <1>1, <1>3 DEF Dl!Unshift
  <2> QED
    BY <2>1, SameOutcome DEF Answers
<1>4. CASE Len(q) # 0
  <2>0. 1 \in 1 .. Len(q) /\ first = q[1]
    BY <1>1, <1>4
  <2>1. /\ answer' = heap[first].value /\ first' = heap[first].next /\ UNCHANGED crashed
        /\ heap' = IF heap[first].next = NULL THEN Dl!Free(first) ELSE Dl!NewFirst(heap[first].next)
    BY <1>1, <1>4 DEF Dl!Unshift
  <2>2. Closed(heap, q, 1, heap')
    BY <2>1, <1>4, ClosedFirst
  <2>3. /\ Typed(heap') /\ Linked(heap', first', Minus(q, 1))
        /\ Dl!TheList' = Minus(Dl!TheList, 1)
    <3> DEFINE k == 1
    <3>1. k \in 1 .. Len(q) /\ Closed(heap, q, k, heap') /\ first' = IF k = 1 THEN heap[first].next ELSE first
      BY <2>0, <2>1, <2>2
    <3> HIDE DEF k
    <3>2. /\ Typed(heap') /\ Linked(heap', first', Minus(q, k))
          /\ Dl!TheList' = Minus(Dl!TheList, k)
      BY <3>1, ClosedList
    <3> QED
      BY <3>2 DEF k
  <2>4. Dl!TheList # <<>> /\ Tail(Dl!TheList) = Minus(Dl!TheList, 1) /\ Head(Dl!TheList) = Dl!TheList[1]
    BY <1>2, <1>4, MinusFirst
  <2>5. answer' = Dl!TheList[1] /\ answer' \in Elems
    BY <2>0, <2>1, <1>1, <1>2 DEF Records
  <2>6. ListStepOf
    BY <2>3, <2>4, <2>5 DEF ListStepOf, Dl!List!Unshift
  <2>7. ~crashed'
    BY <2>1 DEF Good
  <2> QED
    BY <2>1, <2>3, <2>5, <2>6, <2>7 DEF Outcome, Answers
<1> QED
  BY <1>3, <1>4

LEMMA PopOutcome == ASSUME NEW q, Good(q), Dl!Pop PROVE Outcome
<1> DEFINE e == Len(q)
<1>1. /\ e \in Nat /\ ~Dl!Dangling /\ first = IF e = 0 THEN NULL ELSE q[1]
      /\ (first = NULL <=> e = 0) /\ Dl!Last = q[e] /\ NULL \notin Nodes
      /\ \A i \in 1 .. e : heap[q[i]] \in Records /\ q[i] \in Nodes
  BY GoodFacts
<1>2. /\ Dl!TheList \in Seq(Elems) /\ Len(Dl!TheList) = e
      /\ \A k \in 1 .. e : Dl!TheList[k] = heap[q[k]].value
  BY ListIs DEF Good
<1>3. CASE e = 0
  <2>1. answer' = NULL /\ UNCHANGED <<heap, first, crashed>>
    BY <1>1, <1>3 DEF Dl!Pop
  <2> QED
    BY <2>1, SameOutcome DEF Answers
<1>4. CASE e # 0
  <2>0. 1 \in 1 .. e /\ e \in 1 .. e /\ first = q[1]
    BY <1>1, <1>4
  <2>1. /\ answer' = heap[q[e]].value /\ UNCHANGED crashed
        /\ first' = IF heap[first].next = NULL THEN NULL ELSE first
        /\ heap' = IF heap[first].next = NULL THEN Dl!Free(first) ELSE Dl!NewLast
    <3>1. ~Dl!Dangling /\ first # NULL /\ Dl!Last = q[e]
      BY <1>1, <1>4
    <3> HIDE DEF e
    <3> QED
      BY <3>1 DEF Dl!Pop
  <2>2. heap[first].next = IF 1 = e THEN NULL ELSE q[1 + 1]
    BY <2>0 DEF Good, Linked
  <2>3. heap[first].next = NULL <=> e = 1
    <3>1. e # 1 => 1 + 1 \in 1 .. e
      <4> HIDE DEF e
      <4> QED
        BY <1>1, <1>4
    <3>2. e # 1 => q[1 + 1] # NULL
      BY <3>1, <1>1
    <3> QED
      BY <2>2, <3>2
  <2>4. Closed(heap, q, e, heap') /\ first' = IF e = 1 THEN heap[first].next ELSE first
    <3>1. CASE e = 1
      <4>1. heap' = IF heap[first].next = NULL THEN Dl!Free(first) ELSE Dl!NewFirst(heap[first].next)
        BY <3>1, <2>1, <2>3
      <4>2. Closed(heap, q, 1, heap')
        BY <4>1, <1>4, ClosedFirst
      <4> QED
        BY <3>1, <4>2, <2>1, <2>3
    <3>2. CASE e # 1
      <4>1. heap' = Dl!NewLast
        BY <3>2, <2>1, <2>3
      <4> QED
        BY <3>2, <4>1, <1>4, <2>1, <2>3, ClosedLast
    <3> QED
      BY <3>1, <3>2
  <2>5. /\ Typed(heap') /\ Linked(heap', first', Minus(q, e))
        /\ Dl!TheList' = Minus(Dl!TheList, e)
    BY <2>0, <2>4, ClosedList
  <2>6. Dl!TheList # <<>> /\ SubSeq(Dl!TheList, 1, Len(Dl!TheList) - 1) = Minus(Dl!TheList, e)
    BY <1>2, <1>4, MinusLast
  <2>7. answer' = Dl!TheList[Len(Dl!TheList)] /\ answer' \in Elems
    BY <2>0, <2>1, <1>1, <1>2 DEF Records
  <2>8. ListStepOf
    BY <2>5, <2>6, <2>7 DEF ListStepOf, Dl!List!Pop
  <2>9. ~crashed'
    BY <2>1 DEF Good
  <2> QED
    BY <2>1, <2>5, <2>7, <2>8, <2>9 DEF Outcome, Answers
<1> QED
  BY <1>3, <1>4

LEMMA ClearOutcome == ASSUME NEW q, Good(q), Dl!Clear PROVE Outcome
<1>1. /\ q \in Seq(Nodes) /\ Len(q) \in Nat /\ ~Dl!Dangling /\ Dl!Chain = q
  BY GoodFacts
<1>2. /\ heap' = [n \in Nodes |-> IF \E k \in 1 .. Len(q) : q[k] = n THEN NULL ELSE heap[n]]
      /\ first' = NULL /\ answer' = NULL /\ UNCHANGED crashed
  BY <1>1 DEF Dl!Clear
<1>3. heap' = [n \in Nodes |-> NULL]
  BY <1>2 DEF Good, Linked
<1> DEFINE none == <<>>
<1>4. none \in Seq(Nodes) /\ none \in Seq(Elems) /\ Len(none) = 0
  OBVIOUS
<1> HIDE DEF none
<1>5. Typed(heap') /\ ~crashed'
  BY <1>2, <1>3 DEF Typed, Good
<1>6. Linked(heap', first', none)
  <2>1. 1 .. Len(none) = {}
    BY <1>4
  <2> QED
    BY <2>1, <1>2, <1>3, <1>4 DEF Linked
<1>7. Dl!TheList' = none
  <2>1. \A k \in 1 .. Len(none) : none[k] = heap'[none[k]].value
    BY <1>4
  <2> QED
    BY <2>1, <1>4, <1>5, <1>6, ListAfter
<1>8. ListStepOf
  BY <1>2, <1>7 DEF ListStepOf, Dl!List!Clear, none
<1> QED
  BY <1>2, <1>5, <1>6, <1>8 DEF Outcome, Answers

LEMMA ExistsOutcome ==
  ASSUME NEW q, Good(q), NEW v \in Elems, Dl!Read(Dl!Bool(Dl!Has(v))) PROVE Outcome
<1>1. /\ Len(q) \in Nat /\ Len(q) <= Cardinality(Nodes) /\ ~Dl!Dangling /\ Dl!Chain = q
      /\ q \in Seq(Nodes)
  BY GoodFacts
<1>2. /\ Dl!TheList \in Seq(Elems) /\ Len(Dl!TheList) = Len(q)
      /\ \A k \in 1 .. Len(q) : Dl!TheList[k] = heap[q[k]].value
  BY ListIs DEF Good
<1>3. answer' = Dl!Bool(Dl!Has(v)) /\ UNCHANGED <<heap, first, crashed>>
  BY <1>1 DEF Dl!Read
<1> DEFINE has == \E k \in DOMAIN Dl!TheList : Dl!TheList[k] = v
<1>4. Dl!Has(v) <=> has
  BY <1>1, <1>2 DEF Dl!Has
<1>5. answer' = Dl!Bool(has)
  BY <1>3, <1>4 DEF Dl!Bool
<1>6. answer' \in 0 .. Cardinality(Nodes)
  <2>0. Cardinality(Nodes) \in Nat
    BY AddressesAre, FS_CardinalityType
  <2>1. CASE has
    <3>1. Cardinality(Nodes) >= 1
      BY <2>0, <2>1, <1>1, <1>2
    <3> QED
      BY <2>0, <2>1, <3>1, <1>5 DEF Dl!Bool
  <2>2. CASE ~has
    BY <2>0, <2>2, <1>5 DEF Dl!Bool
  <2> QED
    BY <2>1, <2>2
<1> QED
  BY <1>3, <1>5, <1>6, SameOutcome DEF Answers

LEMMA LenOutcome == ASSUME NEW q, Good(q), Dl!Read(Len(Dl!Chain)) PROVE Outcome
<1>1. /\ Len(q) \in Nat /\ Len(q) <= Cardinality(Nodes) /\ ~Dl!Dangling /\ Dl!Chain = q
  BY GoodFacts
<1>2. Len(Dl!TheList) = Len(q)
  BY ListIs DEF Good
<1>3. answer' = Len(Dl!TheList) /\ UNCHANGED <<heap, first, crashed>>
  BY <1>1, <1>2 DEF Dl!Read
<1>4. answer' \in 0 .. Cardinality(Nodes)
  <2>1. Cardinality(Nodes) \in Nat
    BY AddressesAre, FS_CardinalityType
  <2> QED
    BY <2>1, <1>1, <1>2, <1>3
<1> QED
  BY <1>3, <1>4, SameOutcome DEF Answers

\* A node the search finds.
LEMMA Found ==
  ASSUME NEW q, Good(q), NEW v \in Elems, NEW n \in Dl!Allocated, Dl!Finds(v, n)
  PROVE  \E k \in 1 .. Len(q) :
           /\ n = q[k] /\ Dl!TheList[k] = v /\ \A l \in 1 .. k - 1 : Dl!TheList[l] # v
           /\ (n = first <=> k = 1) /\ (heap[n].next = NULL <=> k = Len(q))
<1> DEFINE e == Len(q)
<1>1. /\ q \in Seq(Nodes) /\ e \in Nat /\ Dl!Chain = q /\ NULL \notin Nodes
      /\ first = IF e = 0 THEN NULL ELSE q[1]
      /\ \A i \in 1 .. e : q[i] \in Nodes
  BY GoodFacts
<1>2. \A k \in 1 .. e : Dl!TheList[k] = heap[q[k]].value
  BY ListIs DEF Good
<1>3. PICK k \in 1 .. e : n = q[k] /\ heap[n].value = v /\ \A l \in 1 .. k - 1 : heap[q[l]].value # v
  BY <1>1 DEF Dl!Finds
<1>4. /\ \A i, j \in 1 .. e : q[i] = q[j] => i = j
      /\ heap[q[k]].next = IF k = e THEN NULL ELSE q[k + 1]
  BY DEF Good, Linked
<1> HIDE DEF e
<1>5. 1 \in 1 .. e /\ e # 0
  BY <1>1
<1>6. n = first <=> k = 1
  BY <1>1, <1>3, <1>4, <1>5
<1>7. k # e => k + 1 \in 1 .. e
  BY <1>1
<1>8. heap[n].next = NULL <=> k = e
  BY <1>1, <1>3, <1>4, <1>7
<1>9. \A l \in 1 .. k - 1 : l \in 1 .. e
  BY <1>1
<1>10. Dl!TheList[k] = v /\ \A l \in 1 .. k - 1 : Dl!TheList[l] # v
  BY <1>2, <1>3, <1>9
<1> QED
  BY <1>3, <1>6, <1>8, <1>10 DEF e

\* The only node: first goes on pointing to it after it is freed.
LEMMA OnlyFreed ==
  ASSUME NEW q, Good(q), first # NULL, heap' = Dl!Free(first), UNCHANGED first
  PROVE  Typed(heap') /\ Dl!Dangling' /\ first' \in Nodes
<1>1. first \in Nodes
  BY GoodFacts
<1>2. heap \in [Nodes -> Records \cup {NULL}]
  BY DEF Good, Typed
<1>3. heap' \in [Nodes -> Records \cup {NULL}] /\ heap'[first] = NULL
  BY <1>1, <1>2 DEF Dl!Free
<1> QED
  BY <1>1, <1>3 DEF Typed, Dl!Dangling, Dl!Allocated

LEMMA RemoveOutcome ==
  ASSUME NEW q, Good(q), NEW v \in Elems, Dl!Remove(v)
  PROVE  Outcome
<1>1. /\ Len(q) \in Nat /\ ~Dl!Dangling /\ (first = NULL <=> Len(q) = 0)
  BY GoodFacts
<1>2. /\ Dl!TheList \in Seq(Elems) /\ Len(Dl!TheList) = Len(q)
  BY ListIs DEF Good
<1>3. CASE answer' = NULL /\ UNCHANGED <<heap, first, crashed>>
  BY <1>3, SameOutcome DEF Answers
<1>4. ASSUME NEW n \in Dl!Allocated, Dl!Finds(v, n), n = first, heap[n].next = NULL,
             heap' = Dl!Free(n), answer' = NULL, UNCHANGED <<first, crashed>>
      PROVE  Outcome
  <2>1. Breaks
    BY <1>4 DEF Breaks, Dl!AtEnd
  <2>2. n # NULL
    BY AddressesAre DEF Dl!Allocated
  <2>3. Typed(heap') /\ Dl!Dangling' /\ first' \in Nodes
    BY <1>4, <2>2, OnlyFreed
  <2> QED
    BY <1>4, <2>1, <2>3 DEF Outcome, Answers
<1>5. ASSUME NEW n \in Dl!Allocated, Dl!Finds(v, n), n # first, heap[n].next = NULL, Dl!Crash
      PROVE  Outcome
  <2>1. Breaks
    BY <1>5 DEF Breaks, Dl!AtEnd
  <2> QED
    BY <1>5, <2>1 DEF Outcome
<1>6. ASSUME NEW n \in Dl!Allocated, Dl!Finds(v, n), heap[n].next # NULL,
             n = first => heap' = Dl!NewFirst(heap[n].next) /\ first' = heap[n].next,
             n # first => heap' = Dl!Unlinked(n) /\ first' = first,
             answer' = NULL, UNCHANGED crashed
      PROVE  Outcome
  <2>1. PICK k \in 1 .. Len(q) :
           /\ n = q[k] /\ Dl!TheList[k] = v /\ \A l \in 1 .. k - 1 : Dl!TheList[l] # v
           /\ (n = first <=> k = 1) /\ (heap[n].next = NULL <=> k = Len(q))
    BY <1>6, Found
  <2>2. Len(q) # 0
    BY <1>1
  <2>3. Closed(heap, q, k, heap')
    <3>1. CASE k = 1
      <4>1. heap' = IF heap[first].next = NULL THEN Dl!Free(first) ELSE Dl!NewFirst(heap[first].next)
        BY <3>1, <1>6, <2>1
      <4>2. Closed(heap, q, 1, heap')
        BY <4>1, <2>2, ClosedFirst
      <4> QED
        BY <3>1, <4>2
    <3>2. CASE k # 1
      <4>1. heap' = Dl!Unlinked(q[k]) /\ k # Len(q)
        BY <3>2, <1>6, <2>1
      <4> QED
        BY <3>2, <4>1, ClosedMiddle
    <3> QED
      BY <3>1, <3>2
  <2>4. first' = IF k = 1 THEN heap[first].next ELSE first
    BY <1>6, <2>1
  <2>5. /\ Typed(heap') /\ Linked(heap', first', Minus(q, k))
        /\ Dl!TheList' = Minus(Dl!TheList, k)
    BY <2>3, <2>4, ClosedList
  <2>6. DOMAIN Dl!TheList = 1 .. Len(q)
    BY <1>2
  <2>7. Dl!Without(v)
    BY <2>1, <2>5, <2>6 DEF Dl!Without, Minus
  <2>8. ListStepOf
    BY <2>7 DEF ListStepOf
  <2>9. ~crashed'
    BY <1>6 DEF Good
  <2> QED
    BY <1>6, <2>5, <2>8, <2>9 DEF Outcome, Answers
<1>7. CASE \E n \in Dl!Allocated :
        /\ Dl!Finds(v, n)
        /\ \/ n = first /\ heap[n].next = NULL
              /\ heap' = Dl!Free(n) /\ answer' = NULL /\ UNCHANGED <<first, crashed>>
           \/ n = first /\ heap[n].next # NULL
              /\ heap' = Dl!NewFirst(heap[n].next) /\ first' = heap[n].next /\ answer' = NULL /\ UNCHANGED crashed
           \/ n # first /\ heap[n].next # NULL
              /\ heap' = Dl!Unlinked(n) /\ answer' = NULL /\ UNCHANGED <<first, crashed>>
           \/ n # first /\ heap[n].next = NULL /\ Dl!Crash
  BY <1>4, <1>5, <1>6, <1>7
<1> QED
  BY <1>1, <1>3, <1>7 DEF Dl!Remove

\* What a step does to a good list.
LEMMA StepOutcome == ASSUME NEW q, Good(q), Dl!Next PROVE Outcome
<1>1. ASSUME NEW v \in Elems, Dl!Push(v) \/ Dl!Shift(v) \/ Dl!Remove(v) \/ Dl!Read(Dl!Bool(Dl!Has(v)))
      PROVE  Outcome
  BY <1>1, PushOutcome, ShiftOutcome, RemoveOutcome, ExistsOutcome
<1>2. CASE Dl!Unshift \/ Dl!Pop \/ Dl!Clear \/ Dl!Read(Len(Dl!Chain))
  BY <1>2, UnshiftOutcome, PopOutcome, ClearOutcome, LenOutcome
<1> QED
  BY <1>1, <1>2 DEF Dl!Next

\* With a first node that was freed every call crashes.
LEMMA DanglingStep == ASSUME Dl!Dangling, Dl!Next PROVE Dl!Crash
<1>1. first # NULL
  BY DEF Dl!Dangling
<1> QED
  BY <1>1 DEF Dl!Next, Dl!Push, Dl!Shift, Dl!NoMemory, Dl!Unshift, Dl!Pop, Dl!Remove, Dl!Read, Dl!Clear

-------------------------------------------------------------------------------
\* The invariant: until it is broken the nodes that are allocated have an order
\* with which the links agree.
DlInv ==
  /\ Typed(heap) /\ first \in Nodes \cup {NULL} /\ answer \in Answers /\ crashed \in BOOLEAN
  /\ ~crashed /\ ~Dl!Dangling => \E q : Linked(heap, first, q)

\* An empty list is in order.
LEMMA DlInvInit == Dl!Init => DlInv
<1> SUFFICES ASSUME Dl!Init PROVE DlInv
  OBVIOUS
<1>1. heap = [n \in Nodes |-> NULL] /\ first = NULL /\ answer = NULL /\ crashed = FALSE
  BY DEF Dl!Init
<1> DEFINE none == <<>>
<1>2. none \in Seq(Nodes) /\ Len(none) = 0
  OBVIOUS
<1> HIDE DEF none
<1>3. 1 .. Len(none) = {}
  BY <1>2
<1>4. Linked(heap, first, none)
  BY <1>1, <1>2, <1>3 DEF Linked
<1> QED
  BY <1>1, <1>4 DEF DlInv, Typed, Answers

\* A crash changes nothing but the flag.
LEMMA CrashKeepsInv == ASSUME DlInv, Dl!Crash PROVE DlInv'
BY DEF DlInv, Dl!Crash

\* Every step keeps the invariant.
LEMMA DlInvStep == DlInv /\ [Dl!Next]_dlvars => DlInv'
<1> SUFFICES ASSUME DlInv, [Dl!Next]_dlvars PROVE DlInv'
  OBVIOUS
<1>1. CASE UNCHANGED dlvars
  BY <1>1 DEF dlvars, DlInv, Dl!Dangling, Dl!Allocated
<1>2. CASE Dl!Next /\ Dl!Dangling
  BY <1>2, DanglingStep, CrashKeepsInv
<1>3. CASE Dl!Next /\ ~Dl!Dangling
  <2>1. ~crashed
    BY <1>3 DEF Dl!Next
  <2>2. PICK q : Good(q)
    BY <1>3, <2>1 DEF DlInv, Good
  <2>3. Outcome
    BY <1>3, <2>2, StepOutcome
  <2>4. CASE Dl!Crash
    BY <2>4, CrashKeepsInv
  <2>5. CASE /\ Typed(heap') /\ Dl!Dangling' /\ UNCHANGED crashed
             /\ first' \in Nodes /\ answer' \in Answers
    BY <2>5 DEF DlInv
  <2>6. ASSUME NEW r, Typed(heap'), Linked(heap', first', r), UNCHANGED crashed, answer' \in Answers
        PROVE  DlInv'
    <3>1. r \in Seq(Nodes) /\ first' = IF Len(r) = 0 THEN NULL ELSE r[1]
      BY <2>6 DEF Linked
    <3>2. first' \in Nodes \cup {NULL}
      BY <3>1
    <3> QED
      BY <2>6, <3>2 DEF DlInv
  <2> QED
    BY <2>3, <2>4, <2>5, <2>6 DEF Outcome
<1> QED
  BY <1>1, <1>2, <1>3

\* The pointers and values of the list are of their types, a first node that was
\* freed included, for any number of nodes.
THEOREM ListTypeOK == Dl!Spec => []DlTypeOK
<1>1. DlInv => DlTypeOK
  BY SizeOf DEF DlInv, DlTypeOK, Dl!DlTypeOK, Dl!Pointers, Typed, Records, Answers
<1> QED
  BY <1>1, DlInvInit, DlInvStep, PTL DEF Dl!Spec, Dl!vars, dlvars

\* An order of the nodes is all that Sound asks for.
LEMMA GoodIsSound == \A q : Good(q) => Dl!Sound
<1> SUFFICES ASSUME NEW q, Good(q) PROVE Dl!Sound
  OBVIOUS
<1> DEFINE e == Len(q)
<1>1. /\ q \in Seq(Nodes) /\ e \in Nat /\ ~Dl!Dangling /\ Dl!Chain = q /\ NULL \notin Nodes
      /\ first = IF e = 0 THEN NULL ELSE q[1]
      /\ \A i \in 1 .. e : q[i] \in Nodes /\ heap[q[i]] # NULL
      /\ \A m \in Nodes : m \in Dl!Allocated <=> heap[m] # NULL
  BY GoodFacts
<1>2. /\ \A i, j \in 1 .. e : q[i] = q[j] => i = j
      /\ \A n \in Nodes : heap[n] # NULL <=> \E i \in 1 .. e : n = q[i]
      /\ \A i \in 1 .. e : /\ heap[q[i]].prev = IF i = 1 THEN NULL ELSE q[i - 1]
                           /\ heap[q[i]].next = IF i = e THEN NULL ELSE q[i + 1]
  BY DEF Good, Linked
<1>3. Dl!Allocated = {Dl!Chain[k] : k \in DOMAIN Dl!Chain}
  <2>1. DOMAIN Dl!Chain = 1 .. e
    BY <1>1
  <2>2. \A x : x \in Dl!Allocated <=> \E i \in 1 .. e : x = q[i]
    BY <1>1, <1>2 DEF Dl!Allocated
  <2> QED
    BY <1>1, <2>1, <2>2
<1> HIDE DEF e
<1>4. ASSUME NEW n \in Dl!Allocated
      PROVE  /\ heap[n].prev = NULL <=> n = first
             /\ heap[n].next # NULL => heap[n].next \in Dl!Allocated /\ heap[heap[n].next].prev = n
  <2>1. PICK i \in 1 .. e : n = q[i]
    BY <1>1, <1>2 DEF Dl!Allocated
  <2>2. 1 \in 1 .. e /\ e # 0 /\ first = q[1]
    BY <2>1, <1>1
  <2>3. i # 1 => i - 1 \in 1 .. e
    BY <1>1
  <2>4. i # e => i + 1 \in 1 .. e /\ i + 1 # 1 /\ (i + 1) - 1 = i
    BY <1>1
  <2>5. heap[n].prev = NULL <=> n = first
    BY <2>1, <2>2, <2>3, <1>1, <1>2
  <2>6. heap[n].next # NULL => heap[n].next \in Dl!Allocated /\ heap[heap[n].next].prev = n
    BY <2>1, <2>4, <1>1, <1>2
  <2> QED
    BY <2>5, <2>6
<1>5. ~crashed
  BY DEF Good
<1> QED
  BY <1>1, <1>3, <1>4, <1>5 DEF Dl!Sound

\* The same of the next state.
LEMMA GoodIsSoundNext ==
  ASSUME NEW r, Typed(heap'), ~crashed', Linked(heap', first', r)
  PROVE  Dl!Sound'
<1>1. (\A q : Good(q) => Dl!Sound)'
  BY GoodIsSound, PTL
<1>2. Good(r)'
  BY DEF Good
<1> QED
  BY <1>1, <1>2

\* The calls that break the list do.
LEMMA BreaksSound == ASSUME NEW q, Good(q), Breaks PROVE ~Dl!Sound'
<1>1. ~Dl!Dangling
  BY GoodFacts
<1>2. CASE first # NULL /\ Dl!NoMemory
  BY <1>2 DEF Dl!NoMemory, Dl!Crash, Dl!Sound
<1>3. ASSUME NEW v \in Elems, Dl!AtEnd(v), Dl!Remove(v) PROVE ~Dl!Sound'
  <2>1. PICK n \in Dl!Allocated : Dl!Finds(v, n) /\ heap[n].next = NULL
    BY <1>3 DEF Dl!AtEnd
  <2>2. Dl!Has(v)
    BY <2>1 DEF Dl!Finds, Dl!Has
  <2>3. \A m \in Dl!Allocated : Dl!Finds(v, m) => m = n
    <3> SUFFICES ASSUME NEW m \in Dl!Allocated, Dl!Finds(v, m) PROVE m = n
      OBVIOUS
    <3>1. PICK k \in 1 .. Len(q) :
            n = q[k] /\ Dl!TheList[k] = v /\ \A l \in 1 .. k - 1 : Dl!TheList[l] # v
      BY <2>1, Found
    <3>2. PICK j \in 1 .. Len(q) :
            m = q[j] /\ Dl!TheList[j] = v /\ \A l \in 1 .. j - 1 : Dl!TheList[l] # v
      BY Found
    <3>3. j = k
      BY <3>1, <3>2, GoodFacts
    <3> QED
      BY <3>1, <3>2, <3>3
  <2>4. \/ n = first /\ heap' = Dl!Free(n) /\ UNCHANGED first
        \/ Dl!Crash
    BY <1>1, <1>3, <2>1, <2>2, <2>3 DEF Dl!Remove
  <2>5. CASE Dl!Crash
    BY <2>5 DEF Dl!Crash, Dl!Sound
  <2>6. CASE n = first /\ heap' = Dl!Free(n) /\ UNCHANGED first
    <3>1. first # NULL
      BY <2>6, AddressesAre DEF Dl!Allocated
    <3>2. Dl!Dangling'
      BY <2>6, <3>1, OnlyFreed
    <3> QED
      BY <3>2 DEF Dl!Sound
  <2> QED
    BY <2>4, <2>5, <2>6
<1> QED
  BY <1>2, <1>3 DEF Breaks

\* What a step does to a sound list.
LEMMA SoundStep ==
  ASSUME DlInv, Dl!Sound, Dl!Next
  PROVE  (Dl!Sound' <=> ~Breaks) /\ (Dl!Sound' => ListStepOf)
<1>1. PICK q : Good(q)
  BY DEF DlInv, Dl!Sound, Good
<1>2. Outcome
  BY <1>1, StepOutcome
<1>3. CASE Breaks /\ Dl!Crash
  BY <1>3 DEF Dl!Crash, Dl!Sound
<1>4. CASE Breaks /\ Dl!Dangling'
  BY <1>4 DEF Dl!Sound
<1>5. ASSUME NEW r, Typed(heap'), ~crashed', Linked(heap', first', r), ListStepOf
      PROVE  (Dl!Sound' <=> ~Breaks) /\ (Dl!Sound' => ListStepOf)
  BY <1>1, <1>5, GoodIsSoundNext, BreaksSound
<1> QED
  BY <1>2, <1>3, <1>4, <1>5 DEF Outcome

\* Of any number of nodes: removing the value of the last node breaks the list,
\* and nothing else does but a second node for which malloc() has no memory.
THEOREM ListBrokenAtEndOnly == Dl!Spec => BrokenAtEndOnly
<1>1. DlInv /\ [Dl!Next]_dlvars => [Dl!Sound => (Dl!Sound' <=> ~Breaks)]_dlvars
  BY SoundStep
<1>2. [][Dl!Sound => (Dl!Sound' <=> ~Breaks)]_dlvars => BrokenAtEndOnly
  BY PTL DEF BrokenAtEndOnly, Dl!BrokenAtEndOnly, Breaks, Dl!vars, dlvars
<1> QED
  BY <1>1, <1>2, DlInvInit, DlInvStep, PTL DEF Dl!Spec, Dl!vars, dlvars

\* Until then the linked list does what ListSpec says of each call, and takes out
\* the first element that equals a value, whatever the links looked like.
THEOREM ListWhileSound == Dl!Spec => IsListWhileSound
<1>1. DlInv /\ [Dl!Next]_dlvars => [Dl!Sound /\ Dl!Sound' => ListStepOf]_dlvars
  BY SoundStep
<1>2. [][Dl!Sound /\ Dl!Sound' => ListStepOf]_dlvars => IsListWhileSound
  BY PTL DEF IsListWhileSound, Dl!IsListWhileSound, ListStepOf, Dl!vars, dlvars
<1> QED
  BY <1>1, <1>2, DlInvInit, DlInvStep, PTL DEF Dl!Spec, Dl!vars, dlvars
===============================================================================
