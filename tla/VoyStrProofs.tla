----------------------------- MODULE VoyStrProofs -----------------------------
(***************************************************************************)
(* Proofs about VoyStr for any characters and texts of any length: the     *)
(* loops of voy_str.c compute what VoyStrText says, a string goes with its *)
(* block, and the calls that misuse memory are known.                      *)
(***************************************************************************)
EXTENDS VoyStr, TLAPS, SequenceTheorems, FiniteSetTheorems, WellFoundedInduction

-------------------------------------------------------------------------------
\* Numbers: the least, the largest and the k-th of a set.

\* A set of numbers that is not empty has a least one.
LEMMA Least ==
  ASSUME NEW T \in SUBSET Nat, T # {}
  PROVE  \E x \in T : \A y \in T : x <= y
<1> DEFINE R == OpToRel(<, Nat)
<1>1. \E x \in T : \A y \in T : <<y, x>> \notin R
  <2>1. IsWellFoundedOn(R, Nat)
    BY NatLessThanWellFounded
  <2> HIDE DEF R
  <2> QED  BY <2>1, WFMin
<1>2. \A x, y \in Nat : y < x => <<y, x>> \in R
  BY DEF OpToRel
<1> HIDE DEF R
<1>3. \A x, y \in T : x \in Nat /\ y \in Nat
  OBVIOUS
<1>4. \A x, y \in Nat : <<y, x>> \notin R => x <= y
  BY <1>2
<1> QED BY <1>1, <1>3, <1>4, Zenon

\* Induction: the provers take no lemma about an operator, a set of numbers does.
LEMMA Induct ==
  ASSUME NEW S \in SUBSET Nat, 0 \in S, \A n_ \in S : n_ + 1 \in S
  PROVE  S = Nat
<1> SUFFICES ASSUME Nat \ S # {} PROVE FALSE
  OBVIOUS
<1>1. PICK x \in Nat \ S : \A y \in Nat \ S : x <= y
  BY Least
<1>2. x # 0 /\ x - 1 \in Nat /\ x - 1 \in S
  BY <1>1
<1> QED BY <1>1, <1>2

\* It is Min of the set.
LEMMA MinOf ==
  ASSUME NEW T \in SUBSET Nat, T # {}
  PROVE  Min(T) \in T /\ \A y \in T : Min(T) <= y
BY Least DEF Min

\* A set of numbers with a bound has a largest one.
LEMMA MaxOf ==
  ASSUME NEW T \in SUBSET Nat, T # {}, NEW b \in Nat, \A y \in T : y <= b
  PROVE  Max(T) \in T /\ \A y \in T : Max(T) >= y
<1> DEFINE bounds == {c \in Nat : \A y \in T : y <= c}
<1>1. PICK m \in bounds : \A c \in bounds : m <= c
  <2>1. b \in bounds
    OBVIOUS
  <2> QED  BY <2>1, Least
<1>2. m \in T
  <2> SUFFICES ASSUME m \notin T PROVE FALSE
    OBVIOUS
  <2>1. PICK y \in T : TRUE
    OBVIOUS
  <2>2. m # 0 /\ m - 1 \in Nat
    BY <2>1
  <2>3. m - 1 \in bounds
    BY <2>2
  <2> QED  BY <2>3, <1>1
<1>3. \E x \in T : \A y \in T : x >= y
  BY <1>2
<1> QED  BY <1>3 DEF Max

\* What Max and Min are.
LEMMA MaxIs ==
  ASSUME NEW T \in SUBSET Nat, NEW x \in T, \A y \in T : y <= x
  PROVE  Max(T) = x
<1>1. x \in Nat /\ \A y \in T : y \in Nat
  OBVIOUS
<1>2. Max(T) \in T /\ \A y \in T : Max(T) >= y
  BY <1>1, MaxOf
<1> DEFINE m == Max(T)
<1>3. x \in Nat /\ m \in Nat
  BY <1>1, <1>2
<1>4. m >= x /\ m <= x
  BY <1>2
<1> HIDE DEF m
<1>5. m = x
  BY ONLY <1>3, <1>4
<1> QED  BY <1>5 DEF m

LEMMA MinIs ==
  ASSUME NEW T \in SUBSET Nat, NEW x \in T, \A y \in T : x <= y
  PROVE  Min(T) = x
<1>1. \A y \in T : y \in Nat
  OBVIOUS
<1>2. Min(T) \in T /\ \A y \in T : Min(T) <= y
  BY MinOf
<1> DEFINE m == Min(T)
<1>3. x \in Nat /\ m \in Nat
  BY <1>1, <1>2
<1>4. m >= x /\ m <= x
  BY <1>2
<1> HIDE DEF m
<1>5. m = x
  BY ONLY <1>3, <1>4
<1> QED  BY <1>5 DEF m

\* The larger of two numbers.
LEMMA MaxOfTwo ==
  ASSUME NEW a \in Nat, NEW b \in Nat
  PROVE  Max({a, b}) \in {a, b} /\ Max({a, b}) >= a /\ Max({a, b}) >= b
<1>1. {a, b} \in SUBSET Nat /\ {a, b} # {} /\ a + b \in Nat /\ \A y \in {a, b} : y <= a + b
  OBVIOUS
<1> QED  BY <1>1, MaxOf

\* The numbers of S below x.
Below(S, x) == {y \in S : y < x}

\* The k-th number of a set has k - 1 below it, and every number of it is the
\* one after those below it.
LEMMA NthOf ==
  ASSUME NEW S \in SUBSET Nat, IsFiniteSet(S)
  PROVE  /\ Cardinality(S) \in Nat
         /\ \A k \in 1 .. Cardinality(S) : Nth(S, k) \in S /\ Cardinality(Below(S, Nth(S, k))) = k - 1
         /\ \A x \in S : /\ Cardinality(Below(S, x)) + 1 \in 1 .. Cardinality(S)
                         /\ x = Nth(S, Cardinality(Below(S, x)) + 1)
<1> DEFINE c == Cardinality(S)
           rank == [x \in S |-> Cardinality(Below(S, x))]
           T == 0 .. c - 1
<1>1. c \in Nat
  BY FS_CardinalityType
<1>2. ASSUME NEW x \in S
      PROVE  /\ IsFiniteSet(Below(S, x)) /\ Cardinality(Below(S, x)) \in T
  <2>1. Below(S, x) \in SUBSET S /\ x \notin Below(S, x)
    BY DEF Below
  <2>2. /\ IsFiniteSet(Below(S, x)) /\ Cardinality(Below(S, x)) <= c
        /\ c = Cardinality(Below(S, x)) => S = Below(S, x)
    BY <2>1, FS_Subset
  <2>3. Cardinality(Below(S, x)) \in Nat
    BY <2>2, FS_CardinalityType
  <2> QED  BY <2>1, <2>2, <2>3, <1>1
<1>3. ASSUME NEW x \in S, NEW y \in S, x < y
      PROVE  Cardinality(Below(S, x)) # Cardinality(Below(S, y))
  <2>1. Below(S, x) \in SUBSET Below(S, y) /\ x \in Below(S, y) /\ x \notin Below(S, x)
    <3>1. x \in Nat /\ y \in Nat /\ \A z \in S : z < x => z < y
      BY <1>3
    <3>2. ~(x < x)
      BY <3>1
    <3> QED  BY <3>1, <3>2, <1>3, Zenon DEF Below
  <2>2. Cardinality(Below(S, x)) = Cardinality(Below(S, y)) => Below(S, y) = Below(S, x)
    BY <2>1, <1>2, FS_Subset
  <2> QED  BY <2>1, <2>2
<1>4. rank \in Injection(S, T)
  <2>1. rank \in [S -> T]
    BY <1>2
  <2>2. ASSUME NEW x \in S, NEW y \in S, rank[x] = rank[y] PROVE x = y
    <3>1. x \in Nat /\ y \in Nat /\ Cardinality(Below(S, x)) = Cardinality(Below(S, y))
      BY <2>2
    <3> QED  BY <3>1, <1>3
  <2> HIDE DEF rank, T
  <2> QED  BY <2>1, <2>2 DEF Injection, IsInjective
<1>5. IsFiniteSet(T) /\ Cardinality(T) = c
  <2>1. IsFiniteSet(T) /\ Cardinality(T) = IF 0 > c - 1 THEN 0 ELSE c - 1 - 0 + 1
    BY <1>1, FS_Interval
  <2> QED  BY <2>1, <1>1
<1>6. rank \in Surjection(S, T)
  <2> HIDE DEF rank, T
  <2> QED  BY <1>4, <1>5, FS_Injection
<1>7. ASSUME NEW k \in 1 .. c
      PROVE  Nth(S, k) \in S /\ Cardinality(Below(S, Nth(S, k))) = k - 1
  <2>1. k - 1 \in T
    BY <1>1
  <2> HIDE DEF T
  <2>2. PICK x \in S : rank[x] = k - 1
    <3> HIDE DEF rank
    <3> QED  BY <1>6, <2>1 DEF Surjection
  <2>3. Cardinality(Below(S, x)) = k - 1
    BY <2>2
  <2> QED  BY <2>3 DEF Nth, Below
<1>8. ASSUME NEW x \in S
      PROVE  /\ Cardinality(Below(S, x)) + 1 \in 1 .. c
             /\ x = Nth(S, Cardinality(Below(S, x)) + 1)
  <2>1. Cardinality(Below(S, x)) \in T
    BY <1>2
  <2> DEFINE k == Cardinality(Below(S, x)) + 1
             z == Nth(S, k)
  <2>2. k \in 1 .. c /\ k - 1 = Cardinality(Below(S, x))
    BY <2>1, <1>1
  <2> HIDE DEF k
  <2>3. z \in S /\ Cardinality(Below(S, z)) = Cardinality(Below(S, x))
    BY <2>2, <1>7
  <2> HIDE DEF z
  <2>4. x = z
    BY <2>3, <1>3
  <2> QED  BY <2>2, <2>4 DEF k, z
<1> QED  BY <1>1, <1>7, <1>8

\* A number above all others of a set comes after them.
LEMMA NthAdded ==
  ASSUME NEW S \in SUBSET Nat, IsFiniteSet(S), NEW x \in Nat, \A y \in S : y < x
  PROVE  /\ IsFiniteSet(S \cup {x}) /\ Cardinality(S \cup {x}) = Cardinality(S) + 1
         /\ Nth(S \cup {x}, Cardinality(S) + 1) = x
         /\ \A k \in 1 .. Cardinality(S) : Nth(S \cup {x}, k) = Nth(S, k)
<1> DEFINE T == S \cup {x}
<1>1. x \notin S
  OBVIOUS
<1>2. IsFiniteSet(T) /\ Cardinality(T) = Cardinality(S) + 1
  BY <1>1, FS_AddElement
<1>3. T \in SUBSET Nat
  OBVIOUS
<1>4. Below(T, x) = S
  <2>1. ~(x < x)
    OBVIOUS
  <2> QED  BY <2>1 DEF Below
<1>5. \A y \in S : Below(T, y) = Below(S, y)
  BY DEF Below
<1>6. x \in T /\ S \subseteq T
  OBVIOUS
<1> HIDE DEF T
<1>7. x = Nth(T, Cardinality(S) + 1)
  BY <1>2, <1>3, <1>4, <1>6, NthOf
<1>8. ASSUME NEW k \in 1 .. Cardinality(S) PROVE Nth(T, k) = Nth(S, k)
  <2> DEFINE z == Nth(S, k)
  <2>1. z \in S /\ Cardinality(Below(S, z)) = k - 1 /\ k \in Nat
    BY NthOf
  <2> HIDE DEF z
  <2>2. z = Nth(T, (k - 1) + 1)
    BY <2>1, <1>2, <1>3, <1>5, <1>6, NthOf
  <2>3. (k - 1) + 1 = k
    BY <2>1
  <2> QED  BY <2>2, <2>3 DEF z
<1> QED  BY <1>2, <1>7, <1>8 DEF T

-------------------------------------------------------------------------------
\* Folds: what FoldLeftDomain computes, one number at a time.

\* it is a fold over sets of the numbers up to m that takes the largest last.
Iterates(it, m, V, base, step) ==
  /\ it \in [SUBSET (1 .. m) -> V] /\ it[{}] = base
  /\ \A s \in SUBSET (1 .. m) : s # {} => it[s] = step[Max(s)][it[s \ {Max(s)}]]

\* Folding over 1 .. m from the smallest: there is such a function.
LEMMA Iterated ==
  ASSUME NEW m \in Nat, NEW V, NEW base \in V, NEW step \in [1 .. m -> [V -> V]]
  PROVE  \E it : Iterates(it, m, V, base, step)
<1> USE DEF Iterates
<1> DEFINE Good(g, j) == Iterates(g, j, V, base, step)
           Some == {j \in Nat : j <= m => \E g : Good(g, j)}
<1>1. \E g : Good(g, 0)
  <2> DEFINE g == [s \in SUBSET (1 .. 0) |-> base]
  <2>1. SUBSET (1 .. 0) = {{}}
    OBVIOUS
  <2>2. Good(g, 0)
    BY <2>1
  <2> HIDE DEF Good, g
  <2> QED  BY <2>2
<1>2. ASSUME NEW j \in Nat, j + 1 <= m, NEW g, Good(g, j) PROVE \E h : Good(h, j + 1)
  <2> DEFINE h == [s \in SUBSET (1 .. j + 1) |->
                     IF j + 1 \in s THEN step[j + 1][g[s \ {j + 1}]] ELSE g[s]]
  <2>1. ASSUME NEW s \in SUBSET (1 .. j + 1), j + 1 \in s
        PROVE  /\ s \ {j + 1} \in SUBSET (1 .. j) /\ s \ {j + 1} \in SUBSET (1 .. j + 1) /\ j + 1 \notin s \ {j + 1}
               /\ Max(s) = j + 1
    <3>1. \A x \in s : x \in Nat /\ x <= j + 1
      OBVIOUS
    <3>2. Max(s) = j + 1
      BY <3>1, <2>1, MaxIs
    <3>3. \A x \in s : x # j + 1 => x \in 1 .. j
      OBVIOUS
    <3> QED  BY <3>2, <3>3
  <2>2. ASSUME NEW s \in SUBSET (1 .. j + 1), j + 1 \notin s
        PROVE  s \in SUBSET (1 .. j)
    <3>1. \A x \in s : x \in 1 .. j
      BY <2>2
    <3> QED  BY <3>1
  <2>3. ASSUME NEW s \in SUBSET (1 .. j), s # {}
        PROVE  /\ Max(s) \in s /\ Max(s) \in 1 .. j /\ s \ {Max(s)} \in SUBSET (1 .. j)
               /\ s \ {Max(s)} \in SUBSET (1 .. j + 1) /\ j + 1 \notin s \ {Max(s)} /\ j + 1 \notin s
    <3>1. \A x \in s : x \in Nat /\ x <= j /\ x \in 1 .. j /\ x \in 1 .. j + 1 /\ x # j + 1
      OBVIOUS
    <3>2. Max(s) \in s
      BY <3>1, <2>3, MaxOf
    <3> QED  BY <3>1, <3>2
  <2>4. j + 1 \in 1 .. m
    BY <1>2
  <2>5. h \in [SUBSET (1 .. j + 1) -> V]
    <3>1. ASSUME NEW s \in SUBSET (1 .. j + 1) PROVE h[s] \in V
      <4>1. CASE j + 1 \in s
        <5>1. g[s \ {j + 1}] \in V
          BY <1>2, <2>1, <4>1
        <5> HIDE DEF Good
        <5> QED  BY <4>1, <5>1, <2>4
      <4>2. CASE j + 1 \notin s
        BY <1>2, <2>2, <4>2
      <4> QED  BY <4>1, <4>2
    <3>2. h = [s \in SUBSET (1 .. j + 1) |-> h[s]]
      OBVIOUS
    <3> HIDE DEF h, Good
    <3> QED  BY <3>1, <3>2
  <2>6. h[{}] = base
    <3>1. j + 1 \notin {} /\ {} \in SUBSET (1 .. j + 1)
      OBVIOUS
    <3>2. h[{}] = g[{}]
      BY <3>1
    <3> HIDE DEF h
    <3> QED  BY <3>2, <1>2
  <2>7. ASSUME NEW s \in SUBSET (1 .. j + 1), s # {}
        PROVE  h[s] = step[Max(s)][h[s \ {Max(s)}]]
    <3>1. CASE j + 1 \in s
      <4>1. h[s] = step[j + 1][g[s \ {j + 1}]]
        BY <3>1
      <4>2. h[s \ {j + 1}] = g[s \ {j + 1}]
        BY <3>1, <2>1
      <4> HIDE DEF h
      <4> QED  BY <4>1, <4>2, <3>1, <2>1
    <3>2. CASE j + 1 \notin s
      <4>1. s \in SUBSET (1 .. j)
        BY <3>2, <2>2
      <4>2. h[s] = g[s]
        BY <3>2
      <4>3. h[s \ {Max(s)}] = g[s \ {Max(s)}]
        BY <4>1, <2>3, <2>7
      <4>4. g[s] = step[Max(s)][g[s \ {Max(s)}]]
        BY <4>1, <2>7, <1>2
      <4> HIDE DEF h, Good
      <4> QED  BY <4>2, <4>3, <4>4
    <3> QED  BY <3>1, <3>2
  <2> HIDE DEF h
  <2>8. Good(h, j + 1)
    BY <2>5, <2>6, <2>7
  <2> QED  BY <2>8
<1> HIDE DEF Good
<1>3. Some = Nat
  <2>1. 0 \in Some
    BY <1>1
  <2>2. ASSUME NEW j \in Some PROVE j + 1 \in Some
    <3>1. CASE j + 1 <= m
      <4>1. PICK g : Good(g, j)
        BY <3>1
      <4> QED  BY <3>1, <4>1, <1>2
    <3> QED  BY <3>1
  <2>3. Some \in SUBSET Nat
    OBVIOUS
  <2> HIDE DEF Some
  <2> QED  BY <2>1, <2>2, <2>3, Induct
<1>4. PICK g : Good(g, m)
  <2>1. m <= m
    OBVIOUS
  <2>2. m \in Some
    <3> HIDE DEF Some
    <3> QED  BY <1>3
  <2> QED  BY <2>1, <2>2
<1> QED  BY <1>4 DEF Good

\* The largest of the numbers up to k + 1 is the one that was added.
LEMMA UpTo ==
  ASSUME NEW k \in Nat
  PROVE  Max(1 .. k + 1) = k + 1 /\ (1 .. k + 1) \ {k + 1} = 1 .. k
<1>1. \A x \in 1 .. k + 1 : x <= k + 1
  OBVIOUS
<1>2. Max(1 .. k + 1) = k + 1
  BY <1>1, MaxIs
<1> QED  BY <1>2

\* What the loop of voy_str_split_by_char starts with.
Start == [buf |-> <<>>, parts |-> <<>>, top |-> 0]

\* The loop of voy_str_split_by_char is a turn after the other, from the left.
LEMMA FoldedTurns ==
  ASSUME NEW A, NEW s \in Seq(A), NEW d,
         NEW V, Start \in V, \A v \in V : \A k \in DOMAIN s : SplitTurn(s, d, k, v) \in V
  PROVE  \E F \in [0 .. Len(s) -> V] :
           /\ F[0] = Start
           /\ \A k \in 0 .. Len(s) - 1 : F[k + 1] = SplitTurn(s, d, k + 1, F[k])
           /\ F[Len(s)] = SplitLoop(s, d)
<1> DEFINE m == Len(s)
           idx == [k \in DOMAIN s |-> k]
           D == DOMAIN idx
           P(it) == it = [u \in SUBSET D |-> IF u = {} THEN Start ELSE LET x == Max(u) IN SplitTurn(s, d, idx[x], it[u \ {x}])]
           iter == CHOOSE it : P(it)
           step == [k \in 1 .. m |-> [v \in V |-> SplitTurn(s, d, k, v)]]
<1>1. m \in Nat /\ D = 1 .. m
  OBVIOUS
<1>2. SplitLoop(s, d) = iter[D]
  BY Zenon DEF SplitLoop, FoldLeftDomain, FoldLeft, MapThenFoldSet, Start
<1>3. step \in [1 .. m -> [V -> V]]
  BY <1>1
<1> HIDE DEF m
<1>4. PICK it : Iterates(it, m, V, Start, step)
  <2> HIDE DEF step
  <2> QED  BY <1>1, <1>3, Iterated
<1>5. \A u \in SUBSET (1 .. m) : u # {} => Max(u) \in 1 .. m /\ u \ {Max(u)} \in SUBSET (1 .. m)
  <2> SUFFICES ASSUME NEW u \in SUBSET (1 .. m), u # {} PROVE Max(u) \in u
    OBVIOUS
  <2>1. \A x \in u : x \in Nat /\ x <= m
    BY <1>1
  <2> QED  BY <2>1, <1>1, MaxOf
<1>6. \A u \in SUBSET (1 .. m) : u # {} => idx[Max(u)] = Max(u)
  BY <1>1, <1>5
<1>7. ASSUME NEW u \in SUBSET (1 .. m), u # {} PROVE it[u] = SplitTurn(s, d, Max(u), it[u \ {Max(u)}])
  <2>1. it[u] = step[Max(u)][it[u \ {Max(u)}]]
    BY <1>4, <1>7 DEF Iterates
  <2>2. it[u \ {Max(u)}] \in V /\ Max(u) \in 1 .. m
    BY <1>4, <1>5, <1>7 DEF Iterates
  <2> QED  BY <2>1, <2>2
<1>8. P(it)
  <2>1. it = [u \in SUBSET (1 .. m) |-> it[u]]
    BY <1>4 DEF Iterates
  <2>2. \A u \in SUBSET (1 .. m) : it[u] = IF u = {} THEN Start ELSE SplitTurn(s, d, Max(u), it[u \ {Max(u)}])
    BY <1>4, <1>7 DEF Iterates
  <2>3. it = [u \in SUBSET (1 .. m) |->
                IF u = {} THEN Start ELSE SplitTurn(s, d, idx[Max(u)], it[u \ {Max(u)}])]
    <3> HIDE DEF idx
    <3> QED  BY <2>1, <2>2, <1>6
  <2> HIDE DEF D, idx
  <2> QED  BY <2>3, <1>1
<1>9. P(iter)
  <2> HIDE DEF P
  <2> QED  BY <1>8
<1>10. iter = [u \in SUBSET (1 .. m) |-> IF u = {} THEN Start ELSE SplitTurn(s, d, Max(u), iter[u \ {Max(u)}])]
  <2> HIDE DEF iter, idx
  <2>1. iter = [u \in SUBSET (1 .. m) |->
                  IF u = {} THEN Start ELSE SplitTurn(s, d, idx[Max(u)], iter[u \ {Max(u)}])]
    BY <1>1, <1>9
  <2> QED  BY <2>1, <1>6
<1> HIDE DEF iter, P, D, idx
<1>11. iter[1 .. 0] = Start
  BY <1>10
<1>12. ASSUME NEW k \in 0 .. m - 1 PROVE iter[1 .. k + 1] = SplitTurn(s, d, k + 1, iter[1 .. k])
  <2>1. k \in Nat /\ k + 1 \in 1 .. k + 1 /\ \A x \in 1 .. k + 1 : x \in 1 .. m
    BY <1>1
  <2>2. Max(1 .. k + 1) = k + 1 /\ (1 .. k + 1) \ {k + 1} = 1 .. k
    BY <2>1, UpTo
  <2> QED  BY <1>10, <2>1, <2>2
<1>13. ASSUME NEW j \in 0 .. m PROVE iter[1 .. j] \in V
  <2> DEFINE S == {k \in Nat : k <= m => iter[1 .. k] \in V}
  <2>1. 0 \in S
    BY <1>11
  <2>2. ASSUME NEW k \in S PROVE k + 1 \in S
    <3>1. CASE k + 1 <= m
      <4>1. k \in 0 .. m - 1 /\ iter[1 .. k] \in V /\ k + 1 \in 1 .. m
        BY <3>1, <1>1
      <4>2. SplitTurn(s, d, k + 1, iter[1 .. k]) \in V
        BY <4>1, <1>1 DEF D, idx
      <4> QED  BY <4>1, <4>2, <1>12
    <3> QED  BY <3>1
  <2>3. S \in SUBSET Nat
    OBVIOUS
  <2> HIDE DEF S
  <2>4. S = Nat
    BY <2>1, <2>2, <2>3, Induct
  <2> QED  BY <2>4, <1>1 DEF S
<1> DEFINE F == [k \in 0 .. m |-> iter[1 .. k]]
<1>14. F \in [0 .. m -> V] /\ F[0] = Start
  BY <1>1, <1>11, <1>13
<1>15. \A k \in 0 .. m - 1 : F[k + 1] = SplitTurn(s, d, k + 1, F[k])
  BY <1>1, <1>12
<1>16. F[m] = SplitLoop(s, d)
  BY <1>1, <1>2
<1> HIDE DEF F
<1> QED  BY <1>14, <1>15, <1>16 DEF m

-------------------------------------------------------------------------------
\* Pieces of a text.

\* What SubSeq takes.
LEMMA Sub ==
  ASSUME NEW A, NEW s \in Seq(A), NEW i \in 1 .. Len(s) + 1, NEW j \in Int, j <= Len(s)
  PROVE  /\ SubSeq(s, i, j) \in Seq(A)
         /\ Len(SubSeq(s, i, j)) = IF i <= j THEN j - i + 1 ELSE 0
         /\ \A k \in 1 .. j - i + 1 : SubSeq(s, i, j)[k] = s[i + k - 1]
OBVIOUS

\* The characters of s that are no white space.
Black(s) == {k \in DOMAIN s : s[k] # Space}

\* The first and the last of them.
LEMMA BlackEnds ==
  ASSUME NEW A, NEW s \in Seq(A), Black(s) # {}
  PROVE  /\ Min(Black(s)) \in 1 .. Len(s) /\ Max(Black(s)) \in 1 .. Len(s)
         /\ s[Min(Black(s))] # Space /\ s[Max(Black(s))] # Space
         /\ \A k \in 1 .. Len(s) : s[k] # Space => Min(Black(s)) <= k /\ k <= Max(Black(s))
<1> DEFINE B == Black(s)
<1>1. B \in SUBSET Nat /\ Len(s) \in Nat /\ B \subseteq 1 .. Len(s) /\ \A y \in B : y <= Len(s)
  BY DEF Black
<1>2. \A k \in 1 .. Len(s) : k \in B <=> s[k] # Space
  BY DEF Black
<1> HIDE DEF B
<1>3. Min(B) \in B /\ \A y \in B : Min(B) <= y
  BY <1>1, MinOf DEF B
<1>4. Max(B) \in B /\ \A y \in B : Max(B) >= y
  BY <1>1, MaxOf DEF B
<1>5. Max(B) \in Nat /\ \A y \in B : y <= Max(B)
  BY <1>1, <1>4
<1> QED  BY <1>1, <1>2, <1>3, <1>4, <1>5 DEF B

\* What splitting gives: texts, and how many there are.
LEMMA SplitText ==
  ASSUME NEW A, NEW s \in Seq(A), NEW d
  PROVE  /\ Split(s, d) \in Seq(Seq(A))
         /\ s # <<>> => Len(Split(s, d)) >= 1
         /\ s # <<>> /\ (\A k \in 1 .. Len(s) - 1 : s[k] # d) => Split(s, d) = <<s>>
         /\ (\E k \in 1 .. Len(s) - 1 : s[k] = d) => Len(Split(s, d)) >= 2
<1>1. CASE s = <<>>
  BY <1>1 DEF Split
<1>2. CASE s # <<>>
  <2> DEFINE cuts == {k \in 1 .. Len(s) - 1 : s[k] = d}
             from == {0} \cup cuts
             to   == cuts \cup {Len(s) + 1}
             c    == Cardinality(cuts)
             part(k) == SubSeq(s, Nth(from, k) + 1, Nth(to, k) - 1)
  <2>1. Split(s, d) = [k \in 1 .. Cardinality(from) |-> part(k)]
    BY <1>2 DEF Split
  <2>2. Len(s) \in Nat /\ Len(s) >= 1
    BY <1>2
  <2>3. cuts \in SUBSET (1 .. Len(s) - 1) /\ cuts \in SUBSET Nat /\ 0 \notin cuts /\ Len(s) + 1 \notin cuts
    BY <2>2
  <2>4. IsFiniteSet(cuts) /\ c \in Nat
    <3>1. IsFiniteSet(1 .. Len(s) - 1)
      BY <2>2, FS_Interval
    <3> QED  BY <3>1, <2>3, FS_Subset, FS_CardinalityType
  <2>5. /\ IsFiniteSet(from) /\ Cardinality(from) = c + 1
        /\ IsFiniteSet(to) /\ Cardinality(to) = c + 1
    <3> DEFINE l == Len(s) + 1
    <3>1. l \notin cuts
      BY <2>3
    <3> HIDE DEF cuts, l
    <3>2. IsFiniteSet(cuts \cup {0}) /\ Cardinality(cuts \cup {0}) = c + 1
      BY <2>3, <2>4, FS_AddElement
    <3>3. IsFiniteSet(cuts \cup {l}) /\ Cardinality(cuts \cup {l}) = c + 1
      BY <3>1, <2>4, FS_AddElement
    <3>4. from = cuts \cup {0}
      OBVIOUS
    <3> QED  BY <3>2, <3>3, <3>4 DEF l
  <2> HIDE DEF c
  <2>6. ASSUME NEW k \in 1 .. c + 1 PROVE part(k) \in Seq(A)
    <3>1. from \in SUBSET Nat /\ to \in SUBSET Nat
      BY <2>2, <2>3
    <3>2. Nth(from, k) \in from /\ Nth(to, k) \in to
      <4> HIDE DEF from, to
      <4> QED  BY <3>1, <2>5, NthOf
    <3> DEFINE i == Nth(from, k)
               j == Nth(to, k)
    <3> HIDE DEF i, j
    <3>3. i \in 0 .. Len(s) - 1 /\ j \in 1 .. Len(s) + 1
      <4>1. i \in from /\ j \in to
        BY <3>2 DEF i, j
      <4> QED  BY <4>1, <2>2, <2>3
    <3>4. i + 1 \in 1 .. Len(s) + 1 /\ j - 1 \in Int /\ j - 1 <= Len(s)
      BY <3>3, <2>2
    <3>5. SubSeq(s, i + 1, j - 1) \in Seq(A)
      BY <3>4, Sub
    <3> QED  BY <3>5 DEF i, j
  <2> DEFINE p == Split(s, d)
  <2>7. p = [k \in 1 .. c + 1 |-> part(k)]
    BY <2>1, <2>5
  <2> HIDE DEF p, part
  <2>8. p \in Seq(Seq(A)) /\ Len(p) = c + 1
    BY <2>4, <2>6, <2>7
  <2>9. ASSUME \A k \in 1 .. Len(s) - 1 : s[k] # d PROVE p = <<s>>
    <3>1. cuts = {}
      BY <2>9
    <3>2. c = 0
      BY <3>1, FS_EmptySet DEF c
    <3>3. from = {0} /\ to = {Len(s) + 1}
      BY <3>1
    <3>4. Nth(from, 1) = 0 /\ Nth(to, 1) = Len(s) + 1
      <4> HIDE DEF from, to, cuts
      <4>1. 1 \in 1 .. c + 1 /\ from \in SUBSET Nat /\ to \in SUBSET Nat
        BY <3>2, <3>3, <2>2
      <4>2. Nth(from, 1) \in from /\ Nth(to, 1) \in to
        BY <4>1, <2>5, NthOf
      <4> QED  BY <4>2, <3>3
    <3>5. part(1) = SubSeq(s, 0 + 1, (Len(s) + 1) - 1)
      BY <3>4 DEF part
    <3>6. SubSeq(s, 0 + 1, (Len(s) + 1) - 1) = s
      BY <2>2
    <3>7. p = [k \in 1 .. 1 |-> part(k)]
      BY <2>7, <3>2
    <3> QED  BY <3>5, <3>6, <3>7
  <2>10. ASSUME NEW k \in 1 .. Len(s) - 1, s[k] = d PROVE Len(p) >= 2
    <3>1. k \in cuts
      BY <2>10
    <3>2. c # 0
      <4> HIDE DEF cuts
      <4> QED  BY <3>1, <2>4, FS_EmptySet DEF c
    <3> QED  BY <3>2, <2>4, <2>8
  <2> QED  BY <1>2, <2>4, <2>8, <2>9, <2>10 DEF p
<1> QED  BY <1>1, <1>2

\* What a text is made of.
Characters == Chars \cup {Space}

\* They are sequences of characters, and all that are not too long.
LEMMA TextsAre ==
  /\ \A t \in Texts : t \in Seq(Characters) /\ Len(t) \in Nat /\ Len(t) <= MaxText
  /\ \A t \in Seq(Characters) : Len(t) <= MaxText => t \in Texts
<1>1. ASSUME NEW t \in Texts PROVE t \in Seq(Characters) /\ Len(t) \in Nat /\ Len(t) <= MaxText
  <2>1. PICK m \in 0 .. MaxText : t \in [1 .. m -> Characters]
    BY DEF Texts, BoundedSeq, SeqOf, Characters
  <2>2. m \in Nat /\ m <= MaxText
    BY MaxTextAssumption
  <2> QED  BY <2>1, <2>2
<1>2. ASSUME NEW t \in Seq(Characters), Len(t) <= MaxText PROVE t \in Texts
  <2>1. Len(t) \in 0 .. MaxText /\ t \in [1 .. Len(t) -> Characters]
    BY <1>2, MaxTextAssumption
  <2> QED  BY <2>1 DEF Texts, BoundedSeq, SeqOf, Characters
<1> QED  BY <1>1, <1>2

-------------------------------------------------------------------------------
\* The loop of voy_str_split_by_char.

\* The delimiters the first k turns cut at.
Cuts(s, d, k) == {j \in 1 .. k : j < Len(s) /\ s[j] = d}

\* The j-th part that was cut off, and where the part that is not yet starts.
PartAt(s, C, j) == SubSeq(s, Nth({0} \cup C, j) + 1, Nth(C, j) - 1)
LastCut(C)      == Nth({0} \cup C, Cardinality(C) + 1)

\* What the loop holds after k turns.
AfterTurn(s, d, k, loop) ==
  /\ loop.buf = SubSeq(s, LastCut(Cuts(s, d, k)) + 1, k)
  /\ loop.parts = [j \in 1 .. Cardinality(Cuts(s, d, k)) |-> PartAt(s, Cuts(s, d, k), j)]
  /\ loop.top \in Nat /\ loop.top <= k
  /\ Cuts(s, d, k) = {} => loop.top = 0

\* What the loop may hold.
Loops(A) == [buf : Seq(A), parts : Seq(Seq(A)), top : Nat]

\* A turn leaves a buffer and parts of the characters of the text.
LEMMA TurnTyped ==
  ASSUME NEW A, NEW s \in Seq(A), NEW d, NEW k \in DOMAIN s, NEW loop \in Loops(A)
  PROVE  SplitTurn(s, d, k, loop) \in Loops(A)
<1> DEFINE last == k = Len(s)
           buf  == IF s[k] = d /\ ~last THEN loop.buf ELSE Append(loop.buf, s[k])
           top  == Max({loop.top, Len(buf)})
           none == Piece(buf)
<1>1. loop.buf \in Seq(A) /\ loop.parts \in Seq(Seq(A)) /\ loop.top \in Nat
  BY DEF Loops
<1>2. s[k] \in A
  OBVIOUS
<1>3. buf \in Seq(A)
  BY <1>1, <1>2
<1>4. none \in Seq(A)
  BY DEF Piece
<1>5. SplitTurn(s, d, k, loop) =
        IF s[k] = d \/ last THEN [buf |-> none, parts |-> Append(loop.parts, buf), top |-> top]
        ELSE [loop EXCEPT !.buf = buf]
  BY DEF SplitTurn
<1> HIDE DEF last, buf, none
<1>6. Len(buf) \in Nat
  BY <1>3
<1>7. top \in Nat
  BY <1>1, <1>6, MaxOfTwo
<1> HIDE DEF top
<1>8. Append(loop.parts, buf) \in Seq(Seq(A))
  BY <1>1, <1>3
<1> DEFINE grown == Append(loop.parts, buf)
<1> HIDE DEF grown
<1>9. [buf |-> none, parts |-> grown, top |-> top] \in Loops(A)
  BY <1>4, <1>7, <1>8 DEF Loops, grown
<1>10. [loop EXCEPT !.buf = buf] \in Loops(A)
  BY <1>3 DEF Loops
<1> QED  BY <1>5, <1>9, <1>10 DEF grown

\* Where the cuts are.
LEMMA CutsOf ==
  ASSUME NEW A, NEW s \in Seq(A), NEW d, NEW k \in 0 .. Len(s)
  PROVE  LET C == Cuts(s, d, k)
         IN  /\ C \in SUBSET Nat /\ IsFiniteSet(C) /\ Cardinality(C) \in Nat
             /\ \A j \in C : 1 <= j /\ j <= k /\ j < Len(s)
             /\ {0} \cup C \in SUBSET Nat /\ IsFiniteSet({0} \cup C)
             /\ Cardinality({0} \cup C) = Cardinality(C) + 1
             /\ LastCut(C) \in {0} \cup C
             /\ C # {} => LastCut(C) # 0
             /\ C = {} => LastCut(C) = 0 /\ Cardinality(C) = 0
<1> DEFINE C == Cuts(s, d, k)
           Z == {0} \cup C
<1>1. C \in SUBSET Nat /\ C \subseteq 1 .. k /\ 0 \notin C /\ \A j \in C : 1 <= j /\ j <= k /\ j < Len(s)
  BY DEF Cuts
<1>2. IsFiniteSet(C) /\ Cardinality(C) \in Nat
  <2>1. IsFiniteSet(1 .. k)
    BY FS_Interval
  <2> HIDE DEF C
  <2> QED  BY <1>1, <2>1, FS_Subset, FS_CardinalityType
<1>3. Z \in SUBSET Nat /\ IsFiniteSet(Z) /\ Cardinality(Z) = Cardinality(C) + 1
  <2> HIDE DEF C
  <2>1. IsFiniteSet(C \cup {0}) /\ Cardinality(C \cup {0}) = Cardinality(C) + 1
    BY <1>1, <1>2, FS_AddElement
  <2>2. Z = C \cup {0} /\ Z \in SUBSET Nat
    BY <1>1
  <2> QED  BY <2>1, <2>2
<1> DEFINE c == Cardinality(C)
           z == Nth(Z, c + 1)
<1>4. LastCut(C) = z
  BY DEF LastCut
<1>5. z \in Z /\ Cardinality(Below(Z, z)) = c
  <2>1. c + 1 \in 1 .. Cardinality(Z) /\ (c + 1) - 1 = c
    BY <1>2, <1>3
  <2> HIDE DEF Z, c
  <2>2. z \in Z /\ Cardinality(Below(Z, z)) = (c + 1) - 1
    BY <1>3, <2>1, NthOf
  <2> QED  BY <2>1, <2>2
<1>6. ASSUME C # {} PROVE z # 0
  <2> SUFFICES ASSUME z = 0 PROVE FALSE
    OBVIOUS
  <2>1. Below(Z, 0) = {}
    BY <1>1 DEF Below
  <2>2. c = 0
    BY <1>5, <2>1, FS_EmptySet
  <2> HIDE DEF C
  <2> QED  BY <1>2, <1>6, <2>2, FS_EmptySet DEF c
<1>7. ASSUME C = {} PROVE z = 0 /\ c = 0
  <2>1. Z = {0}
    BY <1>7
  <2> HIDE DEF z
  <2> QED  BY <1>5, <1>7, <2>1, FS_EmptySet
<1> HIDE DEF C, z
<1> QED  BY <1>1, <1>2, <1>3, <1>4, <1>5, <1>6, <1>7 DEF C

\* One more character of a part.
LEMMA Longer ==
  ASSUME NEW A, NEW s \in Seq(A), NEW a \in 1 .. Len(s), NEW k \in 0 .. Len(s) - 1, a <= k + 1
  PROVE  /\ SubSeq(s, a, k) \in Seq(A) /\ Len(SubSeq(s, a, k)) = k - a + 1
         /\ Append(SubSeq(s, a, k), s[k + 1]) = SubSeq(s, a, k + 1)
         /\ SubSeq(s, k + 2, k + 1) = <<>>
<1>1. /\ Len(s) \in Nat /\ a \in Nat /\ k \in Nat /\ k + 1 \in 1 .. Len(s) /\ s[k + 1] \in A
      /\ a \in 1 .. Len(s) + 1
  OBVIOUS
<1> DEFINE t == SubSeq(s, a, k)
           u == SubSeq(s, a, k + 1)
           v == Append(t, s[k + 1])
<1>2. t \in Seq(A) /\ Len(t) = k - a + 1 /\ \A i \in 1 .. k - a + 1 : t[i] = s[a + i - 1]
  <2>1. Len(t) = IF a <= k THEN k - a + 1 ELSE 0
    BY <1>1, Sub
  <2>2. Len(t) = k - a + 1
    BY <1>1, <2>1
  <2> QED  BY <1>1, <2>2, Sub
<1>3. u \in Seq(A) /\ Len(u) = k - a + 2 /\ \A i \in 1 .. k - a + 2 : u[i] = s[a + i - 1]
  BY <1>1, Sub
<1> HIDE DEF t, u
<1>4. /\ v \in Seq(A) /\ Len(v) = k - a + 2 /\ v[k - a + 2] = s[k + 1]
      /\ \A i \in 1 .. k - a + 1 : v[i] = t[i]
  BY <1>1, <1>2
<1>5. \A i \in 1 .. k - a + 2 : v[i] = u[i]
  <2> SUFFICES ASSUME NEW i \in 1 .. k - a + 2 PROVE v[i] = u[i]
    OBVIOUS
  <2> HIDE DEF v
  <2>1. CASE i = k - a + 2
    <3>1. a + i - 1 = k + 1
      BY <1>1, <2>1
    <3> QED  BY <1>3, <1>4, <2>1, <3>1
  <2>2. CASE i # k - a + 2
    <3>1. i \in 1 .. k - a + 1
      BY <1>1, <2>2
    <3> QED  BY <1>2, <1>3, <1>4, <3>1
  <2> QED  BY <2>1, <2>2
<1>6. v = u
  <2> HIDE DEF v
  <2> QED  BY <1>3, <1>4, <1>5, SeqEqual
<1>7. SubSeq(s, k + 2, k + 1) = <<>>
  BY <1>1
<1> QED  BY <1>2, <1>6, <1>7 DEF t, u

\* What a sequence is with one more.
LEMMA Pushed ==
  ASSUME NEW B, NEW c \in Nat, NEW q \in Seq(B), DOMAIN q = 1 .. c, NEW p \in B
  PROVE  Append(q, p) = [j \in 1 .. c + 1 |-> IF j = c + 1 THEN p ELSE q[j]]
<1>1. Len(q) = c
  OBVIOUS
<1> DEFINE t == Append(q, p)
<1>2. t \in Seq(B) /\ Len(t) = c + 1 /\ t[c + 1] = p /\ \A j \in 1 .. c : t[j] = q[j]
  BY <1>1
<1> HIDE DEF t
<1>3. t = [j \in 1 .. c + 1 |-> t[j]]
  BY <1>2
<1>4. \A j \in 1 .. c + 1 : t[j] = IF j = c + 1 THEN p ELSE q[j]
  <2>1. \A j \in 1 .. c + 1 : j = c + 1 \/ j \in 1 .. c
    OBVIOUS
  <2> QED  BY <1>2, <2>1
<1> QED  BY <1>3, <1>4 DEF t

\* A turn before the last one.
LEMMA TurnDone ==
  ASSUME NEW A, NEW s \in Seq(A), NEW d, NEW k \in 0 .. Len(s) - 1, k + 1 < Len(s),
         NEW loop \in Loops(A), AfterTurn(s, d, k, loop)
  PROVE  AfterTurn(s, d, k + 1, SplitTurn(s, d, k + 1, loop))
<1> DEFINE C == Cuts(s, d, k)
           D == Cuts(s, d, k + 1)
           c == Cardinality(C)
           l == k + 1
           a == LastCut(C) + 1
           new == SplitTurn(s, d, l, loop)
<1>1. /\ Len(s) \in Nat /\ k \in Nat /\ l \in Nat /\ l \in 0 .. Len(s) /\ k \in 0 .. Len(s) /\ l # Len(s) /\ l < Len(s)
      /\ 1 .. l = (1 .. k) \cup {l} /\ l > 0
  OBVIOUS
<1>2. D = IF s[l] = d THEN C \cup {l} ELSE C
  BY <1>1 DEF Cuts
<1>3. /\ C \in SUBSET Nat /\ IsFiniteSet(C) /\ c \in Nat
      /\ \A j \in C : 1 <= j /\ j <= k
      /\ {0} \cup C \in SUBSET Nat /\ IsFiniteSet({0} \cup C) /\ Cardinality({0} \cup C) = c + 1
      /\ LastCut(C) \in {0} \cup C
      /\ C = {} => LastCut(C) = 0
  BY <1>1, CutsOf
<1>4. /\ loop.buf = SubSeq(s, a, k) /\ loop.parts = [j \in 1 .. c |-> PartAt(s, C, j)]
      /\ loop.top \in Nat /\ loop.top <= k /\ (C = {} => loop.top = 0)
  BY DEF AfterTurn
<1>5. a \in 1 .. Len(s) /\ a <= k + 1
  <2>1. LastCut(C) \in Nat /\ LastCut(C) <= k
    BY <1>1, <1>3
  <2> HIDE DEF C
  <2> QED  BY <1>1, <2>1
<1>6. /\ SubSeq(s, a, k) \in Seq(A) /\ Len(SubSeq(s, a, k)) = k - a + 1
      /\ Append(SubSeq(s, a, k), s[l]) = SubSeq(s, a, l)
      /\ SubSeq(s, l + 1, l) = <<>>
  <2> HIDE DEF a
  <2>1. /\ SubSeq(s, a, k) \in Seq(A) /\ Len(SubSeq(s, a, k)) = k - a + 1
        /\ Append(SubSeq(s, a, k), s[k + 1]) = SubSeq(s, a, k + 1)
        /\ SubSeq(s, k + 2, k + 1) = <<>>
    BY <1>5, Longer
  <2>2. l + 1 = k + 2
    BY <1>1
  <2> QED  BY <2>1, <2>2
<1>7. CASE s[l] = d
  <2> DEFINE p == SubSeq(s, a, k)
  <2>1. new = [buf |-> <<>>, parts |-> Append(loop.parts, p), top |-> Max({loop.top, Len(p)})]
    <3> HIDE DEF a, p
    <3>1. loop.buf = p
      BY <1>4 DEF p
    <3> HIDE DEF l
    <3> QED  BY <1>1, <1>7, <3>1 DEF SplitTurn, Piece
  <2>2. D = C \cup {l}
    BY <1>2, <1>7
  <2>3. \A y \in C : y < l
    BY <1>1, <1>3
  <2>4. \A y \in {0} \cup C : y < l
    BY <1>1, <2>3
  <2> HIDE DEF C, D, l, c, p
  <2>5. /\ Cardinality(D) = c + 1 /\ Nth(D, c + 1) = l
        /\ \A j \in 1 .. c : Nth(D, j) = Nth(C, j)
    BY <1>1, <1>3, <2>2, <2>3, NthAdded DEF c
  <2> DEFINE Z == {0} \cup C
  <2>6. Z \cup {l} = {0} \cup D
    BY <2>2
  <2>7. Z \in SUBSET Nat /\ IsFiniteSet(Z) /\ Cardinality(Z) = c + 1 /\ \A y \in Z : y < l
    BY <1>3, <2>4
  <2> HIDE DEF Z
  <2>8. Nth(Z \cup {l}, Cardinality(Z) + 1) = l /\ \A j \in 1 .. Cardinality(Z) : Nth(Z \cup {l}, j) = Nth(Z, j)
    BY <1>1, <2>7, NthAdded
  <2>9. Nth({0} \cup D, Cardinality(D) + 1) = l /\ \A j \in 1 .. c + 1 : Nth({0} \cup D, j) = Nth({0} \cup C, j)
    BY <2>5, <2>6, <2>7, <2>8 DEF Z
  <2>10. LastCut(D) = l
    BY <2>9 DEF LastCut
  <2>11. \A j \in 1 .. c : PartAt(s, D, j) = PartAt(s, C, j)
    <3>1. \A j \in 1 .. c : j \in 1 .. c + 1
      BY <1>3
    <3> QED  BY <2>5, <2>9, <3>1 DEF PartAt
  <2>12. PartAt(s, D, c + 1) = p
    <3>1. c + 1 \in 1 .. c + 1 /\ l - 1 = k
      BY <1>1, <1>3 DEF l
    <3>2. Nth({0} \cup D, c + 1) = LastCut(C)
      BY <2>9, <3>1 DEF LastCut, c
    <3> QED  BY <2>5, <3>1, <3>2 DEF PartAt, p
  <2> DEFINE q == [j \in 1 .. c |-> PartAt(s, C, j)]
             r == [j \in 1 .. c + 1 |-> PartAt(s, D, j)]
  <2>13. loop.parts = q /\ loop.parts \in Seq(Seq(A)) /\ p \in Seq(A)
    BY <1>4, <1>6 DEF Loops, p
  <2>14. Append(q, p) = r
    <3>1. DOMAIN q = 1 .. c /\ \A j \in 1 .. c : q[j] = PartAt(s, C, j)
      OBVIOUS
    <3>2. q \in Seq(Seq(A))
      BY <2>13
    <3> HIDE DEF q
    <3>3. Append(q, p) = [j \in 1 .. c + 1 |-> IF j = c + 1 THEN p ELSE q[j]]
      BY <1>3, <2>13, <3>1, <3>2, Pushed
    <3>4. \A j \in 1 .. c + 1 : j = c + 1 \/ j \in 1 .. c
      BY <1>3
    <3>5. \A j \in 1 .. c + 1 : PartAt(s, D, j) = IF j = c + 1 THEN p ELSE q[j]
      BY <2>11, <2>12, <3>1, <3>4
    <3> QED  BY <3>3, <3>5
  <2>15. Len(p) = k - a + 1 /\ Len(p) \in Nat /\ Len(p) <= k
    <3>1. Len(p) = k - a + 1
      BY <1>6 DEF p
    <3> HIDE DEF a
    <3> QED  BY <1>1, <1>5, <3>1
  <2> DEFINE top == Max({loop.top, Len(p)})
  <2>16. top \in Nat /\ top <= l
    <3> DEFINE u == loop.top
               w == Len(p)
    <3>1. u \in Nat /\ w \in Nat /\ u <= k /\ w <= k /\ k <= l
      BY <1>1, <1>4, <2>15 DEF l
    <3> HIDE DEF u, w
    <3>2. Max({u, w}) \in {u, w}
      BY <3>1, MaxOfTwo
    <3>3. Max({u, w}) \in Nat /\ Max({u, w}) <= l
      BY <1>1, <3>1, <3>2
    <3> QED  BY <3>3 DEF u, w
  <2> HIDE DEF top, q
  <2>17. new.buf = <<>> /\ new.parts = r /\ new.top = top
    BY <2>1, <2>13, <2>14 DEF top
  <2> HIDE DEF new, r
  <2>18. l \in D /\ <<>> = SubSeq(s, LastCut(D) + 1, l)
    BY <1>6, <2>2, <2>10
  <2>19. AfterTurn(s, d, l, new)
    BY <2>5, <2>16, <2>17, <2>18 DEF AfterTurn, D, r, l
  <2> QED  BY <2>19 DEF new, l
<1>8. CASE s[l] # d
  <2>1. new = [loop EXCEPT !.buf = SubSeq(s, a, l)]
    <3> HIDE DEF a
    <3> DEFINE p == SubSeq(s, a, l)
    <3>1. Append(loop.buf, s[l]) = p
      BY <1>4, <1>6
    <3> HIDE DEF l, p
    <3>2. new = [loop EXCEPT !.buf = Append(loop.buf, s[l])]
      BY <1>1, <1>8 DEF SplitTurn
    <3> QED  BY <3>1, <3>2 DEF p
  <2>2. D = C
    BY <1>2, <1>8
  <2> DEFINE p == SubSeq(s, a, l)
  <2> HIDE DEF C, D, l, p
  <2>3. new.buf = p /\ new.parts = loop.parts /\ new.top = loop.top
    BY <2>1 DEF Loops, p
  <2>4. loop.top <= l
    BY <1>1, <1>4 DEF l
  <2> HIDE DEF new
  <2>5. AfterTurn(s, d, l, new)
    BY <1>4, <2>2, <2>3, <2>4 DEF AfterTurn, D, C, l, p, c
  <2> QED  BY <2>5 DEF new, l
<1> QED  BY <1>7, <1>8

\* The last turn takes what is left.
LEMMA LastTurn ==
  ASSUME NEW A, NEW s \in Seq(A), NEW d, NEW k \in Nat, k + 1 = Len(s),
         NEW loop \in Loops(A), AfterTurn(s, d, k, loop)
  PROVE  LET new == SplitTurn(s, d, k + 1, loop)
         IN  /\ new.parts = Split(s, d)
             /\ new.top >= Len(s) <=> Cuts(s, d, k) = {}
<1> DEFINE C == Cuts(s, d, k)
           c == Cardinality(C)
           l == k + 1
           e == l + 1
           a == LastCut(C) + 1
           new == SplitTurn(s, d, l, loop)
           p == SubSeq(s, a, l)
           Z == {0} \cup C
           T == C \cup {e}
<1> SUFFICES new.parts = Split(s, d) /\ (new.top >= l <=> C = {})
  OBVIOUS
<1>1. /\ Len(s) = l /\ l \in Nat /\ l > 0 /\ k \in 0 .. Len(s) /\ k \in 0 .. Len(s) - 1 /\ e \in Nat /\ e - 1 = l
      /\ s # <<>>
  OBVIOUS
<1>2. C = {j \in 1 .. l - 1 : s[j] = d}
  BY <1>1 DEF Cuts
<1>3. /\ C \in SUBSET Nat /\ IsFiniteSet(C) /\ c \in Nat
      /\ \A j \in C : 1 <= j /\ j <= k
      /\ Z \in SUBSET Nat /\ IsFiniteSet(Z) /\ Cardinality(Z) = c + 1
      /\ LastCut(C) \in Z
      /\ (C = {} => LastCut(C) = 0) /\ (C # {} => LastCut(C) # 0)
  BY <1>1, CutsOf
<1>4. /\ loop.buf = SubSeq(s, a, k) /\ loop.parts = [j \in 1 .. c |-> PartAt(s, C, j)]
      /\ loop.top \in Nat /\ loop.top <= k
  BY DEF AfterTurn
<1>5. a \in 1 .. Len(s) /\ a <= k + 1 /\ LastCut(C) \in Nat /\ LastCut(C) <= k
  <2>1. LastCut(C) \in Nat /\ LastCut(C) <= k
    BY <1>1, <1>3
  <2> HIDE DEF C
  <2> QED  BY <1>1, <2>1
<1>6. /\ Append(SubSeq(s, a, k), s[l]) = p /\ p \in Seq(A)
      /\ Len(p) = l - a + 1
  <2> HIDE DEF a
  <2>1. Append(SubSeq(s, a, k), s[k + 1]) = SubSeq(s, a, k + 1)
    BY <1>1, <1>5, Longer
  <2>2. a \in 1 .. Len(s) + 1 /\ l \in Int /\ l <= Len(s) /\ a <= l
    BY <1>1, <1>5
  <2> HIDE DEF l
  <2>3. SubSeq(s, a, l) \in Seq(A) /\ Len(SubSeq(s, a, l)) = l - a + 1
    BY <2>2, Sub
  <2> QED  BY <2>1, <2>3 DEF l
<1>7. /\ new.parts = Append(loop.parts, p)
      /\ new.top = Max({loop.top, Len(p)})
  <2>1. Append(loop.buf, s[l]) = p
    BY <1>4, <1>6
  <2> HIDE DEF a, p
  <2>2. new = [buf |-> <<>>, parts |-> Append(loop.parts, p), top |-> Max({loop.top, Len(p)})]
    <3> HIDE DEF l
    <3> QED  BY <1>1, <2>1 DEF SplitTurn, Piece
  <2> DEFINE grown == Append(loop.parts, p)
             top == Max({loop.top, Len(p)})
             none == <<>>
  <2>3. new = [buf |-> none, parts |-> grown, top |-> top]
    BY <2>2
  <2> HIDE DEF new, grown, top, none
  <2>4. new.parts = grown /\ new.top = top
    BY <2>3
  <2> QED  BY <2>4 DEF grown, top
<1>8. Split(s, d) = [j \in 1 .. Cardinality(Z) |-> SubSeq(s, Nth(Z, j) + 1, Nth(T, j) - 1)]
  <2> HIDE DEF l, Z, T, C
  <2>1. C = {j \in 1 .. Len(s) - 1 : s[j] = d} /\ Z = {0} \cup C /\ T = C \cup {Len(s) + 1}
    BY <1>1, <1>2 DEF Z, T
  <2> QED  BY <1>1, <2>1 DEF Split
<1>9. Nth(T, c + 1) = e /\ \A j \in 1 .. c : Nth(T, j) = Nth(C, j)
  <2>1. \A y \in C : y < e
    BY <1>1, <1>3
  <2> HIDE DEF C, e
  <2> QED  BY <1>1, <1>3, <2>1, NthAdded
<1> DEFINE q == [j \in 1 .. c |-> PartAt(s, C, j)]
<1>10. Append(q, p) = Split(s, d)
  <2> HIDE DEF C, l, p, e, T
  <2>1. DOMAIN q = 1 .. c /\ \A j \in 1 .. c : q[j] = SubSeq(s, Nth(Z, j) + 1, Nth(C, j) - 1)
    BY DEF PartAt
  <2>2. q \in Seq(Seq(A))
    BY <1>4 DEF Loops
  <2> HIDE DEF q, Z
  <2>3. Append(q, p) = [j \in 1 .. c + 1 |-> IF j = c + 1 THEN p ELSE q[j]]
    <3>1. c \in Nat /\ p \in Seq(A) /\ DOMAIN q = 1 .. c
      BY <1>3, <1>6, <2>1
    <3> HIDE DEF c
    <3> QED  BY ONLY <3>1, <2>2, Pushed
  <2>4. \A j \in 1 .. c + 1 : j = c + 1 \/ j \in 1 .. c
    BY <1>3
  <2>5. SubSeq(s, Nth(Z, c + 1) + 1, Nth(T, c + 1) - 1) = p
    BY <1>1, <1>9 DEF p, LastCut, Z, c
  <2>6. \A j \in 1 .. c + 1 :
          SubSeq(s, Nth(Z, j) + 1, Nth(T, j) - 1) = IF j = c + 1 THEN p ELSE q[j]
    BY <1>9, <2>1, <2>4, <2>5
  <2> QED  BY <1>3, <1>8, <2>3, <2>6
<1>11. new.parts = Split(s, d)
  <2> HIDE DEF new, p, q
  <2> QED  BY <1>4, <1>7, <1>10 DEF q
<1>12. new.top >= l <=> C = {}
  <2> DEFINE u == loop.top
             w == Len(p)
             o == LastCut(C)
  <2>1. w = l - o /\ o \in Nat /\ o <= k
    <3>1. w = l - a + 1
      BY <1>6
    <3> HIDE DEF w, o
    <3> QED  BY <1>1, <1>5, <3>1 DEF o
  <2>2. (C = {} => o = 0) /\ (C # {} => o # 0)
    BY <1>3
  <2>3. u \in Nat /\ u <= k /\ new.top = Max({u, w})
    BY <1>4, <1>7
  <2> HIDE DEF C, u, w, o, new
  <2>4. w \in Nat
    BY <2>1, <1>1
  <2>5. Max({u, w}) \in {u, w} /\ Max({u, w}) >= u /\ Max({u, w}) >= w
    BY <2>3, <2>4, MaxOfTwo
  <2> QED  BY <1>1, <2>1, <2>2, <2>3, <2>4, <2>5
<1> QED  BY <1>11, <1>12

\* The loop computes Split, and runs to the end of its buffer when the text has
\* no delimiter before its last character (voy_str_split_by_char).
LEMMA SplitLoopIs ==
  ASSUME NEW A, NEW s \in Seq(A), s # <<>>, NEW d
  PROVE  /\ SplitLoop(s, d).parts = Split(s, d)
         /\ SplitLoop(s, d).top >= Len(s) <=> \A j \in 1 .. Len(s) - 1 : s[j] # d
<1> DEFINE V == Loops(A)
           m == Len(s) - 1
<1>1. m \in Nat /\ m + 1 = Len(s) /\ DOMAIN s = 1 .. Len(s) /\ Len(s) \in Nat
  OBVIOUS
<1>2. Start \in V
  <2> DEFINE none == <<>>
  <2>1. none \in Seq(A) /\ none \in Seq(Seq(A))
    OBVIOUS
  <2>2. Start = [buf |-> none, parts |-> none, top |-> 0]
    BY DEF Start
  <2> HIDE DEF none
  <2> QED  BY <2>1, <2>2 DEF Loops
<1>3. \A v \in V : \A k \in DOMAIN s : SplitTurn(s, d, k, v) \in V
  BY TurnTyped
<1> HIDE DEF V
<1>4. PICK F \in [0 .. Len(s) -> V] :
        /\ F[0] = Start
        /\ \A k \in 0 .. Len(s) - 1 : F[k + 1] = SplitTurn(s, d, k + 1, F[k])
        /\ F[Len(s)] = SplitLoop(s, d)
  BY <1>2, <1>3, FoldedTurns
<1> DEFINE S == {k \in Nat : k <= m => AfterTurn(s, d, k, F[k])}
<1>5. 0 \in S
  <2> DEFINE C == Cuts(s, d, 0)
             z == 0
  <2>1. C = {}
    BY DEF Cuts
  <2>2. LastCut(C) = z /\ Cardinality(C) = z
    <3>1. 0 \in 0 .. Len(s)
      BY <1>1
    <3> QED  BY <2>1, <3>1, CutsOf
  <2>3. SubSeq(s, 0 + 1, 0) = <<>> /\ 1 .. 0 = {}
    OBVIOUS
  <2>4. [j \in 1 .. 0 |-> PartAt(s, C, j)] = <<>>
    OBVIOUS
  <2>5. AfterTurn(s, d, 0, Start)
    BY <2>1, <2>2, <2>3, <2>4 DEF AfterTurn, Start
  <2> QED  BY <1>4, <2>5
<1>6. ASSUME NEW k \in S PROVE k + 1 \in S
  <2>1. CASE k + 1 <= m
    <3>1. k \in 0 .. Len(s) - 1 /\ k + 1 < Len(s) /\ k \in 0 .. Len(s) /\ k <= m
      BY <1>1, <2>1
    <3>2. AfterTurn(s, d, k, F[k]) /\ F[k] \in Loops(A)
      BY <1>4, <3>1 DEF V
    <3>3. AfterTurn(s, d, k + 1, SplitTurn(s, d, k + 1, F[k]))
      BY <3>1, <3>2, TurnDone
    <3>4. AfterTurn(s, d, k + 1, F[k + 1])
      BY <1>4, <3>1, <3>3
    <3> QED  BY <3>4
  <2>2. CASE ~(k + 1 <= m)
    BY <2>2
  <2> QED  BY <2>1, <2>2
<1>7. m \in S
  <2>1. S \in SUBSET Nat
    OBVIOUS
  <2> HIDE DEF S
  <2>2. S = Nat
    BY <1>5, <1>6, <2>1, Induct
  <2> QED  BY <1>1, <2>2
<1>8. AfterTurn(s, d, m, F[m]) /\ F[m] \in Loops(A)
  <2>1. m <= m /\ m \in 0 .. Len(s)
    BY <1>1
  <2> QED  BY <1>4, <1>7, <2>1 DEF V
<1>9. SplitLoop(s, d) = SplitTurn(s, d, m + 1, F[m])
  <2>1. m \in 0 .. Len(s) - 1
    BY <1>1
  <2> QED  BY <1>1, <1>4, <2>1
<1>10. Cuts(s, d, m) = {j \in 1 .. Len(s) - 1 : s[j] = d}
  BY <1>1 DEF Cuts
<1> HIDE DEF m
<1> QED  BY <1>1, <1>8, <1>9, <1>10, LastTurn

-------------------------------------------------------------------------------
\* The loops of voy_str_trim.

\* What the two loops of voy_str_trim find: how much white space is on the left,
\* which characters the loop from the right meets, and what it counts.
LeftOf(t, l)  == Min({l} \cup {k \in 0 .. l - 1 : t[k + 1] # Space})
MetOf(s, n)   == {k \in RightLoop(s, n) : s[k + 1] # Space}
RightOf(s, n) == IF MetOf(s, n) # {} THEN n - 1 - Max(MetOf(s, n)) ELSE Cardinality(RightLoop(s, n))
CutOf(s, n)   == IF MetOf(s, n) # {} /\ RightOf(s, n) > 0 THEN SubSeq(s, 1, n - RightOf(s, n)) ELSE s

\* The loop from the left ends at the first character that is no white space.
LEMMA LeftIs ==
  ASSUME NEW A, NEW t \in Seq(A)
  PROVE  LeftOf(t, Len(t)) = IF Black(t) = {} THEN Len(t) ELSE Min(Black(t)) - 1
<1> DEFINE l == Len(t)
           S == {k \in 0 .. l - 1 : t[k + 1] # Space}
           T == {l} \cup S
<1>1. l \in Nat /\ S \in SUBSET Nat /\ T \in SUBSET Nat /\ \A k \in S : k <= l - 1
  OBVIOUS
<1>2. CASE Black(t) = {}
  <2>1. \A k \in 0 .. l - 1 : k + 1 \in DOMAIN t
    OBVIOUS
  <2>2. S = {}
    BY <1>2, <2>1 DEF Black
  <2>3. l \in T /\ \A y \in T : l <= y
    BY <1>1, <2>2
  <2> HIDE DEF l, S, T
  <2>4. Min(T) = l
    BY <1>1, <2>3, MinIs
  <2> QED  BY <1>2, <2>4 DEF LeftOf, T, S, l
<1>3. CASE Black(t) # {}
  <2> DEFINE a == Min(Black(t))
  <2>1. a \in 1 .. l /\ t[a] # Space /\ \A k \in 1 .. l : t[k] # Space => a <= k
    BY <1>3, BlackEnds
  <2> HIDE DEF a
  <2>2. a - 1 \in 0 .. l - 1 /\ a - 1 + 1 = a
    BY <1>1, <2>1
  <2>3. a - 1 \in S
    BY <2>1, <2>2
  <2>4. ASSUME NEW y \in T PROVE a - 1 <= y
    <3>1. CASE y = l
      BY <1>1, <2>1, <3>1
    <3>2. CASE y \in S
      <4>1. y + 1 \in 1 .. l /\ t[y + 1] # Space /\ y \in Nat
        BY <1>1, <3>2
      <4>2. a <= y + 1
        BY <2>1, <4>1
      <4> QED  BY <2>1, <4>1, <4>2
    <3> QED  BY <3>1, <3>2
  <2> DEFINE x == a - 1
  <2>5. x \in T /\ \A y \in T : x <= y
    BY <2>3, <2>4
  <2> HIDE DEF x, T
  <2>6. Min(T) = x
    BY <1>1, <2>5, MinIs
  <2> QED  BY <1>3, <2>6 DEF LeftOf, T, x, a
<1> QED  BY <1>2, <1>3

\* The loop from the right ends at the last one, if it is not the first.
LEMMA RightIs ==
  ASSUME NEW A, NEW s \in Seq(A), s # <<>>, s[1] # Space
  PROVE  /\ Max(Black(s)) \in 1 .. Len(s)
         /\ Len(s) - RightOf(s, Len(s)) = Max(Black(s))
         /\ CutOf(s, Len(s)) = IF Max(Black(s)) > 1 THEN SubSeq(s, 1, Max(Black(s))) ELSE s
<1> DEFINE n == Len(s)
           z == Max(Black(s))
           M == MetOf(s, n)
           r == RightOf(s, n)
<1>1. n \in Nat /\ n >= 1 /\ DOMAIN s = 1 .. n
  OBVIOUS
<1>2. 1 \in Black(s)
  BY <1>1 DEF Black
<1>3. z \in 1 .. n /\ s[z] # Space /\ \A k \in 1 .. n : s[k] # Space => k <= z
  <2>1. Black(s) # {}
    BY <1>2
  <2> QED  BY <2>1, BlackEnds
<1>4. M = {k \in 1 .. n - 1 : s[k + 1] # Space}
  BY DEF MetOf, RightLoop
<1> HIDE DEF z, M, n
<1>5. CASE z > 1
  <2> DEFINE y == z - 1
  <2>1. y \in 1 .. n - 1 /\ y + 1 = z
    BY <1>1, <1>3, <1>5
  <2>2. y \in M
    BY <1>3, <1>4, <2>1
  <2>3. ASSUME NEW k \in M PROVE k \in Nat /\ k <= y
    <3>1. k \in 1 .. n - 1 /\ k + 1 \in 1 .. n /\ s[k + 1] # Space
      BY <1>1, <1>4
    <3>2. k + 1 <= z
      BY <1>3, <3>1
    <3> QED  BY <1>3, <3>1, <3>2
  <2>4. M \in SUBSET Nat /\ \A k \in M : k <= y
    BY <2>3
  <2> HIDE DEF y
  <2>5. Max(M) = y
    BY <2>2, <2>4, MaxIs
  <2>6. r = n - 1 - y
    BY <2>2, <2>5 DEF RightOf, M
  <2> HIDE DEF r
  <2>7. r = n - z /\ n - r = z
    BY <1>1, <1>3, <2>1, <2>6
  <2>8. CutOf(s, n) = IF r > 0 THEN SubSeq(s, 1, z) ELSE s
    BY <2>2, <2>7 DEF CutOf, M, r
  <2>9. ~(r > 0) => z = n
    BY <1>1, <1>3, <2>7
  <2>10. SubSeq(s, 1, n) = s
    BY DEF n
  <2>11. CutOf(s, n) = SubSeq(s, 1, z)
    BY <2>8, <2>9, <2>10
  <2> QED  BY <1>3, <1>5, <2>7, <2>11 DEF z, n, r
<1>6. CASE ~(z > 1)
  <2>1. z = 1
    BY <1>3, <1>6
  <2>2. M = {}
    <3>1. ASSUME NEW k \in M PROVE FALSE
      <4>1. k \in 1 .. n - 1 /\ k + 1 \in 1 .. n /\ s[k + 1] # Space
        BY <1>1, <1>4
      <4>2. k + 1 <= z
        BY <1>3, <4>1
      <4> QED  BY <2>1, <4>1, <4>2
    <3> QED  BY <3>1
  <2>3. Cardinality(1 .. n - 1) = n - 1
    <3>1. Cardinality(1 .. n - 1) = IF 1 > n - 1 THEN 0 ELSE n - 1 - 1 + 1
      BY <1>1, FS_Interval
    <3> QED  BY <1>1, <3>1
  <2>4. r = n - 1
    BY <2>2, <2>3 DEF RightOf, RightLoop, M
  <2> HIDE DEF r
  <2>5. n - r = z
    BY <1>1, <2>1, <2>4
  <2>6. CutOf(s, n) = s
    BY <2>2 DEF CutOf, M
  <2> QED  BY <1>3, <1>6, <2>5, <2>6 DEF z, n, r
<1> QED  BY <1>5, <1>6

\* The beginning of an end of a text is a piece of it.
LEMMA Piecewise ==
  ASSUME NEW A, NEW t \in Seq(A), NEW a \in 1 .. Len(t), NEW e \in 1 .. Len(t), a <= e
  PROVE  SubSeq(SubSeq(t, a, Len(t)), 1, e - a + 1) = SubSeq(t, a, e)
<1> DEFINE l == Len(t)
           s == SubSeq(t, a, l)
           m == e - a + 1
           u == SubSeq(s, 1, m)
           v == SubSeq(t, a, e)
<1>1. l \in Nat /\ a \in 1 .. l + 1 /\ a <= l /\ m \in Nat /\ m >= 1 /\ m <= l - a + 1 /\ m = e - a + 1
  OBVIOUS
<1>2. s \in Seq(A) /\ Len(s) = l - a + 1 /\ \A k \in 1 .. l - a + 1 : s[k] = t[a + k - 1]
  BY <1>1, Sub
<1>3. v \in Seq(A) /\ Len(v) = m /\ \A k \in 1 .. m : v[k] = t[a + k - 1]
  BY <1>1, Sub
<1> HIDE DEF s, v
<1>4. 1 \in 1 .. Len(s) + 1 /\ m \in Int /\ m <= Len(s) /\ 1 <= m /\ m - 1 + 1 = m
  BY <1>1, <1>2
<1> HIDE DEF m, l
<1>5. u \in Seq(A) /\ Len(u) = m /\ \A k \in 1 .. m : u[k] = s[1 + k - 1]
  BY <1>2, <1>4, Sub
<1> HIDE DEF u
<1>6. \A k \in 1 .. m : u[k] = v[k]
  <2>1. \A k \in 1 .. m : 1 + k - 1 = k /\ k \in 1 .. l - a + 1
    BY <1>1
  <2> QED  BY <1>2, <1>3, <1>5, <2>1
<1> QED  BY <1>3, <1>5, <1>6, SeqEqual DEF u, s, v, m, l

\* A length that goes with a text: its own, or 1 when only white space follows.
Fitting(t, l) ==
  \/ l = Len(t)
  \/ l = 1 /\ 1 < Len(t) /\ t[1] # Space /\ \A k \in 2 .. Len(t) : t[k] = Space

\* The loop from the right has nothing to look at in a text of one character.
LEMMA NoTurn ==
  /\ \A s : MetOf(s, 0) = {} /\ RightOf(s, 0) = 0 /\ CutOf(s, 0) = s
  /\ \A s : MetOf(s, 1) = {} /\ RightOf(s, 1) = 0 /\ CutOf(s, 1) = s
<1>1. 1 .. 0 - 1 = {} /\ 1 .. 1 - 1 = {}
  OBVIOUS
<1>2. \A s : MetOf(s, 0) = {} /\ MetOf(s, 1) = {} /\ RightLoop(s, 0) = {} /\ RightLoop(s, 1) = {}
  BY <1>1 DEF MetOf, RightLoop
<1> QED  BY <1>2, FS_EmptySet DEF RightOf, CutOf

\* Trim leaves one character and the white space behind it alone.
LEMMA TrimmedOne ==
  ASSUME NEW t \in Seq(Characters), t[1] # Space, 1 < Len(t), \A k \in 2 .. Len(t) : t[k] = Space
  PROVE  Trim(t, Chars) = t
<1> DEFINE B == Black(t)
           L == Len(t)
<1>1. L \in Nat /\ 1 \in 1 .. L /\ 1 \in DOMAIN t /\ DOMAIN t = 1 .. L
  OBVIOUS
<1>2. B = {1}
  <2>1. ASSUME NEW k \in 1 .. L, t[k] # Space PROVE k = 1
    BY <1>1, <2>1
  <2> QED  BY <1>1, <2>1 DEF Black
<1> DEFINE f == Min(B)
           e == Max(B)
<1>3. f = 1 /\ e = 1
  <2>1. B \in SUBSET Nat /\ 1 \in B /\ \A y \in B : 1 <= y /\ y <= 1
    BY <1>2
  <2> HIDE DEF B
  <2> QED  BY <2>1, MinIs, MaxIs
<1>4. t[1] \in Chars
  <2>1. t[1] \in Characters
    BY <1>1
  <2> QED  BY <2>1 DEF Characters
<1>5. B # {}
  BY <1>2
<1>6. Trim(t, Chars) = IF f = e /\ t[f] \in Chars THEN SubSeq(t, f, L) ELSE SubSeq(t, f, e)
  BY <1>5 DEF Trim, Black
<1> HIDE DEF f, e, L
<1>7. SubSeq(t, 1, L) = t
  BY DEF L
<1> QED  BY <1>3, <1>4, <1>6, <1>7

\* What voy_str_trim does to a text and its length.
LEMMA Trimming ==
  ASSUME NEW t \in Texts, NEW l \in Nat, Fitting(t, l)
  PROVE  LET a == LeftOf(t, l)
             s == SubSeq(t, a + 1, Len(t))
             w == CutOf(s, l - a)
             m == (l - a) - RightOf(s, l - a)
         IN  /\ a \in Nat /\ m \in Nat /\ w \in Texts /\ a + Len(w) <= Len(t)
             /\ Fitting(w, m)
             /\ w = Trim(t, Chars)
<1> DEFINE a == LeftOf(t, l)
           s == SubSeq(t, a + 1, Len(t))
           w == CutOf(s, l - a)
           m == (l - a) - RightOf(s, l - a)
           L == Len(t)
<1>1. t \in Seq(Characters) /\ L \in Nat /\ L <= MaxText /\ MaxText \in Nat
  BY TextsAre, MaxTextAssumption
<1>2. CASE l # L
  <2>1. l = 1 /\ 1 < L /\ t[1] # Space
    BY <1>2 DEF Fitting
  <2>2. a = 0
    <3> DEFINE T == {l} \cup {k \in 0 .. l - 1 : t[k + 1] # Space}
    <3>1. T = {0, 1}
      BY <2>1
    <3>2. T \in SUBSET Nat /\ 0 \in T /\ \A y \in T : 0 <= y
      BY <3>1
    <3> HIDE DEF T
    <3>3. Min(T) = 0
      BY <3>2, MinIs
    <3> QED  BY <3>3 DEF LeftOf, T
  <2> HIDE DEF a
  <2>3. s = t /\ l - a = 1
    BY <1>1, <2>1, <2>2
  <2> HIDE DEF s
  <2>4. w = t /\ m = 1
    BY <2>3, NoTurn
  <2> HIDE DEF w, m
  <2>5. Trim(t, Chars) = t
    <3>1. t \in Seq(Characters) /\ t[1] # Space /\ 1 < Len(t) /\ \A k \in 2 .. Len(t) : t[k] = Space
      BY <1>1, <1>2 DEF Fitting
    <3> QED  BY ONLY <3>1, TrimmedOne
  <2> QED  BY <1>1, <2>1, <2>2, <2>4, <2>5 DEF a, w, m, s
<1>3. CASE l = L /\ Black(t) = {}
  <2>1. a = L
    BY <1>1, <1>3, LeftIs
  <2> HIDE DEF a
  <2> DEFINE none == <<>>
  <2>2. none \in Seq(Characters) /\ Len(none) = 0
    OBVIOUS
  <2>3. s = none /\ l - a = 0
    BY <1>1, <1>3, <2>1
  <2> HIDE DEF s
  <2>4. w = none /\ m = 0
    BY <2>3, NoTurn
  <2>5. Trim(t, Chars) = none
    BY <1>3 DEF Trim, Black
  <2> HIDE DEF w, m, none
  <2>6. none \in Texts
    <3>1. Len(none) <= MaxText
      BY <1>1, <2>2
    <3> QED  BY <2>2, <3>1, TextsAre
  <2> QED  BY <1>1, <2>1, <2>2, <2>4, <2>5, <2>6 DEF a, w, m, s, Fitting
<1>4. CASE l = L /\ Black(t) # {}
  <2> DEFINE f == Min(Black(t))
             e == Max(Black(t))
  <2>1. /\ f \in 1 .. L /\ e \in 1 .. L /\ t[f] # Space /\ t[e] # Space
        /\ \A k \in 1 .. L : t[k] # Space => f <= k /\ k <= e
    BY <1>1, <1>4, BlackEnds
  <2>2. a = f - 1
    BY <1>1, <1>4, LeftIs
  <2> HIDE DEF a
  <2>3. Trim(t, Chars) = IF f = e /\ t[f] \in Chars THEN SubSeq(t, f, L) ELSE SubSeq(t, f, e)
    BY <1>4 DEF Trim, Black
  <2> HIDE DEF f, e
  <2>4. f \in Nat /\ e \in Nat /\ f <= e /\ a + 1 = f /\ l - a = L - f + 1 /\ a \in Nat
    BY <1>1, <1>4, <2>1, <2>2
  <2>5. s = SubSeq(t, f, L) /\ s \in Seq(Characters) /\ Len(s) = L - f + 1 /\ \A k \in 1 .. L - f + 1 : s[k] = t[f + k - 1]
    <3>1. f \in 1 .. L + 1 /\ L \in Int /\ L <= L /\ f <= L
      BY <1>1, <2>1
    <3> QED  BY <1>1, <2>4, <3>1, Sub
  <2> HIDE DEF s
  <2>6. s # <<>> /\ s[1] # Space
    <3>1. 1 \in 1 .. L - f + 1 /\ f + 1 - 1 = f
      BY <1>1, <2>1
    <3>2. Len(s) >= 1
      BY <1>1, <2>1, <2>5
    <3>3. s # <<>>
      BY <3>2
    <3>4. s[1] = t[f + 1 - 1]
      BY <2>5, <3>1
    <3> QED  BY <2>1, <3>1, <3>3, <3>4
  <2> DEFINE z == Max(Black(s))
  <2>7. z \in 1 .. Len(s) /\ m = z /\ w = IF z > 1 THEN SubSeq(s, 1, z) ELSE s
    <3>1. l - a = Len(s)
      BY <2>4, <2>5
    <3>2. /\ z \in 1 .. Len(s) /\ Len(s) - RightOf(s, Len(s)) = z
          /\ CutOf(s, Len(s)) = IF z > 1 THEN SubSeq(s, 1, z) ELSE s
      <4> HIDE DEF z
      <4> QED  BY <2>5, <2>6, RightIs DEF z
    <3> HIDE DEF z
    <3> QED  BY <3>1, <3>2
  <2> HIDE DEF w, m
  <2>8. z = e - f + 1
    <3> DEFINE x == e - f + 1
    <3>1. x \in 1 .. L - f + 1 /\ f + x - 1 = e
      BY <1>1, <2>1, <2>4
    <3>2. x \in Black(s)
      <4> HIDE DEF x
      <4> QED  BY <2>1, <2>5, <3>1 DEF Black
    <3>3. ASSUME NEW y \in Black(s) PROVE y \in Nat /\ y <= x
      <4>1. y \in 1 .. L - f + 1 /\ s[y] # Space
        BY <2>5 DEF Black
      <4>2. f + y - 1 \in 1 .. L /\ t[f + y - 1] # Space
        BY <1>1, <2>1, <2>5, <4>1
      <4>3. f + y - 1 <= e
        BY <2>1, <4>2
      <4> QED  BY <2>4, <4>1, <4>3
    <3>4. Black(s) \in SUBSET Nat /\ \A y \in Black(s) : y <= x
      BY <3>3
    <3> HIDE DEF x
    <3>5. z = x
      BY <3>2, <3>4, MaxIs
    <3> QED  BY <3>5 DEF x
  <2> HIDE DEF z
  <2>9. CASE f # e
    <3>1. z > 1
      BY <2>4, <2>8, <2>9
    <3>2. SubSeq(s, 1, e - f + 1) = SubSeq(t, f, e)
      BY <1>1, <2>1, <2>4, <2>5, Piecewise
    <3>3. w = SubSeq(t, f, e)
      BY <2>7, <2>8, <3>1, <3>2
    <3>4. w = Trim(t, Chars)
      BY <2>3, <2>9, <3>3
    <3>5. w \in Seq(Characters) /\ Len(w) = e - f + 1
      <4>1. f \in 1 .. L + 1 /\ e \in Int /\ e <= L /\ f <= e
        BY <1>1, <2>1, <2>4
      <4> QED  BY <1>1, <3>3, <4>1, Sub
    <3>6. Len(w) <= MaxText /\ a + Len(w) <= L /\ m = Len(w) /\ m \in Nat
      BY <1>1, <2>1, <2>4, <2>7, <2>8, <3>5
    <3>7. w \in Texts
      BY <3>5, <3>6, TextsAre
    <3>8. Fitting(w, m)
      BY <3>6 DEF Fitting
    <3> QED  BY <2>4, <3>4, <3>6, <3>7, <3>8 DEF w, m, s, a
  <2>10. CASE f = e
    <3>1. z = 1
      BY <2>4, <2>8, <2>10
    <3>2. w = s /\ m = 1
      BY <2>7, <3>1
    <3>3. t[f] \in Chars
      BY <1>1, <2>1 DEF Characters
    <3>4. w = Trim(t, Chars)
      BY <2>3, <2>5, <2>10, <3>2, <3>3
    <3>5. Len(w) <= MaxText /\ a + Len(w) <= L
      BY <1>1, <2>1, <2>4, <2>5, <3>2
    <3>6. w \in Texts
      BY <2>5, <3>2, <3>5, TextsAre
    <3>7. \A k \in 2 .. Len(w) : w[k] = Space
      <4> SUFFICES ASSUME NEW k \in 2 .. Len(w), w[k] # Space PROVE FALSE
        OBVIOUS
      <4>1. k \in 1 .. L - f + 1 /\ s[k] # Space
        BY <2>5, <3>2
      <4>2. f + k - 1 \in 1 .. L /\ t[f + k - 1] # Space
        BY <1>1, <2>1, <2>5, <4>1
      <4>3. f + k - 1 <= e
        BY <2>1, <4>2
      <4> QED  BY <2>4, <2>10, <4>3
    <3>8. Fitting(w, m)
      BY <2>5, <2>6, <3>2, <3>7 DEF Fitting
    <3> QED  BY <2>4, <3>2, <3>4, <3>5, <3>6, <3>8 DEF w, m, s, a
  <2> QED  BY <2>9, <2>10
<1> QED  BY <1>2, <1>3, <1>4 DEF w, m, s, a

-------------------------------------------------------------------------------
\* The inductive invariant: what a string is, and until memory is misused, that
\* its text ends inside of its block and goes with its length.
Strs == [text : Texts, len : Nat, at : Nat, start : Nat, room : Nat]

Sound == str.at + Len(str.text) < str.room /\ Fitting(str.text, str.len)

Inv ==
  /\ str # NULL => str \in Strs
  /\ str # NULL /\ fault = "none" => Sound

\* What the fields of a string are.
LEMMA StrFields ==
  ASSUME str \in Strs
  PROVE  /\ str.text \in Texts /\ str.len \in Nat /\ str.at \in Nat /\ str.start \in Nat /\ str.room \in Nat
         /\ str.text \in Seq(Characters) /\ Len(str.text) \in Nat /\ Len(str.text) <= MaxText
         /\ MaxText \in Nat
BY TextsAre, MaxTextAssumption DEF Strs

\* A string is what its fields are.
LEMMA StrIs ==
  ASSUME NEW t \in Texts, NEW l \in Nat, NEW a \in Nat, NEW b \in Nat, NEW r \in Nat,
         str' = [text |-> t, len |-> l, at |-> a, start |-> b, room |-> r]
  PROVE  /\ str' \in Strs'
         /\ str'.text = t /\ str'.len = l /\ str'.at = a /\ str'.start = b /\ str'.room = r
         /\ a + Len(t) < r /\ Fitting(t, l) => Sound'
BY DEF Strs, Texts, Sound, Fitting

\* A new string goes with its block.
LEMMA InvNew == ASSUME NEW s \in Texts, New(s) PROVE Inv'
<1> DEFINE z == 0
<1>1. s \in Seq(Characters) /\ Len(s) \in Nat /\ Len(s) + 1 \in Nat /\ z \in Nat /\ z + Len(s) < Len(s) + 1
  BY TextsAre
<1>2. str' = [text |-> s, len |-> Len(s), at |-> z, start |-> z, room |-> Len(s) + 1]
  BY DEF New, Made
<1>3. Fitting(s, Len(s))
  BY DEF Fitting
<1> HIDE DEF z
<1>4. str' \in Strs' /\ Sound'
  BY <1>1, <1>2, <1>3, StrIs
<1> QED  BY <1>4 DEF Inv

\* Trimming keeps the invariant, and the text or what Trim says of it.
LEMMA InvTrim ==
  ASSUME Inv, fault = "none", TrimStr
  PROVE  Inv' /\ str'.text = Trim(str.text, Chars)
<1> DEFINE t == str.text
           l == str.len
           a == LeftOf(t, l)
           s == SubSeq(t, a + 1, Len(t))
           w == CutOf(s, l - a)
           m == (l - a) - RightOf(s, l - a)
<1>1. str # NULL /\ str \in Strs /\ Sound
  BY DEF TrimStr, Inv
<1>2. /\ str.text \in Texts /\ str.len \in Nat /\ str.at \in Nat /\ str.start \in Nat /\ str.room \in Nat
      /\ Len(str.text) \in Nat
  BY <1>1, StrFields
<1>3. str.at + Len(t) < str.room /\ Fitting(t, l)
  BY <1>1 DEF Sound
<1>4. str' = [str EXCEPT !.at = str.at + a, !.len = m, !.text = w]
  BY Zenon DEF TrimStr, LeftOf, RightOf, MetOf, CutOf
<1>5. a \in Nat /\ m \in Nat /\ w \in Texts /\ a + Len(w) <= Len(t) /\ Fitting(w, m) /\ w = Trim(t, Chars)
  BY <1>2, <1>3, Trimming
<1> HIDE DEF m, w, a, s
<1>6. str' = [text |-> w, len |-> m, at |-> str.at + a, start |-> str.start, room |-> str.room]
  BY <1>1, <1>4 DEF Strs
<1>7. str.at + a \in Nat /\ str.at + a + Len(w) < str.room
  <2>1. Len(w) \in Nat
    BY <1>5, TextsAre
  <2> QED  BY <1>2, <1>3, <1>5, <2>1
<1> DEFINE b == str.at + a
           c == str.start
           r == str.room
<1>8. b \in Nat /\ c \in Nat /\ r \in Nat /\ b + Len(w) < r
  BY <1>2, <1>7
<1>9. str' = [text |-> w, len |-> m, at |-> b, start |-> c, room |-> r]
  BY <1>6
<1> HIDE DEF b, c, r
<1>10. str' \in Strs' /\ Sound' /\ str'.text = w
  BY <1>5, <1>8, <1>9, StrIs
<1> QED  BY <1>5, <1>10 DEF Inv

\* Splitting leaves the string alone.
LEMMA InvSplit == ASSUME Inv, fault = "none", NEW d, SplitStr(d) PROVE Inv'
<1>1. str' = str /\ Texts' = Texts
  BY DEF SplitStr, Texts
<1> QED  BY <1>1 DEF Inv, Strs, Sound, Fitting

\* There is no string after it is freed.
LEMMA InvFree == ASSUME Free PROVE Inv'
BY DEF Free, Inv

\* Adding to a string misuses memory unless it is empty and at the start of its block.
LEMMA Concatenated ==
  ASSUME Inv, fault = "none", NEW s \in Texts, s # <<>>, Concat(s)
  PROVE  /\ Inv'
         /\ fault' # "none" <=> str.text # <<>> \/ str.at # 0
<1>1. str # NULL /\ str \in Strs /\ Sound
  BY DEF Concat, Inv
<1>2. /\ str.text \in Seq(Characters) /\ Len(str.text) \in Nat /\ str.len \in Nat /\ str.at \in Nat
      /\ s \in Seq(Characters) /\ Len(s) \in Nat
  BY <1>1, StrFields, TextsAre
<1> DEFINE t == str.text \o s
           l == str.len + Len(s)
           r == Len(s) + 1
           z == 0
<1>3. /\ str' = [text |-> t, len |-> l, at |-> z, start |-> z, room |-> r]
      /\ fault' = IF str.at # 0 THEN "realloc" ELSE IF Len(str.text) + Len(s) + 1 > Len(s) + 1 THEN "concat" ELSE fault
      /\ Len(str.text) + Len(s) <= MaxText
  BY DEF Concat
<1>4. t \in Seq(Characters) /\ Len(t) = Len(str.text) + Len(s)
  BY <1>2
<1>5. t \in Texts
  BY <1>3, <1>4, TextsAre
<1>6. Len(str.text) = 0 <=> str.text = <<>>
  BY <1>2
<1>7. Len(str.text) + Len(s) + 1 > Len(s) + 1 <=> Len(str.text) # 0
  BY <1>2
<1>8. fault' # "none" <=> str.text # <<>> \/ str.at # 0
  BY <1>3, <1>6, <1>7
<1>9. ASSUME fault' = "none" PROVE z + Len(t) < r /\ Fitting(t, l)
  <2>1. Len(str.text) = 0
    BY <1>6, <1>8, <1>9
  <2>2. str.len = 0
    BY <1>1, <2>1 DEF Sound, Fitting
  <2>3. Len(t) = Len(s) /\ l = Len(s)
    BY <1>2, <1>4, <2>1, <2>2
  <2> HIDE DEF t, l
  <2> QED  BY <1>2, <2>3 DEF Fitting
<1>10. l \in Nat /\ r \in Nat /\ z \in Nat
  BY <1>2
<1> HIDE DEF t, l, r, z
<1>11. str' \in Strs' /\ (z + Len(t) < r /\ Fitting(t, l) => Sound')
  BY <1>3, <1>5, <1>10, StrIs
<1> QED  BY <1>8, <1>9, <1>11 DEF Inv

\* Adding to a string keeps the invariant.
LEMMA InvConcat == ASSUME Inv, fault = "none", NEW s \in Texts, Concat(s) PROVE Inv'
<1>1. CASE s = <<>>
  <2>1. str # NULL /\ str \in Strs /\ Sound /\ str' = [str EXCEPT !.start = str.at]
    BY <1>1 DEF Concat, Inv
  <2> DEFINE t == str.text
             l == str.len
             a == str.at
             r == str.room
  <2>2. str' = [text |-> t, len |-> l, at |-> a, start |-> a, room |-> r]
    BY <2>1 DEF Strs
  <2>3. t \in Texts /\ l \in Nat /\ a \in Nat /\ r \in Nat /\ a + Len(t) < r /\ Fitting(t, l)
    BY <2>1, StrFields DEF Sound
  <2> HIDE DEF t, l, a, r
  <2>4. str' \in Strs' /\ Sound'
    BY <2>2, <2>3, StrIs
  <2> QED  BY <2>4 DEF Inv
<1>2. CASE s # <<>>
  BY <1>2, Concatenated
<1> QED  BY <1>1, <1>2

\* The invariant holds in every state.
LEMMA Invariance == Spec => []Inv
<1>1. Init => Inv
  BY DEF Init, Inv
<1>2. ASSUME Inv, [Next]_vars PROVE Inv'
  <2>1. ASSUME NEW s \in Texts, New(s) PROVE Inv'
    BY <2>1, InvNew
  <2>2. ASSUME fault = "none", NEW s \in Texts, Concat(s) PROVE Inv'
    BY <1>2, <2>2, InvConcat
  <2>3. ASSUME fault = "none", TrimStr PROVE Inv'
    BY <1>2, <2>3, InvTrim
  <2>4. CASE Free
    BY <2>4, InvFree
  <2>5. ASSUME fault = "none", NEW d \in Chars, SplitStr(d) PROVE Inv'
    BY <1>2, <2>5, InvSplit
  <2>6. CASE UNCHANGED vars
    BY <1>2, <2>6 DEF vars, Inv, Strs, Texts, Sound, Fitting
  <2> QED  BY <1>2, <2>1, <2>2, <2>3, <2>4, <2>5, <2>6 DEF Next
<1> QED  BY <1>1, <1>2, PTL DEF Spec

\* A string ends inside of its block and its length is that of its text, but for
\* the white space that trimming leaves (voy_str.c, until memory is misused).
THEOREM StringSound == Spec => []StrOK
<1>1. Inv => StrOK
  <2> SUFFICES ASSUME str # NULL, fault = "none", Inv
      PROVE  /\ str.at \in Nat /\ str.at + Len(str.text) < str.room
             /\ \/ str.len = Len(str.text)
                \/ str.len = 1 /\ str.len < Len(str.text) /\ \A k \in 2 .. Len(str.text) : str.text[k] = Space
    BY DEF StrOK
  <2>1. str \in Strs /\ Sound
    BY DEF Inv
  <2> QED  BY <2>1, StrFields DEF Sound, Fitting
<1> QED  BY <1>1, Invariance, PTL

-------------------------------------------------------------------------------
\* The action properties.

\* A string with a length that is not 0 has a text.
LEMMA SomeText ==
  ASSUME Inv, str # NULL, fault = "none", str.len # 0
  PROVE  str.text \in Seq(Characters) /\ str.text # <<>> /\ Len(str.text) \in Nat
<1>1. str \in Strs /\ Sound
  BY DEF Inv
<1>2. Len(str.text) # 0
  BY <1>1, StrFields DEF Sound, Fitting
<1> QED  BY <1>1, <1>2, StrFields

\* What a split returns, and when it overruns its buffer.
LEMMA SplitParts ==
  ASSUME Inv, fault = "none", NEW d, SplitStr(d)
  PROVE  /\ parts' = Split(str.text, d)
         /\ fault' # "none" <=> str.len # 0 /\ Has(str.text, d) /\ Len(Split(str.text, d)) = 1
<1> DEFINE t == str.text
           loop == SplitLoop(t, d)
<1>1. str # NULL
  BY DEF SplitStr
<1>2. CASE str.len = 0
  <2>1. str \in Strs /\ Sound
    BY <1>1 DEF Inv
  <2>2. t \in Seq(Characters) /\ Len(t) = 0
    BY <1>2, <2>1, StrFields DEF Sound, Fitting
  <2>3. t = <<>>
    BY <2>2
  <2> HIDE DEF t
  <2>4. Split(t, d) = <<>>
    BY <2>3 DEF Split
  <2>5. parts' = <<>> /\ fault' = fault
    BY <1>2 DEF SplitStr
  <2> QED  BY <1>2, <2>4, <2>5 DEF t
<1>3. CASE str.len # 0
  <2>1. t \in Seq(Characters) /\ t # <<>> /\ Len(t) \in Nat
    BY <1>1, <1>3, SomeText
  <2>2. /\ loop.parts = Split(t, d)
        /\ loop.top >= Len(t) <=> \A j \in 1 .. Len(t) - 1 : t[j] # d
    <3> HIDE DEF t
    <3> QED  BY <2>1, SplitLoopIs
  <2>3. /\ (\A k \in 1 .. Len(t) - 1 : t[k] # d) => Split(t, d) = <<t>>
        /\ (\E k \in 1 .. Len(t) - 1 : t[k] = d) => Len(Split(t, d)) >= 2
    <3> HIDE DEF t
    <3> QED  BY <2>1, SplitText
  <2> HIDE DEF loop
  <2>4. Len(Split(t, d)) = 1 <=> \A j \in 1 .. Len(t) - 1 : t[j] # d
    <3> DEFINE whole == \A j \in 1 .. Len(t) - 1 : t[j] # d
               x == Len(Split(t, d))
    <3>1. whole => x = 1
      BY <2>3
    <3>2. ~whole => x >= 2
      BY <2>3
    <3> HIDE DEF whole, x
    <3>3. x = 1 <=> whole
      BY <3>1, <3>2
    <3> QED  BY <3>3 DEF whole, x
  <2>5. CASE Has(t, d)
    <3>1. parts' = loop.parts /\ fault' = IF loop.top >= Len(t) THEN "split" ELSE fault
      BY <1>3, <2>5 DEF SplitStr, loop
    <3> QED  BY <1>3, <2>2, <2>4, <2>5, <3>1
  <2>6. CASE ~Has(t, d)
    <3>1. parts' = <<t>> /\ fault' = fault
      BY <1>3, <2>6 DEF SplitStr
    <3>2. \A k \in 1 .. Len(t) - 1 : t[k] # d
      BY <2>1, <2>6 DEF Has, ToSet
    <3> QED  BY <2>3, <2>6, <3>1, <3>2
  <2> QED  BY <2>5, <2>6
<1> QED  BY <1>2, <1>3

\* The loops of voy_str_trim and voy_str_split_by_char compute Trim and Split, the
\* functions that the proofs about the configuration parser use, for any text and
\* any delimiter.
THEOREM AsTold == Spec => TextsAsTold
<1> DEFINE A == /\ TrimStr => str'.text = Trim(str.text, Chars)
                /\ \A d \in Chars : SplitStr(d) => parts' = Split(str.text, d)
<1>1. Inv /\ [Next]_vars => [A]_vars
  <2> SUFFICES ASSUME Inv, Next PROVE A
    OBVIOUS
  <2>1. fault = "none"
    BY DEF Next
  <2>2. ASSUME TrimStr PROVE str'.text = Trim(str.text, Chars)
    BY <2>1, <2>2, InvTrim
  <2>3. ASSUME NEW d \in Chars, SplitStr(d) PROVE parts' = Split(str.text, d)
    BY <2>1, <2>3, SplitParts
  <2> QED  BY <2>2, <2>3
<1> QED  BY <1>1, Invariance, PTL DEF Spec, TextsAsTold

\* The calls of voy_str.c that misuse memory are those that MisuseKnown lists: the
\* splits, the concatenations and the frees, and no others.
THEOREM MisuseIs == Spec => MisuseKnown
<1> DEFINE Splits == \E d \in Chars : SplitStr(d) /\ str.len # 0 /\ Has(str.text, d) /\ Len(Split(str.text, d)) = 1
           Concats == \E s \in Texts \ {<<>>} : Concat(s) /\ (str.text # <<>> \/ str.at # 0)
           Frees == Free /\ str.start # 0
           A == fault' # "none" <=> Splits \/ Concats \/ Frees
<1>1. Inv /\ [Next]_vars => [A]_vars
  <2> SUFFICES ASSUME Inv, Next PROVE A
    OBVIOUS
  <2>1. fault = "none"
    BY DEF Next
  <2>2. ASSUME Splits PROVE fault' # "none"
    BY <2>1, <2>2, SplitParts
  <2>3. ASSUME Concats PROVE fault' # "none"
    BY <2>1, <2>3, Concatenated
  <2>4. ASSUME Frees PROVE fault' # "none"
    BY <2>4 DEF Free
  <2>5. ASSUME fault' # "none" PROVE Splits \/ Concats \/ Frees
    <3>1. ASSUME NEW s \in Texts, New(s) PROVE FALSE
      BY <2>1, <2>5, <3>1 DEF New
    <3>2. ASSUME NEW s \in Texts, Concat(s) PROVE Concats
      <4>1. s # <<>>
        BY <2>1, <2>5, <3>2 DEF Concat
      <4>2. str.text # <<>> \/ str.at # 0
        BY <2>1, <2>5, <3>2, <4>1, Concatenated
      <4> QED  BY <3>2, <4>1, <4>2
    <3>3. ASSUME TrimStr PROVE FALSE
      BY <2>1, <2>5, <3>3 DEF TrimStr
    <3>4. ASSUME Free PROVE Frees
      BY <2>1, <2>5, <3>4 DEF Free
    <3>5. ASSUME NEW d \in Chars, SplitStr(d) PROVE Splits
      <4>1. str.len # 0 /\ Has(str.text, d) /\ Len(Split(str.text, d)) = 1
        BY <2>1, <2>5, <3>5, SplitParts
      <4> QED  BY <3>5, <4>1
    <3> HIDE DEF Splits, Concats, Frees
    <3> QED  BY <3>1, <3>2, <3>3, <3>4, <3>5 DEF Next
  <2> HIDE DEF Splits, Concats, Frees
  <2> QED  BY <2>2, <2>3, <2>4, <2>5
<1> QED  BY <1>1, Invariance, PTL DEF Spec, MisuseKnown
===============================================================================
