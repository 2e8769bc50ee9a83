----------------------------- MODULE VoyConfProofs -----------------------------
(***************************************************************************)
(* Proofs about VoyConf for any file: the default server and the virtual   *)
(* hosts have the options that the places of the lines give them, and what *)
(* is parsed is what is written, without its comments.                     *)
(***************************************************************************)
EXTENDS VoyConf, TLAPS, SequenceTheorems, FiniteSetTheorems, WellFoundedInduction

-------------------------------------------------------------------------------
\* The inductive invariant: what the properties say of the whole file, said of
\* the lines up to the one the loop is at, and of the current virtual host.

IsServerConf(s) == s \in [ServerOptions -> Values] /\ IsServer(s)

\* The lines up to m that are outside of any virtual host, and those that close one.
Outside(m)    == {k \in 1 .. m : Opener(k) = 0}
ClosingsTo(m) == {c \in 1 .. m : IsClose(lines[c]) /\ Opener(c) # 0}

\* c has the options of the lines up to m that are outside.
DefaultTo(c, m) ==
  /\ \A o \in GlobalOptions : c.global[o] = LastValue(Outside(m), o)
  /\ IF \E k \in Outside(m) : IsOption(lines[k]) THEN c.default # NULL /\ HasOptionsOf(c.default, Outside(m))
     ELSE c.default = NULL

\* vhosts are the virtual hosts that the lines up to m close.
VhostsTo(vhosts, m) ==
  /\ Len(vhosts) = Cardinality(ClosingsTo(m))
  /\ \A j \in DOMAIN vhosts :
       HasOptionsOf(vhosts[j], Opener(Nth(ClosingsTo(m), j)) + 1 .. Nth(ClosingsTo(m), j) - 1)

\* Line m + 1 is in a virtual host when in_ holds, and then c is that.
CurrentTo(in_, c, m) ==
  /\ in_ <=> Opener(m + 1) # 0
  /\ in_ => HasOptionsOf(c, Opener(m + 1) + 1 .. m)

\* Every line of the file ends and fits the buffer.
Fits == \A k \in DOMAIN file : Len(file[k]) <= LineBuf /\ Last(file[k]) = Space

\* The lines of the file up to m that are more than a comment.
KeptTo(m) == {k \in 1 .. m : Head(file[k]) # CommentSign}

\* line is what stands for a line of the file.
Stands(line, whole) ==
  /\ line = CodeOf(whole) \/ line = Append(CodeOf(whole), Space)
  /\ line # <<>> /\ line[Len(line)] = Space

\* done are the lines that stand for those of the file up to m.
WrittenTo(done, m) ==
  /\ Len(done) = Cardinality(KeptTo(m))
  /\ \A j \in DOMAIN done : Stands(done[j], file[Nth(KeptTo(m), j)])

Configs == [global : [GlobalOptions -> Seq(STRING)],
            default : {NULL} \cup [ServerOptions -> Values],
            vhosts : Seq([ServerOptions -> Values])]

Types ==
  /\ file \in Files /\ lines \in Seq(Seq(STRING)) /\ n \in Nat /\ at \in Nat
  /\ phase \in {"read", "parse", "crashed"} /\ inside \in BOOLEAN
  /\ inside => IsServerConf(cur)
  /\ ~inside => cur = NULL
  /\ conf \in Configs
  /\ conf.default # NULL => IsServer(conf.default)
  /\ \A k \in DOMAIN conf.vhosts : IsServer(conf.vhosts[k])

\* While the file is read.
ReadInv ==
  phase = "read" =>
    /\ n <= Len(file) /\ ~inside
    /\ conf = [global |-> [o \in GlobalOptions |-> <<>>], default |-> NULL, vhosts |-> <<>>]
    /\ Fits => at = 0 /\ WrittenTo(lines, n)

\* Once it is read.
LinesInv ==
  phase # "read" =>
    /\ n <= Len(lines)
    /\ Fits => phase = "parse" /\ WrittenTo(lines, Len(file))

ParseInv ==
  phase = "parse" => DefaultTo(conf, n) /\ VhostsTo(conf.vhosts, n) /\ CurrentTo(inside, cur, n)

Inv == Types /\ ReadInv /\ LinesInv /\ ParseInv

-------------------------------------------------------------------------------
\* Numbers: the least, the largest and the k-th of a set.

\* A set of numbers that is not empty has a least one.
LEMMA Least ==
  ASSUME NEW T \in SUBSET Nat, T # {}
  PROVE  \E x \in T : \A y \in T : x <= y
<1> DEFINE R == OpToRel(<, Nat)
<1>1. \E x \in T : \A y \in T : <<y, x>> \notin R
  <2>1. IsWellFoundedOn(R, Nat)
    BY NatLessThanWellFounded
  <2> HIDE DEF R
  <2> QED  BY <2>1, WFMin
<1>2. \A x, y \in Nat : y < x => <<y, x>> \in R
  BY DEF OpToRel
<1> HIDE DEF R
<1>3. \A x, y \in T : x \in Nat /\ y \in Nat
  OBVIOUS
<1>4. \A x, y \in Nat : <<y, x>> \notin R => x <= y
  BY <1>2
<1> QED BY <1>1, <1>3, <1>4, Zenon

\* Induction: the provers take no lemma about an operator, a set of numbers does.
LEMMA Induct ==
  ASSUME NEW S \in SUBSET Nat, 0 \in S, \A n_ \in S : n_ + 1 \in S
  PROVE  S = Nat
<1> SUFFICES ASSUME Nat \ S # {} PROVE FALSE
  OBVIOUS
<1>1. PICK x \in Nat \ S : \A y \in Nat \ S : x <= y
  BY Least
<1>2. x # 0 /\ x - 1 \in Nat /\ x - 1 \in S
  BY <1>1
<1> QED BY <1>1, <1>2

LEMMA MinOf ==
  ASSUME NEW T \in SUBSET Nat, T # {}
  PROVE  Min(T) \in T /\ \A y \in T : Min(T) <= y
BY Least DEF Min

\* A set of numbers with a bound has a largest one.
LEMMA MaxOf ==
  ASSUME NEW T \in SUBSET Nat, T # {}, NEW b \in Nat, \A y \in T : y <= b
  PROVE  Max(T) \in T /\ \A y \in T : Max(T) >= y
<1> DEFINE bounds == {c \in Nat : \A y \in T : y <= c}
<1>1. PICK m \in bounds : \A c \in bounds : m <= c
  <2>1. b \in bounds
    OBVIOUS
  <2> QED  BY <2>1, Least
<1>2. m \in T
  <2> SUFFICES ASSUME m \notin T PROVE FALSE
    OBVIOUS
  <2>1. PICK y \in T : TRUE
    OBVIOUS
  <2>2. m # 0 /\ m - 1 \in Nat
    BY <2>1
  <2>3. m - 1 \in bounds
    BY <2>2
  <2> QED  BY <2>3, <1>1
<1>3. \E x \in T : \A y \in T : x >= y
  BY <1>2
<1> QED  BY <1>3 DEF Max

\* The greatest number
LEMMA MaxIs ==
  ASSUME NEW T \in SUBSET Nat, NEW x \in T, \A y \in T : y <= x
  PROVE  Max(T) = x
<1>1. x \in Nat /\ \A y \in T : y \in Nat
  OBVIOUS
<1>2. Max(T) \in T /\ \A y \in T : Max(T) >= y
  BY <1>1, MaxOf
<1> DEFINE m == Max(T)
<1>3. x \in Nat /\ m \in Nat
  BY <1>1, <1>2
<1>4. m >= x /\ m <= x
  BY <1>2
<1> HIDE DEF m
<1>5. m = x
  BY ONLY <1>3, <1>4
<1> QED  BY <1>5 DEF m

LEMMA MinIs ==
  ASSUME NEW T \in SUBSET Nat, NEW x \in T, \A y \in T : x <= y
  PROVE  Min(T) = x
<1>1. \A y \in T : y \in Nat
  OBVIOUS
<1>2. Min(T) \in T /\ \A y \in T : Min(T) <= y
  BY MinOf
<1> DEFINE m == Min(T)
<1>3. x \in Nat /\ m \in Nat
  BY <1>1, <1>2
<1>4. m >= x /\ m <= x
  BY <1>2
<1> HIDE DEF m
<1>5. m = x
  BY ONLY <1>3, <1>4
<1> QED  BY <1>5 DEF m

Below(S, x) == {y \in S : y < x}

\* The k-th number of a set has k - 1 below it, and every number of it is the
\* one after those below it.
LEMMA NthOf ==
  ASSUME NEW S \in SUBSET Nat, IsFiniteSet(S)
  PROVE  /\ Cardinality(S) \in Nat
         /\ \A k \in 1 .. Cardinality(S) : Nth(S, k) \in S /\ Cardinality(Below(S, Nth(S, k))) = k - 1
         /\ \A x \in S : /\ Cardinality(Below(S, x)) + 1 \in 1 .. Cardinality(S)
                         /\ x = Nth(S, Cardinality(Below(S, x)) + 1)
<1> DEFINE c == Cardinality(S)
           rank == [x \in S |-> Cardinality(Below(S, x))]
           T == 0 .. c - 1
<1>1. c \in Nat
  BY FS_CardinalityType
<1>2. ASSUME NEW x \in S
      PROVE  /\ IsFiniteSet(Below(S, x)) /\ Cardinality(Below(S, x)) \in T
  <2>1. Below(S, x) \in SUBSET S /\ x \notin Below(S, x)
    BY DEF Below
  <2>2. /\ IsFiniteSet(Below(S, x)) /\ Cardinality(Below(S, x)) <= c
        /\ c = Cardinality(Below(S, x)) => S = Below(S, x)
    BY <2>1, FS_Subset
  <2>3. Cardinality(Below(S, x)) \in Nat
    BY <2>2, FS_CardinalityType
  <2> QED  BY <2>1, <2>2, <2>3, <1>1
<1>3. ASSUME NEW x \in S, NEW y \in S, x < y
      PROVE  Cardinality(Below(S, x)) # Cardinality(Below(S, y))
  <2>1. Below(S, x) \in SUBSET Below(S, y) /\ x \in Below(S, y) /\ x \notin Below(S, x)
    <3>1. x \in Nat /\ y \in Nat /\ \A z \in S : z < x => z < y
      BY <1>3
    <3>2. ~(x < x)
      BY <3>1
    <3> QED  BY <3>1, <3>2, <1>3, Zenon DEF Below
  <2>2. Cardinality(Below(S, x)) = Cardinality(Below(S, y)) => Below(S, y) = Below(S, x)
    BY <2>1, <1>2, FS_Subset
  <2> QED  BY <2>1, <2>2
<1>4. rank \in Injection(S, T)
  <2>1. rank \in [S -> T]
    BY <1>2
  <2>2. ASSUME NEW x \in S, NEW y \in S, rank[x] = rank[y] PROVE x = y
    <3>1. x \in Nat /\ y \in Nat /\ Cardinality(Below(S, x)) = Cardinality(Below(S, y))
      BY <2>2
    <3> QED  BY <3>1, <1>3
  <2> HIDE DEF rank, T
  <2> QED  BY <2>1, <2>2 DEF Injection, IsInjective
<1>5. IsFiniteSet(T) /\ Cardinality(T) = c
  <2>1. IsFiniteSet(T) /\ Cardinality(T) = IF 0 > c - 1 THEN 0 ELSE c - 1 - 0 + 1
    BY <1>1, FS_Interval
  <2> QED  BY <2>1, <1>1
<1>6. rank \in Surjection(S, T)
  <2> HIDE DEF rank, T
  <2> QED  BY <1>4, <1>5, FS_Injection
<1>7. ASSUME NEW k \in 1 .. c
      PROVE  Nth(S, k) \in S /\ Cardinality(Below(S, Nth(S, k))) = k - 1
  <2>1. k - 1 \in T
    BY <1>1
  <2> HIDE DEF T
  <2>2. PICK x \in S : rank[x] = k - 1
    <3> HIDE DEF rank
    <3> QED  BY <1>6, <2>1 DEF Surjection
  <2>3. Cardinality(Below(S, x)) = k - 1
    BY <2>2
  <2> QED  BY <2>3 DEF Nth, Below
<1>8. ASSUME NEW x \in S
      PROVE  /\ Cardinality(Below(S, x)) + 1 \in 1 .. c
             /\ x = Nth(S, Cardinality(Below(S, x)) + 1)
  <2>1. Cardinality(Below(S, x)) \in T
    BY <1>2
  <2> DEFINE k == Cardinality(Below(S, x)) + 1
             z == Nth(S, k)
  <2>2. k \in 1 .. c /\ k - 1 = Cardinality(Below(S, x))
    BY <2>1, <1>1
  <2> HIDE DEF k
  <2>3. z \in S /\ Cardinality(Below(S, z)) = Cardinality(Below(S, x))
    BY <2>2, <1>7
  <2> HIDE DEF z
  <2>4. x = z
    BY <2>3, <1>3
  <2> QED  BY <2>2, <2>4 DEF k, z
<1> QED  BY <1>1, <1>7, <1>8

\* A number above all others of a set comes after them.
LEMMA NthAdded ==
  ASSUME NEW S \in SUBSET Nat, IsFiniteSet(S), NEW x \in Nat, \A y \in S : y < x
  PROVE  /\ IsFiniteSet(S \cup {x}) /\ Cardinality(S \cup {x}) = Cardinality(S) + 1
         /\ Nth(S \cup {x}, Cardinality(S) + 1) = x
         /\ \A k \in 1 .. Cardinality(S) : Nth(S \cup {x}, k) = Nth(S, k)
<1> DEFINE T == S \cup {x}
<1>1. x \notin S
  OBVIOUS
<1>2. IsFiniteSet(T) /\ Cardinality(T) = Cardinality(S) + 1
  BY <1>1, FS_AddElement
<1>3. T \in SUBSET Nat
  OBVIOUS
<1>4. Below(T, x) = S
  <2>1. ~(x < x)
    OBVIOUS
  <2> QED  BY <2>1 DEF Below
<1>5. \A y \in S : Below(T, y) = Below(S, y)
  BY DEF Below
<1>6. x \in T /\ S \subseteq T
  OBVIOUS
<1> HIDE DEF T
<1>7. x = Nth(T, Cardinality(S) + 1)
  BY <1>2, <1>3, <1>4, <1>6, NthOf
<1>8. ASSUME NEW k \in 1 .. Cardinality(S) PROVE Nth(T, k) = Nth(S, k)
  <2> DEFINE z == Nth(S, k)
  <2>1. z \in S /\ Cardinality(Below(S, z)) = k - 1 /\ k \in Nat
    BY NthOf
  <2> HIDE DEF z
  <2>2. z = Nth(T, (k - 1) + 1)
    BY <2>1, <1>2, <1>3, <1>5, <1>6, NthOf
  <2>3. (k - 1) + 1 = k
    BY <2>1
  <2> QED  BY <2>2, <2>3 DEF z
<1> QED  BY <1>2, <1>7, <1>8 DEF T

-------------------------------------------------------------------------------
\* Folds.

Iterates(it, m, V, base, step) ==
  /\ it \in [SUBSET (1 .. m) -> V] /\ it[{}] = base
  /\ \A s \in SUBSET (1 .. m) : s # {} => it[s] = step[Max(s)][it[s \ {Max(s)}]]

\* Folding over 1 .. m from the smallest: there is such a function.
LEMMA Iterated ==
  ASSUME NEW m \in Nat, NEW V, NEW base \in V, NEW step \in [1 .. m -> [V -> V]]
  PROVE  \E it : Iterates(it, m, V, base, step)
<1> USE DEF Iterates
<1> DEFINE Good(g, j) == Iterates(g, j, V, base, step)
           Some == {j \in Nat : j <= m => \E g : Good(g, j)}
<1>1. \E g : Good(g, 0)
  <2> DEFINE g == [s \in SUBSET (1 .. 0) |-> base]
  <2>1. SUBSET (1 .. 0) = {{}}
    OBVIOUS
  <2>2. Good(g, 0)
    BY <2>1
  <2> HIDE DEF Good, g
  <2> QED  BY <2>2
<1>2. ASSUME NEW j \in Nat, j + 1 <= m, NEW g, Good(g, j) PROVE \E h : Good(h, j + 1)
  <2> DEFINE h == [s \in SUBSET (1 .. j + 1) |->
                     IF j + 1 \in s THEN step[j + 1][g[s \ {j + 1}]] ELSE g[s]]
  <2>1. ASSUME NEW s \in SUBSET (1 .. j + 1), j + 1 \in s
        PROVE  /\ s \ {j + 1} \in SUBSET (1 .. j) /\ s \ {j + 1} \in SUBSET (1 .. j + 1) /\ j + 1 \notin s \ {j + 1}
               /\ Max(s) = j + 1
    <3>1. \A x \in s : x \in Nat /\ x <= j + 1
      OBVIOUS
    <3>2. Max(s) = j + 1
      BY <3>1, <2>1, MaxIs
    <3>3. \A x \in s : x # j + 1 => x \in 1 .. j
      OBVIOUS
    <3> QED  BY <3>2, <3>3
  <2>2. ASSUME NEW s \in SUBSET (1 .. j + 1), j + 1 \notin s
        PROVE  s \in SUBSET (1 .. j)
    <3>1. \A x \in s : x \in 1 .. j
      BY <2>2
    <3> QED  BY <3>1
  <2>3. ASSUME NEW s \in SUBSET (1 .. j), s # {}
        PROVE  /\ Max(s) \in s /\ Max(s) \in 1 .. j /\ s \ {Max(s)} \in SUBSET (1 .. j)
               /\ s \ {Max(s)} \in SUBSET (1 .. j + 1) /\ j + 1 \notin s \ {Max(s)} /\ j + 1 \notin s
    <3>1. \A x \in s : x \in Nat /\ x <= j /\ x \in 1 .. j /\ x \in 1 .. j + 1 /\ x # j + 1
      OBVIOUS
    <3>2. Max(s) \in s
      BY <3>1, <2>3, MaxOf
    <3> QED  BY <3>1, <3>2
  <2>4. j + 1 \in 1 .. m
    BY <1>2
  <2>5. h \in [SUBSET (1 .. j + 1) -> V]
    <3>1. ASSUME NEW s \in SUBSET (1 .. j + 1) PROVE h[s] \in V
      <4>1. CASE j + 1 \in s
        <5>1. g[s \ {j + 1}] \in V
          BY <1>2, <2>1, <4>1
        <5> HIDE DEF Good
        <5> QED  BY <4>1, <5>1, <2>4
      <4>2. CASE j + 1 \notin s
        BY <1>2, <2>2, <4>2
      <4> QED  BY <4>1, <4>2
    <3>2. h = [s \in SUBSET (1 .. j + 1) |-> h[s]]
      OBVIOUS
    <3> HIDE DEF h, Good
    <3> QED  BY <3>1, <3>2
  <2>6. h[{}] = base
    <3>1. j + 1 \notin {} /\ {} \in SUBSET (1 .. j + 1)
      OBVIOUS
    <3>2. h[{}] = g[{}]
      BY <3>1
    <3> HIDE DEF h
    <3> QED  BY <3>2, <1>2
  <2>7. ASSUME NEW s \in SUBSET (1 .. j + 1), s # {}
        PROVE  h[s] = step[Max(s)][h[s \ {Max(s)}]]
    <3>1. CASE j + 1 \in s
      <4>1. h[s] = step[j + 1][g[s \ {j + 1}]]
        BY <3>1
      <4>2. h[s \ {j + 1}] = g[s \ {j + 1}]
        BY <3>1, <2>1
      <4> HIDE DEF h
      <4> QED  BY <4>1, <4>2, <3>1, <2>1
    <3>2. CASE j + 1 \notin s
      <4>1. s \in SUBSET (1 .. j)
        BY <3>2, <2>2
      <4>2. h[s] = g[s]
        BY <3>2
      <4>3. h[s \ {Max(s)}] = g[s \ {Max(s)}]
        BY <4>1, <2>3, <2>7
      <4>4. g[s] = step[Max(s)][g[s \ {Max(s)}]]
        BY <4>1, <2>7, <1>2
      <4> HIDE DEF h, Good
      <4> QED  BY <4>2, <4>3, <4>4
    <3> QED  BY <3>1, <3>2
  <2> HIDE DEF h
  <2>8. Good(h, j + 1)
    BY <2>5, <2>6, <2>7
  <2> QED  BY <2>8
<1> HIDE DEF Good
<1>3. Some = Nat
  <2>1. 0 \in Some
    BY <1>1
  <2>2. ASSUME NEW j \in Some PROVE j + 1 \in Some
    <3>1. CASE j + 1 <= m
      <4>1. PICK g : Good(g, j)
        BY <3>1
      <4> QED  BY <3>1, <4>1, <1>2
    <3> QED  BY <3>1
  <2>3. Some \in SUBSET Nat
    OBVIOUS
  <2> HIDE DEF Some
  <2> QED  BY <2>1, <2>2, <2>3, Induct
<1>4. PICK g : Good(g, m)
  <2>1. m <= m
    OBVIOUS
  <2>2. m \in Some
    <3> HIDE DEF Some
    <3> QED  BY <1>3
  <2> QED  BY <2>1, <2>2
<1> QED  BY <1>4 DEF Good

LEMMA UpTo ==
  ASSUME NEW k \in Nat
  PROVE  Max(1 .. k + 1) = k + 1 /\ (1 .. k + 1) \ {k + 1} = 1 .. k
<1>1. \A x \in 1 .. k + 1 : x <= k + 1
  OBVIOUS
<1>2. Max(1 .. k + 1) = k + 1
  BY <1>1, MaxIs
<1> QED  BY <1>2

\* FoldLeft, by its steps: for the two operators it is used with here.
LEMMA FoldedNames ==
  ASSUME NEW parts \in Seq(Seq(STRING)),
         NEW V, <<>> \in V, \A v \in V : \A k \in DOMAIN parts : AddName(v, parts[k]) \in V
  PROVE  \E F \in [0 .. Len(parts) -> V] :
           /\ F[0] = <<>>
           /\ \A k \in 0 .. Len(parts) - 1 : F[k + 1] = AddName(F[k], parts[k + 1])
           /\ F[Len(parts)] = FoldLeft(AddName, <<>>, parts)
<1> DEFINE m == Len(parts)
           D == DOMAIN parts
           P(it) == it = [s \in SUBSET D |-> IF s = {} THEN <<>> ELSE LET x == Max(s) IN AddName(it[s \ {x}], parts[x])]
           iter == CHOOSE it : P(it)
           step == [k \in 1 .. m |-> [v \in V |-> AddName(v, parts[k])]]
<1>1. m \in Nat /\ D = 1 .. m
  OBVIOUS
<1>2. FoldLeft(AddName, <<>>, parts) = iter[D]
  BY Zenon DEF FoldLeft, MapThenFoldSet
<1>3. step \in [1 .. m -> [V -> V]]
  BY <1>1
<1> HIDE DEF m
<1>4. PICK it : Iterates(it, m, V, <<>>, step)
  <2> HIDE DEF step
  <2> QED  BY <1>1, <1>3, Iterated
<1>5. \A s \in SUBSET (1 .. m) : s # {} => Max(s) \in 1 .. m /\ s \ {Max(s)} \in SUBSET (1 .. m)
  <2> SUFFICES ASSUME NEW s \in SUBSET (1 .. m), s # {} PROVE Max(s) \in s
    OBVIOUS
  <2>1. \A x \in s : x \in Nat /\ x <= m
    BY <1>1
  <2> QED  BY <2>1, <1>1, MaxOf
<1>6. ASSUME NEW s \in SUBSET (1 .. m), s # {} PROVE it[s] = AddName(it[s \ {Max(s)}], parts[Max(s)])
  <2>1. it[s] = step[Max(s)][it[s \ {Max(s)}]]
    BY <1>4, <1>6 DEF Iterates
  <2>2. it[s \ {Max(s)}] \in V /\ Max(s) \in 1 .. m
    BY <1>4, <1>5, <1>6 DEF Iterates
  <2> QED  BY <2>1, <2>2
<1>7. P(it)
  <2>1. it = [s \in SUBSET (1 .. m) |-> it[s]]
    BY <1>4 DEF Iterates
  <2>2. \A s \in SUBSET (1 .. m) : it[s] = IF s = {} THEN <<>> ELSE AddName(it[s \ {Max(s)}], parts[Max(s)])
    BY <1>4, <1>6 DEF Iterates
  <2> HIDE DEF D
  <2> QED  BY <2>1, <2>2, <1>1
<1>8. P(iter)
  <2> HIDE DEF P
  <2> QED  BY <1>7
<1>9. iter = [s \in SUBSET (1 .. m) |-> IF s = {} THEN <<>> ELSE AddName(iter[s \ {Max(s)}], parts[Max(s)])]
  <2> HIDE DEF iter
  <2> QED  BY <1>1, <1>8
<1> HIDE DEF iter, P, D
<1>10. iter[1 .. 0] = <<>>
  BY <1>9
<1>11. ASSUME NEW k \in 0 .. m - 1 PROVE iter[1 .. k + 1] = AddName(iter[1 .. k], parts[k + 1])
  <2>1. k \in Nat /\ k + 1 \in 1 .. k + 1 /\ \A x \in 1 .. k + 1 : x \in 1 .. m
    BY <1>1
  <2>2. Max(1 .. k + 1) = k + 1 /\ (1 .. k + 1) \ {k + 1} = 1 .. k
    BY <2>1, UpTo
  <2> QED  BY <1>9, <2>1, <2>2
<1>12. ASSUME NEW j \in 0 .. m PROVE iter[1 .. j] \in V
  <2> DEFINE S == {k \in Nat : k <= m => iter[1 .. k] \in V}
  <2>1. 0 \in S
    BY <1>10
  <2>2. ASSUME NEW k \in S PROVE k + 1 \in S
    <3>1. CASE k + 1 <= m
      <4>1. k \in 0 .. m - 1 /\ iter[1 .. k] \in V /\ k + 1 \in 1 .. m
        BY <3>1, <1>1
      <4>2. AddName(iter[1 .. k], parts[k + 1]) \in V
        BY <4>1, <1>1 DEF D
      <4> QED  BY <4>1, <4>2, <1>11
    <3> QED  BY <3>1
  <2>3. S \in SUBSET Nat
    OBVIOUS
  <2> HIDE DEF S
  <2>4. S = Nat
    BY <2>1, <2>2, <2>3, Induct
  <2> QED  BY <2>4, <1>1 DEF S
<1> DEFINE F == [k \in 0 .. m |-> iter[1 .. k]]
<1>13. F \in [0 .. m -> V] /\ F[0] = <<>>
  BY <1>1, <1>10, <1>12
<1>14. \A k \in 0 .. m - 1 : F[k + 1] = AddName(F[k], parts[k + 1])
  BY <1>1, <1>11
<1>15. F[m] = FoldLeft(AddName, <<>>, parts)
  BY <1>1, <1>2
<1> HIDE DEF F
<1> QED  BY <1>13, <1>14, <1>15 DEF m

LEMMA FoldedPorts ==
  ASSUME NEW parts \in Seq(Seq(STRING)),
         NEW V, <<>> \in V, \A v \in V : \A k \in DOMAIN parts : AddPort(v, parts[k]) \in V
  PROVE  \E F \in [0 .. Len(parts) -> V] :
           /\ F[0] = <<>>
           /\ \A k \in 0 .. Len(parts) - 1 : F[k + 1] = AddPort(F[k], parts[k + 1])
           /\ F[Len(parts)] = FoldLeft(AddPort, <<>>, parts)
<1> DEFINE m == Len(parts)
           D == DOMAIN parts
           P(it) == it = [s \in SUBSET D |-> IF s = {} THEN <<>> ELSE LET x == Max(s) IN AddPort(it[s \ {x}], parts[x])]
           iter == CHOOSE it : P(it)
           step == [k \in 1 .. m |-> [v \in V |-> AddPort(v, parts[k])]]
<1>1. m \in Nat /\ D = 1 .. m
  OBVIOUS
<1>2. FoldLeft(AddPort, <<>>, parts) = iter[D]
  BY Zenon DEF FoldLeft, MapThenFoldSet
<1>3. step \in [1 .. m -> [V -> V]]
  BY <1>1
<1> HIDE DEF m
<1>4. PICK it : Iterates(it, m, V, <<>>, step)
  <2> HIDE DEF step
  <2> QED  BY <1>1, <1>3, Iterated
<1>5. \A s \in SUBSET (1 .. m) : s # {} => Max(s) \in 1 .. m /\ s \ {Max(s)} \in SUBSET (1 .. m)
  <2> SUFFICES ASSUME NEW s \in SUBSET (1 .. m), s # {} PROVE Max(s) \in s
    OBVIOUS
  <2>1. \A x \in s : x \in Nat /\ x <= m
    BY <1>1
  <2> QED  BY <2>1, <1>1, MaxOf
<1>6. ASSUME NEW s \in SUBSET (1 .. m), s # {} PROVE it[s] = AddPort(it[s \ {Max(s)}], parts[Max(s)])
  <2>1. it[s] = step[Max(s)][it[s \ {Max(s)}]]
    BY <1>4, <1>6 DEF Iterates
  <2>2. it[s \ {Max(s)}] \in V /\ Max(s) \in 1 .. m
    BY <1>4, <1>5, <1>6 DEF Iterates
  <2> QED  BY <2>1, <2>2
<1>7. P(it)
  <2>1. it = [s \in SUBSET (1 .. m) |-> it[s]]
    BY <1>4 DEF Iterates
  <2>2. \A s \in SUBSET (1 .. m) : it[s] = IF s = {} THEN <<>> ELSE AddPort(it[s \ {Max(s)}], parts[Max(s)])
    BY <1>4, <1>6 DEF Iterates
  <2> HIDE DEF D
  <2> QED  BY <2>1, <2>2, <1>1
<1>8. P(iter)
  <2> HIDE DEF P
  <2> QED  BY <1>7
<1>9. iter = [s \in SUBSET (1 .. m) |-> IF s = {} THEN <<>> ELSE AddPort(iter[s \ {Max(s)}], parts[Max(s)])]
  <2> HIDE DEF iter
  <2> QED  BY <1>1, <1>8
<1> HIDE DEF iter, P, D
<1>10. iter[1 .. 0] = <<>>
  BY <1>9
<1>11. ASSUME NEW k \in 0 .. m - 1 PROVE iter[1 .. k + 1] = AddPort(iter[1 .. k], parts[k + 1])
  <2>1. k \in Nat /\ k + 1 \in 1 .. k + 1 /\ \A x \in 1 .. k + 1 : x \in 1 .. m
    BY <1>1
  <2>2. Max(1 .. k + 1) = k + 1 /\ (1 .. k + 1) \ {k + 1} = 1 .. k
    BY <2>1, UpTo
  <2> QED  BY <1>9, <2>1, <2>2
<1>12. ASSUME NEW j \in 0 .. m PROVE iter[1 .. j] \in V
  <2> DEFINE S == {k \in Nat : k <= m => iter[1 .. k] \in V}
  <2>1. 0 \in S
    BY <1>10
  <2>2. ASSUME NEW k \in S PROVE k + 1 \in S
    <3>1. CASE k + 1 <= m
      <4>1. k \in 0 .. m - 1 /\ iter[1 .. k] \in V /\ k + 1 \in 1 .. m
        BY <3>1, <1>1
      <4>2. AddPort(iter[1 .. k], parts[k + 1]) \in V
        BY <4>1, <1>1 DEF D
      <4> QED  BY <4>1, <4>2, <1>11
    <3> QED  BY <3>1
  <2>3. S \in SUBSET Nat
    OBVIOUS
  <2> HIDE DEF S
  <2>4. S = Nat
    BY <2>1, <2>2, <2>3, Induct
  <2> QED  BY <2>4, <1>1 DEF S
<1> DEFINE F == [k \in 0 .. m |-> iter[1 .. k]]
<1>13. F \in [0 .. m -> V] /\ F[0] = <<>>
  BY <1>1, <1>10, <1>12
<1>14. \A k \in 0 .. m - 1 : F[k + 1] = AddPort(F[k], parts[k + 1])
  BY <1>1, <1>11
<1>15. F[m] = FoldLeft(AddPort, <<>>, parts)
  BY <1>1, <1>2
<1> HIDE DEF F
<1> QED  BY <1>13, <1>14, <1>15 DEF m

-------------------------------------------------------------------------------
\* Trimming and splitting.

LEMMA Sub ==
  ASSUME NEW A, NEW s \in Seq(A), NEW i \in 1 .. Len(s) + 1, NEW j \in Int, j <= Len(s)
  PROVE  /\ SubSeq(s, i, j) \in Seq(A)
         /\ Len(SubSeq(s, i, j)) = IF i <= j THEN j - i + 1 ELSE 0
         /\ \A k \in 1 .. j - i + 1 : SubSeq(s, i, j)[k] = s[i + k - 1]
OBVIOUS

\* The characters of s that are no white space.
Black(s) == {k \in DOMAIN s : s[k] # Space}

LEMMA BlackEnds ==
  ASSUME NEW s \in Seq(STRING), Black(s) # {}
  PROVE  /\ Min(Black(s)) \in 1 .. Len(s) /\ Max(Black(s)) \in 1 .. Len(s)
         /\ s[Min(Black(s))] # Space /\ s[Max(Black(s))] # Space
         /\ \A k \in 1 .. Len(s) : s[k] # Space => Min(Black(s)) <= k /\ k <= Max(Black(s))
<1> DEFINE B == Black(s)
<1>1. B \in SUBSET Nat /\ Len(s) \in Nat /\ B \subseteq 1 .. Len(s) /\ \A y \in B : y <= Len(s)
  BY DEF Black
<1>2. \A k \in 1 .. Len(s) : k \in B <=> s[k] # Space
  BY DEF Black
<1> HIDE DEF B
<1>3. Min(B) \in B /\ \A y \in B : Min(B) <= y
  BY <1>1, MinOf DEF B
<1>4. Max(B) \in B /\ \A y \in B : Max(B) >= y
  BY <1>1, MaxOf DEF B
<1>5. Max(B) \in Nat /\ \A y \in B : y <= Max(B)
  BY <1>1, <1>4
<1> QED  BY <1>1, <1>2, <1>3, <1>4, <1>5 DEF B

\* What is left of a text has nothing to trim.
LEMMA TrimText ==
  ASSUME NEW s \in Seq(STRING)
  PROVE  /\ Trimmed(s) \in Seq(STRING)
         /\ Trimmed(Trimmed(s)) = Trimmed(s)
         /\ \A k \in DOMAIN s : s[k] # Space => Has(Trimmed(s), s[k])
<1> DEFINE B == Black(s)
           a == Min(B)
           z == Max(B)
           e == IF a = z /\ s[a] \in Short THEN Len(s) ELSE z
           t == SubSeq(s, a, e)
<1>1. Trimmed(s) = IF B = {} THEN <<>> ELSE t
  BY DEF Trimmed, Trim, Black
<1>2. CASE B = {}
  <2>1. Trimmed(s) = <<>>
    BY <1>1, <1>2
  <2>2. Trimmed(<<>>) = <<>>
    BY DEF Trimmed, Trim
  <2>3. \A k \in DOMAIN s : s[k] = Space
    BY <1>2 DEF Black
  <2> QED  BY <2>1, <2>2, <2>3
<1>3. CASE B # {}
  <2>1. /\ a \in 1 .. Len(s) /\ z \in 1 .. Len(s) /\ a <= z
        /\ s[a] # Space /\ s[z] # Space
        /\ \A k \in 1 .. Len(s) : s[k] # Space => a <= k /\ k <= z
    BY <1>3, BlackEnds
  <2> HIDE DEF a, z
  <2>2. e \in 1 .. Len(s) /\ z <= e /\ Len(s) \in Nat
    BY <2>1
  <2>3. (e = z /\ ~(a = z /\ s[a] \in Short)) \/ (e = Len(s) /\ a = z /\ s[a] \in Short)
    OBVIOUS
  <2> HIDE DEF e
  <2>4. t \in Seq(STRING) /\ Len(t) = e - a + 1 /\ \A k \in 1 .. e - a + 1 : t[k] = s[a + k - 1]
    <3>1. a \in 1 .. Len(s) + 1 /\ e \in Int /\ e <= Len(s) /\ a <= e
      BY <2>1, <2>2
    <3> QED  BY <3>1, Sub
  <2> HIDE DEF t
  <2>5. Trimmed(s) = t
    BY <1>1, <1>3
  <2>6. ASSUME NEW k \in 1 .. Len(s), s[k] # Space
        PROVE  k - a + 1 \in DOMAIN t /\ t[k - a + 1] = s[k]
    <3>1. a <= k /\ k <= e
      BY <2>1, <2>2, <2>6
    <3>2. k - a + 1 \in 1 .. e - a + 1 /\ a + (k - a + 1) - 1 = k
      BY <3>1, <2>1, <2>2
    <3> QED  BY <3>2, <2>4
  <2>7. Black(t) # {} /\ Min(Black(t)) = 1 /\ Max(Black(t)) = z - a + 1
    <3>1. 1 \in 1 .. e - a + 1 /\ z - a + 1 \in 1 .. e - a + 1 /\ a + 1 - 1 = a /\ a + (z - a + 1) - 1 = z
      BY <2>1, <2>2
    <3>2. t[1] = s[a] /\ t[z - a + 1] = s[z]
      BY <3>1, <2>4
    <3>3. 1 \in Black(t) /\ z - a + 1 \in Black(t)
      BY <3>1, <3>2, <2>4, <2>1 DEF Black
    <3>4. ASSUME NEW y \in Black(t) PROVE y \in Nat /\ 1 <= y /\ y <= z - a + 1
      <4>1. y \in 1 .. e - a + 1 /\ t[y] # Space
        BY <2>4 DEF Black
      <4>2. s[a + y - 1] # Space /\ a + y - 1 \in 1 .. Len(s)
        BY <4>1, <2>1, <2>2, <2>4
      <4>3. a + y - 1 <= z
        BY <4>2, <2>1
      <4> QED  BY <4>1, <4>3, <2>1, <2>2
    <3>5. Black(t) \in SUBSET Nat /\ (\A y \in Black(t) : 1 <= y) /\ (\A y \in Black(t) : y <= z - a + 1)
      BY <3>4
    <3> QED  BY <3>3, <3>5, MinIs, MaxIs
  <2>8. Trimmed(t) = t
    <3>1. Trimmed(t) = IF 1 = z - a + 1 /\ t[1] \in Short THEN SubSeq(t, 1, Len(t)) ELSE SubSeq(t, 1, z - a + 1)
      BY <2>7 DEF Trimmed, Trim, Black
    <3>2. SubSeq(t, 1, Len(t)) = t
      BY <2>4
    <3>3. ~(1 = z - a + 1 /\ t[1] \in Short) => z - a + 1 = Len(t)
      <4>1. t[1] = s[a]
        <5>1. 1 \in 1 .. e - a + 1 /\ a + 1 - 1 = a
          BY <2>1, <2>2
        <5> QED  BY <5>1, <2>4
      <4> QED  BY <4>1, <2>1, <2>3, <2>4
    <3> QED  BY <3>1, <3>2, <3>3
  <2>9. \A k \in DOMAIN s : s[k] # Space => Has(t, s[k])
    BY <2>6 DEF Has, ToSet
  <2> QED  BY <2>4, <2>5, <2>8, <2>9
<1> QED  BY <1>2, <1>3

\* What splitting gives: texts, and how many there are.
LEMMA SplitText ==
  ASSUME NEW s \in Seq(STRING), NEW d
  PROVE  /\ Split(s, d) \in Seq(Seq(STRING))
         /\ s # <<>> => Len(Split(s, d)) >= 1
         /\ s # <<>> /\ (\A k \in 1 .. Len(s) - 1 : s[k] # d) => Split(s, d) = <<s>>
         /\ (\E k \in 1 .. Len(s) - 1 : s[k] = d) => Len(Split(s, d)) >= 2
<1>1. CASE s = <<>>
  BY <1>1 DEF Split
<1>2. CASE s # <<>>
  <2> DEFINE cuts == {k \in 1 .. Len(s) - 1 : s[k] = d}
             from == {0} \cup cuts
             to   == cuts \cup {Len(s) + 1}
             c    == Cardinality(cuts)
             part(k) == SubSeq(s, Nth(from, k) + 1, Nth(to, k) - 1)
  <2>1. Split(s, d) = [k \in 1 .. Cardinality(from) |-> part(k)]
    BY <1>2 DEF Split
  <2>2. Len(s) \in Nat /\ Len(s) >= 1
    BY <1>2
  <2>3. cuts \in SUBSET (1 .. Len(s) - 1) /\ cuts \in SUBSET Nat /\ 0 \notin cuts /\ Len(s) + 1 \notin cuts
    BY <2>2
  <2>4. IsFiniteSet(cuts) /\ c \in Nat
    <3>1. IsFiniteSet(1 .. Len(s) - 1)
      BY <2>2, FS_Interval
    <3> QED  BY <3>1, <2>3, FS_Subset, FS_CardinalityType
  <2>5. /\ IsFiniteSet(from) /\ Cardinality(from) = c + 1
        /\ IsFiniteSet(to) /\ Cardinality(to) = c + 1
    <3> DEFINE l == Len(s) + 1
    <3>1. l \notin cuts
      BY <2>3
    <3> HIDE DEF cuts, l
    <3>2. IsFiniteSet(cuts \cup {0}) /\ Cardinality(cuts \cup {0}) = c + 1
      BY <2>3, <2>4, FS_AddElement
    <3>3. IsFiniteSet(cuts \cup {l}) /\ Cardinality(cuts \cup {l}) = c + 1
      BY <3>1, <2>4, FS_AddElement
    <3>4. from = cuts \cup {0}
      OBVIOUS
    <3> QED  BY <3>2, <3>3, <3>4 DEF l
  <2> HIDE DEF c
  <2>6. ASSUME NEW k \in 1 .. c + 1 PROVE part(k) \in Seq(STRING)
    <3>1. from \in SUBSET Nat /\ to \in SUBSET Nat
      BY <2>2, <2>3
    <3>2. Nth(from, k) \in from /\ Nth(to, k) \in to
      <4> HIDE DEF from, to
      <4> QED  BY <3>1, <2>5, NthOf
    <3> DEFINE i == Nth(from, k)
               j == Nth(to, k)
    <3> HIDE DEF i, j
    <3>3. i \in 0 .. Len(s) - 1 /\ j \in 1 .. Len(s) + 1
      <4>1. i \in from /\ j \in to
        BY <3>2 DEF i, j
      <4> QED  BY <4>1, <2>2, <2>3
    <3>4. i + 1 \in 1 .. Len(s) + 1 /\ j - 1 \in Int /\ j - 1 <= Len(s)
      BY <3>3, <2>2
    <3>5. SubSeq(s, i + 1, j - 1) \in Seq(STRING)
      BY <3>4, Sub
    <3> QED  BY <3>5 DEF i, j
  <2> DEFINE p == Split(s, d)
  <2>7. p = [k \in 1 .. c + 1 |-> part(k)]
    BY <2>1, <2>5
  <2> HIDE DEF p, part
  <2>8. p \in Seq(Seq(STRING)) /\ Len(p) = c + 1
    BY <2>4, <2>6, <2>7
  <2>9. ASSUME \A k \in 1 .. Len(s) - 1 : s[k] # d PROVE p = <<s>>
    <3>1. cuts = {}
      BY <2>9
    <3>2. c = 0
      BY <3>1, FS_EmptySet DEF c
    <3>3. from = {0} /\ to = {Len(s) + 1}
      BY <3>1
    <3>4. Nth(from, 1) = 0 /\ Nth(to, 1) = Len(s) + 1
      <4> HIDE DEF from, to, cuts
      <4>1. 1 \in 1 .. c + 1 /\ from \in SUBSET Nat /\ to \in SUBSET Nat
        BY <3>2, <3>3, <2>2
      <4>2. Nth(from, 1) \in from /\ Nth(to, 1) \in to
        BY <4>1, <2>5, NthOf
      <4> QED  BY <4>2, <3>3
    <3>5. part(1) = SubSeq(s, 0 + 1, (Len(s) + 1) - 1)
      BY <3>4 DEF part
    <3>6. SubSeq(s, 0 + 1, (Len(s) + 1) - 1) = s
      BY <2>2
    <3>7. p = [k \in 1 .. 1 |-> part(k)]
      BY <2>7, <3>2
    <3> QED  BY <3>5, <3>6, <3>7
  <2>10. ASSUME NEW k \in 1 .. Len(s) - 1, s[k] = d PROVE Len(p) >= 2
    <3>1. k \in cuts
      BY <2>10
    <3>2. c # 0
      <4> HIDE DEF cuts
      <4> QED  BY <3>1, <2>4, FS_EmptySet DEF c
    <3> QED  BY <3>2, <2>4, <2>8
  <2> QED  BY <1>2, <2>4, <2>8, <2>9, <2>10 DEF p
<1> QED  BY <1>1, <1>2

-------------------------------------------------------------------------------
\* What an option line says.

LEMMA Appended ==
  ASSUME NEW A, NEW s \in Seq(A), NEW x \in A
  PROVE  /\ Append(s, x) \in Seq(A) /\ Len(Append(s, x)) = Len(s) + 1
         /\ \A k \in 1 .. Len(s) : Append(s, x)[k] = s[k]
         /\ Append(s, x)[Len(s) + 1] = x
         /\ ToSet(Append(s, x)) = ToSet(s) \cup {x}
<1> DEFINE t == Append(s, x)
<1>1. /\ t \in Seq(A) /\ Len(t) = Len(s) + 1 /\ Len(s) \in Nat
      /\ (\A k \in 1 .. Len(s) : t[k] = s[k]) /\ t[Len(s) + 1] = x
  OBVIOUS
<1>2. DOMAIN t = 1 .. Len(s) + 1 /\ DOMAIN s = 1 .. Len(s)
  BY <1>1
<1> HIDE DEF t
<1>3. ToSet(t) = ToSet(s) \cup {x}
  <2>1. ASSUME NEW y \in ToSet(t) PROVE y \in ToSet(s) \cup {x}
    <3>1. PICK k \in 1 .. Len(s) + 1 : y = t[k]
      BY <1>2 DEF ToSet
    <3>2. k = Len(s) + 1 \/ k \in 1 .. Len(s)
      BY <1>1
    <3> QED  BY <3>1, <3>2, <1>1, <1>2 DEF ToSet
  <2>2. ASSUME NEW y \in ToSet(s) PROVE y \in ToSet(t)
    <3>1. PICK k \in 1 .. Len(s) : y = s[k]
      BY <1>2 DEF ToSet
    <3>2. k \in 1 .. Len(s) + 1
      BY <1>1
    <3> QED  BY <3>1, <3>2, <1>1, <1>2 DEF ToSet
  <2>3. x \in ToSet(t)
    <3>1. Len(s) + 1 \in 1 .. Len(s) + 1
      BY <1>1
    <3> QED  BY <3>1, <1>1, <1>2 DEF ToSet
  <2> QED  BY <2>1, <2>2, <2>3
<1> QED  BY <1>1, <1>3 DEF t

\* A line's option. Without a value, its name keeps the sign.
LEMMA OptionText ==
  ASSUME NEW line \in Seq(STRING), IsOption(line)
  PROVE  /\ OpName(line) \in Seq(STRING)
         /\ OpValue(line) # NULL => OpValue(line) \in Seq(STRING)
         /\ OpValue(line) = NULL => Has(OpName(line), Equal)
         /\ Last(line) = Space => OpValue(line) # NULL
<1> DEFINE parts == Split(line, Equal)
<1>1. PICK k \in 1 .. Len(line) : line[k] = Equal
  BY DEF IsOption, Has, ToSet
<1>2. line # <<>> /\ Len(line) \in Nat
  BY <1>1
<1>3. /\ parts \in Seq(Seq(STRING)) /\ Len(parts) >= 1 /\ Len(parts) \in Nat
      /\ (\A j \in 1 .. Len(line) - 1 : line[j] # Equal) => parts = <<line>>
      /\ (\E j \in 1 .. Len(line) - 1 : line[j] = Equal) => Len(parts) >= 2
  <2>1. parts \in Seq(Seq(STRING))
    BY SplitText
  <2> HIDE DEF parts
  <2>2. Len(parts) \in Nat
    BY <2>1
  <2> QED  BY <1>2, <2>1, <2>2, SplitText DEF parts
<1>4. OpName(line) = Trimmed(parts[1]) /\ OpValue(line) = IF Len(parts) = 1 THEN NULL ELSE Trimmed(parts[2])
  BY DEF OpName, OpValue
<1> HIDE DEF parts
<1>5. parts[1] \in Seq(STRING)
  BY <1>3
<1>6. CASE Len(parts) = 1
  <2>1. parts = <<line>>
    <3>1. ~\E j \in 1 .. Len(line) - 1 : line[j] = Equal
      BY <1>3, <1>6
    <3> QED  BY <3>1, <1>3
  <2>2. parts[1] = line
    BY <2>1
  <2>3. Equal # Space
    BY DEF Equal, Space
  <2>4. Has(Trimmed(line), Equal)
    BY <1>1, <2>3, TrimText
  <2>5. Last(line) # Space
    <3>1. ~(k \in 1 .. Len(line) - 1)
      BY <1>1, <1>3, <1>6
    <3>2. k = Len(line)
      BY <3>1, <1>2
    <3> QED  BY <3>2, <1>1, <2>3 DEF Last
  <2>6. OpName(line) \in Seq(STRING)
    BY <1>4, <1>5, TrimText
  <2>7. OpValue(line) = NULL
    BY <1>4, <1>6
  <2> QED  BY <1>4, <2>2, <2>4, <2>5, <2>6, <2>7
<1>7. CASE Len(parts) # 1
  <2>1. 2 \in 1 .. Len(parts)
    BY <1>3, <1>7
  <2>2. parts[2] \in Seq(STRING)
    BY <2>1, <1>3
  <2>3. Trimmed(parts[2]) \in Seq(STRING) /\ Trimmed(parts[1]) \in Seq(STRING)
    BY <2>2, <1>5, TrimText
  <2>4. OpValue(line) = Trimmed(parts[2])
    BY <1>4, <1>7
  <2>5. OpValue(line) # NULL
    BY <2>3, <2>4, NullAssumption
  <2> QED  BY <2>3, <2>4, <2>5, <1>4
<1> QED  BY <1>6, <1>7

\* A list holds the trimmed parts of its value: comparing a part before it is
\* trimmed never drops one that is not there, since what is there is trimmed.
LEMMA ListOf ==
  ASSUME NEW value \in Seq(STRING)
  PROVE  ParseList(value) \in Seq(Seq(STRING)) /\ ToSet(ParseList(value)) = Parts(value)
<1> DEFINE parts == Split(value, Comma)
           V == Seq(Seq(STRING))
           m == Len(parts)
<1>1. parts \in Seq(Seq(STRING)) /\ m \in Nat /\ DOMAIN parts = 1 .. m
  <2>1. parts \in Seq(Seq(STRING))
    BY SplitText
  <2> HIDE DEF parts
  <2> QED  BY <2>1
<1>2. ParseList(value) = FoldLeft(AddName, <<>>, parts)
  BY DEF ParseList
<1>3. Parts(value) = {Trimmed(parts[j]) : j \in 1 .. m}
  BY <1>1 DEF Parts, ToSet
<1> HIDE DEF parts
<1>4. \A k \in 1 .. m : parts[k] \in Seq(STRING) /\ Trimmed(parts[k]) \in Seq(STRING)
  BY <1>1, TrimText
<1>5. <<>> \in V /\ \A v \in V : \A k \in DOMAIN parts : AddName(v, parts[k]) \in V
  <2>1. ASSUME NEW v \in V, NEW k \in 1 .. m PROVE AddName(v, parts[k]) \in V
    <3>1. v \in Seq(Seq(STRING)) /\ Trimmed(parts[k]) \in Seq(STRING)
      BY <1>4
    <3>2. Append(v, Trimmed(parts[k])) \in Seq(Seq(STRING))
      BY <3>1, Appended
    <3> QED  BY <3>1, <3>2 DEF AddName
  <2>2. <<>> \in V
    OBVIOUS
  <2> HIDE DEF V
  <2> QED  BY <2>1, <2>2, <1>1
<1> HIDE DEF V
<1>6. PICK F \in [0 .. m -> V] :
        /\ F[0] = <<>>
        /\ \A k \in 0 .. m - 1 : F[k + 1] = AddName(F[k], parts[k + 1])
        /\ F[m] = FoldLeft(AddName, <<>>, parts)
  BY <1>1, <1>5, FoldedNames
<1> HIDE DEF m
<1> DEFINE S == {k \in Nat : k <= m => ToSet(F[k]) = {Trimmed(parts[j]) : j \in 1 .. k}}
<1>7. 0 \in S
  BY <1>6 DEF ToSet
<1>8. ASSUME NEW k \in S PROVE k + 1 \in S
  <2>1. CASE k + 1 <= m
    <3> DEFINE part == parts[k + 1]
               names == F[k]
    <3>1. k \in 0 .. m - 1 /\ k \in 0 .. m /\ k + 1 \in 1 .. m /\ k \in Nat
      BY <2>1, <1>1
    <3>2. ToSet(names) = {Trimmed(parts[j]) : j \in 1 .. k}
      BY <3>1
    <3>3. F[k + 1] = IF Has(names, part) THEN names ELSE Append(names, Trimmed(part))
      BY <3>1, <1>6 DEF AddName
    <3>4. {Trimmed(parts[j]) : j \in 1 .. k + 1} = {Trimmed(parts[j]) : j \in 1 .. k} \cup {Trimmed(part)}
      <4>1. 1 .. k + 1 = (1 .. k) \cup {k + 1}
        BY <3>1
      <4> QED  BY <4>1
    <3>5. names \in Seq(Seq(STRING)) /\ Trimmed(part) \in Seq(STRING)
      BY <3>1, <1>4, <1>6 DEF V
    <3>6. Has(names, part) => Trimmed(part) \in ToSet(names)
      <4>1. ASSUME Has(names, part) PROVE Trimmed(part) = part
        <5>1. PICK j \in 1 .. k : part = Trimmed(parts[j])
          BY <3>2, <4>1 DEF Has
        <5>2. parts[j] \in Seq(STRING)
          BY <3>1, <1>1
        <5> HIDE DEF part
        <5> QED  BY <5>1, <5>2, TrimText
      <4> QED  BY <4>1 DEF Has
    <3> HIDE DEF part, names
    <3>7. ToSet(F[k + 1]) = ToSet(names) \cup {Trimmed(part)}
      BY <3>3, <3>5, <3>6, Appended
    <3>8. ToSet(F[k + 1]) = {Trimmed(parts[j]) : j \in 1 .. k + 1}
      BY <3>2, <3>4, <3>7
    <3>9. k + 1 \in Nat
      BY <3>1
    <3> QED  BY <3>8, <3>9
  <2> QED  BY <2>1
<1>9. S = Nat
  <2>1. S \in SUBSET Nat
    OBVIOUS
  <2> HIDE DEF S
  <2> QED  BY <1>7, <1>8, <2>1, Induct
<1>10. m \in S /\ m <= m
  <2>1. m <= m
    BY <1>1
  <2> HIDE DEF S
  <2> QED  BY <1>1, <1>9, <2>1
<1>11. ToSet(F[m]) = {Trimmed(parts[j]) : j \in 1 .. m}
  BY <1>10
<1>12. F[m] \in Seq(Seq(STRING))
  BY <1>1, <1>6 DEF V
<1> QED  BY <1>2, <1>3, <1>6, <1>11, <1>12

LEMMA AtoiInt == \A s \in Seq(STRING) : Atoi(s) \in Int
BY NumberAssumption DEF Atoi

\* The ports of a value: each of its numbers, and none twice.
LEMMA PortsOf ==
  ASSUME NEW value \in Seq(STRING)
  PROVE  /\ ParsePorts(value) \in Seq(Int)
         /\ ToSet(ParsePorts(value)) = {Atoi(part) : part \in Parts(value)}
         /\ IsInjective(ParsePorts(value))
<1> DEFINE parts == Split(value, Comma)
           V == Seq(Int)
           m == Len(parts)
           port(j) == Atoi(Trimmed(parts[j]))
<1>1. parts \in Seq(Seq(STRING)) /\ m \in Nat /\ DOMAIN parts = 1 .. m
  <2>1. parts \in Seq(Seq(STRING))
    BY SplitText
  <2> HIDE DEF parts
  <2> QED  BY <2>1
<1>2. ParsePorts(value) = FoldLeft(AddPort, <<>>, parts)
  BY DEF ParsePorts
<1>3. {Atoi(part) : part \in Parts(value)} = {port(j) : j \in 1 .. m}
  BY <1>1 DEF Parts, ToSet
<1> HIDE DEF parts
<1>4. \A k \in 1 .. m : port(k) \in Int
  BY <1>1, TrimText, AtoiInt
<1>5. <<>> \in V /\ \A v \in V : \A k \in DOMAIN parts : AddPort(v, parts[k]) \in V
  BY <1>1, <1>4 DEF AddPort
<1> HIDE DEF V
<1>6. PICK F \in [0 .. m -> V] :
        /\ F[0] = <<>>
        /\ \A k \in 0 .. m - 1 : F[k + 1] = AddPort(F[k], parts[k + 1])
        /\ F[m] = FoldLeft(AddPort, <<>>, parts)
  BY <1>1, <1>5, FoldedPorts
<1> HIDE DEF m
<1> DEFINE S == {k \in Nat : k <= m => ToSet(F[k]) = {port(j) : j \in 1 .. k} /\ IsInjective(F[k])}
<1>7. 0 \in S
  BY <1>6 DEF ToSet, IsInjective
<1>8. ASSUME NEW k \in S PROVE k + 1 \in S
  <2>1. CASE k + 1 <= m
    <3> DEFINE p == port(k + 1)
               ports == F[k]
    <3>1. k \in 0 .. m - 1 /\ k \in 0 .. m /\ k + 1 \in 1 .. m /\ k \in Nat
      BY <2>1, <1>1
    <3>2. ToSet(ports) = {port(j) : j \in 1 .. k} /\ IsInjective(ports)
      BY <3>1
    <3>3. F[k + 1] = IF Has(ports, p) THEN ports ELSE Append(ports, p)
      BY <3>1, <1>6 DEF AddPort
    <3>4. {port(j) : j \in 1 .. k + 1} = {port(j) : j \in 1 .. k} \cup {p}
      <4>1. 1 .. k + 1 = (1 .. k) \cup {k + 1}
        BY <3>1
      <4> QED  BY <4>1
    <3>5. ports \in Seq(Int) /\ p \in Int
      BY <3>1, <1>4, <1>6 DEF V
    <3> HIDE DEF p, ports, port
    <3>6. ToSet(F[k + 1]) = ToSet(ports) \cup {p}
      <4>1. ToSet(Append(ports, p)) = ToSet(ports) \cup {p}
        BY <3>5, Appended
      <4>2. Has(ports, p) => ToSet(ports) = ToSet(ports) \cup {p}
        BY DEF Has
      <4> QED  BY <3>3, <4>1, <4>2
    <3>7. IsInjective(F[k + 1])
      <4>1. CASE Has(ports, p)
        BY <3>2, <3>3, <4>1
      <4>2. CASE ~Has(ports, p)
        <5> DEFINE t == Append(ports, p)
        <5>1. /\ Len(ports) \in Nat /\ DOMAIN ports = 1 .. Len(ports) /\ DOMAIN t = 1 .. Len(ports) + 1
              /\ (\A i \in 1 .. Len(ports) : t[i] = ports[i]) /\ t[Len(ports) + 1] = p
          BY <3>5
        <5> HIDE DEF t
        <5>2. \A i \in 1 .. Len(ports) : ports[i] # p
          BY <4>2, <5>1 DEF Has, ToSet
        <5>3. IsInjective(t)
          <6> SUFFICES ASSUME NEW a \in 1 .. Len(ports) + 1, NEW b \in 1 .. Len(ports) + 1, t[a] = t[b]
                       PROVE  a = b
            BY <5>1 DEF IsInjective
          <6>1. (a = Len(ports) + 1 \/ a \in 1 .. Len(ports)) /\ (b = Len(ports) + 1 \/ b \in 1 .. Len(ports))
            BY <5>1
          <6>2. \A i, j \in 1 .. Len(ports) : ports[i] = ports[j] => i = j
            BY <3>2, <5>1 DEF IsInjective
          <6> QED  BY <6>1, <6>2, <5>1, <5>2
        <5> QED  BY <3>3, <4>2, <5>3 DEF t
      <4> QED  BY <4>1, <4>2
    <3>8. ToSet(F[k + 1]) = {port(j) : j \in 1 .. k + 1}
      BY <3>2, <3>4, <3>6
    <3>9. k + 1 \in Nat
      BY <3>1
    <3> QED  BY <3>7, <3>8, <3>9
  <2> QED  BY <2>1
<1>9. S = Nat
  <2>1. S \in SUBSET Nat
    OBVIOUS
  <2> HIDE DEF S
  <2> QED  BY <1>7, <1>8, <2>1, Induct
<1>10. m \in S /\ m <= m
  <2>1. m <= m
    BY <1>1
  <2> HIDE DEF S
  <2> QED  BY <1>1, <1>9, <2>1
<1>11. ToSet(F[m]) = {port(j) : j \in 1 .. m} /\ IsInjective(F[m])
  BY <1>10
<1>12. F[m] \in Seq(Int)
  BY <1>1, <1>6 DEF V
<1> HIDE DEF port
<1> QED  BY <1>2, <1>3, <1>6, <1>11, <1>12

-------------------------------------------------------------------------------
\* What a server is set to.

\* The last page option of S that failed.
Lost(S) == Max({0} \cup {k \in PageLines(S) : PageOf(k).code < 0})

PagesOf(S) == {PageOf(k) : k \in {k \in PageLines(S) : k > Lost(S)}}

\* HasOptionsOf, its parts by name.
LEMMA OptionsOf ==
  ASSUME NEW s, NEW S
  PROVE  HasOptionsOf(s, S) <=>
           /\ \A o \in StringOptions : s[o] = LastValue(S, o)
           /\ \A o \in ListOptions : ToSet(s[o]) = Parts(LastValue(S, o))
           /\ ToSet(s["port"]) = {Atoi(part) : part \in Parts(LastValue(S, "port"))}
           /\ IsInjective(s["port"])
           /\ ToSet(s[ErrorPage]) = PagesOf(S)
BY DEF HasOptionsOf, PagesOf, Lost

LEMMA FieldSet ==
  ASSUME NEW s \in [ServerOptions -> Values], NEW o \in ServerOptions, NEW v \in Values
  PROVE  LET new == [s EXCEPT ![o] = v]
         IN  /\ new \in [ServerOptions -> Values] /\ new[o] = v
             /\ \A p \in ServerOptions : p # o => new[p] = s[p]
OBVIOUS

\* The options are all different.
LEMMA OptionNames ==
  /\ \A o \in StringOptions : o \in ServerOptions /\ o \notin ListOptions /\ o # "port" /\ o # ErrorPage
  /\ \A o \in ListOptions : o \in ServerOptions /\ o \notin StringOptions /\ o # "port" /\ o # ErrorPage
  /\ {"port", ErrorPage} \subseteq ServerOptions /\ "port" # ErrorPage
BY DEF ServerOptions, StringOptions, ListOptions, ErrorPage

\* voy_server_conf_new: a server without options.
LEMMA NoOptions == IsServerConf(NewServer) /\ HasOptionsOf(NewServer, {})
<1>1. \A o \in ServerOptions : NewServer[o] = <<>>
  BY DEF NewServer
<1>2. NewServer \in [ServerOptions -> Values] /\ IsServer(NewServer)
  <2>1. <<>> \in Values
    BY DEF Values
  <2>2. NewServer \in [ServerOptions -> Values]
    BY <2>1 DEF NewServer
  <2>3. <<>> \in Seq(STRING) /\ <<>> \in Seq(Seq(STRING)) /\ <<>> \in Seq(Int) /\ <<>> \in Seq(Pages)
    OBVIOUS
  <2>4. IsServer(NewServer)
    BY <1>1, <2>3, Zenon DEF IsServer, ServerOptions
  <2> QED  BY <2>2, <2>4
<1>3. \A o : Setting({}, o) = {} /\ LastValue({}, o) = <<>>
  BY DEF Setting, LastValue
<1>4. PageLines({}) = {} /\ PagesOf({}) = {}
  BY DEF PageLines, PagesOf
<1>5. Parts(<<>>) = {} /\ ToSet(<<>>) = {} /\ IsInjective(<<>>)
  BY DEF Parts, Split, ToSet, IsInjective
<1> QED  BY <1>1, <1>2, <1>3, <1>4, <1>5, OptionsOf DEF IsServerConf, ServerOptions

\* A line that sets an option is the last that does, any other changes nothing.
LEMMA SettingAdded ==
  ASSUME NEW k \in Nat, NEW S \in SUBSET (1 .. k - 1), NEW o
  PROVE  LastValue(S \cup {k}, o) =
           IF IsOption(lines[k]) /\ OpName(lines[k]) = <<o>> THEN OpValue(lines[k]) ELSE LastValue(S, o)
<1>1. CASE IsOption(lines[k]) /\ OpName(lines[k]) = <<o>>
  <2> DEFINE T == Setting(S \cup {k}, o)
  <2>1. k \in T /\ T \subseteq S \cup {k}
    BY <1>1 DEF Setting
  <2> HIDE DEF T
  <2>2. T \in SUBSET Nat /\ \A y \in T : y <= k
    BY <2>1
  <2>3. Max(T) = k
    BY <2>1, <2>2, MaxIs
  <2> QED  BY <1>1, <2>1, <2>3 DEF LastValue, T
<1>2. CASE ~(IsOption(lines[k]) /\ OpName(lines[k]) = <<o>>)
  <2>1. Setting(S \cup {k}, o) = Setting(S, o)
    BY <1>2 DEF Setting
  <2> QED  BY <1>2, <2>1 DEF LastValue
<1> QED  BY <1>1, <1>2

IsPage(k) == IsOption(lines[k]) /\ Has(OpName(lines[k]), ErrorPage)

\* A page option adds its page, one that fails takes away those before it.
LEMMA PagesAdded ==
  ASSUME NEW k \in Nat, NEW S \in SUBSET (1 .. k - 1), k > 0
  PROVE  PagesOf(S \cup {k}) =
           IF ~IsPage(k) THEN PagesOf(S)
           ELSE IF PageOf(k).code < 0 THEN {}
           ELSE PagesOf(S) \cup {PageOf(k)}
<1> DEFINE T == S \cup {k}
           bad(j) == PageOf(j).code < 0
           lost(U) == {0} \cup {j \in PageLines(U) : bad(j)}
<1>1. /\ \A j \in S : j \in Nat /\ 1 <= j /\ j < k /\ j <= k - 1 /\ j <= k /\ ~(j > k)
      /\ PageLines(S) \subseteq S
      /\ IsPage(k) => PageLines(T) = PageLines(S) \cup {k}
      /\ ~IsPage(k) => PageLines(T) = PageLines(S)
  BY DEF PageLines, IsPage
<1>2. \A U : Lost(U) = Max(lost(U)) /\ PagesOf(U) = {PageOf(j) : j \in {j \in PageLines(U) : j > Lost(U)}}
  BY DEF Lost, PagesOf
<1>3. k <= k /\ ~(k > k) /\ 0 <= k /\ 0 \in Nat /\ k - 1 \in Nat /\ 0 <= k - 1
  OBVIOUS
<1> HIDE DEF bad
<1>4. CASE ~IsPage(k)
  BY <1>1, <1>2, <1>4
<1>5. CASE IsPage(k) /\ bad(k)
  <2>1. k \in lost(T) /\ lost(T) \in SUBSET Nat /\ \A y \in lost(T) : y <= k
    BY <1>1, <1>3, <1>5
  <2> HIDE DEF lost
  <2>2. Lost(T) = k
    BY <2>1, <1>2, MaxIs
  <2>3. \A j \in PageLines(T) : ~(j > k)
    <3>1. \A j \in PageLines(S) : ~(j > k)
      BY <1>1
    <3> QED  BY <3>1, <1>1, <1>3, <1>5
  <2>4. PagesOf(T) = {}
    BY <1>2, <2>2, <2>3
  <2> QED  BY <1>5, <2>4 DEF bad
<1>6. CASE IsPage(k) /\ ~bad(k)
  <2>1. lost(T) = lost(S)
    BY <1>1, <1>6
  <2>2. Lost(T) = Lost(S)
    BY <1>2, <2>1
  <2>3. lost(S) # {} /\ lost(S) \in SUBSET Nat /\ \A y \in lost(S) : y <= k - 1
    BY <1>1, <1>3
  <2> HIDE DEF lost
  <2>4. Lost(S) \in lost(S)
    BY <1>2, <1>3, <2>3, MaxOf
  <2>5. k > Lost(S)
    BY <2>3, <2>4
  <2>6. {j \in PageLines(T) : j > Lost(S)} = {j \in PageLines(S) : j > Lost(S)} \cup {k}
    BY <1>1, <1>6, <2>5
  <2>7. PagesOf(T) = PagesOf(S) \cup {PageOf(k)}
    BY <1>2, <2>2, <2>6
  <2> QED  BY <1>6, <2>7 DEF bad
<1> QED  BY <1>4, <1>5, <1>6

\* A line that is no option changes nothing.
LEMMA OtherKept ==
  ASSUME NEW k \in Nat, k > 0, NEW S \in SUBSET (1 .. k - 1), ~IsOption(lines[k]),
         NEW s, HasOptionsOf(s, S)
  PROVE  HasOptionsOf(s, S \cup {k})
<1>1. \A o : LastValue(S \cup {k}, o) = LastValue(S, o)
  BY SettingAdded
<1>2. PagesOf(S \cup {k}) = PagesOf(S)
  BY PagesAdded DEF IsPage
<1> QED  BY <1>1, <1>2, OptionsOf

\* An option is added to the server of the lines before it.
LEMMA OptionAdded ==
  ASSUME NEW k \in Nat, k > 0, NEW S \in SUBSET (1 .. k - 1),
         lines[k] \in Seq(STRING), IsOption(lines[k]), ~NoPageFile(lines[k]),
         NEW s, IsServerConf(s), HasOptionsOf(s, S)
  PROVE  LET new == AddServerOption(s, OpName(lines[k]), OpValue(lines[k]))
         IN  IsServerConf(new) /\ HasOptionsOf(new, S \cup {k})
<1> DEFINE name == OpName(lines[k])
           value == OpValue(lines[k])
           new == AddServerOption(s, name, value)
           T == S \cup {k}
<1>1. /\ name \in Seq(STRING)
      /\ value # NULL => value \in Seq(STRING)
      /\ value = NULL => Has(name, Equal)
      /\ Has(name, ErrorPage) => value # NULL
  BY OptionText DEF NoPageFile
<1>2. \A o : LastValue(T, o) = IF name = <<o>> THEN value ELSE LastValue(S, o)
  BY SettingAdded
<1>3. PagesOf(T) = IF ~Has(name, ErrorPage) THEN PagesOf(S)
                   ELSE IF PageOf(k).code < 0 THEN {} ELSE PagesOf(S) \cup {PageOf(k)}
  BY PagesAdded DEF IsPage
<1>4. PageOf(k) = Page(name, value)
  BY DEF PageOf
<1>5. /\ s \in [ServerOptions -> Values] /\ IsServer(s)
      /\ \A o \in StringOptions : s[o] = LastValue(S, o)
      /\ \A o \in ListOptions : ToSet(s[o]) = Parts(LastValue(S, o))
      /\ ToSet(s["port"]) = {Atoi(part) : part \in Parts(LastValue(S, "port"))}
      /\ IsInjective(s["port"])
      /\ ToSet(s[ErrorPage]) = PagesOf(S)
  BY OptionsOf DEF IsServerConf
<1>6. ASSUME NEW o \in StringOptions \cup ListOptions \cup {"port"}, name = <<o>>
      PROVE  value \in Seq(STRING) /\ ~Has(name, ErrorPage) /\ name[1] = o
             /\ \A p : name = <<p>> => p = o
  <2>1. ToSet(<<o>>) = {o}
    BY DEF ToSet
  <2>2. o # Equal /\ o # ErrorPage
    BY DEF StringOptions, ListOptions, Equal, ErrorPage
  <2>3. ~Has(name, Equal) /\ ~Has(name, ErrorPage)
    BY <1>6, <2>1, <2>2 DEF Has
  <2>4. name[1] = o /\ \A p : name = <<p>> => p = name[1]
    BY <1>6
  <2> HIDE DEF name, value
  <2> QED  BY <2>3, <2>4, <1>1
<1> DEFINE isString == \E o \in StringOptions : name = <<o>>
           isList   == \E o \in ListOptions : name = <<o>>
           isPort   == name = <<"port">>
           isPage   == Has(name, ErrorPage)
<1>7. new = CASE isString -> [s EXCEPT ![name[1]] = value]
              [] isList   -> [s EXCEPT ![name[1]] = ParseList(value)]
              [] isPort   -> [s EXCEPT !["port"] = ParsePorts(value)]
              [] isPage   -> [s EXCEPT ![ErrorPage] = AddPage(@, Page(name, value))]
              [] OTHER    -> s
  <2>1. /\ isString <=> name \in {<<o>> : o \in StringOptions}
        /\ isList <=> name \in {<<o>> : o \in ListOptions}
    OBVIOUS
  <2> HIDE DEF isString, isList, name, value
  <2> QED  BY <2>1 DEF AddServerOption
<1>8. /\ isString => ~isList /\ ~isPort /\ ~isPage
      /\ isList => ~isPort /\ ~isPage
      /\ isPort => ~isPage
  <2> HIDE DEF name
  <2>1. "port" \notin StringOptions /\ "port" \notin ListOptions /\ \A o \in StringOptions : o \notin ListOptions
    BY DEF StringOptions, ListOptions
  <2> QED  BY <2>1, <1>6
<1> SUFFICES IsServerConf(new) /\ HasOptionsOf(new, T)
  BY DEF name, value, T
<1> HIDE DEF isString, isList, isPort, isPage, name, value, new
\* The option o is set to v, the others are what they were.
<1>9. ASSUME NEW o \in ServerOptions, NEW v \in Values, new = [s EXCEPT ![o] = v],
             o # ErrorPage => ~isPage /\ name = <<o>>,
             \A p \in ServerOptions : name = <<p>> => p = o,
             o \in StringOptions => v \in Seq(STRING) /\ v = LastValue(T, o),
             o \in ListOptions => v \in Seq(Seq(STRING)) /\ ToSet(v) = Parts(LastValue(T, o)),
             o = "port" => /\ v \in Seq(Int) /\ IsInjective(v)
                           /\ ToSet(v) = {Atoi(part) : part \in Parts(LastValue(T, "port"))},
             o = ErrorPage => v \in Seq(Pages) /\ ToSet(v) = PagesOf(T)
      PROVE  IsServerConf(new) /\ HasOptionsOf(new, T)
  <2>1. /\ new \in [ServerOptions -> Values] /\ new[o] = v
        /\ \A p \in ServerOptions : p # o => new[p] = s[p]
    BY <1>5, <1>9, FieldSet
  <2>2. \A p \in ServerOptions : p # o => LastValue(T, p) = LastValue(S, p)
    BY <1>2, <1>9
  <2>3. o # ErrorPage => PagesOf(T) = PagesOf(S)
    BY <1>3, <1>9 DEF isPage
  <2>4. \A p \in StringOptions : new[p] \in Seq(STRING) /\ new[p] = LastValue(T, p)
    BY <1>5, <1>9, <2>1, <2>2, OptionNames DEF IsServer
  <2>5. \A p \in ListOptions : new[p] \in Seq(Seq(STRING)) /\ ToSet(new[p]) = Parts(LastValue(T, p))
    BY <1>5, <1>9, <2>1, <2>2, OptionNames DEF IsServer
  <2>6. /\ new["port"] \in Seq(Int) /\ IsInjective(new["port"])
        /\ ToSet(new["port"]) = {Atoi(part) : part \in Parts(LastValue(T, "port"))}
    <3>1. CASE o = "port"
      BY <3>1, <1>9, <2>1
    <3>2. CASE o # "port"
      BY <3>2, <1>5, <2>1, <2>2, OptionNames DEF IsServer
    <3> QED  BY <3>1, <3>2
  <2>7. new[ErrorPage] \in Seq(Pages) /\ ToSet(new[ErrorPage]) = PagesOf(T)
    <3>1. CASE o = ErrorPage
      BY <3>1, <1>9, <2>1
    <3>2. CASE o # ErrorPage
      BY <3>2, <1>5, <2>1, <2>3, OptionNames DEF IsServer
    <3> QED  BY <3>1, <3>2
  <2>8. IsServerConf(new)
    BY <2>1, <2>4, <2>5, <2>6, <2>7 DEF IsServerConf, IsServer
  <2> QED  BY <2>4, <2>5, <2>6, <2>7, <2>8, OptionsOf
<1>10. CASE isString
  <2>1. PICK o \in StringOptions : name = <<o>>
    BY <1>10 DEF isString
  <2>2. value \in Seq(STRING) /\ name[1] = o /\ \A p : name = <<p>> => p = o
    BY <2>1, <1>6
  <2>3. new = [s EXCEPT ![o] = value]
    BY <2>2, <1>7, <1>8, <1>10
  <2>4. value \in Values /\ value = LastValue(T, o) /\ ~isPage
    BY <2>1, <2>2, <1>2, <1>8, <1>10 DEF Values
  <2> QED  BY <2>1, <2>2, <2>3, <2>4, <1>9, OptionNames
<1>11. CASE isList
  <2>1. PICK o \in ListOptions : name = <<o>>
    BY <1>11 DEF isList
  <2>2. value \in Seq(STRING) /\ name[1] = o /\ \A p : name = <<p>> => p = o
    BY <2>1, <1>6
  <2> DEFINE v == ParseList(value)
  <2>3. new = [s EXCEPT ![o] = v]
    BY <2>2, <1>7, <1>8, <1>11
  <2>4. v \in Seq(Seq(STRING)) /\ ToSet(v) = Parts(value)
    BY <2>2, ListOf
  <2> HIDE DEF v
  <2>5. v \in Values /\ value = LastValue(T, o) /\ ~isPage
    BY <2>1, <2>4, <1>2, <1>8, <1>11 DEF Values
  <2> QED  BY <2>1, <2>2, <2>3, <2>4, <2>5, <1>9, OptionNames
<1>12. CASE isPort
  <2>1. name = <<"port">>
    BY <1>12 DEF isPort
  <2>2. value \in Seq(STRING) /\ \A p : name = <<p>> => p = "port"
    BY <2>1, <1>6
  <2> DEFINE v == ParsePorts(value)
  <2>3. new = [s EXCEPT !["port"] = v]
    BY <1>7, <1>8, <1>12
  <2>4. /\ v \in Seq(Int) /\ IsInjective(v)
        /\ ToSet(v) = {Atoi(part) : part \in Parts(value)}
    BY <2>2, PortsOf
  <2> HIDE DEF v
  <2>5. v \in Values /\ value = LastValue(T, "port") /\ ~isPage
    BY <2>1, <2>4, <1>2, <1>8, <1>12 DEF Values
  <2> QED  BY <2>1, <2>2, <2>3, <2>4, <2>5, <1>9, OptionNames
<1>13. CASE isPage
  <2> DEFINE page == Page(name, value)
             v == AddPage(s[ErrorPage], page)
  <2>1. new = [s EXCEPT ![ErrorPage] = v]
    BY <1>7, <1>8, <1>13
  <2>2. page.code \in Int /\ (~(page.code < 0) => page \in Pages)
    <3>1. value \in Seq(STRING)
      BY <1>1, <1>13 DEF isPage
    <3> DEFINE code == IF Len(name) = 2 THEN Atoi(Tail(name)) ELSE 0
    <3>2. code \in Int
      <4>1. Len(name) = 2 => Tail(name) \in Seq(STRING)
        BY <1>1, HeadTailProperties
      <4>2. Len(name) = 2 => Atoi(Tail(name)) \in Int
        BY <4>1, AtoiInt
      <4>3. 0 \in Int
        OBVIOUS
      <4> QED  BY <4>2, <4>3, Zenon
    <3> HIDE DEF code
    <3>3. page = [code |-> code, file |-> value]
      BY DEF Page, code
    <3> QED  BY <3>1, <3>2, <3>3 DEF Pages
  <2> HIDE DEF page
  <2>3. s[ErrorPage] \in Seq(Pages) /\ ToSet(s[ErrorPage]) = PagesOf(S)
    BY <1>5 DEF IsServer
  <2>4. v \in Seq(Pages) /\ ToSet(v) = PagesOf(T)
    <3>1. PagesOf(T) = IF page.code < 0 THEN {} ELSE PagesOf(S) \cup {page}
      BY <1>3, <1>4, <1>13 DEF isPage, page
    <3>2. CASE page.code < 0
      <4>1. v = <<>>
        BY <3>2 DEF AddPage
      <4> HIDE DEF v
      <4>2. <<>> \in Seq(Pages) /\ ToSet(<<>>) = {}
        BY DEF ToSet
      <4> QED  BY <3>1, <3>2, <4>1, <4>2, Zenon
    <3>3. CASE ~(page.code < 0)
      <4>1. v = Append(s[ErrorPage], page)
        BY <3>3 DEF AddPage
      <4> HIDE DEF v
      <4>2. page \in Pages
        BY <2>2, <3>3
      <4>3. PagesOf(T) = PagesOf(S) \cup {page}
        BY <3>1, <3>3, Zenon
      <4> DEFINE pages == s[ErrorPage]
      <4> HIDE DEF pages
      <4>4. pages \in Seq(Pages) /\ ToSet(pages) = PagesOf(S) /\ v = Append(pages, page)
        BY <2>3, <4>1 DEF pages
      <4>5. Append(pages, page) \in Seq(Pages) /\ ToSet(Append(pages, page)) = ToSet(pages) \cup {page}
        BY ONLY <4>2, <4>4, Appended
      <4> QED  BY <4>3, <4>4, <4>5
    <3> QED  BY <3>2, <3>3
  <2> HIDE DEF v
  <2>5. v \in Values
    BY <2>4 DEF Values
  <2>6. \A p \in ServerOptions : name = <<p>> => p = ErrorPage
    BY <1>6, <1>13 DEF isPage, ServerOptions
  <2> QED  BY <2>1, <2>4, <2>5, <2>6, <1>9, OptionNames
<1>14. CASE ~isString /\ ~isList /\ ~isPort /\ ~isPage
  <2>1. new = s
    BY <1>7, <1>14
  <2>2. \A o \in StringOptions \cup ListOptions \cup {"port"} : LastValue(T, o) = LastValue(S, o)
    BY <1>2, <1>14 DEF isString, isList, isPort
  <2>3. PagesOf(T) = PagesOf(S)
    BY <1>3, <1>14 DEF isPage
  <2>4. HasOptionsOf(s, T)
    BY <1>5, <2>2, <2>3, OptionsOf
  <2> QED  BY <2>1, <2>4
<1> QED  BY <1>10, <1>11, <1>12, <1>13, <1>14

-------------------------------------------------------------------------------
\* Where a line is.

\* The vhost lines before line k that no closing bracket follows.
OpenersOf(k) == {o \in 1 .. k - 1 : IsVhost(lines[o]) /\ \A m \in o + 1 .. k - 1 : ~IsClose(lines[m])}

\* Opener looks at the lines before k only.
LEMMA OpenerIs ==
  ASSUME NEW k \in Nat, k > 0
  PROVE  Opener(k) \in 0 .. k - 1 /\ Opener(k) = Max({0} \cup OpenersOf(k))
<1> DEFINE T == {0} \cup OpenersOf(k)
<1>1. T \in SUBSET Nat /\ T # {} /\ k - 1 \in Nat /\ \A y \in T : y <= k - 1
  BY DEF OpenersOf
<1>2. Opener(k) = Max(T)
  BY DEF Opener, OpenersOf
<1> HIDE DEF T
<1>3. Max(T) \in T
  BY <1>1, MaxOf
<1>4. Max(T) \in 0 .. k - 1
  <2>1. \A y \in T : y \in 0 .. k - 1
    BY <1>1
  <2> QED  BY <1>3, <2>1
<1> QED  BY <1>2, <1>4 DEF T

\* inside_vhost as the lines say it: a vhost line sets it, a bracket resets it.
LEMMA OpenerNext ==
  ASSUME NEW k \in Nat, k > 0
  PROVE  /\ IsVhost(lines[k]) => Opener(k + 1) = k
         /\ IsClose(lines[k]) => Opener(k + 1) = 0
         /\ ~IsVhost(lines[k]) /\ ~IsClose(lines[k]) => Opener(k + 1) = Opener(k)
<1>1. k + 1 \in Nat /\ k + 1 > 0 /\ k + 1 - 1 = k /\ k \in 1 .. k /\ k + 1 .. k = {}
  OBVIOUS
<1>2. Opener(k + 1) = Max({0} \cup OpenersOf(k + 1)) /\ Opener(k) = Max({0} \cup OpenersOf(k))
  BY <1>1, OpenerIs
<1>3. OpenersOf(k + 1) = {o \in 1 .. k : IsVhost(lines[o]) /\ \A m \in o + 1 .. k : ~IsClose(lines[m])}
  BY <1>1 DEF OpenersOf
<1>4. CASE IsVhost(lines[k])
  <2> DEFINE T == {0} \cup OpenersOf(k + 1)
  <2>1. k \in T /\ T \in SUBSET Nat /\ \A y \in T : y <= k
    BY <1>1, <1>3, <1>4
  <2> HIDE DEF T
  <2>2. Max(T) = k
    BY <2>1, MaxIs
  <2> QED  BY <1>2, <1>4, <2>2 DEF T, IsClose
<1>5. CASE IsClose(lines[k])
  <2>1. ~IsVhost(lines[k])
    BY <1>5 DEF IsClose
  <2>2. \A o \in 1 .. k : o # k => k \in o + 1 .. k
    OBVIOUS
  <2>3. OpenersOf(k + 1) = {}
    BY <1>3, <1>5, <2>1, <2>2
  <2>4. Max({0}) = 0
    <3>1. 0 \in {0} /\ {0} \in SUBSET Nat /\ \A y \in {0} : y <= 0
      OBVIOUS
    <3> QED  BY <3>1, MaxIs
  <2>5. {0} \cup OpenersOf(k + 1) = {0}
    BY <2>3
  <2> QED  BY <1>2, <1>5, <2>1, <2>4, <2>5
<1>6. CASE ~IsVhost(lines[k]) /\ ~IsClose(lines[k])
  <2>1. \A o \in 1 .. k - 1 : o \in 1 .. k /\ o + 1 .. k = (o + 1 .. k - 1) \cup {k}
    OBVIOUS
  <2>2. \A o \in 1 .. k : o = k \/ o \in 1 .. k - 1
    OBVIOUS
  <2>3. OpenersOf(k + 1) = OpenersOf(k)
    BY <1>3, <1>6, <2>1, <2>2 DEF OpenersOf
  <2> QED  BY <1>2, <1>6, <2>3
<1> QED  BY <1>4, <1>5, <1>6

LEMMA OutsideAdded ==
  ASSUME NEW m \in Nat
  PROVE  /\ Outside(m + 1) = IF Opener(m + 1) = 0 THEN Outside(m) \cup {m + 1} ELSE Outside(m)
         /\ Outside(m) \in SUBSET (1 .. (m + 1) - 1) /\ m + 1 \in Nat /\ m + 1 > 0
<1>1. 1 .. m + 1 = (1 .. m) \cup {m + 1} /\ (m + 1) - 1 = m
  OBVIOUS
<1>2. Outside(m) \in SUBSET (1 .. m)
  BY DEF Outside
<1> QED  BY <1>1, <1>2 DEF Outside

LEMMA ClosingsAdded ==
  ASSUME NEW m \in Nat
  PROVE  /\ ClosingsTo(m + 1) = IF IsClose(lines[m + 1]) /\ Opener(m + 1) # 0 THEN ClosingsTo(m) \cup {m + 1}
                                ELSE ClosingsTo(m)
         /\ ClosingsTo(m) \in SUBSET Nat /\ IsFiniteSet(ClosingsTo(m)) /\ \A y \in ClosingsTo(m) : y < m + 1
<1>1. 1 .. m + 1 = (1 .. m) \cup {m + 1}
  OBVIOUS
<1>2. IsFiniteSet(ClosingsTo(m))
  <2>1. IsFiniteSet(1 .. m) /\ ClosingsTo(m) \subseteq 1 .. m
    BY FS_Interval DEF ClosingsTo
  <2> QED  BY <2>1, FS_Subset
<1> QED  BY <1>1, <1>2 DEF ClosingsTo

\* A server of which no line of S sets an option.
LEMMA NothingSet ==
  ASSUME NEW S, \A k \in S : ~IsOption(lines[k])
  PROVE  IsServerConf(NewServer) /\ HasOptionsOf(NewServer, S)
<1>1. \A o : Setting(S, o) = {} /\ Setting({}, o) = {}
  BY DEF Setting
<1>2. \A o : LastValue(S, o) = LastValue({}, o)
  BY <1>1 DEF LastValue
<1>3. PageLines(S) = {} /\ PageLines({}) = {}
  BY DEF PageLines
<1>4. PagesOf(S) = PagesOf({})
  BY <1>3 DEF PagesOf, Lost
<1>5. HasOptionsOf(NewServer, {})
  BY NoOptions
<1>6. HasOptionsOf(NewServer, S)
  BY <1>2, <1>4, <1>5, OptionsOf
<1> QED  BY <1>6, NoOptions

-------------------------------------------------------------------------------
\* One more line, of an option or a block.

\* A line that is no option, or one of a virtual host, leaves the default server.
LEMMA DefaultKept ==
  ASSUME NEW c, NEW m \in Nat, DefaultTo(c, m), ~IsOption(lines[m + 1]) \/ Opener(m + 1) # 0
  PROVE  DefaultTo(c, m + 1)
<1>1. CASE Opener(m + 1) # 0
  <2>1. Outside(m + 1) = Outside(m)
    BY <1>1, OutsideAdded
  <2> QED  BY <2>1 DEF DefaultTo
<1>2. CASE Opener(m + 1) = 0
  <2> DEFINE S == Outside(m)
             T == Outside(m + 1)
             k == m + 1
  <2>1. T = S \cup {k} /\ ~IsOption(lines[k])
    BY <1>2, OutsideAdded
  <2>2. S \in SUBSET (1 .. k - 1) /\ k \in Nat /\ k > 0
    <3> HIDE DEF S
    <3> QED  BY OutsideAdded DEF S
  <2> HIDE DEF S, T, k
  <2>3. \A o : LastValue(T, o) = LastValue(S, o)
    BY <2>1, <2>2, SettingAdded
  <2>4. \A s : HasOptionsOf(s, S) => HasOptionsOf(s, T)
    BY <2>1, <2>2, OtherKept
  <2>5. (\E j \in T : IsOption(lines[j])) <=> (\E j \in S : IsOption(lines[j]))
    BY <2>1
  <2>6. /\ \A o \in GlobalOptions : c.global[o] = LastValue(S, o)
        /\ IF \E j \in S : IsOption(lines[j]) THEN c.default # NULL /\ HasOptionsOf(c.default, S) ELSE c.default = NULL
    BY DEF DefaultTo, S
  <2>7. /\ \A o \in GlobalOptions : c.global[o] = LastValue(T, o)
        /\ IF \E j \in T : IsOption(lines[j]) THEN c.default # NULL /\ HasOptionsOf(c.default, T) ELSE c.default = NULL
    BY <2>3, <2>4, <2>5, <2>6
  <2> QED  BY <2>7 DEF DefaultTo, T, k
<1> QED  BY <1>1, <1>2

\* The two global options are no options of a server.
LEMMA GlobalOption ==
  ASSUME NEW g \in GlobalOptions, NEW s, NEW value
  PROVE  AddServerOption(s, <<g>>, value) = s /\ ~Has(<<g>>, Equal)
<1>1. g \notin StringOptions /\ g \notin ListOptions /\ g # "port" /\ g # ErrorPage /\ g # Equal
  BY DEF GlobalOptions, StringOptions, ListOptions, ErrorPage, Equal
<1>2. ToSet(<<g>>) = {g}
  BY DEF ToSet
<1>3. \A o : <<g>> = <<o>> => g = o
  OBVIOUS
<1>4. /\ <<g>> \notin {<<o>> : o \in StringOptions} /\ <<g>> \notin {<<o>> : o \in ListOptions}
      /\ <<g>> # <<"port">> /\ ~Has(<<g>>, ErrorPage) /\ ~Has(<<g>>, Equal)
  BY <1>1, <1>2, <1>3 DEF Has
<1> QED  BY <1>4 DEF AddServerOption

\* An option outside of any virtual host.
LEMMA DefaultOption ==
  ASSUME NEW c \in Configs, NEW m \in Nat, DefaultTo(c, m), c.default # NULL => IsServer(c.default),
         lines[m + 1] \in Seq(STRING), IsOption(lines[m + 1]), ~NoPageFile(lines[m + 1]), Opener(m + 1) = 0
  PROVE  LET d == AddOption(c, OpName(lines[m + 1]), OpValue(lines[m + 1]))
         IN  d \in Configs /\ IsServer(d.default) /\ d.vhosts = c.vhosts /\ DefaultTo(d, m + 1)
<1> DEFINE k == m + 1
           name == OpName(lines[k])
           value == OpValue(lines[k])
           server == IF c.default = NULL THEN NewServer ELSE c.default
           new == AddServerOption(server, name, value)
           d == AddOption(c, name, value)
           S == Outside(m)
           T == Outside(k)
<1> SUFFICES d \in Configs /\ IsServer(d.default) /\ d.vhosts = c.vhosts /\ DefaultTo(d, k)
  OBVIOUS
<1>1. T = S \cup {k} /\ S \in SUBSET (1 .. k - 1) /\ k \in Nat /\ k > 0
  BY ONLY m \in Nat, Opener(m + 1) = 0, OutsideAdded DEF S
<1>2. lines[k] \in Seq(STRING) /\ IsOption(lines[k]) /\ ~NoPageFile(lines[k])
  OBVIOUS
<1>3. /\ \A o \in GlobalOptions : c.global[o] = LastValue(S, o)
      /\ IF \E j \in S : IsOption(lines[j]) THEN c.default # NULL /\ HasOptionsOf(c.default, S) ELSE c.default = NULL
  BY DEF DefaultTo
<1>4. c.global \in [GlobalOptions -> Seq(STRING)] /\ c.default \in {NULL} \cup [ServerOptions -> Values]
  BY DEF Configs
<1> HIDE DEF k, S, T
<1>5. IsServerConf(server) /\ HasOptionsOf(server, S)
  <2>1. CASE c.default = NULL
    <3>1. \A j \in S : ~IsOption(lines[j])
      BY <1>3, <2>1
    <3> QED  BY <2>1, <3>1, NothingSet
  <2>2. CASE c.default # NULL
    BY <1>3, <1>4, <2>2 DEF IsServerConf
  <2> QED  BY <2>1, <2>2
<1> HIDE DEF server
<1>6. IsServerConf(new) /\ HasOptionsOf(new, T)
  BY <1>1, <1>2, <1>5, OptionAdded
<1>7. \A o : LastValue(T, o) = IF name = <<o>> THEN value ELSE LastValue(S, o)
  BY <1>1, <1>2, SettingAdded
<1>8. (value # NULL => value \in Seq(STRING)) /\ (value = NULL => Has(name, Equal))
  BY <1>2, OptionText
<1>9. \E j \in T : IsOption(lines[j])
  BY <1>1, <1>2
<1>10. d = IF name \in {<<o>> : o \in GlobalOptions} THEN [c EXCEPT !.global[name[1]] = value, !.default = server]
           ELSE [c EXCEPT !.default = new]
  BY Zenon DEF AddOption, server
<1> HIDE DEF d, name, value
<1>11. \A s : IsServerConf(s) => s # NULL
  BY NullAssumption DEF IsServerConf
<1>12. CASE \E g \in GlobalOptions : name = <<g>>
  <2>1. PICK g \in GlobalOptions : name = <<g>>
    BY <1>12
  <2>2. name[1] = g /\ new = server /\ value \in Seq(STRING)
    BY <2>1, <1>8, GlobalOption
  <2>3. d = [c EXCEPT !.global[g] = value, !.default = server]
    BY <2>1, <2>2, <1>10
  <2> HIDE DEF new
  <2>4. /\ d \in Configs /\ d.default = server /\ d.vhosts = c.vhosts
        /\ d.global = [c.global EXCEPT ![g] = value]
    BY <2>2, <2>3, <1>5 DEF Configs, IsServerConf
  <2>5. \A o \in GlobalOptions : d.global[o] = LastValue(T, o)
    <3>1. \A o \in GlobalOptions : d.global[o] = IF o = g THEN value ELSE c.global[o]
      BY <2>4, <1>4
    <3>2. \A o : name = <<o>> <=> o = g
      BY <2>1
    <3> QED  BY <3>1, <3>2, <1>3, <1>7
  <2> QED  BY <2>2, <2>4, <2>5, <1>5, <1>6, <1>9, <1>11 DEF DefaultTo, IsServerConf, T, k
<1>13. CASE ~(\E g \in GlobalOptions : name = <<g>>)
  <2>1. d = [c EXCEPT !.default = new]
    BY <1>10, <1>13
  <2> HIDE DEF new
  <2>2. d \in Configs /\ d.default = new /\ d.vhosts = c.vhosts /\ d.global = c.global
    BY <2>1, <1>6 DEF Configs, IsServerConf
  <2>3. \A o \in GlobalOptions : d.global[o] = LastValue(T, o)
    BY <2>2, <1>3, <1>7, <1>13
  <2> QED  BY <2>2, <2>3, <1>6, <1>9, <1>11 DEF DefaultTo, IsServerConf, T, k
<1> QED  BY <1>12, <1>13

\* A line that closes no virtual host.
LEMMA VhostsKept ==
  ASSUME NEW vhosts, NEW m \in Nat, VhostsTo(vhosts, m), ~IsClose(lines[m + 1]) \/ Opener(m + 1) = 0
  PROVE  VhostsTo(vhosts, m + 1)
<1>1. ClosingsTo(m + 1) = ClosingsTo(m)
  BY ClosingsAdded
<1> QED  BY <1>1 DEF VhostsTo

\* A line that closes one adds it behind those before it.
LEMMA VhostClosed ==
  ASSUME NEW vhosts \in Seq([ServerOptions -> Values]), NEW m \in Nat, VhostsTo(vhosts, m),
         IsClose(lines[m + 1]), Opener(m + 1) # 0,
         NEW s \in [ServerOptions -> Values], HasOptionsOf(s, Opener(m + 1) + 1 .. m)
  PROVE  VhostsTo(Append(vhosts, s), m + 1)
<1> DEFINE S == ClosingsTo(m)
           T == ClosingsTo(m + 1)
           k == m + 1
           new == Append(vhosts, s)
<1>1. T = S \cup {k} /\ S \in SUBSET Nat /\ IsFiniteSet(S) /\ k \in Nat /\ k - 1 = m /\ \A y \in S : y < k
  <2>1. k \in Nat /\ k - 1 = m
    OBVIOUS
  <2>2. T = S \cup {k} /\ S \in SUBSET Nat /\ IsFiniteSet(S) /\ \A y \in S : y < k
    BY ClosingsAdded
  <2> QED  BY <2>1, <2>2
<1>2. Len(vhosts) = Cardinality(S) /\ \A j \in DOMAIN vhosts :
        HasOptionsOf(vhosts[j], Opener(Nth(S, j)) + 1 .. Nth(S, j) - 1)
  BY DEF VhostsTo
<1>3. HasOptionsOf(s, Opener(k) + 1 .. k - 1)
  BY <1>1
<1> HIDE DEF S, T, k
<1>4. /\ Cardinality(T) = Cardinality(S) + 1 /\ Nth(T, Cardinality(S) + 1) = k
      /\ \A j \in 1 .. Cardinality(S) : Nth(T, j) = Nth(S, j)
  BY <1>1, NthAdded
<1>5. /\ Len(vhosts) \in Nat /\ DOMAIN vhosts = 1 .. Len(vhosts)
      /\ Len(new) = Len(vhosts) + 1 /\ new[Len(vhosts) + 1] = s /\ DOMAIN new = 1 .. Len(vhosts) + 1
      /\ \A j \in 1 .. Len(vhosts) : new[j] = vhosts[j]
      /\ \A j \in 1 .. Len(vhosts) + 1 : j = Len(vhosts) + 1 \/ j \in 1 .. Len(vhosts)
  OBVIOUS
<1> HIDE DEF new
<1>6. \A j \in DOMAIN new : HasOptionsOf(new[j], Opener(Nth(T, j)) + 1 .. Nth(T, j) - 1)
  <2> SUFFICES ASSUME NEW j \in 1 .. Len(vhosts) + 1
               PROVE  HasOptionsOf(new[j], Opener(Nth(T, j)) + 1 .. Nth(T, j) - 1)
    BY <1>5
  <2>1. CASE j = Len(vhosts) + 1
    BY <2>1, <1>2, <1>3, <1>4, <1>5
  <2>2. CASE j \in 1 .. Len(vhosts)
    <3>1. Nth(T, j) = Nth(S, j) /\ new[j] = vhosts[j]
      BY <2>2, <1>2, <1>4, <1>5
    <3>2. HasOptionsOf(vhosts[j], Opener(Nth(S, j)) + 1 .. Nth(S, j) - 1)
      BY <2>2, <1>2, <1>5
    <3> QED  BY <3>1, <3>2
  <2> QED  BY <2>1, <2>2, <1>5
<1>7. Len(new) = Cardinality(T)
  BY <1>2, <1>4, <1>5
<1> QED  BY <1>6, <1>7 DEF VhostsTo, T, new, k

-------------------------------------------------------------------------------
\* What is left of a line without its comment.

\* What is left of a line stands for it.
LEMMA Stripped ==
  ASSUME NEW line \in Seq(STRING)
  PROVE  /\ Strip(line) \in Seq(STRING)
         /\ line # <<>> /\ Last(line) = Space => Stands(Strip(line), line)
<1> DEFINE signs == {k \in DOMAIN line : line[k] = CommentSign}
           end == Len(line) + 1
           a == Min({end} \cup signs)
<1>1. Len(line) \in Nat /\ DOMAIN line = 1 .. Len(line) /\ signs \subseteq 1 .. Len(line)
  OBVIOUS
<1>2. CodeOf(line) = SubSeq(line, 1, a - 1)
  BY DEF CodeOf
<1>3. Has(line, CommentSign) <=> signs # {}
  BY DEF Has, ToSet
<1>4. SelectInSeq(line, LAMBDA t : t = CommentSign) = IF signs # {} THEN Min(signs) ELSE 0
  BY <1>1 DEF SelectInSeq
<1>5. CASE signs # {}
  <2>1. signs \in SUBSET Nat /\ {end} \cup signs \in SUBSET Nat
    BY <1>1
  <2> DEFINE b == Min(signs)
  <2>2. b \in signs /\ \A y \in signs : b <= y
    <3> HIDE DEF signs
    <3> QED  BY <1>5, <2>1, MinOf
  <2>3. b \in 1 .. Len(line) /\ b \in {end} \cup signs /\ \A y \in {end} \cup signs : b <= y
    <3>1. b \in 1 .. Len(line)
      BY <2>2, <1>1
    <3> HIDE DEF b
    <3>2. b <= end
      BY <3>1, <1>1
    <3> HIDE DEF end, signs
    <3> QED  BY <3>1, <3>2, <2>2
  <2>4. a = b
    <3> DEFINE all == {end} \cup signs
    <3>1. all \in SUBSET Nat /\ b \in all /\ \A y \in all : b <= y
      BY <2>1, <2>3
    <3> HIDE DEF all, b
    <3>2. Min(all) = b
      BY <3>1, MinIs
    <3> QED  BY <3>2 DEF all
  <2> DEFINE code == SubSeq(line, 1, b - 1)
  <2>5. Strip(line) = Append(code, Space) /\ CodeOf(line) = code
    BY <1>2, <1>3, <1>4, <1>5, <2>4 DEF Strip
  <2> HIDE DEF b
  <2>6. code \in Seq(STRING)
    BY <1>1, <2>3, Sub
  <2> HIDE DEF code
  <2>7. /\ Append(code, Space) \in Seq(STRING) /\ Append(code, Space) # <<>>
        /\ Append(code, Space)[Len(Append(code, Space))] = Space
    <3> DEFINE t == Append(code, Space)
    <3>1. t \in Seq(STRING) /\ Len(t) = Len(code) + 1 /\ t[Len(code) + 1] = Space
      BY <2>6, SpaceAssumption, Appended
    <3>2. Len(code) \in Nat
      BY <2>6
    <3> HIDE DEF t
    <3>3. t # <<>> /\ t[Len(t)] = Space
      BY <3>1, <3>2
    <3> QED  BY <3>1, <3>3 DEF t
  <2> QED  BY <2>5, <2>7 DEF Stands
<1>6. CASE signs = {}
  <2>1. a = end
    <3>1. {end} \in SUBSET Nat /\ end \in {end} /\ \A y \in {end} : end <= y
      BY <1>1
    <3> HIDE DEF end
    <3>2. Min({end}) = end
      BY <3>1, MinIs
    <3>3. {end} \cup signs = {end}
      BY <1>6
    <3> QED  BY <3>2, <3>3
  <2>2. CodeOf(line) = SubSeq(line, 1, Len(line))
    BY <1>1, <1>2, <2>1
  <2>3. SubSeq(line, 1, Len(line)) = line
    OBVIOUS
  <2>4. Strip(line) = line
    BY <1>3, <1>6 DEF Strip
  <2> QED  BY <2>2, <2>3, <2>4 DEF Stands, Last
<1> QED  BY <1>5, <1>6

\* One more line of the file.
LEMMA WrittenAdded ==
  ASSUME NEW done \in Seq(Seq(STRING)), NEW m \in Nat, WrittenTo(done, m),
         file[m + 1] \in Seq(STRING), file[m + 1] # <<>>, Last(file[m + 1]) = Space
  PROVE  WrittenTo(IF Head(file[m + 1]) = CommentSign THEN done ELSE Append(done, Strip(file[m + 1])), m + 1)
<1> DEFINE S == KeptTo(m)
           k == m + 1
           T == KeptTo(k)
<1>1. k \in Nat /\ 1 .. k = (1 .. m) \cup {k} /\ \A y \in 1 .. m : y \in Nat /\ y < k
  OBVIOUS
<1>2. S \in SUBSET Nat /\ IsFiniteSet(S) /\ \A y \in S : y < k
  <2>1. IsFiniteSet(1 .. m) /\ S \subseteq 1 .. m
    BY FS_Interval DEF KeptTo
  <2> QED  BY <1>1, <2>1, FS_Subset
<1>3. T = IF Head(file[k]) = CommentSign THEN S ELSE S \cup {k}
  BY <1>1 DEF KeptTo
<1>4. Len(done) = Cardinality(S) /\ \A j \in DOMAIN done : Stands(done[j], file[Nth(S, j)])
  BY DEF WrittenTo
<1>5. Strip(file[k]) \in Seq(STRING) /\ Stands(Strip(file[k]), file[k])
  BY Stripped
<1> HIDE DEF S, T
<1>6. CASE Head(file[k]) = CommentSign
  BY <1>3, <1>4, <1>6 DEF WrittenTo, T
<1>7. CASE Head(file[k]) # CommentSign
  <2> DEFINE line == Strip(file[k])
             new == Append(done, line)
  <2> SUFFICES WrittenTo(new, k)
    BY <1>7
  <2>1. line \in Seq(STRING) /\ Stands(line, file[k])
    BY <1>5
  <2> HIDE DEF line, k
  <2>2. /\ Cardinality(T) = Cardinality(S) + 1 /\ Nth(T, Cardinality(S) + 1) = k
        /\ \A j \in 1 .. Cardinality(S) : Nth(T, j) = Nth(S, j)
    BY <1>1, <1>2, <1>3, <1>7, NthAdded
  <2>3. /\ Len(done) \in Nat /\ DOMAIN done = 1 .. Len(done)
        /\ Len(new) = Len(done) + 1 /\ new[Len(done) + 1] = line /\ DOMAIN new = 1 .. Len(done) + 1
        /\ \A j \in 1 .. Len(done) : new[j] = done[j]
        /\ \A j \in 1 .. Len(done) + 1 : j = Len(done) + 1 \/ j \in 1 .. Len(done)
    BY <2>1
  <2> HIDE DEF new
  <2>4. \A j \in DOMAIN new : Stands(new[j], file[Nth(T, j)])
    <3> SUFFICES ASSUME NEW j \in 1 .. Len(done) + 1
                 PROVE  Stands(new[j], file[Nth(T, j)])
      BY <2>3
    <3>1. CASE j = Len(done) + 1
      BY <3>1, <1>4, <2>1, <2>2, <2>3
    <3>2. CASE j \in 1 .. Len(done)
      <4>1. Nth(T, j) = Nth(S, j) /\ new[j] = done[j] /\ Stands(done[j], file[Nth(S, j)])
        BY <3>2, <1>4, <2>2, <2>3
      <4> QED  BY <4>1
    <3> QED  BY <3>1, <3>2, <2>3
  <2>5. Len(new) = Cardinality(T)
    BY <1>4, <2>2, <2>3
  <2> QED  BY <2>4, <2>5 DEF WrittenTo, T
<1> QED  BY <1>6, <1>7

\* No option of a line that ends is without its value.
LEMMA NoCrash ==
  ASSUME NEW line \in Seq(STRING), NEW whole, Stands(line, whole), IsOption(line)
  PROVE  ~NoPageFile(line)
BY OptionText DEF Stands, NoPageFile, Last

-------------------------------------------------------------------------------
\* The steps.

\* What the lines say only changes with them.
LEMMA SameLines ==
  ASSUME lines' = lines, NEW S
  PROVE  /\ \A s : HasOptionsOf(s, S)' <=> HasOptionsOf(s, S)
         /\ \A o : LastValue(S, o)' = LastValue(S, o)
         /\ \A k : Opener(k)' = Opener(k)
<1>1. \A s : HasOptionsOf(s, S)' <=> HasOptionsOf(s, S)
  BY DEF HasOptionsOf, LastValue, Setting, PageLines, PageOf
<1>2. \A o : LastValue(S, o)' = LastValue(S, o)
  BY DEF LastValue, Setting
<1>3. \A k : Opener(k)' = Opener(k)
  BY DEF Opener
<1> QED  BY <1>1, <1>2, <1>3

LEMMA SameParse ==
  ASSUME lines' = lines, NEW c, NEW vhosts, NEW in_, NEW s, NEW m
  PROVE  /\ DefaultTo(c, m)' <=> DefaultTo(c, m)
         /\ VhostsTo(vhosts, m)' <=> VhostsTo(vhosts, m)
         /\ CurrentTo(in_, s, m)' <=> CurrentTo(in_, s, m)
<1>1. Outside(m)' = Outside(m) /\ ClosingsTo(m)' = ClosingsTo(m)
  BY SameLines DEF Outside, ClosingsTo
<1>2. DefaultTo(c, m)' <=> DefaultTo(c, m)
  BY <1>1, SameLines DEF DefaultTo
<1>3. VhostsTo(vhosts, m)' <=> VhostsTo(vhosts, m)
  BY <1>1, SameLines DEF VhostsTo
<1>4. CurrentTo(in_, s, m)' <=> CurrentTo(in_, s, m)
  BY <1>1, SameLines DEF CurrentTo
<1> QED  BY <1>2, <1>3, <1>4

LEMMA SameFile ==
  ASSUME file' = file, NEW done, NEW m
  PROVE  (WrittenTo(done, m)' <=> WrittenTo(done, m)) /\ (Fits' <=> Fits)
<1>1. KeptTo(m)' = KeptTo(m)
  BY DEF KeptTo
<1> QED  BY <1>1 DEF WrittenTo, Fits

LEMMA FileLines ==
  ASSUME NEW f \in Files
  PROVE  f \in Seq(Seq(STRING)) /\ Len(f) \in Nat
         /\ \A k \in 1 .. Len(f) : f[k] \in Seq(STRING) /\ f[k] # <<>>
BY FilesAssumption

\* The invariant holds first, and every step keeps it.
LEMMA InvInit == Init => Inv
<1> SUFFICES ASSUME Init PROVE Inv
  OBVIOUS
<1> USE DEF Init
<1> DEFINE none == <<>>
<1>1. none \in Seq(STRING) /\ none \in Seq(Seq(STRING)) /\ none \in Seq([ServerOptions -> Values])
      /\ Len(none) = 0 /\ DOMAIN none = {}
  OBVIOUS
<1>2. conf \in Configs
  BY <1>1 DEF Configs
<1>3. file \in Seq(Seq(STRING)) /\ Len(file) \in Nat /\ 0 <= Len(file)
  BY FileLines
<1>4. WrittenTo(lines, 0)
  <2>1. KeptTo(0) = {} /\ Cardinality({}) = 0
    BY FS_EmptySet DEF KeptTo
  <2> QED  BY <1>1, <2>1 DEF WrittenTo
<1>5. Types
  BY <1>1, <1>2 DEF Types
<1>6. ReadInv
  BY <1>3, <1>4 DEF ReadInv
<1> QED  BY <1>5, <1>6 DEF Inv, LinesInv, ParseInv

\* fgets() of a line that fits takes all of it.
LEMMA InvReadLine == Inv /\ ReadLine => Inv'
<1> SUFFICES ASSUME Inv, ReadLine PROVE Inv'
  OBVIOUS
<1> DEFINE line == file[n + 1]
           end == Min({at + LineBuf, Len(line)})
           piece == SubSeq(line, at + 1, end)
<1>1. Types /\ phase = "read" /\ ReadInv
  BY DEF Inv, ReadLine
<1>2. /\ file \in Seq(Seq(STRING)) /\ lines \in Seq(Seq(STRING)) /\ n \in Nat /\ at \in Nat /\ LineBuf \in Nat
      /\ n + 1 \in 1 .. Len(file) /\ Len(file) \in Nat /\ n + 1 \in Nat /\ n + 1 <= Len(file)
  BY <1>1, FileLines, LineBufAssumption DEF Types, ReadLine
<1>3. line \in Seq(STRING) /\ line # <<>> /\ Len(line) \in Nat
  BY <1>1, <1>2, FileLines DEF Types
<1>4. /\ IF at + LineBuf < Len(line) THEN at' = at + LineBuf /\ n' = n ELSE at' = 0 /\ n' = n + 1
      /\ lines' = IF Head(piece) = CommentSign THEN lines ELSE Append(lines, Strip(piece))
      /\ file' = file /\ phase' = phase /\ inside' = inside /\ cur' = cur /\ conf' = conf
  BY DEF ReadLine
<1> HIDE DEF line
<1>5. end \in Nat /\ end <= Len(line) /\ (at + LineBuf >= Len(line) => end = Len(line))
  <2> DEFINE T == {at + LineBuf, Len(line)}
             l == Len(line)
             b == at + LineBuf
  <2>1. b \in Nat /\ l \in Nat
    BY <1>2, <1>3
  <2> HIDE DEF l, b
  <2>2. {b, l} \in SUBSET Nat /\ {b, l} # {} /\ l \in {b, l}
    BY <2>1
  <2>3. Min({b, l}) \in {b, l} /\ Min({b, l}) <= l /\ Min({b, l}) <= b
    BY <2>2, MinOf
  <2>4. Min({b, l}) \in Nat /\ (b >= l => Min({b, l}) = l)
    BY <2>1, <2>3
  <2> QED  BY <2>3, <2>4 DEF l, b
<1> HIDE DEF end
<1>6. piece \in Seq(STRING)
  BY <1>2, <1>3, <1>5
<1>7. lines' \in Seq(Seq(STRING))
  <2>1. Strip(piece) \in Seq(STRING)
    BY <1>6, Stripped
  <2>2. Append(lines, Strip(piece)) \in Seq(Seq(STRING))
    BY <1>2, <2>1, Appended
  <2> HIDE DEF piece
  <2> QED  BY <1>2, <1>4, <2>2
<1>8. n' \in Nat /\ n' <= Len(file) /\ at' \in Nat
  BY <1>1, <1>2, <1>3, <1>4 DEF ReadInv
<1>9. Types'
  BY <1>1, <1>4, <1>7, <1>8 DEF Types
<1>10. ASSUME Fits' PROVE at' = 0 /\ WrittenTo(lines, n)'
  <2>1. Fits /\ at = 0 /\ WrittenTo(lines, n)
    BY <1>1, <1>4, <1>10, SameFile DEF ReadInv
  <2>2. Len(line) <= LineBuf /\ Last(line) = Space
    BY <1>2, <2>1 DEF Fits, line
  <2>3. at' = 0 /\ n' = n + 1 /\ end = Len(line)
    BY <1>2, <1>3, <1>4, <1>5, <2>1, <2>2
  <2>4. piece = line
    BY <1>3, <2>1, <2>3
  <2> HIDE DEF piece
  <2>5. lines' = IF Head(line) = CommentSign THEN lines ELSE Append(lines, Strip(line))
    BY <1>4, <2>4
  <2>6. WrittenTo(lines', n + 1)
    BY <1>2, <1>3, <2>1, <2>2, <2>5, WrittenAdded DEF line
  <2> QED  BY <1>4, <2>3, <2>6, SameFile
<1>11. ReadInv'
  BY <1>1, <1>4, <1>8, <1>10 DEF ReadInv
<1>12. LinesInv' /\ ParseInv'
  BY <1>1, <1>4 DEF LinesInv, ParseInv
<1> QED  BY <1>9, <1>11, <1>12 DEF Inv

\* Before its first line is parsed nothing is said.
LEMMA NothingParsed ==
  ASSUME conf = [global |-> [o \in GlobalOptions |-> <<>>], default |-> NULL, vhosts |-> <<>>], ~inside
  PROVE  DefaultTo(conf, 0) /\ VhostsTo(conf.vhosts, 0) /\ CurrentTo(inside, cur, 0)
<1>1. Outside(0) = {} /\ ClosingsTo(0) = {} /\ Cardinality({}) = 0
  BY FS_EmptySet DEF Outside, ClosingsTo
<1>2. \A o : LastValue({}, o) = <<>>
  BY DEF LastValue, Setting
<1>3. Len(<<>>) = 0 /\ DOMAIN <<>> = {}
  OBVIOUS
<1>4. conf.vhosts = <<>> /\ conf.default = NULL /\ \A o \in GlobalOptions : conf.global[o] = <<>>
  OBVIOUS
<1>5. Opener(0 + 1) = 0
  <2>1. \A k \in Nat : k > 0 => Opener(k) \in 0 .. k - 1
    BY OpenerIs
  <2> QED  BY <2>1
<1> QED  BY <1>1, <1>2, <1>3, <1>4, <1>5 DEF DefaultTo, VhostsTo, CurrentTo

LEMMA InvReadEnd == Inv /\ ReadEnd => Inv'
<1> SUFFICES ASSUME Inv, ReadEnd PROVE Inv'
  OBVIOUS
<1>1. Types /\ phase = "read" /\ ReadInv
  BY DEF Inv, ReadEnd
<1>2. /\ n = Len(file) /\ n' = 0 /\ phase' = "parse"
      /\ file' = file /\ lines' = lines /\ at' = at /\ inside' = inside /\ cur' = cur /\ conf' = conf
  BY DEF ReadEnd
<1>3. Types'
  BY <1>1, <1>2 DEF Types
<1>4. 0 <= Len(lines)
  BY <1>1 DEF Types
<1>5. Fits' => WrittenTo(lines, Len(file))'
  BY <1>1, <1>2, SameFile DEF ReadInv
<1>6. LinesInv'
  BY <1>2, <1>4, <1>5 DEF LinesInv
<1>7. DefaultTo(conf, 0) /\ VhostsTo(conf.vhosts, 0) /\ CurrentTo(inside, cur, 0)
  BY <1>1, NothingParsed DEF ReadInv
<1>8. ParseInv'
  BY <1>2, <1>7, SameParse DEF ParseInv
<1> QED  BY <1>2, <1>3, <1>6, <1>8 DEF Inv, ReadInv

\* The line that the second loop takes.
LEMMA LineTaken ==
  ASSUME Inv, NextLine
  PROVE  /\ Types /\ phase = "parse" /\ n \in Nat /\ n + 1 \in 1 .. Len(lines) /\ lines[n + 1] \in Seq(STRING)
         /\ n' = n + 1 /\ file' = file /\ lines' = lines /\ at' = at
         /\ DefaultTo(conf, n) /\ VhostsTo(conf.vhosts, n) /\ CurrentTo(inside, cur, n)
         /\ Fits => WrittenTo(lines, Len(file))
<1>1. n \in Nat /\ n < Len(lines) /\ lines \in Seq(Seq(STRING)) /\ phase = "parse"
  BY DEF Inv, Types, NextLine
<1>2. n + 1 \in 1 .. Len(lines) /\ lines[n + 1] \in Seq(STRING)
  BY <1>1
<1> QED  BY <1>1, <1>2 DEF Inv, NextLine, LinesInv, ParseInv

\* What is left to show when it was taken.
LEMMA LineDone ==
  ASSUME Inv, NextLine, phase' = "parse", inside' \in BOOLEAN,
         inside' => IsServerConf(cur'), ~inside' => cur' = NULL,
         conf' \in Configs, conf'.default # NULL => IsServer(conf'.default),
         \A k \in DOMAIN conf'.vhosts : IsServer(conf'.vhosts[k]),
         DefaultTo(conf', n + 1), VhostsTo(conf'.vhosts, n + 1), CurrentTo(inside', cur', n + 1)
  PROVE  Inv'
<1>1. /\ Types /\ n \in Nat /\ n + 1 \in 1 .. Len(lines)
      /\ n' = n + 1 /\ file' = file /\ lines' = lines /\ at' = at
      /\ Fits => WrittenTo(lines, Len(file))
  BY LineTaken
<1>2. n' \in Nat /\ n' <= Len(lines)
  BY <1>1
<1>3. Types'
  BY <1>1, <1>2 DEF Types
<1>4. Fits' => WrittenTo(lines, Len(file))'
  BY <1>1, SameFile
<1>5. LinesInv'
  BY <1>1, <1>2, <1>4 DEF LinesInv
<1>6. ParseInv'
  BY <1>1, SameParse DEF ParseInv
<1>7. ReadInv'
  BY DEF ReadInv
<1> QED  BY <1>3, <1>5, <1>6, <1>7 DEF Inv

\* An option is added to the virtual host the line is in, or to the default
\* server when it is in none.
LEMMA InvOption == Inv /\ Option => Inv'
<1> SUFFICES ASSUME Inv, Option PROVE Inv'
  OBVIOUS
<1> DEFINE k == n + 1
           line == lines[k]
           name == OpName(line)
           value == OpValue(line)
<1>1. /\ NextLine /\ IsOption(line) /\ ~NoPageFile(line) /\ phase' = phase /\ inside' = inside
      /\ inside => cur' = AddServerOption(cur, name, value) /\ conf' = conf
      /\ ~inside => conf' = AddOption(conf, name, value) /\ cur' = cur
  BY DEF Option
<1>2. /\ Types /\ phase = "parse" /\ n \in Nat /\ line \in Seq(STRING)
      /\ DefaultTo(conf, n) /\ VhostsTo(conf.vhosts, n) /\ CurrentTo(inside, cur, n)
  BY <1>1, LineTaken
<1>3. ~IsVhost(line) /\ ~IsClose(line)
  BY <1>1 DEF IsVhost, IsClose
<1>4. k \in Nat /\ k > 0 /\ k - 1 = n
  BY <1>2
<1>5. Opener(k + 1) = Opener(k)
  <2> HIDE DEF k
  <2> QED  BY <1>3, <1>4, OpenerNext
<1>6. VhostsTo(conf.vhosts, k)
  BY <1>2, <1>3, VhostsKept
<1>7. CASE inside
  <2>1. IsServerConf(cur) /\ Opener(k) # 0 /\ HasOptionsOf(cur, Opener(k) + 1 .. n)
    BY <1>2, <1>7 DEF Types, CurrentTo
  <2>2. DefaultTo(conf, k)
    BY <1>2, <2>1, DefaultKept
  <2> DEFINE S == Opener(k) + 1 .. n
  <2>3. S \in SUBSET (1 .. k - 1) /\ S \cup {k} = Opener(k) + 1 .. k
    <3>1. Opener(k) \in 0 .. k - 1
      <4> HIDE DEF k
      <4> QED  BY <1>4, OpenerIs
    <3> DEFINE o == Opener(k)
    <3> HIDE DEF o
    <3>2. o \in Nat /\ o <= n
      BY <3>1, <1>4 DEF o
    <3>3. o + 1 .. n \in SUBSET (1 .. k - 1) /\ (o + 1 .. n) \cup {k} = o + 1 .. k
      BY <3>2, <1>2
    <3> QED  BY <3>3 DEF o
  <2>4. IsServerConf(cur') /\ HasOptionsOf(cur', Opener(k) + 1 .. k)
    <3>1. HasOptionsOf(cur, S)
      BY <2>1
    <3> HIDE DEF S, k
    <3>2. IsServerConf(cur') /\ HasOptionsOf(cur', S \cup {k})
      BY <1>1, <1>2, <1>4, <1>7, <2>1, <2>3, <3>1, OptionAdded
    <3> QED  BY <3>2, <2>3
  <2>5. CurrentTo(inside', cur', k)
    <3>1. inside'
      BY <1>1, <1>7
    <3> HIDE DEF k
    <3> QED  BY <1>5, <2>1, <2>4, <3>1 DEF CurrentTo
  <2>6. conf' = conf /\ inside' = inside /\ phase' = "parse"
    BY <1>1, <1>2, <1>7
  <2> QED  BY <1>1, <1>2, <1>6, <1>7, <2>2, <2>4, <2>5, <2>6, LineDone DEF Types
<1>8. CASE ~inside
  <2>1. cur = NULL /\ Opener(k) = 0
    BY <1>2, <1>8 DEF Types, CurrentTo
  <2>2. conf \in Configs /\ (conf.default # NULL => IsServer(conf.default))
    BY <1>2 DEF Types
  <2>3. /\ conf' \in Configs /\ IsServer(conf'.default) /\ conf'.vhosts = conf.vhosts
        /\ DefaultTo(conf', k)
    BY <1>1, <1>2, <1>8, <2>1, <2>2, DefaultOption
  <2>4. CurrentTo(inside', cur', k)
    BY <1>1, <1>5, <1>8, <2>1 DEF CurrentTo
  <2>5. cur' = cur /\ inside' = inside /\ phase' = "parse"
    BY <1>1, <1>2, <1>8
  <2> QED  BY <1>1, <1>2, <1>6, <1>8, <2>1, <2>3, <2>4, <2>5, LineDone DEF Types
<1> QED  BY <1>7, <1>8

\* No line that fits and ends is an option without a value.
LEMMA InvOptionCrash == Inv /\ OptionCrash => Inv'
<1> SUFFICES ASSUME Inv, OptionCrash PROVE Inv'
  OBVIOUS
<1>1. /\ NextLine /\ IsOption(lines[n + 1]) /\ NoPageFile(lines[n + 1])
      /\ phase' = "crashed" /\ inside' = inside /\ cur' = cur /\ conf' = conf
  BY DEF OptionCrash
<1>2. /\ Types /\ n \in Nat /\ n + 1 \in 1 .. Len(lines) /\ lines[n + 1] \in Seq(STRING)
      /\ n' = n + 1 /\ file' = file /\ lines' = lines /\ at' = at
      /\ Fits => WrittenTo(lines, Len(file))
  BY <1>1, LineTaken
<1>3. n' \in Nat /\ n' <= Len(lines)
  BY <1>2
<1>4. ~Fits
  <2> SUFFICES ASSUME Fits PROVE FALSE
    OBVIOUS
  <2>1. DOMAIN lines = 1 .. Len(lines)
    BY <1>2 DEF Types
  <2>2. PICK whole : Stands(lines[n + 1], whole)
    BY <1>2, <2>1 DEF WrittenTo
  <2> QED  BY <1>1, <1>2, <2>2, NoCrash
<1>5. Types'
  BY <1>1, <1>2, <1>3 DEF Types
<1>6. ~Fits'
  BY <1>2, <1>4, SameFile
<1>7. LinesInv'
  BY <1>2, <1>3, <1>6 DEF LinesInv
<1> QED  BY <1>1, <1>5, <1>7 DEF Inv, ReadInv, ParseInv

LEMMA InvOpenVhost == Inv /\ OpenVhost => Inv'
<1> SUFFICES ASSUME Inv, OpenVhost PROVE Inv'
  OBVIOUS
<1> DEFINE k == n + 1
<1>1. NextLine /\ IsVhost(lines[k]) /\ phase' = phase /\ inside' = TRUE /\ cur' = NewServer /\ conf' = conf
  BY DEF OpenVhost
<1>2. /\ Types /\ phase = "parse" /\ n \in Nat
      /\ DefaultTo(conf, n) /\ VhostsTo(conf.vhosts, n)
  BY <1>1, LineTaken
<1>3. ~IsOption(lines[k]) /\ ~IsClose(lines[k])
  BY <1>1 DEF IsVhost, IsClose
<1>4. k \in Nat /\ k > 0
  BY <1>2
<1>5. DefaultTo(conf, k) /\ VhostsTo(conf.vhosts, k)
  BY <1>2, <1>3, DefaultKept, VhostsKept
<1>6. CurrentTo(inside', cur', k) /\ IsServerConf(NewServer)
  <2> HIDE DEF k
  <2>1. Opener(k + 1) = k
    BY <1>1, <1>4, OpenerNext
  <2>2. k + 1 .. k = {}
    BY <1>4
  <2> QED  BY <1>1, <1>4, <2>1, <2>2, NoOptions DEF CurrentTo
<1>7. phase' = "parse"
  BY <1>1, <1>2
<1> QED  BY <1>1, <1>2, <1>5, <1>6, <1>7, LineDone DEF Types

\* The virtual host that ends is complete.
LEMMA InvCloseVhost == Inv /\ CloseVhost => Inv'
<1> SUFFICES ASSUME Inv, CloseVhost PROVE Inv'
  OBVIOUS
<1> DEFINE k == n + 1
<1>1. /\ NextLine /\ IsClose(lines[k]) /\ phase' = phase
      /\ IF inside THEN conf' = [conf EXCEPT !.vhosts = Append(@, cur)] /\ cur' = NULL /\ inside' = FALSE
         ELSE conf' = conf /\ cur' = cur /\ inside' = inside
  BY DEF CloseVhost
<1>2. /\ Types /\ phase = "parse" /\ n \in Nat
      /\ DefaultTo(conf, n) /\ VhostsTo(conf.vhosts, n) /\ CurrentTo(inside, cur, n)
  BY <1>1, LineTaken
<1>3. ~IsOption(lines[k])
  BY <1>1 DEF IsClose
<1>4. k \in Nat /\ k > 0
  BY <1>2
<1>5. Opener(k + 1) = 0
  <2> HIDE DEF k
  <2> QED  BY <1>1, <1>4, OpenerNext
<1>6. DefaultTo(conf, k)
  BY <1>2, <1>3, DefaultKept
<1>7. phase' = "parse" /\ ~inside' /\ inside' \in BOOLEAN /\ cur' = NULL
  BY <1>1, <1>2 DEF Types
<1>8. CurrentTo(inside', cur', k)
  BY <1>5, <1>7 DEF CurrentTo
<1>9. CASE inside
  <2>1. /\ IsServerConf(cur) /\ Opener(k) # 0 /\ HasOptionsOf(cur, Opener(k) + 1 .. n)
        /\ conf \in Configs
    BY <1>2, <1>9 DEF Types, CurrentTo
  <2> DEFINE old == conf.vhosts
             new == Append(old, cur)
  <2>2. conf' = [conf EXCEPT !.vhosts = new]
    BY <1>1, <1>9
  <2>3. old \in Seq([ServerOptions -> Values]) /\ cur \in [ServerOptions -> Values] /\ IsServer(cur)
    BY <2>1 DEF Configs, IsServerConf
  <2>4. VhostsTo(new, k)
    BY <1>1, <1>2, <2>1, <2>3, VhostClosed
  <2> HIDE DEF old
  <2>5. new \in Seq([ServerOptions -> Values]) /\ \A j \in DOMAIN new : IsServer(new[j])
    <3>1. \A j \in DOMAIN old : IsServer(old[j])
      BY <1>2 DEF Types, old
    <3>2. /\ new \in Seq([ServerOptions -> Values]) /\ DOMAIN new = 1 .. Len(old) + 1 /\ Len(old) \in Nat
          /\ new[Len(old) + 1] = cur /\ \A j \in 1 .. Len(old) : j \in DOMAIN old /\ new[j] = old[j]
      BY <2>3
    <3> HIDE DEF new
    <3>3. \A j \in DOMAIN new : j = Len(old) + 1 \/ j \in 1 .. Len(old)
      BY <3>2
    <3> QED  BY <2>3, <3>1, <3>2, <3>3
  <2> HIDE DEF new
  <2>6. conf' \in Configs /\ conf'.vhosts = new /\ conf'.default = conf.default /\ conf'.global = conf.global
    BY <2>1, <2>2, <2>5 DEF Configs
  <2>7. DefaultTo(conf', k)
    BY <1>6, <2>6 DEF DefaultTo
  <2> QED  BY <1>1, <1>2, <1>7, <1>8, <2>4, <2>5, <2>6, <2>7, LineDone DEF Types
<1>10. CASE ~inside
  <2>1. Opener(k) = 0
    BY <1>2, <1>10 DEF CurrentTo
  <2>2. VhostsTo(conf.vhosts, k) /\ conf' = conf
    BY <1>1, <1>2, <1>10, <2>1, VhostsKept
  <2> QED  BY <1>1, <1>2, <1>6, <1>7, <1>8, <2>2, LineDone DEF Types
<1> QED  BY <1>9, <1>10

LEMMA InvOtherLine == Inv /\ OtherLine => Inv'
<1> SUFFICES ASSUME Inv, OtherLine PROVE Inv'
  OBVIOUS
<1> DEFINE k == n + 1
<1>1. /\ NextLine /\ ~IsOption(lines[k]) /\ ~IsVhost(lines[k]) /\ ~IsClose(lines[k])
      /\ phase' = phase /\ inside' = inside /\ cur' = cur /\ conf' = conf
  BY DEF OtherLine
<1>2. /\ Types /\ phase = "parse" /\ n \in Nat
      /\ DefaultTo(conf, n) /\ VhostsTo(conf.vhosts, n) /\ CurrentTo(inside, cur, n)
  BY <1>1, LineTaken
<1>3. k \in Nat /\ k > 0 /\ k - 1 = n
  BY <1>2
<1>4. DefaultTo(conf, k) /\ VhostsTo(conf.vhosts, k)
  BY <1>1, <1>2, DefaultKept, VhostsKept
<1>5. CurrentTo(inside', cur', k)
  <2>1. Opener(k) \in 0 .. k - 1 /\ Opener(k + 1) = Opener(k)
    <3> HIDE DEF k
    <3> QED  BY <1>1, <1>3, OpenerIs, OpenerNext
  <2> DEFINE o == Opener(k)
             S == o + 1 .. n
  <2> HIDE DEF o
  <2>2. o \in Nat /\ o <= n
    BY <2>1, <1>3 DEF o
  <2>3. S \in SUBSET (1 .. k - 1) /\ S \cup {k} = o + 1 .. k
    BY <2>2, <1>2
  <2>4. (inside <=> o # 0) /\ (inside => HasOptionsOf(cur, S))
    BY <1>2 DEF CurrentTo, o
  <2> HIDE DEF S, k
  <2>5. inside => HasOptionsOf(cur, S \cup {k})
    BY <1>1, <1>3, <2>3, <2>4, OtherKept
  <2> QED  BY <1>1, <2>1, <2>3, <2>4, <2>5 DEF CurrentTo, o
<1>6. phase' = "parse"
  BY <1>1, <1>2
<1> QED  BY <1>1, <1>2, <1>4, <1>5, <1>6, LineDone DEF Types

\* The invariant holds in every behaviour.
LEMMA Invariance == Spec => []Inv
<1>1. Init => Inv
  BY InvInit
<1>2. Inv /\ [Next]_vars => Inv'
  <2> SUFFICES ASSUME Inv, [Next]_vars PROVE Inv'
    OBVIOUS
  <2>1. CASE ReadLine
    BY <2>1, InvReadLine
  <2>2. CASE ReadEnd
    BY <2>2, InvReadEnd
  <2>3. CASE Option
    BY <2>3, InvOption
  <2>4. CASE OptionCrash
    BY <2>4, InvOptionCrash
  <2>5. CASE OpenVhost
    BY <2>5, InvOpenVhost
  <2>6. CASE CloseVhost
    BY <2>6, InvCloseVhost
  <2>7. CASE OtherLine
    BY <2>7, InvOtherLine
  <2>8. CASE UNCHANGED vars
    <3>1. /\ file' = file /\ lines' = lines /\ n' = n /\ at' = at /\ phase' = phase
          /\ inside' = inside /\ cur' = cur /\ conf' = conf
      BY <2>8 DEF vars
    <3>2. Types /\ ReadInv /\ LinesInv /\ ParseInv
      BY DEF Inv
    <3>3. Types'
      BY <3>1, <3>2 DEF Types
    <3>4. ReadInv' /\ LinesInv'
      BY <3>1, <3>2, SameFile DEF ReadInv, LinesInv
    <3>5. ParseInv'
      BY <3>1, <3>2, SameParse DEF ParseInv
    <3> QED  BY <3>3, <3>4, <3>5 DEF Inv
  <2> QED  BY <2>1, <2>2, <2>3, <2>4, <2>5, <2>6, <2>7, <2>8 DEF Next
<1> QED  BY <1>1, <1>2, PTL DEF Spec

-------------------------------------------------------------------------------
\* The theorems.

\* The server configurations are always of their types, and there is a current
\* virtual host exactly while inside_vhost is set (voy_build_server_conf).
THEOREM TypeCorrect == Spec => []TypeOK
<1>1. Inv => TypeOK
  <2> SUFFICES ASSUME Inv PROVE TypeOK
    OBVIOUS
  <2>1. Types /\ ReadInv /\ LinesInv
    BY DEF Inv
  <2>2. \A s : IsServerConf(s) => s # NULL /\ IsServer(s)
    BY NullAssumption DEF IsServerConf
  <2>3. n \in 0 .. Max({Len(file), Len(lines)})
    <3> DEFINE l == Len(file)
               m == Len(lines)
    <3>1. l \in Nat /\ m \in Nat /\ n \in Nat
      BY <2>1, FileLines DEF Types
    <3>2. n <= l \/ n <= m
      BY <2>1 DEF ReadInv, LinesInv
    <3> HIDE DEF l, m
    <3>3. {l, m} \in SUBSET Nat /\ {l, m} # {} /\ l + m \in Nat /\ \A y \in {l, m} : y <= l + m
      BY <3>1
    <3>4. Max({l, m}) \in {l, m} /\ Max({l, m}) >= l /\ Max({l, m}) >= m
      BY <3>3, MaxOf
    <3>5. n \in 0 .. Max({l, m})
      BY <3>1, <3>2, <3>4
    <3> QED  BY <3>5 DEF l, m
  <2>4. cur # NULL <=> inside
    BY <2>1, <2>2 DEF Types
  <2> QED  BY <2>1, <2>2, <2>3, <2>4 DEF Types, TypeOK
<1> QED  BY <1>1, Invariance, PTL

\* For any file, the default server has the options outside of the virtual hosts
\* and no others, whatever brackets and vhost lines are missing or doubled
\* (voy_build_server_conf, voy_conf_add_option).
THEOREM DefaultScoped == Spec => []DefaultServerScope
<1>1. Inv => DefaultServerScope
  <2> SUFFICES ASSUME Inv, phase = "parse"
               PROVE  LET outside == {k \in Done : Opener(k) = 0}
                      IN  /\ \A o \in GlobalOptions : conf.global[o] = LastValue(outside, o)
                          /\ IF \E k \in outside : IsOption(lines[k]) THEN HasOptionsOf(conf.default, outside)
                             ELSE conf.default = NULL
    BY DEF DefaultServerScope
  <2>1. {k \in Done : Opener(k) = 0} = Outside(n)
    BY DEF Done, Outside
  <2>2. DefaultTo(conf, n)
    BY DEF Inv, ParseInv
  <2> QED  BY <2>1, <2>2 DEF DefaultTo
<1> QED  BY <1>1, Invariance, PTL

\* For any file, there is a virtual host for each bracket that closes one, in
\* their order, with the options of its block (voy_build_server_conf).
THEOREM VhostsScoped == Spec => []VhostScope
<1>1. Inv => VhostScope
  <2> SUFFICES ASSUME Inv, phase = "parse"
               PROVE  /\ Len(conf.vhosts) = Cardinality(Closings)
                      /\ \A j \in DOMAIN conf.vhosts :
                           HasOptionsOf(conf.vhosts[j], Opener(Nth(Closings, j)) + 1 .. Nth(Closings, j) - 1)
    BY DEF VhostScope
  <2>1. Closings = ClosingsTo(n)
    BY DEF Done, Closings, ClosingsTo
  <2>2. VhostsTo(conf.vhosts, n)
    BY DEF Inv, ParseInv
  <2> QED  BY <2>1, <2>2 DEF VhostsTo
<1> QED  BY <1>1, Invariance, PTL

\* For any file of lines that end and fit the buffer, what is parsed is what is
\* written, comments taken out, and no option crashes the program
\* (voy_open_and_strip_comments, voy_parse_error_pages).
THEOREM WrittenIsRead == Spec => []ReadAsWritten
<1>1. Inv => ReadAsWritten
  <2> SUFFICES ASSUME Inv, \A k \in DOMAIN file : Len(file[k]) <= LineBuf /\ Last(file[k]) = Space
               PROVE  /\ phase # "crashed"
                      /\ phase = "parse" =>
                           /\ Len(lines) = Cardinality(Kept)
                           /\ \A j \in DOMAIN lines :
                                \/ lines[j] = CodeOf(file[Nth(Kept, j)])
                                \/ lines[j] = Append(CodeOf(file[Nth(Kept, j)]), Space)
    BY DEF ReadAsWritten
  <2>1. Fits
    BY DEF Fits
  <2>2. phase # "read" => phase = "parse" /\ WrittenTo(lines, Len(file))
    BY <2>1 DEF Inv, LinesInv
  <2>3. DOMAIN file = 1 .. Len(file)
    BY FileLines DEF Inv, Types
  <2>4. Kept = KeptTo(Len(file))
    BY <2>3 DEF Kept, KeptTo
  <2> QED  BY <2>2, <2>4 DEF WrittenTo, Stands
<1> QED  BY <1>1, Invariance, PTL
===============================================================================
