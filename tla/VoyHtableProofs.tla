---------------------------- MODULE VoyHtableProofs ----------------------------
(***************************************************************************)
(* Proofs about VoyHtable, for every set of nodes, of keys and of values,  *)
(* every hash function and every number of buckets.                        *)
(***************************************************************************)
EXTENDS VoyHtable, TLAPS

USE DEF Indices

LEMMA IndexInIndices ==
  ASSUME NEW k \in Keys
  PROVE  Hash[k] \in Nat /\ Index(k) \in Indices /\ Index(k) = Hash[k] % NUM_OF_BUCKETS
  BY HashAssumption, BucketsAssumption DEF Index

LEMMA CallType ==
  ASSUME NEW k \in Keys
  PROVE  {<<"set", k>>, <<"get", k>>, <<"remove", k>>, <<>>} \subseteq Calls
  BY DEF Calls

LEMMA BucketType ==
  ASSUME TypeOK, NEW b \in Indices
  PROVE  Bucket(b) \in Seq(Nodes)
  <1>1. CASE buckets[b] = NULL
    BY <1>1 DEF Bucket
  <1>2. CASE buckets[b] # NULL
    BY <1>2, Zenon DEF Bucket, TypeOK
  <1> QED  BY <1>1, <1>2

\* What is left when the node at place p has been taken out of s.
LEMMA WithoutSeq ==
  ASSUME NEW S, NEW s \in Seq(S), NEW p \in DOMAIN s
  PROVE  /\ Without(s, p) \in Seq(S)
         /\ DOMAIN Without(s, p) = 1 .. Len(s) - 1
         /\ \A q \in 1 .. Len(s) - 1 : Without(s, p)[q] = IF q = p THEN s[Len(s)] ELSE s[q]
  <1>1. Len(s) \in Nat /\ DOMAIN s = 1 .. Len(s) /\ Len(s) - 1 \in Nat /\ Len(s) \in DOMAIN s
    OBVIOUS
  <1>2. \A q \in 1 .. Len(s) - 1 : q \in DOMAIN s
    BY <1>1
  <1>3. \A q \in DOMAIN s : s[q] \in S
    OBVIOUS
  <1>4. \A q \in 1 .. Len(s) - 1 : (IF q = p THEN s[Len(s)] ELSE s[q]) \in S
    BY <1>1, <1>2, <1>3
  <1>5. Without(s, p) \in [1 .. Len(s) - 1 -> S]
    BY <1>4, Zenon DEF Without
  <1>6. \A m \in Nat : [1 .. m -> S] \subseteq Seq(S)
    OBVIOUS
  <1> QED  BY <1>1, <1>5, <1>6, Zenon DEF Without

-------------------------------------------------------------------------------
(***************************************************************************)
(* The inductive invariant. voy_htable_free leaves no array in the buckets *)
(* it has passed.                                                          *)
(***************************************************************************)
FreedBuckets == loop = "free" => \A b \in Indices : b < i => buckets[b] = NULL

IInv == TypeOK /\ NodesInBuckets /\ FreedBuckets

\* While no loop runs every place of a bucket holds a node.
LEMMA IdlePlaces ==
  ASSUME IInv, loop # "free", NEW b \in Indices
  PROVE  /\ Bucket(b) \in Seq(Nodes)
         /\ DOMAIN Bucket(b) = 1 .. Len(Bucket(b)) /\ Len(Bucket(b)) \in Nat
         /\ Places(b) = DOMAIN Bucket(b)
         /\ \A p \in DOMAIN Bucket(b) :
              /\ Bucket(b)[p] \in Nodes
              /\ node[Bucket(b)[p]] # NULL /\ node[Bucket(b)[p]] \in NodeType
              /\ node[Bucket(b)[p]].hash % NUM_OF_BUCKETS = b
              /\ \A q \in DOMAIN Bucket(b) : Bucket(b)[q] = Bucket(b)[p] => q = p
  <1>1. Bucket(b) \in Seq(Nodes)
    BY BucketType DEF IInv
  <1>2. Places(b) = DOMAIN Bucket(b)
    BY DEF Places
  <1>3. ASSUME NEW p \in DOMAIN Bucket(b)
        PROVE  /\ Bucket(b)[p] \in Nodes
               /\ node[Bucket(b)[p]] # NULL
               /\ node[Bucket(b)[p]].hash % NUM_OF_BUCKETS = b
               /\ \A q \in DOMAIN Bucket(b) : Bucket(b)[q] = Bucket(b)[p] => q = p
    <2>1. Bucket(b)[p] \in Nodes
      BY <1>1
    <2> QED  BY <1>2, <2>1, Zenon DEF IInv, NodesInBuckets
  <1>4. ASSUME NEW p \in DOMAIN Bucket(b) PROVE node[Bucket(b)[p]] \in NodeType
    BY <1>3 DEF IInv, TypeOK
  <1> QED  BY <1>1, <1>2, <1>3, <1>4

\* Every node that is allocated is in a place of some bucket.
LEMMA HasPlace ==
  ASSUME IInv, NEW n \in Nodes, node[n] # NULL
  PROVE  \E b \in Indices : \E p \in Places(b) : Bucket(b)[p] = n
  BY DEF IInv, NodesInBuckets

\* NodesInBuckets, from what the places of the next state are.
LEMMA SameNodes ==
  ASSUME IInv, UNCHANGED node,
         \A b \in Indices : Places(b)' = Places(b) /\ \A p \in Places(b) : Bucket(b)'[p] = Bucket(b)[p]
  PROVE  NodesInBuckets'
  <1>1. ASSUME NEW b \in Indices, NEW p \in Places(b)'
        PROVE  /\ node'[Bucket(b)'[p]] # NULL /\ node'[Bucket(b)'[p]].hash % NUM_OF_BUCKETS = b
               /\ \A q \in Places(b)' : Bucket(b)'[q] = Bucket(b)'[p] => q = p
    <2>1. /\ Places(b)' = Places(b) /\ p \in Places(b)
          /\ \A q \in Places(b) : Bucket(b)'[q] = Bucket(b)[q]
      OBVIOUS
    <2>2. /\ node[Bucket(b)[p]] # NULL /\ node[Bucket(b)[p]].hash % NUM_OF_BUCKETS = b
          /\ \A q \in Places(b) : Bucket(b)[q] = Bucket(b)[p] => q = p
      BY <2>1, Zenon DEF IInv, NodesInBuckets
    <2> QED  BY <2>1, <2>2
  <1>2. ASSUME NEW n \in Nodes, node'[n] # NULL
        PROVE  \E b \in Indices : \E p \in Places(b)' : Bucket(b)'[p] = n
    <2>1. PICK b \in Indices : \E p \in Places(b) : Bucket(b)[p] = n
      BY <1>2, HasPlace
    <2> QED  BY <2>1
  <1> QED  BY <1>1, <1>2, Zenon DEF NodesInBuckets

-------------------------------------------------------------------------------
LEMMA InitIInv == Init => IInv
  <1> SUFFICES ASSUME Init PROVE IInv
    OBVIOUS
  <1>1. \A b \in Indices : Bucket(b) = <<>> /\ Places(b) = {}
    BY DEF Init, Bucket, Places
  <1>2. NodesInBuckets
    BY <1>1 DEF NodesInBuckets, Init
  <1>3. <<>> \in Calls
    BY DEF Calls
  <1> QED  BY <1>2, <1>3, BucketsAssumption DEF Init, TypeOK, IInv, FreedBuckets

LEMMA SetIInv ==
  ASSUME IInv, NEW k \in Keys, NEW v \in Values, NEW n \in Nodes, Set(k, v, n)
  PROVE  IInv'
  <1> DEFINE b0 == Index(k)
  <1> DEFINE s == Bucket(b0)
  <1> DEFINE new == [key |-> k, text |-> k, value |-> v, hash |-> Hash[k]]
  <1>0. b0 \in Indices /\ loop # "free" /\ loop' = loop /\ node[n] = NULL
        /\ b0 = Hash[k] % NUM_OF_BUCKETS /\ Hash[k] \in Nat
    BY IndexInIndices DEF Set, Idle
  <1>1. new \in NodeType /\ new # NULL
    BY <1>0, NodeAssumption DEF NodeType
  <1>2. /\ buckets' = [buckets EXCEPT ![b0] = Append(s, n)]
        /\ node' = [node EXCEPT ![n] = new]
    BY DEF Set
  <1>3. s \in Seq(Nodes) /\ DOMAIN s = 1 .. Len(s) /\ Len(s) \in Nat
    BY <1>0, IdlePlaces
  <1>4. Append(s, n) \in Seq(Nodes)
    BY <1>3
  <1> HIDE DEF new
  <1>5. node' \in [Nodes -> NodeType \cup {NULL}]
    BY <1>1, <1>2 DEF IInv, TypeOK
  <1>6. buckets' \in [Indices -> Seq(Nodes) \cup {NULL}]
    BY <1>0, <1>2, <1>4 DEF IInv, TypeOK
  <1>7. TypeOK'
    BY <1>5, <1>6, CallType DEF IInv, TypeOK, Set
  <1>8. Append(s, n) # NULL
    BY <1>4, NullAssumption
  <1>9. Bucket(b0)' = Append(s, n)
    BY <1>0, <1>2, <1>8 DEF Bucket, IInv, TypeOK
  <1>10. \A b \in Indices \ {b0} : Bucket(b)' = Bucket(b)
    BY <1>0, <1>2 DEF Bucket, IInv, TypeOK
  <1>11. \A b \in Indices : Places(b)' = DOMAIN Bucket(b)'
    BY <1>0 DEF Places
  <1>12. /\ DOMAIN Append(s, n) = 1 .. Len(s) + 1
         /\ Append(s, n)[Len(s) + 1] = n
         /\ \A p \in 1 .. Len(s) : Append(s, n)[p] = s[p]
    BY <1>3
  <1>13. node'[n] = new /\ new.hash = Hash[k] /\ \A m \in Nodes \ {n} : node'[m] = node[m]
    BY <1>2 DEF IInv, TypeOK, new
  <1>14. \A b \in Indices : \A p \in DOMAIN Bucket(b) : Bucket(b)[p] \in Nodes \ {n}
    BY <1>0, IdlePlaces
  <1>15. ASSUME NEW b \in Indices, NEW p \in Places(b)'
         PROVE  /\ node'[Bucket(b)'[p]] # NULL /\ node'[Bucket(b)'[p]].hash % NUM_OF_BUCKETS = b
                /\ \A q \in Places(b)' : Bucket(b)'[q] = Bucket(b)'[p] => q = p
    <2>1. CASE b # b0
      <3>1. Bucket(b)' = Bucket(b) /\ p \in DOMAIN Bucket(b) /\ Places(b)' = DOMAIN Bucket(b)
        BY <2>1, <1>10, <1>11
      <3>2. node'[Bucket(b)[p]] = node[Bucket(b)[p]]
        BY <3>1, <1>13, <1>14
      <3> QED  BY <3>1, <3>2, <1>0, IdlePlaces
    <2>2. CASE b = b0
      <3>1. Places(b)' = 1 .. Len(s) + 1
        BY <2>2, <1>9, <1>11, <1>12
      <3>2. CASE p = Len(s) + 1
        <4>1. Bucket(b)'[p] = n
          BY <2>2, <3>2, <1>9, <1>12
        <4>2. \A q \in 1 .. Len(s) : Bucket(b)'[q] # n
          BY <2>2, <1>3, <1>9, <1>12, <1>14, <1>0
        <4>3. \A q \in Places(b)' : q # p => q \in 1 .. Len(s)
          BY <3>1, <3>2, <1>3
        <4>4. node'[n].hash % NUM_OF_BUCKETS = b /\ node'[n] # NULL
          BY <1>0, <1>1, <1>13, <2>2
        <4> QED  BY <4>1, <4>2, <4>3, <4>4
      <3>3. CASE p # Len(s) + 1
        <4>1. p \in DOMAIN s
          BY <3>1, <3>3, <1>3
        <4>2. Bucket(b)'[p] = s[p] /\ s[p] \in Nodes \ {n}
          BY <4>1, <2>2, <1>0, <1>3, <1>9, <1>12, <1>14
        <4>3. node'[s[p]] = node[s[p]]
          BY <4>2, <1>13
        <4>4. \A q \in Places(b)' : q = Len(s) + 1 \/ (q \in DOMAIN s /\ Bucket(b)'[q] = s[q])
          BY <3>1, <1>3, <2>2, <1>9, <1>12
        <4>5. Bucket(b)'[Len(s) + 1] = n
          BY <2>2, <1>9, <1>12
        <4>6. /\ node[s[p]] # NULL /\ node[s[p]].hash % NUM_OF_BUCKETS = b
              /\ \A q \in DOMAIN s : s[q] = s[p] => q = p
          BY <4>1, <2>2, <1>0, IdlePlaces
        <4> QED  BY <4>2, <4>3, <4>4, <4>5, <4>6
      <3> QED  BY <3>2, <3>3
    <2> QED  BY <2>1, <2>2
  <1>16. ASSUME NEW m \in Nodes, node'[m] # NULL
         PROVE  \E b \in Indices : \E p \in Places(b)' : Bucket(b)'[p] = m
    <2>1. CASE m = n
      <3>1. Len(s) + 1 \in Places(b0)' /\ Bucket(b0)'[Len(s) + 1] = n
        BY <1>0, <1>3, <1>9, <1>11, <1>12
      <3> QED  BY <2>1, <3>1, <1>0
    <2>2. CASE m # n
      <3>1. PICK b \in Indices : \E p \in Places(b) : Bucket(b)[p] = m
        BY <2>2, <1>13, <1>16, HasPlace
      <3>2. PICK p \in Places(b) : Bucket(b)[p] = m
        BY <3>1
      <3>3. Places(b) = DOMAIN Bucket(b)
        BY <1>0, IdlePlaces
      <3>4. p \in Places(b)' /\ Bucket(b)'[p] = m
        <4>1. CASE b = b0
          BY <4>1, <3>2, <3>3, <1>3, <1>0, <1>9, <1>11, <1>12
        <4>2. CASE b # b0
          BY <4>2, <3>2, <3>3, <1>10, <1>11
        <4> QED  BY <4>1, <4>2
      <3> QED  BY <3>1, <3>4
    <2> QED  BY <2>1, <2>2
  <1>17. NodesInBuckets'
    BY <1>15, <1>16, Zenon DEF NodesInBuckets
  <1> QED  BY <1>7, <1>17, <1>0 DEF IInv, FreedBuckets

LEMMA SetFailsIInv ==
  ASSUME IInv, NEW k \in Keys, SetFails(k)
  PROVE  IInv'
  <1>0. Index(k) \in Indices /\ loop # "free" /\ loop' = loop /\ node' = node
    BY IndexInIndices DEF SetFails, Idle
  <1>1. Bucket(Index(k)) \in Seq(Nodes) /\ Bucket(Index(k)) # NULL
    BY <1>0, IdlePlaces, NullAssumption
  <1>2. \A b \in Indices : Bucket(b)' = Bucket(b)
    BY <1>0, <1>1 DEF SetFails, Bucket, IInv, TypeOK
  <1>3. \A b \in Indices : Places(b)' = Places(b)
    BY <1>0, <1>2 DEF Places
  <1>4. TypeOK'
    BY <1>0, <1>1, CallType DEF SetFails, IInv, TypeOK
  <1>5. NodesInBuckets'
    BY <1>0, <1>2, <1>3, SameNodes
  <1> QED  BY <1>0, <1>4, <1>5 DEF IInv, FreedBuckets

\* What a search finds is an entry of the table.
LEMMA FoundNode ==
  ASSUME IInv, loop # "free", NEW k \in Keys, NEW p \in DOMAIN Bucket(Index(k))
  PROVE  LET n == Bucket(Index(k))[p] IN n \in Nodes /\ node[n] \in NodeType /\ node[n] # NULL
  BY IndexInIndices, IdlePlaces

LEMMA GetIInv ==
  ASSUME IInv, NEW k \in Keys, Miss(k) \/ Get(k)
  PROVE  IInv'
  <1>1. loop # "free" /\ UNCHANGED <<buckets, node, loop, i, j>>
    BY DEF Miss, Get, Idle
  <1>2. ret' \in Values \cup {NULL}
    <2>1. CASE Miss(k)
      BY <2>1 DEF Miss
    <2>2. CASE Get(k)
      <3>1. PICK p \in DOMAIN Bucket(Index(k)) : ret' = node[Bucket(Index(k))[p]].value
        BY <2>2 DEF Get
      <3> QED  BY <1>1, <3>1, FoundNode DEF NodeType
    <2> QED  BY <2>1, <2>2
  <1>3. TypeOK'
    BY <1>1, <1>2, CallType DEF IInv, TypeOK, Miss, Get
  <1>4. \A b \in Indices : Bucket(b)' = Bucket(b) /\ Places(b)' = Places(b)
    BY <1>1 DEF Bucket, Places
  <1>5. NodesInBuckets'
    BY <1>1, <1>4, SameNodes
  <1> QED  BY <1>1, <1>3, <1>5 DEF IInv, FreedBuckets

LEMMA RemoveIInv ==
  ASSUME IInv, NEW k \in Keys, Remove(k)
  PROVE  IInv'
  <1> DEFINE b0 == Index(k)
  <1> DEFINE s == Bucket(b0)
  <1>0. b0 \in Indices /\ loop # "free" /\ loop' = loop
    BY IndexInIndices DEF Remove, Idle
  <1>1. PICK r \in DOMAIN s :
          /\ ret' = node[s[r]].value
          /\ buckets' = [buckets EXCEPT ![b0] = Without(@, r)]
          /\ node' = [node EXCEPT ![s[r]] = NULL]
    BY DEF Remove
  <1>2. s[r] \in Nodes /\ node[s[r]] \in NodeType /\ node[s[r]] # NULL
    BY <1>0, FoundNode
  <1>3. s \in Seq(Nodes) /\ DOMAIN s = 1 .. Len(s) /\ Len(s) \in Nat
    BY <1>0, IdlePlaces
  <1>4. buckets[b0] = s
    BY <1>1 DEF Bucket
  <1> DEFINE w == Without(s, r)
  <1>5. /\ w \in Seq(Nodes) /\ DOMAIN w = 1 .. Len(s) - 1
        /\ \A q \in 1 .. Len(s) - 1 : w[q] = IF q = r THEN s[Len(s)] ELSE s[q]
    BY <1>3, WithoutSeq
  <1> HIDE DEF w
  <1>6. buckets' = [buckets EXCEPT ![b0] = w]
    BY <1>1, <1>4 DEF w
  <1>7. TypeOK'
    <2>1. buckets' \in [Indices -> Seq(Nodes) \cup {NULL}]
      BY <1>0, <1>5, <1>6 DEF IInv, TypeOK
    <2>2. node' \in [Nodes -> NodeType \cup {NULL}]
      BY <1>1, <1>2 DEF IInv, TypeOK
    <2>3. ret' \in Values
      BY <1>1, <1>2 DEF NodeType
    <2> QED  BY <2>1, <2>2, <2>3, CallType DEF IInv, TypeOK, Remove
  <1>8. w # NULL
    BY <1>5, NullAssumption
  <1>9. Bucket(b0)' = w
    BY <1>0, <1>6, <1>8 DEF Bucket, IInv, TypeOK
  <1>10. \A b \in Indices \ {b0} : Bucket(b)' = Bucket(b)
    BY <1>0, <1>6 DEF Bucket, IInv, TypeOK
  <1>11. \A b \in Indices : Places(b)' = DOMAIN Bucket(b)'
    BY <1>0 DEF Places
  <1>12. node'[s[r]] = NULL /\ \A m \in Nodes \ {s[r]} : node'[m] = node[m]
    BY <1>1, <1>2 DEF IInv, TypeOK
  \* The place a node of the shortened bucket came from.
  <1> DEFINE from(q) == IF q = r THEN Len(s) ELSE q
  <1>13. \A q \in DOMAIN w : /\ from(q) \in DOMAIN s /\ from(q) # r /\ w[q] = s[from(q)]
                             /\ \A p \in DOMAIN w : from(p) = from(q) => p = q
    BY <1>3, <1>5
  <1>14. \A q \in DOMAIN s \ {r} : \E p \in DOMAIN w : from(p) = q
    <2> SUFFICES ASSUME NEW q \in DOMAIN s \ {r} PROVE \E p \in DOMAIN w : from(p) = q
      OBVIOUS
    <2>1. CASE q = Len(s)
      BY <2>1, <1>3, <1>5
    <2>2. CASE q # Len(s)
      BY <2>2, <1>3, <1>5
    <2> QED  BY <2>1, <2>2
  <1> HIDE DEF from
  <1>15. \A p \in DOMAIN s : /\ s[p] \in Nodes /\ node[s[p]] # NULL /\ node[s[p]].hash % NUM_OF_BUCKETS = b0
                             /\ \A q \in DOMAIN s : s[q] = s[p] => q = p
    BY <1>0, IdlePlaces
  <1>16. ASSUME NEW b \in Indices, NEW p \in Places(b)'
         PROVE  /\ node'[Bucket(b)'[p]] # NULL /\ node'[Bucket(b)'[p]].hash % NUM_OF_BUCKETS = b
                /\ \A q \in Places(b)' : Bucket(b)'[q] = Bucket(b)'[p] => q = p
    <2>1. CASE b # b0
      <3>1. Bucket(b)' = Bucket(b) /\ p \in DOMAIN Bucket(b) /\ Places(b)' = DOMAIN Bucket(b)
        BY <2>1, <1>10, <1>11
      <3>2. Bucket(b)[p] \in Nodes /\ node[Bucket(b)[p]].hash % NUM_OF_BUCKETS = b
        BY <3>1, <1>0, IdlePlaces
      <3>3. Bucket(b)[p] # s[r]
        BY <3>2, <2>1, <1>15
      <3>4. node'[Bucket(b)[p]] = node[Bucket(b)[p]]
        BY <3>2, <3>3, <1>12
      <3> QED  BY <3>1, <3>4, <1>0, IdlePlaces
    <2>2. CASE b = b0
      <3>1. Bucket(b)' = w /\ p \in DOMAIN w /\ Places(b)' = DOMAIN w
        BY <2>2, <1>9, <1>11
      <3>2. w[p] = s[from(p)] /\ from(p) \in DOMAIN s /\ s[from(p)] # s[r]
        BY <3>1, <1>13, <1>15
      <3>3. node'[s[from(p)]] = node[s[from(p)]]
        BY <3>2, <1>12, <1>15
      <3>4. \A q \in DOMAIN w : w[q] = w[p] => q = p
        BY <3>1, <3>2, <1>13, <1>15
      <3> QED  BY <3>1, <3>2, <3>3, <3>4, <2>2, <1>15
    <2> QED  BY <2>1, <2>2
  <1>17. ASSUME NEW m \in Nodes, node'[m] # NULL
         PROVE  \E b \in Indices : \E p \in Places(b)' : Bucket(b)'[p] = m
    <2>0. m # s[r] /\ node[m] # NULL
      BY <1>12, <1>17
    <2>1. PICK b \in Indices : \E p \in Places(b) : Bucket(b)[p] = m
      BY <2>0, HasPlace
    <2>2. PICK p \in Places(b) : Bucket(b)[p] = m
      BY <2>1
    <2>3. Places(b) = DOMAIN Bucket(b)
      BY <1>0, IdlePlaces
    <2>4. CASE b = b0
      <3>1. p \in DOMAIN s \ {r}
        BY <2>0, <2>2, <2>3, <2>4
      <3>2. PICK q \in DOMAIN w : from(q) = p
        BY <3>1, <1>14
      <3>3. q \in Places(b)' /\ Bucket(b)'[q] = m
        BY <3>2, <2>2, <2>4, <1>9, <1>11, <1>13, <1>0
      <3> QED  BY <3>3, <2>1
    <2>5. CASE b # b0
      BY <2>2, <2>3, <2>5, <1>10, <1>11
    <2> QED  BY <2>4, <2>5
  <1>18. NodesInBuckets'
    BY <1>16, <1>17, Zenon DEF NodesInBuckets
  <1> QED  BY <1>7, <1>18, <1>0 DEF IInv, FreedBuckets

LEMMA ReuseIInv ==
  ASSUME IInv, NEW n \in Nodes, NEW t \in Reused, Reuse(n, t)
  PROVE  IInv'
  <1> DEFINE new == [node[n] EXCEPT !.text = t]
  <1>1. node[n] \in NodeType /\ node' = [node EXCEPT ![n] = new] /\ call' = <<>>
        /\ UNCHANGED <<buckets, loop, i, j, ret>>
    BY DEF Reuse, IInv, TypeOK
  <1>2. new \in NodeType /\ new.hash = node[n].hash
    BY <1>1 DEF NodeType
  <1> HIDE DEF new
  <1>3. new # NULL
    BY <1>2, NodeAssumption DEF NodeType
  <1>4. node[n] # NULL
    BY DEF Reuse
  <1>5. \A m \in Nodes : /\ node'[m] = IF m = n THEN new ELSE node[m]
                         /\ node'[m] # NULL <=> node[m] # NULL
                         /\ node[m] # NULL => node'[m].hash = node[m].hash
    BY <1>1, <1>2, <1>3, <1>4 DEF IInv, TypeOK
  <1>6. TypeOK'
    <2>1. node' \in [Nodes -> NodeType \cup {NULL}]
      BY <1>1, <1>2 DEF IInv, TypeOK
    <2>2. call' \in Calls
      BY <1>1 DEF Calls
    <2> QED  BY <1>1, <2>1, <2>2 DEF IInv, TypeOK
  <1>7. \A b \in Indices : Bucket(b)' = Bucket(b) /\ Places(b)' = Places(b)
    BY <1>1 DEF Bucket, Places
  <1>8. ASSUME NEW b \in Indices, NEW p \in Places(b)'
        PROVE  /\ node'[Bucket(b)'[p]] # NULL /\ node'[Bucket(b)'[p]].hash % NUM_OF_BUCKETS = b
               /\ \A q \in Places(b)' : Bucket(b)'[q] = Bucket(b)'[p] => q = p
    <2>1. p \in Places(b) /\ Bucket(b)' = Bucket(b) /\ Places(b)' = Places(b)
      BY <1>7
    <2>2. Bucket(b)[p] \in Nodes
      BY <2>1, BucketType DEF IInv, Places
    <2>3. /\ node[Bucket(b)[p]] # NULL /\ node[Bucket(b)[p]].hash % NUM_OF_BUCKETS = b
          /\ \A q \in Places(b) : Bucket(b)[q] = Bucket(b)[p] => q = p
      BY <2>1, Zenon DEF IInv, NodesInBuckets
    <2> QED  BY <2>1, <2>2, <2>3, <1>5
  <1>9. ASSUME NEW m \in Nodes, node'[m] # NULL
        PROVE  \E b \in Indices : \E p \in Places(b)' : Bucket(b)'[p] = m
    <2>1. PICK b \in Indices : \E p \in Places(b) : Bucket(b)[p] = m
      BY <1>9, <1>5, HasPlace
    <2> QED  BY <2>1, <1>7
  <1>10. NodesInBuckets'
    BY <1>8, <1>9, Zenon DEF NodesInBuckets
  <1> QED  BY <1>1, <1>6, <1>10 DEF IInv, FreedBuckets

LEMMA BeginIInv ==
  ASSUME IInv, Begin
  PROVE  IInv'
  <1>1. loop # "free" /\ loop' \in {"traverse", "free"} /\ i' = 0 /\ j' = 0
        /\ UNCHANGED <<buckets, node, call, ret>>
    BY DEF Begin, Idle
  <1>2. TypeOK'
    BY <1>1, BucketsAssumption DEF IInv, TypeOK
  <1>3. \A b \in Indices : Bucket(b)' = Bucket(b)
    BY <1>1 DEF Bucket
  <1>4. \A b \in Indices : Places(b)' = Places(b)
    <2> SUFFICES ASSUME NEW b \in Indices PROVE Places(b)' = Places(b)
      OBVIOUS
    <2>1. DOMAIN Bucket(b) = 1 .. Len(Bucket(b)) /\ Places(b) = DOMAIN Bucket(b)
      BY <1>1, IdlePlaces
    <2>2. \A p \in DOMAIN Bucket(b) : ~(p <= 0)
      BY <2>1
    <2> QED  BY <1>1, <1>3, <2>1, <2>2 DEF Places
  <1>5. NodesInBuckets'
    BY <1>1, <1>3, <1>4, SameNodes
  <1> QED  BY <1>1, <1>2, <1>5 DEF IInv, FreedBuckets

\* What a loop visits next is an entry of the table.
LEMMA VisitedNode ==
  ASSUME IInv, i \in Indices, j < Len(Bucket(i))
  PROVE  /\ Bucket(i) \in Seq(Nodes) /\ DOMAIN Bucket(i) = 1 .. Len(Bucket(i))
         /\ j + 1 \in DOMAIN Bucket(i) /\ j + 1 \in Places(i)
         /\ LET n == Bucket(i)[j + 1] IN n \in Nodes /\ node[n] \in NodeType /\ node[n] # NULL
  <1>1. Bucket(i) \in Seq(Nodes) /\ j \in Nat
    BY BucketType DEF IInv, TypeOK
  <1>2. j + 1 \in DOMAIN Bucket(i) /\ ~(j + 1 <= j)
    BY <1>1
  <1>3. j + 1 \in Places(i)
    BY <1>2 DEF Places
  <1>4. node[Bucket(i)[j + 1]] # NULL /\ Bucket(i)[j + 1] \in Nodes
    BY <1>1, <1>2, <1>3 DEF IInv, NodesInBuckets
  <1>5. node[Bucket(i)[j + 1]] \in NodeType
    BY <1>4 DEF IInv, TypeOK
  <1>6. DOMAIN Bucket(i) = 1 .. Len(Bucket(i))
    BY <1>1
  <1> QED  BY <1>1, <1>2, <1>3, <1>4, <1>5, <1>6

LEMMA VisitIInv ==
  ASSUME IInv, Visit
  PROVE  IInv'
  <1> DEFINE n == Bucket(i)[j + 1]
  <1>0. i' = i /\ i \in Indices
    BY BucketsAssumption DEF Visit, IInv, TypeOK
  <1>1. /\ i \in Indices /\ j < Len(Bucket(i)) /\ j \in Nat
        /\ ret' = node[n].value /\ j' = j + 1 /\ UNCHANGED <<buckets, loop, i>>
        /\ node' = IF loop = "free" THEN [node EXCEPT ![n] = NULL] ELSE node
    BY BucketsAssumption DEF Visit, IInv, TypeOK
  <1>2. /\ Bucket(i) \in Seq(Nodes) /\ DOMAIN Bucket(i) = 1 .. Len(Bucket(i))
        /\ j + 1 \in Places(i)
        /\ n \in Nodes /\ node[n] \in NodeType /\ node[n] # NULL
    BY <1>1, VisitedNode
  <1> HIDE DEF n
  <1>3. TypeOK'
    <2>1. node' \in [Nodes -> NodeType \cup {NULL}]
      BY <1>1, <1>2 DEF IInv, TypeOK
    <2>2. ret' \in Values
      BY <1>1, <1>2 DEF NodeType
    <2>3. call' \in Calls
      BY DEF Visit, Calls
    <2> QED  BY <1>1, <2>1, <2>2, <2>3 DEF IInv, TypeOK
  <1>4. \A b \in Indices : Bucket(b)' = Bucket(b)
    BY <1>1 DEF Bucket
  <1>5. CASE loop # "free"
    <2>1. \A b \in Indices : Places(b)' = Places(b)
      BY <1>1, <1>4, <1>5 DEF Places
    <2>2. NodesInBuckets'
      BY <1>1, <1>4, <1>5, <2>1, SameNodes
    <2> QED  BY <1>1, <1>3, <1>5, <2>2 DEF IInv, FreedBuckets
  <1>6. CASE loop = "free"
    <2>1. /\ node'[n] = NULL
          /\ \A m \in Nodes \ {n} : node'[m] = node[m]
      BY <1>1, <1>2, <1>6 DEF IInv, TypeOK
    <2>2. \A b \in Indices \ {i} : Places(b)' = Places(b)
      BY <1>1, <1>4 DEF Places
    <2>3. Places(i)' = Places(i) \ {j + 1}
      <3>1. Places(i)' = {p \in DOMAIN Bucket(i) : ~(p <= j + 1)}
        BY <1>1, <1>4, <1>6 DEF Places
      <3>2. Places(i) = {p \in DOMAIN Bucket(i) : ~(p <= j)}
        BY <1>6 DEF Places
      <3>3. \A p \in DOMAIN Bucket(i) : ~(p <= j + 1) <=> ~(p <= j) /\ p # j + 1
        BY <1>1, <1>2
      <3> QED  BY <3>1, <3>2, <3>3
    <2>4. ASSUME NEW b \in Indices, NEW p \in Places(b)'
          PROVE  p \in Places(b) /\ Bucket(b)[p] \in Nodes \ {n}
      <3>1. p \in Places(b) /\ p \in DOMAIN Bucket(b)
        BY <1>0, <2>2, <2>3, <2>4 DEF Places
      <3>2. Bucket(b)[p] \in Nodes
        BY <3>1, BucketType DEF IInv
      <3>3. CASE b = i
        <4>1. p # j + 1
          BY <1>0, <2>3, <2>4, <3>3
        <4> QED  BY <3>1, <3>2, <3>3, <4>1, <1>2 DEF IInv, NodesInBuckets, n
      <3>4. CASE b # i
        <4>1. node[Bucket(b)[p]].hash % NUM_OF_BUCKETS = b
          BY <3>1, Zenon DEF IInv, NodesInBuckets
        <4>2. node[n].hash % NUM_OF_BUCKETS = i
          BY <1>1, <1>2, Zenon DEF IInv, NodesInBuckets, n
        <4> QED  BY <3>1, <3>2, <3>4, <4>1, <4>2
      <3> QED  BY <3>3, <3>4
    <2>5. ASSUME NEW b \in Indices, NEW p \in Places(b)'
          PROVE  /\ node'[Bucket(b)'[p]] # NULL /\ node'[Bucket(b)'[p]].hash % NUM_OF_BUCKETS = b
                 /\ \A q \in Places(b)' : Bucket(b)'[q] = Bucket(b)'[p] => q = p
      <3>1. p \in Places(b) /\ Bucket(b)' = Bucket(b) /\ \A q \in Places(b)' : q \in Places(b)
        BY <2>4, <1>4
      <3>2. node'[Bucket(b)[p]] = node[Bucket(b)[p]]
        BY <2>1, <2>4
      <3>3. /\ node[Bucket(b)[p]] # NULL /\ node[Bucket(b)[p]].hash % NUM_OF_BUCKETS = b
            /\ \A q \in Places(b) : Bucket(b)[q] = Bucket(b)[p] => q = p
        BY <3>1, Zenon DEF IInv, NodesInBuckets
      <3> QED  BY <3>1, <3>2, <3>3
    <2>6. ASSUME NEW m \in Nodes, node'[m] # NULL
          PROVE  \E b \in Indices : \E p \in Places(b)' : Bucket(b)'[p] = m
      <3>1. m # n /\ node[m] # NULL
        BY <2>1, <2>6
      <3>2. PICK b \in Indices : \E p \in Places(b) : Bucket(b)[p] = m
        BY <3>1, HasPlace
      <3>3. PICK p \in Places(b) : Bucket(b)[p] = m
        BY <3>2
      <3>4. p \in Places(b)'
        BY <1>0, <3>1, <3>3, <2>2, <2>3 DEF n
      <3> QED  BY <3>3, <3>4, <1>4
    <2>7. NodesInBuckets'
      BY <2>5, <2>6, Zenon DEF NodesInBuckets
    <2> QED  BY <1>1, <1>3, <2>7 DEF IInv, FreedBuckets
  <1> QED  BY <1>5, <1>6

LEMMA BucketEndIInv ==
  ASSUME IInv, BucketEnd
  PROVE  IInv'
  <1>1. /\ i \in Indices /\ i' = i + 1 /\ j' = 0 /\ j >= Len(Bucket(i)) /\ j \in Nat
        /\ UNCHANGED <<node, loop, call, ret>>
        /\ buckets' = IF loop = "free" THEN [buckets EXCEPT ![i] = NULL] ELSE buckets
    BY BucketsAssumption DEF BucketEnd, NextBucket, IInv, TypeOK
  <1>0. PICK c \in Indices : c = i
    BY <1>1
  <1>2. TypeOK'
    BY <1>1, BucketsAssumption DEF IInv, TypeOK
  <1>3. \A b \in Indices : /\ Bucket(b) \in Seq(Nodes) /\ DOMAIN Bucket(b) = 1 .. Len(Bucket(b))
                           /\ Len(Bucket(b)) \in Nat
    BY BucketType DEF IInv
  <1>4. CASE loop # "free"
    <2>1. \A b \in Indices : Bucket(b)' = Bucket(b) /\ Places(b)' = Places(b)
      BY <1>1, <1>4 DEF Bucket, Places
    <2>2. NodesInBuckets'
      BY <1>1, <2>1, SameNodes
    <2> QED  BY <1>1, <1>2, <1>4, <2>2 DEF IInv, FreedBuckets
  <1>5. CASE loop = "free"
    <2>1. buckets'[c] = NULL /\ \A b \in Indices \ {c} : buckets'[b] = buckets[b]
      BY <1>0, <1>1, <1>5 DEF IInv, TypeOK
    <2>2. Bucket(c)' = <<>> /\ \A b \in Indices \ {c} : Bucket(b)' = Bucket(b)
      BY <2>1 DEF Bucket
    <2>3. Places(c) = {}
      BY <1>0, <1>1, <1>3, <1>5 DEF Places
    <2>4. Places(c)' = {}
      BY <2>2 DEF Places
    <2>5. \A b \in Indices \ {c} : Places(b)' = Places(b)
      <3> SUFFICES ASSUME NEW b \in Indices \ {c} PROVE Places(b)' = Places(b)
        OBVIOUS
      <3>1. Places(b) = DOMAIN Bucket(b)
        BY <1>0 DEF Places
      <3>2. \A p \in DOMAIN Bucket(b) : ~(p <= 0)
        BY <1>3
      <3> QED  BY <1>0, <1>1, <2>2, <3>1, <3>2 DEF Places
    <2>6. \A b \in Indices : Places(b)' = Places(b) /\ \A p \in Places(b) : Bucket(b)'[p] = Bucket(b)[p]
      BY <2>2, <2>3, <2>4, <2>5
    <2>7. NodesInBuckets'
      BY <1>1, <2>6, SameNodes
    <2>8. FreedBuckets'
      BY <1>0, <1>1, <1>5, <2>1 DEF IInv, TypeOK, FreedBuckets
    <2> QED  BY <1>2, <2>7, <2>8 DEF IInv
  <1> QED  BY <1>4, <1>5

LEMMA EndIInv ==
  ASSUME IInv, End
  PROVE  IInv'
  <1>1. loop' = "none" /\ i = NUM_OF_BUCKETS /\ UNCHANGED <<buckets, node, i, j, call, ret>>
    BY DEF End
  <1>2. TypeOK'
    BY <1>1 DEF IInv, TypeOK
  <1>3. \A b \in Indices : Bucket(b)' = Bucket(b) /\ Places(b)' = Places(b)
    BY <1>1, BucketsAssumption DEF Bucket, Places
  <1>4. NodesInBuckets'
    BY <1>1, <1>3, SameNodes
  <1> QED  BY <1>1, <1>2, <1>4 DEF IInv, FreedBuckets

LEMMA NextIInv == IInv /\ [Next]_vars => IInv'
  <1> SUFFICES ASSUME IInv, [Next]_vars PROVE IInv'
    OBVIOUS
  <1>1. CASE UNCHANGED vars
    <2>1. \A b \in Indices : Bucket(b)' = Bucket(b) /\ Places(b)' = Places(b)
      BY <1>1 DEF vars, Bucket, Places
    <2>2. NodesInBuckets'
      BY <1>1, <2>1, SameNodes DEF vars
    <2> QED  BY <1>1, <2>2 DEF vars, IInv, TypeOK, FreedBuckets
  <1>2. CASE Next
    BY <1>2, SetIInv, SetFailsIInv, GetIInv, RemoveIInv, ReuseIInv, BeginIInv, VisitIInv,
       BucketEndIInv, EndIInv, Zenon DEF Next
  <1> QED  BY <1>1, <1>2

LEMMA AlwaysIInv == Spec => []IInv
  BY InitIInv, NextIInv, PTL DEF Spec

\* Every variable has its type in every reachable state: the buckets hold
\* addresses of nodes and nothing else, and every lookup returns a value that
\* was stored, or NULL.
THEOREM TypeCorrect == Spec => []TypeOK
  BY AlwaysIInv, PTL DEF IInv

\* No node is lost, held twice, in the bucket of another hash or freed while a
\* bucket holds it.
THEOREM NoNodeLost == Spec => []NodesInBuckets
  BY AlwaysIInv, PTL DEF IInv

-------------------------------------------------------------------------------
(***************************************************************************)
(* The table implements MultimapSpec. A lookup misses no entry because the *)
(* hash kept in a node is the one of the key it was stored under.          *)
(***************************************************************************)
HashOfKey == \A n \in Nodes : node[n] # NULL => node[n].hash = Hash[node[n].key]

LEMMA NextHashOfKey ==
  ASSUME IInv, HashOfKey, [Next]_vars
  PROVE  HashOfKey'
  <1>1. ASSUME UNCHANGED node PROVE HashOfKey'
    BY <1>1 DEF HashOfKey
  <1>2. ASSUME NEW k \in Keys, NEW v \in Values, NEW n \in Nodes, Set(k, v, n)
        PROVE  HashOfKey'
    BY <1>2 DEF Set, HashOfKey, IInv, TypeOK
  <1>3. ASSUME NEW n \in Nodes, node' = [node EXCEPT ![n] = NULL]
        PROVE  HashOfKey'
    BY <1>3 DEF HashOfKey, IInv, TypeOK
  <1>4. ASSUME NEW k \in Keys, Remove(k) PROVE HashOfKey'
    <2>1. loop # "free"
      BY <1>4 DEF Remove, Idle
    <2>2. PICK p \in DOMAIN Bucket(Index(k)) : node' = [node EXCEPT ![Bucket(Index(k))[p]] = NULL]
      BY <1>4 DEF Remove
    <2>3. Bucket(Index(k))[p] \in Nodes
      BY <2>1, FoundNode
    <2> QED  BY <2>2, <2>3, <1>3
  <1>5. ASSUME NEW n \in Nodes, NEW t \in Reused, Reuse(n, t) PROVE HashOfKey'
    <2>1. node[n] \in NodeType /\ node[n] # NULL
      BY <1>5 DEF Reuse, IInv, TypeOK
    <2>2. \A m \in Nodes : node'[m] = IF m = n THEN [node[n] EXCEPT !.text = t] ELSE node[m]
      BY <1>5 DEF Reuse, IInv, TypeOK
    <2>3. LET x == [node[n] EXCEPT !.text = t] IN x.hash = node[n].hash /\ x.key = node[n].key
      BY <2>1 DEF NodeType
    <2> QED  BY <2>1, <2>2, <2>3 DEF HashOfKey
  <1>6. ASSUME Visit PROVE HashOfKey'
    <2>1. CASE loop = "free"
      <3>1. i \in Indices /\ j < Len(Bucket(i))
        BY <1>6, BucketsAssumption DEF Visit, IInv, TypeOK
      <3>2. Bucket(i)[j + 1] \in Nodes
        BY <3>1, VisitedNode
      <3>3. node' = [node EXCEPT ![Bucket(i)[j + 1]] = NULL]
        BY <1>6, <2>1 DEF Visit
      <3> QED  BY <3>2, <3>3, <1>3
    <2>2. CASE loop # "free"
      BY <1>6, <2>2, <1>1 DEF Visit
    <2> QED  BY <2>1, <2>2
  <1>7. CASE Next
    <2>1. ASSUME NEW k \in Keys, SetFails(k) \/ Miss(k) \/ Get(k) PROVE UNCHANGED node
      BY <2>1 DEF SetFails, Miss, Get
    <2>2. ASSUME Begin \/ BucketEnd \/ End PROVE UNCHANGED node
      BY <2>2 DEF Begin, BucketEnd, End
    <2> QED  BY <1>7, <1>1, <1>2, <1>4, <1>5, <1>6, <2>1, <2>2, Zenon DEF Next
  <1>8. CASE UNCHANGED vars
    BY <1>8, <1>1 DEF vars
  <1> QED  BY <1>7, <1>8

LEMMA AlwaysHashOfKey == Spec => []HashOfKey
  <1>1. Init => HashOfKey
    BY DEF Init, HashOfKey
  <1>2. IInv /\ HashOfKey /\ [Next]_vars => HashOfKey'
    BY NextHashOfKey
  <1> QED  BY <1>1, <1>2, AlwaysIInv, PTL DEF Spec

\* The entry of a node.
LEMMA EntryOf ==
  ASSUME TypeOK, NEW n \in Nodes
  PROVE  /\ Entries[n] = Entry(node[n])
         /\ node[n] = NULL => Entries[n] = NULL
         /\ node[n] # NULL =>
              /\ Entries[n] = [key |-> node[n].key, text |-> node[n].text, value |-> node[n].value]
              /\ Entries[n] # NULL
  <1>1. Entries[n] = Entry(node[n])
    BY DEF Entries
  <1>2. ASSUME node[n] # NULL
        PROVE  [key |-> node[n].key, text |-> node[n].text, value |-> node[n].value] # NULL
    <2>1. node[n] \in NodeType
      BY <1>2 DEF TypeOK
    <2>2. [key |-> node[n].key, text |-> node[n].text, value |-> node[n].value]
            \in [key : Keys, text : Keys \cup Reused, value : Values]
      BY <2>1 DEF NodeType
    <2> QED  BY <2>2, EntryAssumption
  <1> QED  BY <1>1, <1>2 DEF Entry

LEMMA LiveNodes ==
  ASSUME TypeOK
  PROVE  Table!Live = {n \in Nodes : node[n] # NULL}
  BY EntryOf DEF Table!Live

\* What changes the nodes, changes the entries.
LEMMA SameEntries == ASSUME UNCHANGED node PROVE Entries' = Entries
  BY DEF Entries

LEMMA NodeEntries ==
  ASSUME TypeOK, NEW n \in Nodes, NEW x, node' = [node EXCEPT ![n] = x]
  PROVE  Entries' = [Entries EXCEPT ![n] = Entry(x)]
  <1>1. \A m \in Nodes : node'[m] = IF m = n THEN x ELSE node[m]
    BY DEF TypeOK
  <1>2. Entries' = [m \in Nodes |-> Entry(node'[m])]
    BY DEF Entries
  <1>3. Entries = [m \in Nodes |-> Entry(node[m])]
    BY DEF Entries
  <1> HIDE DEF Entries
  <1> QED  BY <1>1, <1>2, <1>3

LEMMA IdleSeen == ASSUME loop # "traverse" PROVE Seen = {}
  BY DEF Seen

LEMMA SetRefines ==
  ASSUME IInv, NEW k \in Keys, NEW v \in Values, NEW n \in Nodes, Set(k, v, n)
  PROVE  Table!Set(k, v)
  <1> DEFINE new == [key |-> k, text |-> k, value |-> v, hash |-> Hash[k]]
  <1> DEFINE e == [key |-> k, text |-> k, value |-> v]
  <1>1. /\ loop = "none" /\ loop' = loop /\ call' = <<"set", k>> /\ ret' = NULL /\ node[n] = NULL
        /\ node' = [node EXCEPT ![n] = new]
    BY DEF Set, Idle
  <1>2. new # NULL
    BY HashAssumption, NodeAssumption
  <1>3. Entry(new) = e
    BY <1>2 DEF Entry
  <1>4. Entries' = [Entries EXCEPT ![n] = e]
    <2> HIDE DEF new
    <2> QED  BY <1>1, <1>3, NodeEntries DEF IInv
  <1>5. n \in Nodes \ Table!Live
    BY <1>1, LiveNodes DEF IInv
  <1>6. Seen' = Seen
    BY <1>1 DEF Seen
  <1> QED  BY <1>1, <1>4, <1>5, <1>6, Zenon DEF Table!Set

LEMMA SetFailsRefines ==
  ASSUME NEW k \in Keys, SetFails(k)
  PROVE  Table!SetFails(k)
  <1>1. loop = "none" /\ loop' = loop /\ call' = <<"set", k>> /\ ret' = NULL /\ node' = node
    BY DEF SetFails, Idle
  <1>2. Seen' = Seen
    BY <1>1 DEF Seen
  <1> QED  BY <1>1, <1>2, SameEntries DEF Table!SetFails

\* A search that finds nothing: no entry is stored under k and reads so.
LEMMA MissedNone ==
  ASSUME IInv, HashOfKey, loop = "none", NEW k \in Keys, NotFound(k)
  PROVE  Table!Stored(k) = {}
  <1> SUFFICES ASSUME NEW n \in Table!Stored(k) PROVE FALSE
    OBVIOUS
  <1>1. n \in Nodes /\ node[n] # NULL
    BY LiveNodes DEF Table!Stored, Table!Reading, IInv
  <1>2. node[n].text = k /\ node[n].key = k
    <2>1. Entries[n] = [key |-> node[n].key, text |-> node[n].text, value |-> node[n].value]
      BY <1>1, EntryOf DEF IInv
    <2> QED  BY <2>1 DEF Table!Stored, Table!Reading
  <1>3. node[n].hash = Hash[k]
    BY <1>1, <1>2 DEF HashOfKey
  <1>4. PICK b \in Indices : \E p \in Places(b) : Bucket(b)[p] = n
    BY <1>1, HasPlace
  <1>5. PICK p \in Places(b) : Bucket(b)[p] = n
    BY <1>4
  <1>6. p \in DOMAIN Bucket(b) /\ node[n].hash % NUM_OF_BUCKETS = b
    BY <1>5, IdlePlaces
  <1>7. b = Index(k)
    BY <1>3, <1>6 DEF Index
  <1> QED  BY <1>2, <1>3, <1>5, <1>6, <1>7 DEF NotFound, Fits

\* What a search finds is an entry whose key reads k.
LEMMA FoundReads ==
  ASSUME IInv, loop = "none", NEW k \in Keys, NEW p \in DOMAIN Bucket(Index(k)), FoundAt(k, p)
  PROVE  LET n == Bucket(Index(k))[p]
         IN  n \in Nodes /\ n \in Table!Reading(k) /\ Entries[n].value = node[n].value
  <1> DEFINE n == Bucket(Index(k))[p]
  <1>1. n \in Nodes /\ node[n] # NULL
    BY FoundNode
  <1>2. node[n].text = k
    BY DEF FoundAt, Fits
  <1> HIDE DEF n
  <1>3. Entries[n] = [key |-> node[n].key, text |-> node[n].text, value |-> node[n].value]
    BY <1>1, EntryOf DEF IInv
  <1>4. n \in Table!Reading(k) /\ Entries[n].value = node[n].value
    BY <1>1, <1>2, <1>3, LiveNodes DEF Table!Reading, IInv
  <1> QED  BY <1>1, <1>4 DEF n

LEMMA MissRefines ==
  ASSUME IInv, HashOfKey, NEW k \in Keys, Miss(k)
  PROVE  Table!Get(k) \/ Table!Remove(k)
  <1>1. /\ loop = "none" /\ NotFound(k) /\ ret' = NULL /\ loop' = loop /\ node' = node /\ UNCHANGED <<buckets, i, j>>
        /\ call' = <<"get", k>> \/ call' = <<"remove", k>>
    BY DEF Miss, Idle
  <1>2. Seen' = Seen
    BY <1>1 DEF Seen
  <1>3. Table!Miss(k)
    BY <1>1, MissedNone, SameEntries DEF Table!Miss
  <1> QED  BY <1>1, <1>2, <1>3, Zenon DEF Table!Get, Table!Remove

LEMMA GetRefines ==
  ASSUME IInv, NEW k \in Keys, Get(k)
  PROVE  Table!Get(k)
  <1>1. loop = "none" /\ loop' = loop /\ node' = node /\ call' = <<"get", k>>
    BY DEF Get, Idle
  <1>2. PICK p \in DOMAIN Bucket(Index(k)) : FoundAt(k, p) /\ ret' = node[Bucket(Index(k))[p]].value
    BY DEF Get
  <1>3. PICK n \in Table!Reading(k) : ret' = Entries[n].value
    BY <1>1, <1>2, FoundReads
  <1>4. Seen' = Seen /\ Entries' = Entries
    BY <1>1, SameEntries DEF Seen
  <1> QED  BY <1>1, <1>3, <1>4, Zenon DEF Table!Get

LEMMA RemoveRefines ==
  ASSUME IInv, NEW k \in Keys, Remove(k)
  PROVE  Table!Remove(k)
  <1>1. loop = "none" /\ loop' = loop /\ call' = <<"remove", k>>
    BY DEF Remove, Idle
  <1>2. PICK p \in DOMAIN Bucket(Index(k)) :
          /\ FoundAt(k, p)
          /\ ret' = node[Bucket(Index(k))[p]].value
          /\ node' = [node EXCEPT ![Bucket(Index(k))[p]] = NULL]
    BY DEF Remove
  <1>3. PICK n \in Nodes : n = Bucket(Index(k))[p] /\ n \in Table!Reading(k) /\ ret' = Entries[n].value
    BY <1>1, <1>2, FoundReads
  <1>4. Entries' = [Entries EXCEPT ![n] = Entry(NULL)]
    BY <1>2, <1>3, NodeEntries DEF IInv
  <1>5. Entry(NULL) = NULL
    BY DEF Entry
  <1>6. Seen' = Seen
    BY <1>1 DEF Seen
  <1> QED  BY <1>1, <1>3, <1>4, <1>5, <1>6, Zenon DEF Table!Remove

LEMMA ReuseRefines ==
  ASSUME IInv, NEW n \in Nodes, NEW t \in Reused, Reuse(n, t)
  PROVE  Table!Reuse(n, t)
  <1> DEFINE new == [node[n] EXCEPT !.text = t]
  <1>1. node[n] # NULL /\ node[n] \in NodeType /\ node' = [node EXCEPT ![n] = new]
        /\ call' = <<>> /\ UNCHANGED <<buckets, loop, i, j, ret>>
    BY DEF Reuse, IInv, TypeOK
  <1>2. new \in NodeType /\ new.key = node[n].key /\ new.text = t /\ new.value = node[n].value
    BY <1>1 DEF NodeType
  <1> HIDE DEF new
  <1>3. new # NULL
    BY <1>2, NodeAssumption DEF NodeType
  <1>4. Entry(new) = [key |-> node[n].key, text |-> t, value |-> node[n].value]
    BY <1>2, <1>3 DEF Entry
  <1>5. Entries[n] = [key |-> node[n].key, text |-> node[n].text, value |-> node[n].value]
    BY <1>1, EntryOf DEF IInv
  <1>6. [Entries[n] EXCEPT !.text = t] = Entry(new)
    BY <1>4, <1>5
  <1>7. Entries' = [Entries EXCEPT ![n].text = t]
    <2>1. Entries' = [Entries EXCEPT ![n] = Entry(new)]
      BY <1>1, NodeEntries DEF IInv
    <2>2. [Entries EXCEPT ![n].text = t] = [Entries EXCEPT ![n] = [Entries[n] EXCEPT !.text = t]]
      OBVIOUS
    <2> QED  BY <1>6, <2>1, <2>2, Zenon
  <1>8. \A b \in Indices : Places(b)' = Places(b) /\ Bucket(b)' = Bucket(b)
    BY <1>1 DEF Places, Bucket
  <1>9. Seen' = Seen
    BY <1>1, <1>8 DEF Seen, Passed
  <1>10. n \in Table!Live
    BY <1>1, LiveNodes DEF IInv
  <1> QED  BY <1>1, <1>7, <1>9, <1>10, Zenon DEF Table!Reuse

LEMMA BeginRefines ==
  ASSUME IInv, Begin
  PROVE  Table!Begin
  <1>1. loop = "none" /\ loop' \in {"traverse", "free"} /\ i' = 0 /\ j' = 0
        /\ UNCHANGED <<buckets, node, call, ret>>
    BY DEF Begin, Idle
  <1>2. Passed' = {}
    <2>1. ASSUME NEW b \in Indices, NEW p \in Places(b)' PROVE ~(b < 0) /\ ~(b = 0 /\ p <= 0)
      <3>1. Bucket(b)' = Bucket(b) /\ p \in DOMAIN Bucket(b)'
        BY <1>1 DEF Bucket, Places
      <3>2. p \in DOMAIN Bucket(b) /\ DOMAIN Bucket(b) = 1 .. Len(Bucket(b))
        BY <3>1, <1>1, IdlePlaces
      <3> QED  BY <3>2
    <2> QED  BY <1>1, <2>1 DEF Passed
  <1>3. Seen = {} /\ Seen' = {}
    BY <1>1, <1>2 DEF Seen
  <1>4. Entries' = Entries
    BY <1>1, SameEntries
  <1> QED  BY <1>1, <1>3, <1>4 DEF Table!Begin

LEMMA VisitRefines ==
  ASSUME IInv, Visit
  PROVE  \E n \in Nodes : Table!Visit(n)
  <1>0. loop # "none" /\ i \in Indices /\ j < Len(Bucket(i)) /\ i' = i /\ j' = j + 1 /\ j \in Nat
        /\ UNCHANGED <<buckets, loop>> /\ loop \in {"traverse", "free"}
    BY BucketsAssumption DEF Visit, IInv, TypeOK
  <1>1. PICK n \in Nodes :
          /\ n = Bucket(i)[j + 1] /\ node[n] # NULL /\ node[n] \in NodeType
          /\ j + 1 \in Places(i) /\ j + 1 \in DOMAIN Bucket(i) /\ Bucket(i) \in Seq(Nodes)
    BY <1>0, VisitedNode
  <1>2. /\ ret' = node[n].value /\ call' = <<>>
        /\ node' = IF loop = "free" THEN [node EXCEPT ![n] = NULL] ELSE node
    BY <1>1 DEF Visit
  <1>3. Entries[n].value = node[n].value /\ n \in Table!Live
    <2>1. Entries[n] = [key |-> node[n].key, text |-> node[n].text, value |-> node[n].value]
      BY <1>1, EntryOf DEF IInv
    <2>2. n \in Table!Live
      BY <1>1, LiveNodes DEF IInv
    <2> QED  BY <2>1, <2>2
  <1>4. CASE loop = "free"
    <2>1. Seen = {} /\ Seen' = {}
      BY <1>0, <1>4 DEF Seen
    <2>2. Entries' = [Entries EXCEPT ![n] = Entry(NULL)]
      BY <1>2, <1>4, NodeEntries DEF IInv
    <2>3. Entry(NULL) = NULL
      BY DEF Entry
    <2> QED  BY <1>0, <1>2, <1>3, <1>4, <2>1, <2>2, <2>3 DEF Table!Visit
  <1>5. CASE loop = "traverse"
    <2>1. Entries' = Entries
      BY <1>2, <1>5, SameEntries
    <2>2. \A b \in Indices : Bucket(b)' = Bucket(b) /\ Places(b)' = Places(b)
      BY <1>0, <1>5 DEF Bucket, Places
    <2>3. n \notin Passed
      <3>1. ASSUME NEW b \in Indices, NEW p \in Places(b), Bucket(b)[p] = n
            PROVE  b = i /\ p = j + 1
        <4>1. node[n].hash % NUM_OF_BUCKETS = b /\ node[n].hash % NUM_OF_BUCKETS = i
          BY <1>0, <1>1, <1>5, <3>1, IdlePlaces
        <4>2. p \in DOMAIN Bucket(b)
          BY <3>1 DEF Places
        <4> QED  BY <1>0, <1>1, <1>5, <3>1, <4>1, <4>2, IdlePlaces
      <3> QED  BY <1>0, <3>1 DEF Passed
    <2>4. ASSUME NEW b \in Indices, NEW p \in Places(b)
          PROVE  (b < i' \/ (b = i' /\ p <= j')) <=> (b < i \/ (b = i /\ p <= j) \/ (b = i /\ p = j + 1))
      <3>1. b \in Nat /\ i \in Nat
        BY <1>0, BucketsAssumption
      <3>2. p \in Nat
        BY BucketType DEF IInv, Places
      <3> QED  BY <1>0, <3>1, <3>2
    <2>5. Passed' = Passed \cup {n}
      <3>1. ASSUME NEW m \in Nodes PROVE m \in Passed' <=> m \in Passed \/ m = n
        <4>1. m \in Passed' <=> \E b \in Indices : \E p \in Places(b) :
                  Bucket(b)[p] = m /\ (b < i' \/ (b = i' /\ p <= j'))
          BY <2>2 DEF Passed
        <4>2. m \in Passed' <=> \E b \in Indices : \E p \in Places(b) :
                  Bucket(b)[p] = m /\ (b < i \/ (b = i /\ p <= j) \/ (b = i /\ p = j + 1))
          BY <4>1, <2>4, Zenon
        <4> QED  BY <4>2, <1>0, <1>1 DEF Passed
      <3> QED  BY <3>1 DEF Passed
    <2>6. Seen = Passed /\ Seen' = Passed'
      BY <1>0, <1>5 DEF Seen
    <2> QED  BY <1>0, <1>2, <1>3, <1>5, <2>1, <2>3, <2>5, <2>6 DEF Table!Visit
  <1> QED  BY <1>0, <1>4, <1>5

LEMMA BucketEndRefines ==
  ASSUME IInv, BucketEnd
  PROVE  UNCHANGED Table!mvars
  <1>0. /\ i \in Indices /\ i \in Nat /\ j \in Nat /\ j >= Len(Bucket(i)) /\ i' = i + 1 /\ j' = 0
        /\ UNCHANGED <<node, loop, call, ret>> /\ loop \in {"traverse", "free"}
        /\ loop # "free" => buckets' = buckets
    BY BucketsAssumption DEF BucketEnd, NextBucket, IInv, TypeOK
  <1>1. Entries' = Entries
    BY <1>0, SameEntries
  <1>2. CASE loop = "free"
    BY <1>0, <1>1, <1>2 DEF Seen, Table!mvars
  <1>3. CASE loop = "traverse"
    <2>1. \A b \in Indices : Bucket(b)' = Bucket(b) /\ Places(b)' = Places(b)
      BY <1>0, <1>3 DEF Bucket, Places
    <2>2. ASSUME NEW b \in Indices, NEW p \in Places(b)
          PROVE  (b < i' \/ (b = i' /\ p <= j')) <=> (b < i \/ (b = i /\ p <= j))
      <3>1. p \in Nat /\ p >= 1 /\ (b = i => p <= j) /\ b \in Nat
        <4>1. p \in DOMAIN Bucket(b) /\ Bucket(b) \in Seq(Nodes)
          BY BucketType DEF IInv, Places
        <4>2. p \in 1 .. Len(Bucket(b)) /\ Len(Bucket(b)) \in Nat
          BY <4>1
        <4> QED  BY <1>0, <4>2, BucketsAssumption
      <3> QED  BY <1>0, <3>1
    <2>3. ASSUME NEW m \in Nodes PROVE m \in Passed' <=> m \in Passed
      <3>1. m \in Passed' <=> \E b \in Indices : \E p \in Places(b) :
                Bucket(b)[p] = m /\ (b < i' \/ (b = i' /\ p <= j'))
        BY <2>1 DEF Passed
      <3>2. m \in Passed' <=> \E b \in Indices : \E p \in Places(b) :
                Bucket(b)[p] = m /\ (b < i \/ (b = i /\ p <= j))
        BY <3>1, <2>2, Zenon
      <3> QED  BY <3>2 DEF Passed
    <2>4. Passed' = Passed
      BY <2>3 DEF Passed
    <2> QED  BY <1>0, <1>1, <1>3, <2>4 DEF Seen, Table!mvars
  <1> QED  BY <1>0, <1>2, <1>3

LEMMA EndRefines ==
  ASSUME IInv, End
  PROVE  Table!End
  <1>0. loop \in {"traverse", "free"} /\ i = NUM_OF_BUCKETS /\ loop' = "none" /\ UNCHANGED <<node, call, ret>>
    BY DEF End, IInv, TypeOK
  <1>1. Entries' = Entries /\ Seen' = {}
    BY <1>0, SameEntries DEF Seen
  <1>2. \A b \in Indices : b < i
    BY <1>0, BucketsAssumption
  <1>3. Seen = Table!Live
    <2>1. CASE loop = "traverse"
      <3>1. ASSUME NEW m \in Nodes PROVE m \in Passed <=> node[m] # NULL
        <4>1. m \in Passed => node[m] # NULL
          BY DEF Passed, IInv, NodesInBuckets
        <4>2. node[m] # NULL => m \in Passed
          BY <1>2, HasPlace DEF Passed
        <4> QED  BY <4>1, <4>2
      <3>2. Passed = {n \in Nodes : node[n] # NULL}
        BY <3>1 DEF Passed
      <3> QED  BY <2>1, <3>2, LiveNodes DEF Seen, IInv
    <2>2. CASE loop = "free"
      <3>1. \A b \in Indices : Places(b) = {}
        BY <1>2, <2>2 DEF IInv, FreedBuckets, Bucket, Places
      <3>2. \A m \in Nodes : node[m] = NULL
        BY <3>1, HasPlace
      <3> QED  BY <2>2, <3>2, LiveNodes DEF Seen, IInv
    <2> QED  BY <1>0, <2>1, <2>2
  <1> QED  BY <1>0, <1>1, <1>3 DEF Table!End

LEMMA NextRefines ==
  ASSUME IInv, HashOfKey, [Next]_vars
  PROVE  [Table!MNext]_(Table!mvars)
  <1>1. CASE UNCHANGED vars
    <2>1. \A b \in Indices : Bucket(b)' = Bucket(b) /\ Places(b)' = Places(b)
      BY <1>1 DEF vars, Bucket, Places
    <2>2. Entries' = Entries /\ Seen' = Seen
      BY <1>1, <2>1, SameEntries DEF vars, Seen, Passed
    <2> QED  BY <1>1, <2>2 DEF vars, Table!mvars
  <1>2. CASE Next
    <2>1. CASE \E k \in Keys : SetFails(k) \/ Miss(k) \/ Get(k) \/ Remove(k)
      BY <2>1, SetFailsRefines, MissRefines, GetRefines, RemoveRefines, Zenon DEF Table!MNext
    <2>2. CASE \E k \in Keys, v \in Values, n \in Nodes : Set(k, v, n)
      BY <2>2, SetRefines, Zenon DEF Table!MNext
    <2>3. CASE \E n \in Nodes, t \in Reused : Reuse(n, t)
      BY <2>3, ReuseRefines, Zenon DEF Table!MNext
    <2>4. CASE Begin \/ Visit \/ BucketEnd \/ End
      BY <2>4, BeginRefines, VisitRefines, BucketEndRefines, EndRefines, Zenon DEF Table!MNext
    <2> QED  BY <1>2, <2>1, <2>2, <2>3, <2>4, Zenon DEF Next
  <1> QED  BY <1>1, <1>2

\* The table is the collection of entries its callers rely on. A get or remove
\* made with a key returns the value of an entry whose key reads the same by then,
\* and NULL only if no entry stored under that key still does, whatever was removed
\* before it; a loop visits every entry once (voy_htable.c).
THEOREM RefinesMultimap == Spec => IsMultimap
  <1>1. Init => Table!MInit
    BY EntryOf, InitIInv DEF Init, IInv, Table!MInit, Seen, Entries, Entry
  <1>2. IInv /\ HashOfKey /\ [Next]_vars => [Table!MNext]_(Table!mvars)
    BY NextRefines
  <1> QED  BY <1>1, <1>2, AlwaysIInv, AlwaysHashOfKey, PTL DEF Spec, IsMultimap, Table!MSpec
===============================================================================
