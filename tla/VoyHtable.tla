------------------------------- MODULE VoyHtable -------------------------------
(***************************************************************************)
(* voy_htable.c: the table of the request's and of the response's headers. *)
(* A bucket is an array that callers of voy_array.c keep dense, and stands *)
(* here for the list of its nodes, which is what VoyArrayProofs shows of   *)
(* such an array. A node is the address malloc() returned.                 *)
(*                                                                         *)
(* The two loops over all nodes, voy_htable_traverse (and the loop of      *)
(* VOY_HTABLE_FOREACH) and voy_htable_free, are steps of one node each. A  *)
(* table that was freed is followed by a new one. No callback calls back.  *)
(***************************************************************************)
EXTENDS Integers, Sequences

CONSTANTS
  Nodes,            \* addresses of nodes, a bound on how many there are
  Keys, Values,     \* what callers store
  Hash,             \* voy_htable_fnv1a_hash
  NUM_OF_BUCKETS,
  NULL,
  Reused            \* what a key's memory may read once its owner has freed it

ASSUME NullAssumption == NULL \notin Seq(Nodes)
ASSUME NodeAssumption ==
  NULL \notin [key : Keys, text : Keys \cup Reused, value : Values, hash : Nat]
ASSUME EntryAssumption ==
  NULL \notin [key : Keys, text : Keys \cup Reused, value : Values]
ASSUME HashAssumption == Hash \in [Keys -> Nat]
ASSUME BucketsAssumption == NUM_OF_BUCKETS \in Nat \ {0}

VARIABLES
  buckets,    \* htable->buckets
  node,       \* node[n] is what is at address n, NULL if it is not allocated
  loop,       \* the loop that runs
  i, j,       \* its indices, i of a bucket and j in it
  call,       \* the last call of set, get or remove, and the key it was made with;
              \* <<>> if a callback or a reuse of a key's memory came after it
  ret         \* what that call returned, or the callback was called with

vars == <<buckets, node, loop, i, j, call, ret>>

Indices == 0 .. NUM_OF_BUCKETS - 1

\* text is what is now at node->key, key what was there when it was stored.
NodeType == [key : Keys, text : Keys \cup Reused, value : Values, hash : Nat]

Calls == ({"set", "get", "remove"} \X Keys) \cup {<<>>}

TypeOK ==
  /\ buckets \in [Indices -> Seq(Nodes) \cup {NULL}]
  /\ node \in [Nodes -> NodeType \cup {NULL}]
  /\ loop \in {"none", "traverse", "free"}
  /\ i \in 0 .. NUM_OF_BUCKETS
  /\ j \in Nat
  /\ call \in Calls
  /\ ret \in Values \cup {NULL}

\* voy_htable_new: an array of NULLs with its len set to its capacity.
Init ==
  /\ buckets = [b \in Indices |-> NULL]
  /\ node = [n \in Nodes |-> NULL]
  /\ loop = "none"
  /\ i = 0 /\ j = 0
  /\ call = <<>> /\ ret = NULL

-------------------------------------------------------------------------------
\* voy_htable_find_bucket
Index(k) == Hash[k] % NUM_OF_BUCKETS

\* The nodes of a bucket; one that is not there has none.
Bucket(b) == IF buckets[b] = NULL THEN <<>> ELSE buckets[b]

\* Mutant of Fits: two keys of one hash are taken for the same.
FitsHash(n, k) == node[n].hash = Hash[k]

\* The test of both searches: the hash first, then the text of the key.
Fits(n, k) == node[n].hash = Hash[k] /\ node[n].text = k

\* The place p is where the search for k stops.
FoundAt(k, p) ==
  LET bucket == Bucket(Index(k))
  IN  /\ p \in DOMAIN bucket /\ Fits(bucket[p], k)
      /\ \A q \in 1 .. p - 1 : ~Fits(bucket[q], k)

NotFound(k) == \A p \in DOMAIN Bucket(Index(k)) : ~Fits(Bucket(Index(k))[p], k)

Idle == loop = "none"

\* voy_htable_set adds a node and does not look for another one with that key.
Set(k, v, n) ==
  /\ Idle /\ node[n] = NULL
  /\ node' = [node EXCEPT ![n] = [key |-> k, text |-> k, value |-> v, hash |-> Hash[k]]]
  /\ buckets' = [buckets EXCEPT ![Index(k)] = Append(Bucket(Index(k)), n)]
  /\ call' = <<"set", k>> /\ ret' = NULL
  /\ UNCHANGED <<loop, i, j>>

\* There is no memory for the bucket, or none for the node.
SetFails(k) ==
  /\ Idle
  /\ buckets' \in {buckets, [buckets EXCEPT ![Index(k)] = Bucket(Index(k))]}
  /\ call' = <<"set", k>> /\ ret' = NULL
  /\ UNCHANGED <<node, loop, i, j>>

\* Neither search finds anything.
Miss(k) ==
  /\ Idle /\ NotFound(k)
  /\ call' \in {<<"get", k>>, <<"remove", k>>} /\ ret' = NULL
  /\ UNCHANGED <<buckets, node, loop, i, j>>

Get(k) ==
  /\ Idle
  /\ call' = <<"get", k>>
  /\ \E p \in DOMAIN Bucket(Index(k)) : FoundAt(k, p) /\ ret' = node[Bucket(Index(k))[p]].value
  /\ UNCHANGED <<buckets, node, loop, i, j>>

\* Mutant of Without: the last node is popped and not put anywhere.
WithoutLast(s, p) == SubSeq(s, 1, Len(s) - 1)

\* Mutant of Without: the place of the node removed is cleared, not refilled.
WithoutHole(s, p) == [q \in 1 .. Len(s) - 1 |-> IF q = p THEN NULL ELSE s[q]]

\* The last node of s is popped, and takes the place p of the one removed.
Without(s, p) == [q \in 1 .. Len(s) - 1 |-> IF q = p THEN s[Len(s)] ELSE s[q]]

Remove(k) ==
  /\ Idle
  /\ call' = <<"remove", k>>
  /\ \E p \in DOMAIN Bucket(Index(k)) :
       LET n == Bucket(Index(k))[p]
       IN  /\ FoundAt(k, p)
           /\ ret' = node[n].value
           /\ buckets' = [buckets EXCEPT ![Index(k)] = Without(@, p)]
           /\ node' = [node EXCEPT ![n] = NULL]
  /\ UNCHANGED <<loop, i, j>>

\* The owner of a key frees it, and what is there may be another text by now.
Reuse(n, t) ==
  /\ node[n] # NULL
  /\ node' = [node EXCEPT ![n].text = t]
  /\ call' = <<>>
  /\ UNCHANGED <<buckets, loop, i, j, ret>>

-------------------------------------------------------------------------------
Begin ==
  /\ Idle /\ loop' \in {"traverse", "free"}
  /\ i' = 0 /\ j' = 0
  /\ UNCHANGED <<buckets, node, call, ret>>

NextBucket == i' = i + 1 /\ j' = 0

\* The callback gets the next node of bucket i; voy_htable_free frees it then.
Visit ==
  /\ loop # "none" /\ i < NUM_OF_BUCKETS /\ j < Len(Bucket(i))
  /\ LET n == Bucket(i)[j + 1]
     IN  /\ ret' = node[n].value
         /\ node' = IF loop = "free" THEN [node EXCEPT ![n] = NULL] ELSE node
  /\ j' = j + 1
  /\ call' = <<>>
  /\ UNCHANGED <<buckets, loop, i>>

\* The bucket is done; voy_htable_free frees its array.
BucketEnd ==
  /\ loop # "none" /\ i < NUM_OF_BUCKETS /\ j >= Len(Bucket(i))
  /\ NextBucket
  /\ buckets' = IF loop = "free" THEN [buckets EXCEPT ![i] = NULL] ELSE buckets
  /\ UNCHANGED <<node, loop, call, ret>>

End ==
  /\ loop # "none" /\ i = NUM_OF_BUCKETS
  /\ loop' = "none"
  /\ UNCHANGED <<buckets, node, i, j, call, ret>>

Next ==
  \/ \E k \in Keys : SetFails(k) \/ Miss(k) \/ Get(k) \/ Remove(k)
  \/ \E k \in Keys, v \in Values, n \in Nodes : Set(k, v, n)
  \/ \E n \in Nodes, t \in Reused : Reuse(n, t)
  \/ Begin \/ Visit \/ BucketEnd \/ End

Spec == Init /\ [][Next]_vars

-------------------------------------------------------------------------------
\* The places of bucket b that hold nodes: voy_htable_free has freed those of
\* the bucket it is at up to j.
Places(b) == {p \in DOMAIN Bucket(b) : ~(loop = "free" /\ b = i /\ p <= j)}

\* Every node that is allocated is in one place of one bucket, the one its hash
\* tells, and no bucket has one that was freed: no search and no loop reads
\* freed memory, and none misses a node, whatever voy_htable_remove moved and
\* whatever allocation failed.
NodesInBuckets ==
  /\ \A b \in Indices : \A p \in Places(b) :
       LET n == Bucket(b)[p]
       IN  /\ node[n] # NULL /\ node[n].hash % NUM_OF_BUCKETS = b
           /\ \A q \in Places(b) : Bucket(b)[q] = n => q = p
  /\ \A n \in Nodes : node[n] # NULL => \E b \in Indices : \E p \in Places(b) : Bucket(b)[p] = n

\* The nodes the traversal has passed.
Passed ==
  {n \in Nodes : \E b \in Indices : \E p \in Places(b) :
     Bucket(b)[p] = n /\ (b < i \/ (b = i /\ p <= j))}

Entry(x) == IF x = NULL THEN NULL ELSE [key |-> x.key, text |-> x.text, value |-> x.value]

Entries == [n \in Nodes |-> Entry(node[n])]

Seen == IF loop = "traverse" THEN Passed ELSE {}

Table == INSTANCE MultimapSpec WITH Ids <- Nodes, entries <- Entries, seen <- Seen

\* The table is the collection of entries its callers think it is. A call of get or
\* remove with a key returns the value of one of the entries whose key reads the
\* same by then, and NULL only if none of the entries stored under that key still
\* does; a set leaves all other entries; both loops visit each entry once.
IsMultimap == Table!MSpec
===============================================================================
