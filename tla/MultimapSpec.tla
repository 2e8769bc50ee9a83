----------------------------- MODULE MultimapSpec -----------------------------
(***************************************************************************)
(* What a caller of voy_htable.c can rely on: a collection of entries, one *)
(* for each call of set, that are found and taken by their key and visited *)
(* once each. It keeps several values of one key and does not say which of *)
(* them a lookup finds. A table keeps a pointer to the key of an entry; its*)
(* owner may free it and the memory may come to hold another text.         *)
(***************************************************************************)
CONSTANTS Ids, Keys, Values, NULL, Reused

VARIABLES
  entries,   \* entries[n], an entry, or NULL
  loop,      \* "none", or the loop over all entries that runs
  seen,      \* entries a traversal has visited
  call,      \* the last call and its key; <<>> after a visit or a reuse
  ret        \* what that call returned, or the entry visited

mvars == <<entries, loop, seen, call, ret>>

MInit ==
  /\ entries = [n \in Ids |-> NULL]
  /\ loop = "none"
  /\ seen = {}
  /\ call = <<>> /\ ret = NULL

Live == {n \in Ids : entries[n] # NULL}

\* The entries a lookup of k may find: the key reads k. It has to find one if
\* there is one that was stored under k and still reads so.
Reading(k) == {n \in Live : entries[n].text = k}
Stored(k)  == {n \in Reading(k) : entries[n].key = k}

Set(k, v) ==
  /\ loop = "none"
  /\ \E n \in Ids \ Live : entries' = [entries EXCEPT ![n] = [key |-> k, text |-> k, value |-> v]]
  /\ call' = <<"set", k>> /\ ret' = NULL
  /\ UNCHANGED <<loop, seen>>

\* A set that gets no memory stores nothing, and does not say so.
SetFails(k) ==
  /\ loop = "none"
  /\ call' = <<"set", k>> /\ ret' = NULL
  /\ UNCHANGED <<entries, loop, seen>>

Miss(k) == Stored(k) = {} /\ ret' = NULL /\ UNCHANGED entries

Get(k) ==
  /\ loop = "none"
  /\ call' = <<"get", k>>
  /\ \/ Miss(k)
     \/ \E n \in Reading(k) : ret' = entries[n].value /\ UNCHANGED entries
  /\ UNCHANGED <<loop, seen>>

Remove(k) ==
  /\ loop = "none"
  /\ call' = <<"remove", k>>
  /\ \/ Miss(k)
     \/ \E n \in Reading(k) : ret' = entries[n].value /\ entries' = [entries EXCEPT ![n] = NULL]
  /\ UNCHANGED <<loop, seen>>

Reuse(n, t) ==
  /\ n \in Live
  /\ entries' = [entries EXCEPT ![n].text = t]
  /\ call' = <<>>
  /\ UNCHANGED <<loop, seen, ret>>

Begin ==
  /\ loop = "none" /\ loop' \in {"traverse", "free"}
  /\ UNCHANGED <<entries, seen, call, ret>>

Visit(n) ==
  /\ loop # "none" /\ n \in Live \ seen
  /\ call' = <<>> /\ ret' = entries[n].value
  /\ IF loop = "free" THEN entries' = [entries EXCEPT ![n] = NULL] /\ UNCHANGED seen
     ELSE seen' = seen \cup {n} /\ UNCHANGED entries
  /\ UNCHANGED loop

\* A loop ends when it has visited every entry.
End ==
  /\ loop # "none" /\ seen = Live
  /\ loop' = "none" /\ seen' = {}
  /\ UNCHANGED <<entries, call, ret>>

MNext ==
  \/ \E k \in Keys : Get(k) \/ Remove(k) \/ SetFails(k) \/ \E v \in Values : Set(k, v)
  \/ \E n \in Ids : Visit(n) \/ \E t \in Reused : Reuse(n, t)
  \/ Begin \/ End

MSpec == MInit /\ [][MNext]_mvars
===============================================================================
