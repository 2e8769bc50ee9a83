------------------------------ MODULE ConnService ------------------------------
(***************************************************************************)
(* What a client may expect of voy, whatever processes serve it: its       *)
(* connection waits in the listen backlog, is taken by the server at most  *)
(* once, is attended by at most one worker process, and when the last      *)
(* descriptor is gone it is gone for good: no process of the server, of    *)
(* this incarnation or of a later one, ever holds the connection again.    *)
(***************************************************************************)
CONSTANT Conns

VARIABLES
  phase,      \* where the connection is
  attended    \* the connections some worker process was created for

avars == <<phase, attended>>

Phases == {"idle", "waiting", "held", "released"}

ATypeOK ==
  /\ phase \in [Conns -> Phases]
  /\ attended \subseteq Conns

AInit ==
  /\ phase = [c \in Conns |-> "idle"]
  /\ attended = {}

\* The client connects.
Arrive(c) ==
  /\ phase[c] = "idle"
  /\ phase' = [phase EXCEPT ![c] = "waiting"]
  /\ UNCHANGED attended

\* The server takes the connection out of the backlog.
Take(c) ==
  /\ phase[c] = "waiting"
  /\ phase' = [phase EXCEPT ![c] = "held"]
  /\ UNCHANGED attended

\* A worker is created for a connection the server holds, once.
Attend(c) ==
  /\ phase[c] = "held"
  /\ c \notin attended
  /\ attended' = attended \cup {c}
  /\ UNCHANGED phase

\* A process that ends can be the last holder of several connections, and with
\* the last listener the whole backlog is reset.
Release(S) ==
  /\ S # {}
  /\ \A c \in S : phase[c] \in {"waiting", "held"}
  /\ phase' = [c \in Conns |-> IF c \in S THEN "released" ELSE phase[c]]
  /\ UNCHANGED attended

ANext ==
  \/ \E c \in Conns : Arrive(c) \/ Take(c) \/ Attend(c)
  \/ \E S \in SUBSET Conns : Release(S)

ASpec == AInit /\ [][ANext]_avars
===============================================================================
