---------------------------- MODULE VoyServerProofs ----------------------------
(***************************************************************************)
(* Proofs about VoyServer, for any number of connections, descriptors and  *)
(* restarts: type correctness, the discipline that governs descriptors,    *)
(* that no child's end is lost, and that voy implements ConnService.       *)
(***************************************************************************)
EXTENDS VoyServer, TLAPS

USE NoConnAssumption

\* conn_fd is a descriptor from accept() until the parent's close().
TypeInv == TypeOK /\ (ppc \in {"fork", "close"} => cur # NoConn)

LEMMA TypeInit == Init => TypeInv
<1> SUFFICES ASSUME Init PROVE TypeInv
  OBVIOUS
<1>1. starts \in 0..MaxStarts
  BY BoundsAssumption DEF Init
<1> QED
  BY <1>1 DEF Init, TypeInv, TypeOK

LEMMA TypeStep == TypeInv /\ [Next]_vars => TypeInv'
<1> SUFFICES ASSUME TypeInv, [Next]_vars PROVE TypeInv'
  OBVIOUS
<1> USE DEF TypeInv, TypeOK
<1>1. CASE Start
  BY <1>1, BoundsAssumption DEF Start, childVars
<1>2. CASE Bind
  BY <1>2 DEF Bind, Main, childVars
<1>3. CASE ParentEnds
  BY <1>3 DEF ParentEnds, Backlog
<1>4. ASSUME NEW c \in Conns, Accept(c) PROVE TypeInv'
  BY <1>4 DEF Accept, Main, childVars
<1>5. CASE Fork
  BY <1>5 DEF Fork, Main
<1>6. CASE ForkFails
  BY <1>6 DEF ForkFails, Main, childVars
<1>7. CASE ParentClose
  BY <1>7 DEF ParentClose, Main, childVars
<1>8. CASE HandleHup
  BY <1>8 DEF HandleHup, childVars
<1>9. CASE HandleChld
  BY <1>9 DEF HandleChld, childVars
<1>10. CASE ReapDone
  BY <1>10 DEF ReapDone, childVars
<1>11. ASSUME NEW c \in Conns, Reap(c) PROVE TypeInv'
  BY <1>11 DEF Reap
<1>12. ASSUME NEW c \in Conns, ChildCloseListener(c) PROVE TypeInv'
  BY <1>12 DEF ChildCloseListener, Backlog, parentVars
<1>13. ASSUME NEW c \in Conns, ChildCloseConn(c) PROVE TypeInv'
  BY <1>13 DEF ChildCloseConn, parentVars
<1>14. ASSUME NEW c \in Conns, ChildExit(c) PROVE TypeInv'
  BY <1>14 DEF ChildExit, Backlog, Signals
<1>15. ASSUME NEW s \in Signals, Signal(s) PROVE TypeInv'
  BY <1>15 DEF Signal, Signals, childVars
<1>16. ASSUME NEW c \in Conns, Connect(c) \/ AcceptFails(c) PROVE TypeInv'
  BY <1>16 DEF Connect, AcceptFails, Main, parentVars, childVars
<1>17. CASE UNCHANGED vars
  BY <1>17 DEF vars
<1> QED
  BY <1>1, <1>2, <1>3, <1>4, <1>5, <1>6, <1>7, <1>8, <1>9, <1>10, <1>11,
     <1>12, <1>13, <1>14, <1>15, <1>16, <1>17
     DEF Next, MainStep, HandlerStep, ChildStep, Environment, BindFails, HandleTerm

\* VoyServer is type correct.
THEOREM TypeCorrect == Spec => []TypeOK
<1>1. TypeInv => TypeOK
  BY DEF TypeInv
<1> QED
  BY <1>1, TypeInit, TypeStep, PTL DEF Spec

-------------------------------------------------------------------------------
\* conn_fd is live exactly between accept() and the close() of the parent, and
\* until the fork the parent is the only process that has the connection.
CurInv ==
  /\ ppc \in {"fork", "close"} <=> cur # NoConn
  /\ ppc = "fork" => cur \in pfds /\ child[cur] = "none" /\ \A d \in Conns : cur \notin fds[d]
  /\ ppc = "close" => child[cur] # "none"

\* The parent has only accepted connections, and of those with a child only
\* the one it is about to close.
ParentFds ==
  \A c \in pfds : conn[c] = "accepted" /\ (child[c] # "none" => ppc = "close" /\ cur = c)

\* What a running child has: its own connection until it closes it, and
\* leaked connections, for which there is no child and never will be.
ChildFds ==
  \A c, d \in Conns : d \in fds[c] =>
    /\ conn[d] = "accepted"
    /\ child[c] \in {"forked", "serving", "closed"}
    /\ IF c = d THEN child[c] # "closed" ELSE child[d] = "none"

\* A child is forked for an accepted connection.
ChildHasConn == \A c \in Conns : child[c] # "none" => conn[c] = "accepted"

\* The listener is held by the server and by children yet to close it.
ListenerInv == \A c \in lfd : child[c] = "forked"

\* Inv is inductive: ReleasedWhenServed alone does not say why a later child
\* cannot inherit a descriptor that an earlier one has closed.
Inv == TypeOK /\ CurInv /\ ParentFds /\ ChildFds /\ ChildHasConn /\ ListenerInv

LEMMA InvInit == Init => Inv
BY TypeInit DEF Init, Inv, TypeInv, CurInv, ParentFds, ChildFds, ChildHasConn, ListenerInv

LEMMA InvStep == Inv /\ [Next]_vars => Inv'
<1> SUFFICES ASSUME Inv, [Next]_vars PROVE Inv'
  OBVIOUS
<1> DEFINE FdInv == CurInv /\ ParentFds /\ ChildFds /\ ChildHasConn /\ ListenerInv
<1>0. TypeOK'
  BY TypeStep DEF Inv, CurInv, TypeInv
<1> SUFFICES FdInv'
  BY <1>0 DEF Inv
<1> USE DEF Inv, TypeOK, CurInv, ParentFds, ChildFds, ChildHasConn, ListenerInv
<1>1. CASE Start
  BY <1>1 DEF Start, childVars
<1>2. CASE Bind
  BY <1>2 DEF Bind, Main, childVars
<1>3. CASE ParentEnds
  BY <1>3 DEF ParentEnds, Backlog
<1>4. ASSUME NEW c \in Conns, Accept(c) PROVE FdInv'
  BY <1>4 DEF Accept, Main, childVars
<1>5. CASE Fork
  BY <1>5 DEF Fork, Main
<1>6. CASE ForkFails
  BY <1>6 DEF ForkFails, Main, childVars
<1>7. CASE ParentClose
  BY <1>7 DEF ParentClose, Main, childVars
<1>8. CASE HandleHup \/ HandleChld \/ ReapDone
  BY <1>8 DEF HandleHup, HandleChld, ReapDone, childVars
<1>9. ASSUME NEW c \in Conns, Reap(c) PROVE FdInv'
  BY <1>9 DEF Reap
<1>10. ASSUME NEW c \in Conns, ChildCloseListener(c) PROVE FdInv'
  BY <1>10 DEF ChildCloseListener, Backlog, parentVars
<1>11. ASSUME NEW c \in Conns, ChildCloseConn(c) PROVE FdInv'
  BY <1>11 DEF ChildCloseConn, parentVars
<1>12. ASSUME NEW c \in Conns, ChildExit(c) PROVE FdInv'
  BY <1>12 DEF ChildExit, Backlog
<1>13. ASSUME NEW s \in Signals, Signal(s) PROVE FdInv'
  BY <1>13 DEF Signal, childVars
<1>14. ASSUME NEW c \in Conns, Connect(c) \/ AcceptFails(c) PROVE FdInv'
  BY <1>14 DEF Connect, AcceptFails, Main, parentVars, childVars
<1>15. CASE UNCHANGED vars
  BY <1>15 DEF vars
<1> QED
  BY <1>1, <1>2, <1>3, <1>4, <1>5, <1>6, <1>7, <1>8, <1>9, <1>10, <1>11,
     <1>12, <1>13, <1>14, <1>15
     DEF Next, MainStep, HandlerStep, ChildStep, Environment, BindFails, HandleTerm

LEMMA InvHolds == Spec => []Inv
BY InvInit, InvStep, PTL DEF Spec

-------------------------------------------------------------------------------
\* Once its child has closed a connection and the parent is past its own
\* close(), no process holds it, however many children are forked later.
THEOREM Released == Spec => []ReleasedWhenServed
<1>1. Inv => ReleasedWhenServed
  BY DEF Inv, TypeOK, ParentFds, ChildFds, ReleasedWhenServed, Held
<1> QED
  BY <1>1, InvHolds, PTL

\* A child never has a descriptor of a connection another child serves.
THEOREM Isolated == Spec => []WorkersAreIsolated
<1>1. Inv => WorkersAreIsolated
  BY DEF Inv, ChildFds, WorkersAreIsolated
<1> QED
  BY <1>1, InvHolds, PTL

\* SIGCHLD or the handler's loop covers every child that has ended, although
\* signals coalesce and the handler can be interrupted.
THEOREM NoChildLost == Spec => []NoLostChild
<1>1. Init => NoLostChild
  BY DEF Init, NoLostChild
<1>2. TypeInv /\ NoLostChild /\ [Next]_vars => NoLostChild'
  <2> SUFFICES ASSUME TypeInv, NoLostChild, [Next]_vars PROVE NoLostChild'
    OBVIOUS
  <2> USE DEF NoLostChild, TypeInv, TypeOK
  <2>1. ASSUME UNCHANGED <<mine, child, pending, reaping>> PROVE NoLostChild'
    BY <2>1
  <2>2. CASE ParentEnds
    BY <2>2 DEF ParentEnds
  <2>3. CASE Fork
    BY <2>3 DEF Fork, Main
  <2>4. CASE HandleHup \/ HandleChld \/ ReapDone
    BY <2>4 DEF HandleHup, HandleChld, ReapDone, childVars
  <2>5. ASSUME NEW c \in Conns, Reap(c) PROVE NoLostChild'
    BY <2>5 DEF Reap
  <2>6. ASSUME NEW c \in Conns, ChildStep(c) PROVE NoLostChild'
    BY <2>6 DEF ChildStep, ChildCloseListener, ChildCloseConn, ChildExit, parentVars
  <2>7. ASSUME NEW s \in Signals, Signal(s) PROVE NoLostChild'
    BY <2>7 DEF Signal, childVars
  <2> QED
    BY <2>1, <2>2, <2>3, <2>4, <2>5, <2>6, <2>7
       DEF Next, MainStep, HandlerStep, Environment, BindFails, HandleTerm, Start, Bind,
           Accept, ForkFails, ParentClose, Connect, AcceptFails, parentVars, childVars, vars
<1>3. Spec => []TypeInv
  BY TypeInit, TypeStep, PTL DEF Spec
<1> QED
  BY <1>1, <1>2, <1>3, PTL DEF Spec

-------------------------------------------------------------------------------
\* Steps that only let descriptors and backlog entries go are Release steps.
LEMMA Releasing ==
  ASSUME Attended' = Attended,
         \A c \in Conns : PhaseOf(c)' = PhaseOf(c)
                          \/ (PhaseOf(c) \in {"waiting", "held"} /\ PhaseOf(c)' = "released")
  PROVE  [Service!ANext]_(Service!avars)
<1> DEFINE S == {c \in Conns : PhaseOf(c)' # PhaseOf(c)}
<1> DEFINE ph == [c \in Conns |-> PhaseOf(c)]
<1>1. CASE S = {}
  <2>1. ph' = ph
    BY <1>1
  <2> QED
    BY <2>1 DEF Service!avars
<1>2. CASE S # {}
  <2>1. \A c \in S : ph[c] \in {"waiting", "held"}
    OBVIOUS
  <2>2. ph' = [c \in Conns |-> IF c \in S THEN "released" ELSE ph[c]]
    OBVIOUS
  <2>3. Service!Release(S)
    BY <1>2, <2>1, <2>2 DEF Service!Release
  <2> QED
    BY <2>3 DEF Service!ANext
<1> QED
  BY <1>1, <1>2

\* voy implements ConnService, for any number of connections.
THEOREM ImplementsService == Spec => ServiceSpec
<1>1. Init => Service!AInit
  BY DEF Init, Service!AInit, PhaseOf, Attended
<1>2. Inv /\ Inv' /\ [Next]_vars => [Service!ANext]_(Service!avars)
  <2> SUFFICES ASSUME Inv, Inv', [Next]_vars PROVE [Service!ANext]_(Service!avars)
    OBVIOUS
  <2> DEFINE ph == [c \in Conns |-> PhaseOf(c)]
  <2> USE DEF Inv, TypeOK
  <2>1. ASSUME UNCHANGED <<conn, child, pfds, fds>>
        PROVE  [Service!ANext]_(Service!avars)
    BY <2>1, Releasing DEF PhaseOf, Held, Attended
  <2>2. CASE ParentEnds
    BY <2>2, Releasing DEF ParentEnds, Backlog, PhaseOf, Held, Attended
  <2>3. ASSUME NEW c \in Conns, Accept(c) PROVE [Service!ANext]_(Service!avars)
    <3>1. PhaseOf(c) = "waiting" /\ ph' = [ph EXCEPT ![c] = "held"]
      BY <2>3 DEF Accept, PhaseOf, Held, childVars
    <3>2. Attended' = Attended
      BY <2>3 DEF Accept, childVars, Attended
    <3> QED
      BY <3>1, <3>2 DEF Service!ANext, Service!Take
  <2>4. CASE Fork
    <3>1. cur \in Conns /\ PhaseOf(cur) = "held" /\ cur \notin Attended
      BY <2>4 DEF Fork, Main, PhaseOf, Held, Attended, CurInv, ParentFds
    <3>2. ph' = ph
      BY <2>4, <3>1 DEF Fork, Main, PhaseOf, Held, CurInv, ChildFds
    <3>3. Attended' = Attended \cup {cur}
      BY <2>4, <3>1 DEF Fork, Attended
    <3> QED
      BY <3>1, <3>2, <3>3 DEF Service!ANext, Service!Attend
  <2>5. CASE ParentClose
    BY <2>5, Releasing DEF ParentClose, childVars, PhaseOf, Held, Attended
  <2>6. ASSUME NEW c \in Conns, Reap(c) PROVE [Service!ANext]_(Service!avars)
    BY <2>6, Releasing DEF Reap, PhaseOf, Held, Attended
  <2>7. ASSUME NEW c \in Conns, ChildCloseListener(c)
        PROVE  [Service!ANext]_(Service!avars)
    BY <2>7, Releasing DEF ChildCloseListener, Backlog, parentVars, PhaseOf, Held, Attended
  <2>8. ASSUME NEW c \in Conns, ChildCloseConn(c) PROVE [Service!ANext]_(Service!avars)
    BY <2>8, Releasing DEF ChildCloseConn, parentVars, PhaseOf, Held, Attended
  <2>9. ASSUME NEW c \in Conns, ChildExit(c) PROVE [Service!ANext]_(Service!avars)
    BY <2>9, Releasing DEF ChildExit, Backlog, PhaseOf, Held, Attended
  <2>10. ASSUME NEW c \in Conns, Connect(c) PROVE [Service!ANext]_(Service!avars)
    <3>1. PhaseOf(c) = "idle" /\ ph' = [ph EXCEPT ![c] = "waiting"]
      BY <2>10 DEF Connect, parentVars, childVars, PhaseOf, Held
    <3>2. Attended' = Attended
      BY <2>10 DEF Connect, childVars, Attended
    <3> QED
      BY <3>1, <3>2 DEF Service!ANext, Service!Arrive
  <2>11. ASSUME NEW c \in Conns, AcceptFails(c) PROVE [Service!ANext]_(Service!avars)
    BY <2>11, Releasing DEF AcceptFails, parentVars, childVars, PhaseOf, Held, Attended
  <2> QED
    BY <2>1, <2>2, <2>3, <2>4, <2>5, <2>6, <2>7, <2>8, <2>9, <2>10, <2>11
       DEF Next, MainStep, HandlerStep, ChildStep, Environment, BindFails, HandleTerm,
           Start, Bind, ForkFails, HandleHup, HandleChld, ReapDone, Signal, childVars, vars
<1> QED
  BY <1>1, <1>2, InvHolds, PTL DEF Spec, ServiceSpec, Service!ASpec
===============================================================================
