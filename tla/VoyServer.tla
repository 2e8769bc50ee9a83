------------------------------- MODULE VoyServer -------------------------------
(***************************************************************************)
(* The process structure of voy: the accept loop of serve_on_port, the one *)
(* child process it forks per connection, the signal handlers of voy.c,    *)
(* and the kernel objects they share (the listening socket, the accepted   *)
(* connections and the descriptors by which each process holds them).      *)
(*                                                                         *)
(* A connection is named by a member of Conns and so is the child forked   *)
(* for it: the code forks exactly once per successful accept().            *)
(***************************************************************************)
EXTENDS Naturals, FiniteSets

CONSTANTS
  Conns,      \* the connections clients may open
  NoConn,     \* conn_fd holds no connection
  MaxFds,     \* connection descriptors the parent may have open (RLIMIT_NOFILE)
  MaxStarts   \* bound: how often the server is started

ASSUME NoConnAssumption == NoConn \notin Conns
ASSUME BoundsAssumption == MaxFds \in Nat \ {0} /\ MaxStarts \in Nat

VARIABLES
  ppc,        \* where the server (parent) process is in serve_on_port
  cur,        \* conn_fd of the parent's current loop iteration
  pfds,       \* connections the parent has a descriptor of
  pending,    \* signals sent to the parent and not yet delivered
  reaping,    \* the SIGCHLD handler is in its waitpid() loop
  mine,       \* children of the running parent it has not waited for
  starts,     \* number of times the server was started
  conn,       \* the kernel's view of each connection
  child,      \* the process forked for each connection
  fds,        \* connections that child has a descriptor of
  lfd         \* children that still hold the listening socket

parentVars == <<ppc, cur, pfds, pending, reaping, mine, starts>>
childVars  == <<child, fds, lfd>>
vars == <<ppc, cur, pfds, pending, reaping, mine, starts, conn, child, fds, lfd>>

Signals == {"CHLD", "TERM", "HUP"}

TypeOK ==
  /\ ppc \in {"stopped", "bind", "accept", "fork", "close"}
  /\ cur \in Conns \cup {NoConn}
  /\ pfds \subseteq Conns
  /\ pending \subseteq Signals
  /\ reaping \in BOOLEAN
  /\ mine \subseteq Conns
  /\ starts \in 0..MaxStarts
  /\ conn \in [Conns -> {"idle", "queued", "accepted", "refused"}]
  /\ child \in [Conns -> {"none", "forked", "serving", "closed", "zombie", "reaped"}]
  /\ fds \in [Conns -> SUBSET Conns]
  /\ lfd \subseteq Conns

Init ==
  /\ ppc = "stopped"
  /\ cur = NoConn
  /\ pfds = {}
  /\ pending = {}
  /\ reaping = FALSE
  /\ mine = {}
  /\ starts = 0
  /\ conn = [c \in Conns |-> "idle"]
  /\ child = [c \in Conns |-> "none"]
  /\ fds = [c \in Conns |-> {}]
  /\ lfd = {}

-------------------------------------------------------------------------------
\* The parent has a listening socket: bind and listen have succeeded.
Listening == ppc \in {"accept", "fork", "close"}

\* The processes that hold a descriptor of connection c.
Held(c) == c \in pfds \/ \E d \in Conns : c \in fds[d]

\* The kernel resets the backlog when the last descriptor of the listener goes.
Backlog(open) ==
  IF open THEN conn
  ELSE [c \in Conns |-> IF conn[c] = "queued" THEN "refused" ELSE conn[c]]

\* The main thread of the parent runs only while no handler has interrupted it.
Main(pc) == ppc = pc /\ ~reaping

\* The parent process ends: its descriptors close, init inherits its children
\* and waits for those that have ended.
ParentEnds ==
  /\ ppc' = "stopped"
  /\ cur' = NoConn
  /\ pfds' = {}
  /\ pending' = {}
  /\ reaping' = FALSE
  /\ mine' = {}
  /\ conn' = Backlog(lfd # {})
  /\ child' = [c \in Conns |-> IF child[c] = "zombie" THEN "reaped" ELSE child[c]]
  /\ UNCHANGED <<starts, fds, lfd>>

-------------------------------------------------------------------------------
\* The parent: main, voy_server_start, serve_on_port.

Start ==
  /\ ppc = "stopped"
  /\ starts < MaxStarts
  /\ starts' = starts + 1
  /\ ppc' = "bind"
  /\ UNCHANGED <<cur, pfds, pending, reaping, mine, conn, childVars>>

\* Mutant of AddressFree: without SO_REUSEADDR, connections of an earlier run of
\* the server that are still served keep the address in use.
AddressFreeWithoutReuse ==
  lfd = {} /\ \A c \in Conns : ~Held(c)

\* With SO_REUSEADDR set, bind() is refused only by a socket that listens on
\* the port, never by the connections that were accepted from one.
AddressFree == lfd = {}

Bind ==
  /\ Main("bind")
  /\ AddressFree
  /\ ppc' = "accept"
  /\ UNCHANGED <<cur, pfds, pending, reaping, mine, starts, conn, childVars>>

\* socket(), setsockopt(), bind() or listen() fails: main exits. It is what
\* happens when the address is not free; other resources can fail too.
BindFails == Main("bind") /\ ParentEnds

\* Mutant of Accept: the -1 of a failed accept() is used as a descriptor.
AcceptUnchecked(c) ==
  /\ Main("accept")
  /\ conn[c] = "queued"
  /\ conn' = [conn EXCEPT ![c] = "accepted"]
  /\ cur' = NoConn
  /\ pfds' = pfds \cup {NoConn}
  /\ ppc' = "fork"
  /\ UNCHANGED <<pending, reaping, mine, starts, childVars>>

\* Mutant of Accept: the parent waits for its child before it accepts again.
AcceptAfterChild(c) ==
  /\ Main("accept")
  /\ conn[c] = "queued"
  /\ Cardinality(pfds) < MaxFds
  /\ \A d \in Conns : child[d] \notin {"forked", "serving", "closed"}
  /\ conn' = [conn EXCEPT ![c] = "accepted"]
  /\ cur' = c
  /\ pfds' = pfds \cup {c}
  /\ ppc' = "fork"
  /\ UNCHANGED <<pending, reaping, mine, starts, childVars>>

\* accept() with EMFILE leaves the connection queued and the loop retries, so
\* an accept() at the limit is a step that changes nothing.
Accept(c) ==
  /\ Main("accept")
  /\ conn[c] = "queued"
  /\ Cardinality(pfds) < MaxFds
  /\ conn' = [conn EXCEPT ![c] = "accepted"]
  /\ cur' = c
  /\ pfds' = pfds \cup {c}
  /\ ppc' = "fork"
  /\ UNCHANGED <<pending, reaping, mine, starts, childVars>>

\* accept() reports a connection its client aborted; the loop continues.
AcceptFails(c) ==
  /\ Main("accept")
  /\ conn[c] = "queued"
  /\ conn' = [conn EXCEPT ![c] = "refused"]
  /\ UNCHANGED <<parentVars, childVars>>

\* Mutant of Fork: the parent closes conn_fd before it forks.
ForkAfterClose ==
  /\ Main("fork")
  /\ child' = [child EXCEPT ![cur] = "forked"]
  /\ fds' = [fds EXCEPT ![cur] = pfds \ {cur}]
  /\ pfds' = pfds \ {cur}
  /\ lfd' = lfd \cup {cur}
  /\ mine' = mine \cup {cur}
  /\ ppc' = "close"
  /\ UNCHANGED <<cur, pending, reaping, starts, conn>>

\* The child starts with a copy of every descriptor of the parent.
Fork ==
  /\ Main("fork")
  /\ child' = [child EXCEPT ![cur] = "forked"]
  /\ fds' = [fds EXCEPT ![cur] = pfds]
  /\ lfd' = lfd \cup {cur}
  /\ mine' = mine \cup {cur}
  /\ ppc' = "close"
  /\ UNCHANGED <<cur, pfds, pending, reaping, starts, conn>>

\* fork() fails: the loop continues, and conn_fd stays open.
ForkFails ==
  /\ Main("fork")
  /\ cur' = NoConn
  /\ ppc' = "accept"
  /\ UNCHANGED <<pfds, pending, reaping, mine, starts, conn, childVars>>

\* Mutant of ParentClose: the parent forgets its copy of conn_fd.
ParentKeepsFd ==
  /\ Main("close")
  /\ cur' = NoConn
  /\ ppc' = "accept"
  /\ UNCHANGED <<pfds, pending, reaping, mine, starts, conn, childVars>>

ParentClose ==
  /\ Main("close")
  /\ pfds' = pfds \ {cur}
  /\ cur' = NoConn
  /\ ppc' = "accept"
  /\ UNCHANGED <<pending, reaping, mine, starts, conn, childVars>>
-------------------------------------------------------------------------------
\* Signals: voy.c's sig_handler, installed with an empty sa_mask.

\* The administrator sends TERM (INT and QUIT are handled alike) or HUP.
Signal(s) ==
  /\ ppc # "stopped"
  /\ s \in {"TERM", "HUP"}
  /\ pending' = pending \cup {s}
  /\ UNCHANGED <<ppc, cur, pfds, reaping, mine, starts, conn, childVars>>

\* voy_server_shutdown exits at once; SIGTERM also interrupts the CHLD handler.
HandleTerm ==
  /\ ppc # "stopped"
  /\ "TERM" \in pending
  /\ ParentEnds

\* voy_conf_reload only reports that it was called.
HandleHup ==
  /\ ppc # "stopped"
  /\ "HUP" \in pending
  /\ pending' = pending \ {"HUP"}
  /\ UNCHANGED <<ppc, cur, pfds, reaping, mine, starts, conn, childVars>>

\* The kernel delivers SIGCHLD, which stays blocked while its handler runs:
\* of the children that end meanwhile one signal is left pending.
HandleChld ==
  /\ ppc # "stopped"
  /\ "CHLD" \in pending
  /\ ~reaping
  /\ pending' = pending \ {"CHLD"}
  /\ reaping' = TRUE
  /\ UNCHANGED <<ppc, cur, pfds, mine, starts, conn, childVars>>

\* Mutant of Reap: one waitpid() per signal.
ReapOne(c) ==
  /\ reaping
  /\ c \in mine
  /\ child[c] = "zombie"
  /\ child' = [child EXCEPT ![c] = "reaped"]
  /\ mine' = mine \ {c}
  /\ reaping' = FALSE
  /\ UNCHANGED <<ppc, cur, pfds, pending, starts, conn, fds, lfd>>

\* waitpid(-1, &status, WNOHANG) > 0
Reap(c) ==
  /\ reaping
  /\ c \in mine
  /\ child[c] = "zombie"
  /\ child' = [child EXCEPT ![c] = "reaped"]
  /\ mine' = mine \ {c}
  /\ UNCHANGED <<ppc, cur, pfds, pending, reaping, starts, conn, fds, lfd>>

\* waitpid() finds no child that has ended: the handler returns.
ReapDone ==
  /\ reaping
  /\ \A c \in mine : child[c] # "zombie"
  /\ reaping' = FALSE
  /\ UNCHANGED <<ppc, cur, pfds, pending, mine, starts, conn, childVars>>

-------------------------------------------------------------------------------
\* The children, their clients.

\* A client connects: the kernel completes the handshake for whichever
\* process holds the listener, the server or a child that has yet to close it.
Connect(c) ==
  /\ conn[c] = "idle"
  /\ Listening \/ lfd # {}
  /\ conn' = [conn EXCEPT ![c] = "queued"]
  /\ UNCHANGED <<parentVars, childVars>>

\* close(server_fd), the first thing a child does.
ChildCloseListener(c) ==
  /\ child[c] = "forked"
  /\ child' = [child EXCEPT ![c] = "serving"]
  /\ lfd' = lfd \ {c}
  /\ conn' = Backlog(Listening \/ lfd' # {})
  /\ UNCHANGED <<parentVars, fds>>

\* voy_handle_conn returns: every path through it has closed conn_fd.
ChildCloseConn(c) ==
  /\ child[c] = "serving"
  /\ child' = [child EXCEPT ![c] = "closed"]
  /\ fds' = [fds EXCEPT ![c] = @ \ {c}]
  /\ UNCHANGED <<parentVars, conn, lfd>>

\* exit(0), or a crash or a signal that ends the child at any earlier point.
\* The parent gets SIGCHLD; an orphan is waited for by init.
ChildExit(c) ==
  /\ child[c] \in {"forked", "serving", "closed"}
  /\ fds' = [fds EXCEPT ![c] = {}]
  /\ lfd' = lfd \ {c}
  /\ conn' = Backlog(Listening \/ lfd' # {})
  /\ IF c \in mine
     THEN /\ child' = [child EXCEPT ![c] = "zombie"]
          /\ pending' = pending \cup {"CHLD"}
     ELSE /\ child' = [child EXCEPT ![c] = "reaped"]
          /\ UNCHANGED pending
  /\ UNCHANGED <<ppc, cur, pfds, reaping, mine, starts>>

-------------------------------------------------------------------------------
MainStep ==
  \/ Bind \/ BindFails
  \/ \E c \in Conns : Accept(c)
  \/ Fork \/ ForkFails
  \/ ParentClose

HandlerStep ==
  \/ HandleTerm
  \/ HandleHup
  \/ HandleChld
  \/ ReapDone
  \/ \E c \in Conns : Reap(c)

ChildStep(c) == ChildCloseListener(c) \/ ChildCloseConn(c) \/ ChildExit(c)

Environment ==
  \/ Start
  \/ \E s \in Signals : Signal(s)
  \/ \E c \in Conns : Connect(c) \/ AcceptFails(c)

Next ==
  \/ MainStep
  \/ HandlerStep
  \/ \E c \in Conns : ChildStep(c)
  \/ Environment

Spec == Init /\ [][Next]_vars

\* The kernel schedules the parent, delivers its signals, and lets a child that
\* was just forked run to its first system call. How long a child serves is up
\* to its client, and clients, administrators and failures owe nothing.
Fairness ==
  /\ WF_vars(MainStep)
  /\ WF_vars(HandleTerm)
  /\ WF_vars(HandleChld)
  /\ WF_vars(ReapDone \/ \E c \in Conns : Reap(c))
  /\ \A c \in Conns : WF_vars(ChildCloseListener(c))

FairSpec == Spec /\ Fairness

-------------------------------------------------------------------------------
\* Once the child of a connection has closed or left it and the parent is past
\* its own close(conn_fd), no process of the server holds a descriptor of it,
\* so the client sees the end of the response: no later child inherits a copy
\* (serve_on_port's two close() calls around fork()).
ReleasedWhenServed ==
  \A c \in Conns :
    child[c] \in {"closed", "zombie", "reaped"} /\ ~(ppc = "close" /\ cur = c)
      => ~Held(c)

\* A child that has ended and that the parent has yet to wait for is never
\* forgotten: SIGCHLD is pending or the handler is still in its loop, although
\* any number of exits leave only one signal (voy_wait_for_children).
NoLostChild ==
  \A c \in mine : child[c] = "zombie" => "CHLD" \in pending \/ reaping

\* No child has a descriptor of a conversation another child was forked for:
\* what a child may inherit is at most a connection whose fork() failed
\* (serve_on_port).
WorkersAreIsolated ==
  \A c, d \in Conns : c # d /\ d \in fds[c] => child[d] = "none"

\* What the client of a connection sees of it: it is held while some process
\* has a descriptor, and released once none has.
PhaseOf(c) ==
  CASE conn[c] = "idle"     -> "idle"
    [] conn[c] = "queued"   -> "waiting"
    [] conn[c] = "refused"  -> "released"
    [] conn[c] = "accepted" -> IF Held(c) THEN "held" ELSE "released"

Attended == {c \in Conns : child[c] # "none"}

\* voy implements ConnService (accept, fork, the close() calls and the ends of
\* processes together).
Service == INSTANCE ConnService WITH
  phase <- [c \in Conns |-> PhaseOf(c)],
  attended <- Attended

ServiceSpec == Service!ASpec

\* Every child of a running parent that ends is waited for (no zombie stays).
ZombiesReaped ==
  \A c \in Conns : child[c] = "zombie" ~> child[c] # "zombie"

\* A connection in the backlog is taken, or reset with the last listener, unless
\* the connections left open by failed forks have used up the parent's
\* descriptors (the continue after fork() in serve_on_port).
BacklogServed ==
  \A c \in Conns :
    conn[c] = "queued" ~> conn[c] # "queued" \/ Cardinality(pfds) = MaxFds

\* A stopped server gives the address back: within the time its children take
\* to run their first statement, whatever they then serve, a new server can bind.
AddressReturned ==
  ppc = "stopped" ~> AddressFree

\* "re-use the address when stopping and restarting the server"
\* (voy_bind_and_listen): when a server binds, no socket listens on the port.
RestartFindsAddressFree ==
  ppc = "bind" => AddressFree
===============================================================================
