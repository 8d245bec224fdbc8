------------------------------ MODULE Session ------------------------------
(***************************************************************************)
(* How two runtimes come to share a session (python/swarm/runtime/node.py, *)
(* protocol.py).  Of every pair the lower node id dials; both ends check   *)
(* the certificate, reserve the peer's id, exchange HELLO and then serve   *)
(* the connection until it is closed, lost or too old.  A listener holds   *)
(* as many inbound connections as it has peers, and gives a place back     *)
(* when the task that serves the connection is over.                       *)
(*                                                                         *)
(* A connection is a slot of `conn' with one record per end.  Its ends     *)
(* learn of each other through HELLO, LOAD and end-of-file, unless the     *)
(* connection is cut: then both ends wait for their timeouts.              *)
(***************************************************************************)
EXTENDS Naturals, FiniteSets, FiniteSetsExt

CONSTANTS Nodes,      \* node ids; every node is configured with all others
          Absent,     \* nodes that are configured and switched off
          Stranger,   \* a certificate of the fleet's CA that nobody has pinned
          Slots,      \* connections that can exist at the same time
          MaxFaults   \* bound on cuts, late timeouts, crashes and strangers

ASSUME SessionAssumption ==
    /\ Nodes \subseteq Nat \ {0} /\ IsFiniteSet(Nodes) /\ Absent \subseteq Nodes
    /\ Stranger \notin Nodes /\ MaxFaults \in Nat
    /\ Slots \subseteq Nat \ {0} /\ IsFiniteSet(Slots)

VARIABLES
    conn,       \* slot -> the connection in it
    running,    \* nodes whose runtime is started and not closed
    starting,   \* node -> peers reserved by a handshake (_sessions_starting)
    sessions,   \* node -> peer -> slot of its session, 0 if none (_sessions)
    inbound,    \* node -> places taken (_inbound_connections)
    waiter,     \* node -> a wait_for_peers call: "none", "asleep" or "woken"
    faults

vars == <<conn, running, starting, sessions, inbound, waiter, faults>>

\* An end is "new" (connected, handler not run), "accepted" (task created),
\* "hello" (reserved, HELLO sent), "up" (a session), "closing" (the task waits
\* for wait_closed) or "gone".  told: HELLO was sent; load: LOAD has arrived.
Phases == {"new", "accepted", "hello", "up", "closing", "gone"}
End(phase) == [phase |-> phase, told |-> FALSE, load |-> FALSE]
Free == [from |-> 0, to |-> 0, cut |-> FALSE, dial |-> End("gone"), listen |-> End("gone")]

Present == Nodes \ Absent

Sides == {"dial", "listen"}
Other(side) == IF side = "dial" THEN "listen" ELSE "dial"
Owner(c, side) == IF side = "dial" THEN c.from ELSE c.to
PeerOf(c, side) == IF side = "dial" THEN c.to ELSE c.from

\* authorized_peer: the certificate's digest is that of a configured peer.
Pinned(c, side) == PeerOf(c, side) \in Nodes \ {Owner(c, side)}

\* Of a pair only the lower id may have dialled.
Authorized(c, side) == Pinned(c, side) /\ c.from < c.to

Reserved(n, p) == p \in starting[n] \/ sessions[n][p] /= 0

\* self._changed.set(): whoever sleeps in wait_for_peers is woken.
Wake(n) == waiter' = [waiter EXCEPT ![n] = IF @ = "asleep" THEN "woken" ELSE @]

SetEnd(s, side, phase) == conn' = [conn EXCEPT ![s][side].phase = phase]

Init ==
    /\ conn = [s \in Slots |-> Free]
    /\ running = Present
    /\ starting = [n \in Nodes |-> {}]
    /\ sessions = [n \in Nodes |-> [p \in Nodes |-> 0]]
    /\ inbound = [n \in Nodes |-> 0]
    /\ waiter = [n \in Nodes |-> "none"]
    /\ faults = 0

-----------------------------------------------------------------------------
\* _connect, one dialer per pair: it serves one connection at a time.  The
\* first step of _serve follows with no await: reserve the id, send HELLO.
Connect(a, b) ==
    /\ a \in running /\ b \in running /\ a < b
    /\ \A s \in Slots : conn[s].from = a /\ conn[s].to = b => conn[s].dial.phase = "gone"
    /\ ~Reserved(a, b)
    /\ \E s \in Slots :
        /\ conn[s] = Free
        /\ conn' = [conn EXCEPT ![s] =
              [from |-> a, to |-> b, cut |-> FALSE,
               dial |-> [End("hello") EXCEPT !.told = TRUE], listen |-> End("new")]]
    /\ starting' = [starting EXCEPT ![a] = @ \cup {b}]
    /\ UNCHANGED <<running, sessions, inbound, waiter, faults>>

\* A host with a certificate nobody pinned completes the TLS handshake.
StrangerConnects(b) ==
    /\ b \in running /\ faults < MaxFaults
    /\ \E s \in Slots :
        /\ conn[s] = Free
        /\ conn' = [conn EXCEPT ![s] =
              [from |-> Stranger, to |-> b, cut |-> FALSE,
               dial |-> End("gone"), listen |-> End("new")]]
    /\ faults' = faults + 1
    /\ UNCHANGED <<running, starting, sessions, inbound, waiter>>

\* _incoming: the place is taken before the task that serves it runs.
Incoming(s) ==
    LET b == conn[s].to IN
    /\ conn[s].listen.phase = "new"
    /\ IF b \notin running \/ inbound[b] >= Cardinality(Nodes \ {b})
       THEN SetEnd(s, "listen", "gone") /\ UNCHANGED inbound
       ELSE /\ SetEnd(s, "listen", "accepted")
            /\ inbound' = [inbound EXCEPT ![b] = @ + 1]
    /\ UNCHANGED <<running, starting, sessions, waiter, faults>>

\* Mutant: the finally block gives back a reservation it never made.
ServeInboundDiscards(s) ==
    LET c == conn[s]
        b == c.to
    IN  /\ c.listen.phase = "accepted"
        /\ IF Authorized(c, "listen") /\ ~Reserved(b, c.from)
           THEN /\ conn' = [conn EXCEPT ![s].listen.phase = "hello", ![s].listen.told = TRUE]
                /\ starting' = [starting EXCEPT ![b] = @ \cup {c.from}]
                /\ UNCHANGED waiter
           ELSE /\ SetEnd(s, "listen", "closing") /\ Wake(b)
                /\ starting' = [starting EXCEPT ![b] = @ \ {c.from}]
        /\ UNCHANGED <<running, sessions, inbound, faults>>

\* The first step of _serve at the listener.  A refusal raises before anything
\* is reserved, so the finally block gives nothing back.
ServeInbound(s) ==
    LET c == conn[s]
        b == c.to
    IN  /\ c.listen.phase = "accepted"
        /\ IF Authorized(c, "listen") /\ ~Reserved(b, c.from)
           THEN /\ conn' = [conn EXCEPT ![s].listen.phase = "hello", ![s].listen.told = TRUE]
                /\ starting' = [starting EXCEPT ![b] = @ \cup {c.from}]
                /\ UNCHANGED waiter
           ELSE SetEnd(s, "listen", "closing") /\ Wake(b) /\ UNCHANGED starting
        /\ UNCHANGED <<running, sessions, inbound, faults>>

\* The peer's HELLO arrives: the reservation becomes the session.
ReceiveHello(s, side) ==
    LET c == conn[s]
        n == Owner(c, side)
        p == PeerOf(c, side)
    IN  /\ c[side].phase = "hello" /\ c[Other(side)].told /\ ~c.cut
        /\ SetEnd(s, side, "up")
        /\ sessions' = [sessions EXCEPT ![n][p] = s]
        /\ starting' = [starting EXCEPT ![n] = @ \ {p}]
        /\ Wake(n)
        /\ UNCHANGED <<running, inbound, faults>>

\* Mutant: the capacity of a peer is noted and nobody is woken.
ReceiveLoadQuiet(s, side) ==
    LET c == conn[s] IN
    /\ c[side].phase = "up" /\ ~c[side].load
    /\ c[Other(side)].phase = "up" /\ ~c.cut
    /\ conn' = [conn EXCEPT ![s][side].load = TRUE]
    /\ UNCHANGED <<running, starting, sessions, inbound, waiter, faults>>

\* The LOAD record the peer's heartbeat sends once its own session is up.
ReceiveLoad(s, side) ==
    LET c == conn[s] IN
    /\ c[side].phase = "up" /\ ~c[side].load
    /\ c[Other(side)].phase = "up" /\ ~c.cut
    /\ conn' = [conn EXCEPT ![s][side].load = TRUE]
    /\ Wake(Owner(c, side))
    /\ UNCHANGED <<running, starting, sessions, inbound, faults>>

\* Mutant: a connection whose handshake fails keeps its reservation.
FinishReserved(s, side) ==
    LET c == conn[s]
        n == Owner(c, side)
        p == PeerOf(c, side)
    IN  /\ SetEnd(s, side, "closing")
        /\ sessions' = [sessions EXCEPT ![n][p] = IF @ = s THEN 0 ELSE @]
        /\ Wake(n)
        /\ UNCHANGED <<running, starting, inbound>>

\* The finally block of _serve: the reservation is given back, the session is
\* forgotten if it is still this one, whoever waits is told.
Finish(s, side) ==
    LET c == conn[s]
        n == Owner(c, side)
        p == PeerOf(c, side)
    IN  /\ SetEnd(s, side, "closing")
        /\ starting' = [starting EXCEPT ![n] = @ \ {p}]
        /\ sessions' = [sessions EXCEPT ![n][p] = IF @ = s THEN 0 ELSE @]
        /\ Wake(n)
        /\ UNCHANGED <<running, inbound>>

Serving(s, side) == conn[s][side].phase \in {"hello", "up"}

\* End of file, or a timeout on a connection that was cut.
PeerLost(s, side) ==
    /\ Serving(s, side)
    /\ conn[s].cut \/ conn[s][Other(side)].phase \in {"closing", "gone"}
    /\ Finish(s, side) /\ UNCHANGED faults

\* MAX_SESSION_S: a session is given up when it is an hour old.  No handshake
\* lasts that long (timeouts are at most 300 s), so the other end is up too.
SessionAged(s, side) ==
    /\ \A end \in Sides : conn[s][end].phase = "up"
    /\ Finish(s, side) /\ UNCHANGED faults

\* A HELLO or a heartbeat that was only late.
LateTimeout(s, side) ==
    /\ Serving(s, side) /\ faults < MaxFaults
    /\ Finish(s, side) /\ faults' = faults + 1

\* Mutant: only a task that had a session gives its place back.
TaskDoneUp(s, side) ==
    LET c == [conn[s] EXCEPT ![side].phase = "gone"] IN
    /\ conn[s][side].phase = "closing"
    /\ conn' = [conn EXCEPT ![s] = c]
    /\ inbound' = IF side = "listen" /\ c.listen.told THEN [inbound EXCEPT ![c.to] = @ - 1] ELSE inbound
    /\ UNCHANGED <<running, starting, sessions, waiter, faults>>

\* wait_closed is over: the task ends, and with a listener's task its place.
TaskDone(s, side) ==
    LET c == [conn[s] EXCEPT ![side].phase = "gone"] IN
    /\ conn[s][side].phase = "closing"
    /\ conn' = [conn EXCEPT ![s] = c]
    /\ inbound' = IF side = "listen" THEN [inbound EXCEPT ![c.to] = @ - 1] ELSE inbound
    /\ UNCHANGED <<running, starting, sessions, waiter, faults>>

\* Both ends are over: the slot can carry another connection.
Recycle(s) ==
    /\ conn[s] /= Free /\ \A side \in Sides : conn[s][side].phase = "gone"
    /\ conn' = [conn EXCEPT ![s] = Free]
    /\ UNCHANGED <<running, starting, sessions, inbound, waiter, faults>>

Cut(s) ==
    /\ conn[s] /= Free /\ ~conn[s].cut /\ faults < MaxFaults
    /\ conn' = [conn EXCEPT ![s].cut = TRUE]
    /\ faults' = faults + 1
    /\ UNCHANGED <<running, starting, sessions, inbound, waiter>>

\* close(), or the death of the process: nothing of the node's state is left.
\* Its peers see the end of their connections, or only silence.
Stop(n) ==
    /\ n \in running /\ faults < MaxFaults
    /\ running' = running \ {n}
    /\ \E silent \in BOOLEAN :
         conn' = [s \in Slots |->
            LET c == conn[s] IN
            [c EXCEPT !.dial.phase = IF c.from = n THEN "gone" ELSE @,
                      !.listen.phase = IF c.to = n THEN "gone" ELSE @,
                      !.cut = @ \/ (silent /\ n \in {c.from, c.to})]]
    /\ starting' = [starting EXCEPT ![n] = {}]
    /\ sessions' = [sessions EXCEPT ![n] = [p \in Nodes |-> 0]]
    /\ inbound' = [inbound EXCEPT ![n] = 0]
    /\ waiter' = [waiter EXCEPT ![n] = "none"]
    /\ faults' = faults + 1

\* A new process: a runtime instance is started only once.
Start(n) ==
    /\ n \in Present \ running /\ running' = running \cup {n}
    /\ UNCHANGED <<conn, starting, sessions, inbound, waiter, faults>>

\* wait_for_peers(count), for as many peers as there are: a peer counts
\* once its capacity is known.
Ready(n) ==
    \A p \in Present \ {n} : \E s \in Slots, side \in Sides :
        s = sessions[n][p] /\ Owner(conn[s], side) = n /\ conn[s][side].load

WaitForPeers(n) ==
    /\ n \in running /\ waiter[n] \in {"none", "woken"}
    /\ waiter' = [waiter EXCEPT ![n] = IF Ready(n) THEN "none" ELSE "asleep"]
    /\ waiter' /= waiter
    /\ UNCHANGED <<conn, running, starting, sessions, inbound, faults>>

Step(s, side) ==
    \/ ReceiveHello(s, side) \/ ReceiveLoad(s, side)
    \/ PeerLost(s, side) \/ TaskDone(s, side)

Next ==
    \/ \E a, b \in Nodes : Connect(a, b)
    \/ \E n \in Nodes : StrangerConnects(n) \/ Stop(n) \/ Start(n) \/ WaitForPeers(n)
    \/ \E s \in Slots : Incoming(s) \/ ServeInbound(s) \/ Recycle(s) \/ Cut(s)
    \/ \E s \in Slots, side \in Sides :
         Step(s, side) \/ SessionAged(s, side) \/ LateTimeout(s, side)

\* The event loop runs every handler that is ready, timers fire, a dialer that
\* sleeps wakes up, and an operator restarts a node that stopped.
Fairness ==
    /\ \A a, b \in Nodes : WF_vars(Connect(a, b))
    /\ \A n \in Nodes : WF_vars(Start(n)) /\ WF_vars(WaitForPeers(n))
    /\ \A s \in Slots :
         /\ WF_vars(Incoming(s)) /\ WF_vars(ServeInbound(s)) /\ WF_vars(Recycle(s))
         /\ \A side \in Sides : WF_vars(Step(s, side))

Spec == Init /\ [][Next]_vars /\ Fairness

-----------------------------------------------------------------------------
\* The tables of a node say exactly what its connections do: a peer is online
\* through the one connection that is up, reserved through the one that is in
\* its handshake, and never both.  A refused duplicate, a late end or a
\* session replaced by another must not disturb the entry of its successor.
Holds(n, p, phase) ==
    {s \in Slots : \E side \in Sides :
        /\ Owner(conn[s], side) = n /\ PeerOf(conn[s], side) = p
        /\ conn[s][side].phase = phase}

TablesExact ==
    \A n \in Nodes, p \in Nodes :
        /\ Holds(n, p, "up") = {sessions[n][p]} \ {0}
        /\ Cardinality(Holds(n, p, "hello")) = IF p \in starting[n] THEN 1 ELSE 0
        /\ ~(p \in starting[n] /\ sessions[n][p] /= 0)

\* The places of a listener are the connections its tasks still serve: never
\* more than it has peers, never one lost, whatever was refused or failed.
PlacesExact ==
    \A n \in Nodes :
        /\ inbound[n] <= Cardinality(Nodes \ {n})
        /\ inbound[n] = Cardinality({s \in Slots : conn[s].to = n /\
                            conn[s].listen.phase \in {"accepted", "hello", "up", "closing"}})

\* Every connection is accounted for, on both sides of the listener's task.
ConnectionsAccounted == TablesExact /\ PlacesExact

\* A call that sleeps in wait_for_peers is not ready: every change it waits
\* for wakes it.
NoMissedPeer == \A n \in Nodes : waiter[n] = "asleep" => ~Ready(n)

\* Once faults stop, every pair is connected again and again, both nodes on
\* the same connection: neither the places a stranger or a lost connection
\* holds, nor the refusal of duplicates while an old session lingers, nor a
\* late HELLO of a connection already given up, keeps two nodes apart for ever.
PairsReconnect ==
    \A a, b \in Present : a < b => []<>(sessions[a][b] /= 0 /\ sessions[a][b] = sessions[b][a])
=============================================================================
