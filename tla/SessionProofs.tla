--------------------------- MODULE SessionProofs ----------------------------
(* TLAPS proofs about Session, for every set of nodes, of slots and every  *)
(* number of faults.                                                       *)
EXTENDS Session, FiniteSetTheorems, TLAPS

Ends == [phase : Phases, told : BOOLEAN, load : BOOLEAN]
Conn == [from : Nodes \cup {Stranger, 0}, to : Nodes \cup {0}, cut : BOOLEAN,
         dial : Ends, listen : Ends]

TypeOK ==
    /\ conn \in [Slots -> Conn]
    /\ running \subseteq Nodes
    /\ starting \in [Nodes -> SUBSET Nodes]
    /\ sessions \in [Nodes -> [Nodes -> Slots \cup {0}]]
    /\ inbound \in [Nodes -> Nat]
    /\ waiter \in [Nodes -> {"none", "asleep", "woken"}]
    /\ faults \in 0..MaxFaults

\* Only a listener serves a stranger, and only until it has refused it.
EndsExact ==
    \A s \in Slots :
        /\ conn[s].dial.phase \in {"hello", "up", "closing", "gone"}
        /\ conn[s].dial.phase /= "gone" => conn[s].from \in Nodes /\ conn[s].to \in Nodes
        /\ conn[s].listen.phase /= "gone" => conn[s].to \in Nodes
        /\ \A e \in Sides : conn[s][e].phase \in {"hello", "up"} =>
               conn[s].from \in Nodes /\ conn[s].to \in Nodes /\ conn[s].from < conn[s].to

\* What an end in its handshake, or with a session, says of its node's tables.
TablesHold ==
    \A s \in Slots, e \in Sides :
        /\ conn[s][e].phase = "hello" => PeerOf(conn[s], e) \in starting[Owner(conn[s], e)]
        /\ conn[s][e].phase = "up" => sessions[Owner(conn[s], e)][PeerOf(conn[s], e)] = s

\* A node shakes hands with a peer on one connection.
HelloOnce ==
    \A s \in Slots, t \in Slots, e \in Sides :
        /\ conn[s][e].phase = "hello" /\ conn[t][e].phase = "hello"
        /\ conn[s].from = conn[t].from /\ conn[s].to = conn[t].to
        => s = t

\* What the tables of a node say of its connections.
TablesBack ==
    \A n \in Nodes, p \in Nodes :
        /\ p \in starting[n] => Holds(n, p, "hello") /= {} /\ sessions[n][p] = 0
        /\ sessions[n][p] /= 0 => sessions[n][p] \in Holds(n, p, "up")

\* The connections whose task holds a place of the listener.
Places(n) == {s \in Slots : conn[s].to = n /\
                  conn[s].listen.phase \in {"accepted", "hello", "up", "closing"}}

IInv == TypeOK /\ EndsExact /\ TablesHold /\ HelloOnce /\ TablesBack /\ PlacesExact /\ NoMissedPeer

-----------------------------------------------------------------------------
(* Connections.                                                            *)

\* Setting the phase of one end leaves every other end and every route alone.
LEMMA SetEndExact ==
    ASSUME conn \in [Slots -> Conn], NEW s \in Slots, NEW side \in Sides, NEW phase \in Phases,
           SetEnd(s, side, phase)
    PROVE  /\ conn' \in [Slots -> Conn]
           /\ \A t \in Slots : /\ conn'[t].from = conn[t].from /\ conn'[t].to = conn[t].to
                               /\ conn'[t].cut = conn[t].cut
           /\ \A t \in Slots, e \in Sides :
                /\ conn'[t][e].phase = IF t = s /\ e = side THEN phase ELSE conn[t][e].phase
                /\ conn'[t][e].told = conn[t][e].told /\ conn'[t][e].load = conn[t][e].load
<1>1. conn' = [conn EXCEPT ![s][side].phase = phase]
    BY DEF SetEnd
<1>2. conn[s] \in Conn
    OBVIOUS
<1>3. CASE side = "dial"
    <2>1. conn' = [conn EXCEPT ![s] = [conn[s] EXCEPT !.dial = [conn[s].dial EXCEPT !.phase = phase]]]
        BY <1>1, <1>3
    <2>2. [conn[s] EXCEPT !.dial = [conn[s].dial EXCEPT !.phase = phase]] \in Conn
        BY <1>2 DEF Conn, Ends
    <2>3. conn' \in [Slots -> Conn]
        BY <2>1, <2>2
    <2> QED BY <1>2, <1>3, <2>1, <2>3 DEF Conn, Ends, Sides
<1>4. CASE side = "listen"
    <2>1. conn' = [conn EXCEPT ![s] = [conn[s] EXCEPT !.listen = [conn[s].listen EXCEPT !.phase = phase]]]
        BY <1>1, <1>4
    <2>2. [conn[s] EXCEPT !.listen = [conn[s].listen EXCEPT !.phase = phase]] \in Conn
        BY <1>2 DEF Conn, Ends
    <2>3. conn' \in [Slots -> Conn]
        BY <2>1, <2>2
    <2> QED BY <1>2, <1>4, <2>1, <2>3 DEF Conn, Ends, Sides
<1> QED BY <1>3, <1>4 DEF Sides

\* The owner and the peer of an end that has one.
LEMMA OwnerType ==
    ASSUME NEW c \in Conn, c.from \in Nodes, c.to \in Nodes, NEW e \in Sides
    PROVE  Owner(c, e) \in Nodes /\ PeerOf(c, e) \in Nodes
BY DEF Owner, PeerOf

\* Holds, slot by slot.
LEMMA HoldsEnd ==
    ASSUME NEW n, NEW p, NEW phase, NEW s
    PROVE  s \in Holds(n, p, phase) <=>
             s \in Slots /\ \E e \in Sides : Owner(conn[s], e) = n /\ PeerOf(conn[s], e) = p
                                             /\ conn[s][e].phase = phase
BY DEF Holds

\* A step that moves no end in or out of its handshake or its session, and
\* leaves the tables alone.
LEMMA QuietTables ==
    ASSUME TablesHold, HelloOnce, TablesBack, starting' = starting, sessions' = sessions,
           \A t \in Slots, e \in Sides :
             conn[t][e].phase \in {"hello", "up"} \/ conn'[t][e].phase \in {"hello", "up"} =>
               /\ conn'[t][e].phase = conn[t][e].phase
               /\ conn'[t].from = conn[t].from /\ conn'[t].to = conn[t].to
    PROVE  TablesHold' /\ HelloOnce' /\ TablesBack'
<1>1. TablesHold'
    BY DEF TablesHold, Owner, PeerOf
<1>2. HelloOnce'
    BY DEF HelloOnce
<1>3. \A n, p \in Nodes, phase \in {"hello", "up"} : Holds(n, p, phase)' = Holds(n, p, phase)
    BY DEF Holds, Owner, PeerOf
<1>4. TablesBack'
    BY <1>3 DEF TablesBack
<1> QED BY <1>1, <1>2, <1>4

\* No connection takes or gives back a place of a listener.
LEMMA QuietPlaces ==
    ASSUME PlacesExact, inbound' = inbound, \A n \in Nodes : Places(n)' = Places(n)
    PROVE  PlacesExact'
BY DEF PlacesExact, Places

\* Whoever still sleeps after a step slept before it, and his table and the
\* connections in it are the same.
LEMMA QuietWait ==
    ASSUME NoMissedPeer,
           \A n \in Nodes : waiter'[n] = "asleep" =>
             /\ waiter[n] = "asleep" /\ sessions'[n] = sessions[n]
             /\ \A p \in Nodes, s \in Slots, e \in Sides : s = sessions[n][p] =>
                  /\ conn'[s].from = conn[s].from /\ conn'[s].to = conn[s].to
                  /\ Owner(conn[s], e) = n => conn'[s][e].load = conn[s][e].load
    PROVE  NoMissedPeer'
<1> SUFFICES ASSUME NEW n \in Nodes, waiter'[n] = "asleep", Ready(n)' PROVE FALSE
    BY DEF NoMissedPeer
<1>1. ~Ready(n)
    BY DEF NoMissedPeer
<1>2. ASSUME NEW p \in Present \ {n}
      PROVE  \E s \in Slots, side \in Sides :
               s = sessions[n][p] /\ Owner(conn[s], side) = n /\ conn[s][side].load
    <2>1. PICK s \in Slots, side \in Sides :
            s = sessions'[n][p] /\ Owner(conn'[s], side) = n /\ conn'[s][side].load
        BY DEF Ready
    <2>2. p \in Nodes /\ s = sessions[n][p]
        BY <2>1 DEF Present
    <2>3. Owner(conn[s], side) = n /\ conn[s][side].load
        BY <2>1, <2>2 DEF Owner
    <2> QED BY <2>2, <2>3
<1> QED BY <1>1, <1>2 DEF Ready

LEMMA WakeExact ==
    ASSUME TypeOK, NEW n \in Nodes, Wake(n)
    PROVE  /\ waiter' \in [Nodes -> {"none", "asleep", "woken"}]
           /\ waiter'[n] /= "asleep"
           /\ \A m \in Nodes : waiter'[m] = "asleep" => m /= n /\ waiter[m] = "asleep"
BY DEF Wake, TypeOK

\* A slot in a node's table is that of a session.
LEMMA TableUp ==
    ASSUME TypeOK, TablesBack, NEW n \in Nodes, NEW p \in Nodes, NEW s \in Slots, sessions[n][p] = s
    PROVE  \E e \in Sides : Owner(conn[s], e) = n /\ PeerOf(conn[s], e) = p /\ conn[s][e].phase = "up"
<1>1. s /= 0
    BY SessionAssumption
<1> QED BY <1>1 DEF TablesBack, Holds

-----------------------------------------------------------------------------
LEMMA InitInv == Init => IInv
<1> SUFFICES ASSUME Init PROVE IInv
    OBVIOUS
<1>1. Free \in Conn /\ Free.dial.phase = "gone" /\ Free.listen.phase = "gone"
    BY DEF Free, Conn, Ends, End, Phases
<1>2. \A s \in Slots, e \in Sides : conn[s] = Free /\ conn[s][e].phase = "gone"
    BY <1>1 DEF Init, Sides
<1>2a. \A s \in Slots : conn[s].dial.phase = "gone" /\ conn[s].listen.phase = "gone"
    BY <1>1 DEF Init
<1>3. TypeOK
    BY <1>1, SessionAssumption DEF Init, TypeOK, Present
<1>4. EndsExact
    <2>1. \A s \in Slots, e \in Sides : conn[s][e].phase \notin {"hello", "up"}
        BY <1>2
    <2> QED BY <1>2a, <2>1 DEF EndsExact
<1>5. TablesHold /\ HelloOnce
    BY <1>2 DEF TablesHold, HelloOnce
<1>6. TablesBack
    BY DEF Init, TablesBack
<1>7. PlacesExact
    <2>1. \A n \in Nodes : {s \in Slots : conn[s].to = n /\
                              conn[s].listen.phase \in {"accepted", "hello", "up", "closing"}} = {}
        BY <1>2a
    <2>2. Cardinality({}) = 0
        BY FS_EmptySet
    <2>3. \A n \in Nodes : Cardinality(Nodes \ {n}) \in Nat
        BY SessionAssumption, FS_RemoveElement, FS_CardinalityType, FS_Subset
    <2> QED BY <2>1, <2>2, <2>3 DEF Init, PlacesExact
<1>8. NoMissedPeer
    BY DEF Init, NoMissedPeer
<1> QED BY <1>3, <1>4, <1>5, <1>6, <1>7, <1>8 DEF IInv

-----------------------------------------------------------------------------
(* The tables, when one end moves.                                         *)

\* Every other end that is in its handshake or has a session stays as it is.
Others(s, side) ==
    \A t \in Slots, e \in Sides :
        ~(t = s /\ e = side) /\ (conn[t][e].phase \in {"hello", "up"}
                                 \/ conn'[t][e].phase \in {"hello", "up"}) =>
          /\ conn'[t][e].phase = conn[t][e].phase
          /\ conn'[t].from = conn[t].from /\ conn'[t].to = conn[t].to

\* An end's owner and peer tell which end of its connection it is.
LEMMA SameEnd ==
    ASSUME EndsExact, NEW s \in Slots, NEW t \in Slots, NEW e \in Sides, NEW f \in Sides,
           conn[s][e].phase \in {"hello", "up"}, conn[t][f].phase \in {"hello", "up"},
           Owner(conn[s], e) = Owner(conn[t], f), PeerOf(conn[s], e) = PeerOf(conn[t], f)
    PROVE  e = f /\ conn[s].from = conn[t].from /\ conn[s].to = conn[t].to
<1>1. conn[s].from \in Nat /\ conn[s].to \in Nat /\ conn[s].from < conn[s].to
      /\ conn[t].from \in Nat /\ conn[t].to \in Nat /\ conn[t].from < conn[t].to
    BY SessionAssumption DEF EndsExact
<1> QED BY <1>1 DEF Owner, PeerOf, Sides

\* An end enters its handshake: its node's id of the peer was not reserved.
LEMMA EnterHello ==
    ASSUME TypeOK, EndsExact, EndsExact', TablesHold, HelloOnce, TablesBack,
           NEW s \in Slots, NEW side \in Sides, Others(s, side),
           conn[s][side].phase \notin {"hello", "up"}, conn'[s][side].phase = "hello",
           NEW n \in Nodes, NEW p \in Nodes, ~Reserved(n, p),
           Owner(conn'[s], side) = n, PeerOf(conn'[s], side) = p,
           starting' = [starting EXCEPT ![n] = @ \cup {p}], sessions' = sessions
    PROVE  TablesHold' /\ HelloOnce' /\ TablesBack'
<1>1. p \notin starting[n] /\ sessions[n][p] = 0
    BY DEF Reserved
<1>2. \A m \in Nodes : starting'[m] = IF m = n THEN starting[n] \cup {p} ELSE starting[m]
    BY DEF TypeOK
<1>3. TablesHold'
    <2> SUFFICES ASSUME NEW t \in Slots, NEW e \in Sides
                 PROVE  /\ conn'[t][e].phase = "hello" =>
                             PeerOf(conn'[t], e) \in starting'[Owner(conn'[t], e)]
                        /\ conn'[t][e].phase = "up" =>
                             sessions'[Owner(conn'[t], e)][PeerOf(conn'[t], e)] = t
        BY DEF TablesHold
    <2>1. CASE t = s /\ e = side
        BY <1>2, <2>1
    <2>2. CASE ~(t = s /\ e = side)
        <3>1. ASSUME conn'[t][e].phase \in {"hello", "up"}
              PROVE  /\ conn'[t][e].phase = conn[t][e].phase
                     /\ Owner(conn'[t], e) = Owner(conn[t], e) /\ PeerOf(conn'[t], e) = PeerOf(conn[t], e)
                     /\ Owner(conn[t], e) \in Nodes
            BY <2>2, <3>1 DEF Others, Owner, PeerOf, EndsExact
        <3> QED BY <1>2, <3>1 DEF TablesHold
    <2> QED BY <2>1, <2>2
<1>4. \A t \in Slots, e \in Sides :
        /\ conn'[t][e].phase = "hello" /\ ~(t = s /\ e = side)
        => ~(Owner(conn'[t], e) = n /\ PeerOf(conn'[t], e) = p)
    BY <1>1 DEF Others, TablesHold, Owner, PeerOf
<1>5. HelloOnce'
    <2> SUFFICES ASSUME NEW t \in Slots, NEW u \in Slots, NEW e \in Sides,
                        conn'[t][e].phase = "hello", conn'[u][e].phase = "hello",
                        conn'[t].from = conn'[u].from, conn'[t].to = conn'[u].to
                 PROVE  t = u
        BY DEF HelloOnce
    <2>1. CASE e = side /\ (t = s \/ u = s)
        BY <1>4, <2>1 DEF Owner, PeerOf
    <2>2. CASE ~(e = side /\ (t = s \/ u = s))
        BY <2>2 DEF Others, HelloOnce
    <2> QED BY <2>1, <2>2
<1>6. \A m, q \in Nodes : Holds(m, q, "up")' = Holds(m, q, "up")
    BY DEF Holds, Others, Owner, PeerOf
<1>7. \A m, q \in Nodes : Holds(m, q, "hello") /= {} => Holds(m, q, "hello")' /= {}
    <2> SUFFICES ASSUME NEW m \in Nodes, NEW q \in Nodes, NEW t \in Holds(m, q, "hello")
                 PROVE  t \in Holds(m, q, "hello")'
        OBVIOUS
    <2> QED BY DEF Holds, Others, Owner, PeerOf
<1>8. s \in Holds(n, p, "hello")'
    BY DEF Holds
<1>9. TablesBack'
    BY <1>1, <1>2, <1>6, <1>7, <1>8 DEF TablesBack
<1> QED BY <1>3, <1>5, <1>9

\* An end leaves its handshake for a session.
LEMMA EnterUp ==
    ASSUME TypeOK, EndsExact, TablesHold, HelloOnce, TablesBack,
           NEW s \in Slots, NEW side \in Sides, Others(s, side),
           conn[s][side].phase = "hello", conn'[s][side].phase = "up",
           conn'[s].from = conn[s].from, conn'[s].to = conn[s].to,
           NEW n \in Nodes, NEW p \in Nodes,
           Owner(conn[s], side) = n, PeerOf(conn[s], side) = p,
           starting' = [starting EXCEPT ![n] = @ \ {p}],
           sessions' = [sessions EXCEPT ![n][p] = s]
    PROVE  TablesHold' /\ HelloOnce' /\ TablesBack'
<1>1. p \in starting[n] /\ sessions[n][p] = 0
    BY DEF TablesHold, TablesBack
<1>2. /\ \A m \in Nodes : starting'[m] = IF m = n THEN starting[n] \ {p} ELSE starting[m]
      /\ \A m, q \in Nodes : sessions'[m][q] = IF m = n /\ q = p THEN s ELSE sessions[m][q]
    BY DEF TypeOK
<1>3. \A t \in Slots, e \in Sides :
        conn'[t][e].phase \in {"hello", "up"} =>
          /\ Owner(conn'[t], e) = Owner(conn[t], e) /\ PeerOf(conn'[t], e) = PeerOf(conn[t], e)
          /\ Owner(conn[t], e) \in Nodes /\ PeerOf(conn[t], e) \in Nodes
          /\ ~(t = s /\ e = side) => conn'[t][e].phase = conn[t][e].phase
    BY DEF Others, Owner, PeerOf, EndsExact
<1>4. \A t \in Slots, e \in Sides :
        /\ conn[t][e].phase \in {"hello", "up"} /\ ~(t = s /\ e = side)
        => ~(Owner(conn[t], e) = n /\ PeerOf(conn[t], e) = p)
    <2> SUFFICES ASSUME NEW t \in Slots, NEW e \in Sides, conn[t][e].phase \in {"hello", "up"},
                        ~(t = s /\ e = side), Owner(conn[t], e) = n, PeerOf(conn[t], e) = p
                 PROVE  FALSE
        OBVIOUS
    <2>1. e = side /\ conn[s].from = conn[t].from /\ conn[s].to = conn[t].to
        BY SameEnd
    <2>2. CASE conn[t][e].phase = "hello"
        BY <2>1, <2>2 DEF HelloOnce
    <2>3. CASE conn[t][e].phase = "up"
        BY <1>1, <2>3, SessionAssumption DEF TablesHold
    <2> QED BY <2>2, <2>3
<1>5. TablesHold'
    <2> SUFFICES ASSUME NEW t \in Slots, NEW e \in Sides
                 PROVE  /\ conn'[t][e].phase = "hello" =>
                             PeerOf(conn'[t], e) \in starting'[Owner(conn'[t], e)]
                        /\ conn'[t][e].phase = "up" =>
                             sessions'[Owner(conn'[t], e)][PeerOf(conn'[t], e)] = t
        BY DEF TablesHold
    <2>1. CASE t = s /\ e = side
        BY <1>2, <1>3, <2>1
    <2>2. CASE ~(t = s /\ e = side)
        BY <1>2, <1>3, <1>4, <2>2 DEF TablesHold
    <2> QED BY <2>1, <2>2
<1>6. HelloOnce'
    BY <1>3 DEF HelloOnce, Others
<1>7. \A m, q \in Nodes : ~(m = n /\ q = p) =>
        Holds(m, q, "up")' = Holds(m, q, "up") /\ Holds(m, q, "hello")' = Holds(m, q, "hello")
    BY DEF Holds, Others, Owner, PeerOf
<1>8. s \in Holds(n, p, "up")'
    BY <1>3 DEF Holds
<1>9. TablesBack'
    BY <1>1, <1>2, <1>7, <1>8 DEF TablesBack
<1> QED BY <1>5, <1>6, <1>9

\* An end gives up its handshake or its session.
LEMMA LeaveEnd ==
    ASSUME TypeOK, EndsExact, TablesHold, HelloOnce, TablesBack,
           NEW s \in Slots, NEW side \in Sides, Others(s, side),
           conn[s][side].phase \in {"hello", "up"}, conn'[s][side].phase \notin {"hello", "up"},
           NEW n \in Nodes, NEW p \in Nodes,
           Owner(conn[s], side) = n, PeerOf(conn[s], side) = p,
           starting' = [starting EXCEPT ![n] = @ \ {p}],
           sessions' = [sessions EXCEPT ![n][p] = IF @ = s THEN 0 ELSE @]
    PROVE  TablesHold' /\ HelloOnce' /\ TablesBack'
<1>1. /\ \A m \in Nodes : starting'[m] = IF m = n THEN starting[n] \ {p} ELSE starting[m]
      /\ \A m, q \in Nodes : sessions'[m][q] =
           IF m = n /\ q = p THEN IF sessions[n][p] = s THEN 0 ELSE sessions[n][p]
           ELSE sessions[m][q]
    BY DEF TypeOK
<1>2. \A t \in Slots, e \in Sides :
        conn'[t][e].phase \in {"hello", "up"} =>
          /\ ~(t = s /\ e = side) /\ conn'[t][e].phase = conn[t][e].phase
          /\ Owner(conn'[t], e) = Owner(conn[t], e) /\ PeerOf(conn'[t], e) = PeerOf(conn[t], e)
          /\ Owner(conn[t], e) \in Nodes /\ PeerOf(conn[t], e) \in Nodes
    BY DEF Others, Owner, PeerOf, EndsExact
<1>3. s /= 0
    BY SessionAssumption
<1>4. \A t \in Slots, e \in Sides :
        /\ conn[t][e].phase \in {"hello", "up"} /\ ~(t = s /\ e = side)
        => ~(Owner(conn[t], e) = n /\ PeerOf(conn[t], e) = p)
    <2> SUFFICES ASSUME NEW t \in Slots, NEW e \in Sides, conn[t][e].phase \in {"hello", "up"},
                        ~(t = s /\ e = side), Owner(conn[t], e) = n, PeerOf(conn[t], e) = p
                 PROVE  FALSE
        OBVIOUS
    <2>1. e = side /\ conn[s].from = conn[t].from /\ conn[s].to = conn[t].to /\ t /= 0
        BY SameEnd, SessionAssumption
    <2>2. CASE conn[t][e].phase = "hello" /\ conn[s][side].phase = "hello"
        BY <2>1, <2>2 DEF HelloOnce
    <2>3. CASE conn[t][e].phase = "up" /\ conn[s][side].phase = "up"
        BY <2>1, <2>3 DEF TablesHold
    <2>4. CASE conn[t][e].phase = "up" /\ conn[s][side].phase = "hello"
        BY <2>1, <2>4 DEF TablesHold, TablesBack
    <2>5. CASE conn[t][e].phase = "hello" /\ conn[s][side].phase = "up"
        BY <1>3, <2>5 DEF TablesHold, TablesBack
    <2> QED BY <2>2, <2>3, <2>4, <2>5
<1>5. TablesHold'
    <2> SUFFICES ASSUME NEW t \in Slots, NEW e \in Sides
                 PROVE  /\ conn'[t][e].phase = "hello" =>
                             PeerOf(conn'[t], e) \in starting'[Owner(conn'[t], e)]
                        /\ conn'[t][e].phase = "up" =>
                             sessions'[Owner(conn'[t], e)][PeerOf(conn'[t], e)] = t
        BY DEF TablesHold
    <2> QED BY <1>1, <1>2, <1>4 DEF TablesHold
<1>6. HelloOnce'
    BY <1>2 DEF HelloOnce, Others
<1>7. \A m, q \in Nodes : ~(m = n /\ q = p) =>
        Holds(m, q, "up")' = Holds(m, q, "up") /\ Holds(m, q, "hello")' = Holds(m, q, "hello")
    BY DEF Holds, Others, Owner, PeerOf
<1>8. sessions'[n][p] = 0
    <2> SUFFICES ASSUME sessions[n][p] /= s, sessions[n][p] /= 0 PROVE FALSE
        BY <1>1
    <2>1. PICK t \in Slots, e \in Sides : t = sessions[n][p] /\ Owner(conn[t], e) = n
             /\ PeerOf(conn[t], e) = p /\ conn[t][e].phase = "up"
        BY DEF TablesBack, Holds
    <2> QED BY <1>4, <2>1
<1>9. TablesBack'
    BY <1>1, <1>7, <1>8 DEF TablesBack
<1> QED BY <1>5, <1>6, <1>9

-----------------------------------------------------------------------------
(* Steps.                                                                  *)

\* How an end may move: a dialer's end is never new, and only ends of two
\* nodes are in a handshake or have a session.
LEMMA MovedEnds ==
    ASSUME EndsExact, NEW s \in Slots, NEW side \in Sides, NEW phase \in Phases,
           \A t \in Slots : conn'[t].from = conn[t].from /\ conn'[t].to = conn[t].to,
           \A t \in Slots, e \in Sides :
             conn'[t][e].phase = IF t = s /\ e = side THEN phase ELSE conn[t][e].phase,
           conn[s][side].phase /= "gone",
           side = "dial" => phase \in {"hello", "up", "closing", "gone"},
           phase \in {"hello", "up"} =>
             conn[s].from \in Nodes /\ conn[s].to \in Nodes /\ conn[s].from < conn[s].to
    PROVE  EndsExact'
<1> SUFFICES ASSUME NEW t \in Slots
             PROVE  /\ conn'[t].dial.phase \in {"hello", "up", "closing", "gone"}
                    /\ conn'[t].dial.phase /= "gone" => conn'[t].from \in Nodes /\ conn'[t].to \in Nodes
                    /\ conn'[t].listen.phase /= "gone" => conn'[t].to \in Nodes
                    /\ \A e \in Sides : conn'[t][e].phase \in {"hello", "up"} =>
                         conn'[t].from \in Nodes /\ conn'[t].to \in Nodes /\ conn'[t].from < conn'[t].to
    BY DEF EndsExact
<1>1. /\ conn'[t].dial.phase = IF t = s /\ side = "dial" THEN phase ELSE conn[t].dial.phase
      /\ conn'[t].listen.phase = IF t = s /\ side = "listen" THEN phase ELSE conn[t].listen.phase
    BY DEF Sides
<1>2. side = "dial" => conn[s].dial.phase /= "gone"
    OBVIOUS
<1>3. side = "listen" => conn[s].listen.phase /= "gone"
    OBVIOUS
<1>4. conn'[t].from = conn[t].from /\ conn'[t].to = conn[t].to
    OBVIOUS
<1>5. conn'[t].dial.phase \in {"hello", "up", "closing", "gone"}
    BY <1>1 DEF EndsExact
<1>6. conn'[t].dial.phase /= "gone" => conn'[t].from \in Nodes /\ conn'[t].to \in Nodes
    BY <1>1, <1>2, <1>4 DEF EndsExact
<1>7. conn'[t].listen.phase /= "gone" => conn'[t].to \in Nodes
    BY <1>1, <1>3, <1>4 DEF EndsExact
<1>8. \A e \in Sides : conn'[t][e].phase \in {"hello", "up"} =>
         conn'[t].from \in Nodes /\ conn'[t].to \in Nodes /\ conn'[t].from < conn'[t].to
    BY <1>4 DEF EndsExact
<1> QED BY <1>5, <1>6, <1>7, <1>8

\* The ends of a connection in use belong to nodes.
LEMMA EndOwned ==
    ASSUME TypeOK, EndsExact, NEW s \in Slots, NEW side \in Sides,
           conn[s][side].phase \in {"hello", "up"}
    PROVE  /\ Owner(conn[s], side) \in Nodes /\ PeerOf(conn[s], side) \in Nodes
           /\ conn[s].from \in Nodes /\ conn[s].to \in Nodes /\ conn[s].from < conn[s].to
BY DEF EndsExact, Owner, PeerOf

LEMMA ReceiveHelloInv ==
    ASSUME IInv, NEW s \in Slots, NEW side \in Sides, ReceiveHello(s, side)
    PROVE  IInv'
<1> USE DEF IInv
<1>1. conn[s][side].phase = "hello" /\ UNCHANGED <<running, inbound, faults>>
    BY DEF ReceiveHello
<1>2. PICK n \in Nodes, p \in Nodes : n = Owner(conn[s], side) /\ p = PeerOf(conn[s], side)
    BY <1>1, EndOwned
<1>3. /\ SetEnd(s, side, "up") /\ Wake(n)
      /\ sessions' = [sessions EXCEPT ![n][p] = s]
      /\ starting' = [starting EXCEPT ![n] = @ \ {p}]
    BY <1>2 DEF ReceiveHello
<1>4. /\ conn' \in [Slots -> Conn]
      /\ \A t \in Slots : conn'[t].from = conn[t].from /\ conn'[t].to = conn[t].to
      /\ \A t \in Slots, e \in Sides :
           /\ conn'[t][e].phase = IF t = s /\ e = side THEN "up" ELSE conn[t][e].phase
           /\ conn'[t][e].load = conn[t][e].load
    BY <1>3, SetEndExact DEF TypeOK, Phases
<1>5. TypeOK'
    BY <1>1, <1>3, <1>4, WakeExact DEF TypeOK
<1>6. EndsExact'
    BY <1>1, <1>4, EndOwned, MovedEnds DEF Phases
<1>7. TablesHold' /\ HelloOnce' /\ TablesBack'
    BY <1>1, <1>2, <1>3, <1>4, EnterUp DEF Others
<1>8. PlacesExact'
    <2>1. \A t \in Slots : conn'[t].listen.phase = conn[t].listen.phase
                           \/ (conn'[t].listen.phase = "up" /\ conn[t].listen.phase = "hello")
        BY <1>1, <1>4 DEF Sides
    <2>2. \A m \in Nodes : Places(m)' = Places(m)
        BY <1>4, <2>1 DEF Places
    <2> QED BY <1>1, <2>2, QuietPlaces
<1>9. NoMissedPeer'
    BY <1>3, <1>4, WakeExact, QuietWait DEF TypeOK
<1> QED BY <1>5, <1>6, <1>7, <1>8, <1>9

LEMMA ReceiveLoadInv ==
    ASSUME IInv, NEW s \in Slots, NEW side \in Sides, ReceiveLoad(s, side)
    PROVE  IInv'
<1> USE DEF IInv
<1>1. /\ conn[s][side].phase = "up" /\ conn' = [conn EXCEPT ![s][side].load = TRUE]
      /\ UNCHANGED <<running, starting, sessions, inbound, faults>>
    BY DEF ReceiveLoad
<1>2. PICK n \in Nodes : n = Owner(conn[s], side) /\ Wake(n)
    BY <1>1, EndOwned DEF ReceiveLoad
<1>3. /\ conn' \in [Slots -> Conn]
      /\ \A t \in Slots : conn'[t].from = conn[t].from /\ conn'[t].to = conn[t].to
      /\ \A t \in Slots, e \in Sides :
           /\ conn'[t][e].phase = conn[t][e].phase
           /\ ~(t = s /\ e = side) => conn'[t][e].load = conn[t][e].load
    <2>1. conn[s] \in Conn
        BY DEF TypeOK
    <2>2. CASE side = "dial"
        <3>1. conn' = [conn EXCEPT ![s] = [conn[s] EXCEPT !.dial = [conn[s].dial EXCEPT !.load = TRUE]]]
            BY <1>1, <2>2
        <3>2. [conn[s] EXCEPT !.dial = [conn[s].dial EXCEPT !.load = TRUE]] \in Conn
            BY <2>1 DEF Conn, Ends
        <3>3. conn' \in [Slots -> Conn]
            BY <3>1, <3>2 DEF TypeOK
        <3> QED BY <2>1, <2>2, <3>1, <3>3 DEF TypeOK, Conn, Ends, Sides
    <2>3. CASE side = "listen"
        <3>1. conn' = [conn EXCEPT ![s] = [conn[s] EXCEPT !.listen = [conn[s].listen EXCEPT !.load = TRUE]]]
            BY <1>1, <2>3
        <3>2. [conn[s] EXCEPT !.listen = [conn[s].listen EXCEPT !.load = TRUE]] \in Conn
            BY <2>1 DEF Conn, Ends
        <3>3. conn' \in [Slots -> Conn]
            BY <3>1, <3>2 DEF TypeOK
        <3> QED BY <2>1, <2>3, <3>1, <3>3 DEF TypeOK, Conn, Ends, Sides
    <2> QED BY <2>2, <2>3 DEF Sides
<1>4. TypeOK'
    BY <1>1, <1>2, <1>3, WakeExact DEF TypeOK
<1>5. \A t \in Slots : conn'[t].dial.phase = conn[t].dial.phase /\ conn'[t].listen.phase = conn[t].listen.phase
    BY <1>3 DEF Sides
<1>6. EndsExact'
    BY <1>3, <1>5 DEF EndsExact
<1>7. TablesHold' /\ HelloOnce' /\ TablesBack'
    BY <1>1, <1>3, QuietTables
<1>8. PlacesExact'
    <2>1. \A m \in Nodes : Places(m)' = Places(m)
        BY <1>3, <1>5 DEF Places
    <2> QED BY <1>1, <2>1, QuietPlaces
<1>9. NoMissedPeer'
    <2>1. \A m \in Nodes : waiter'[m] = "asleep" => m /= n /\ waiter[m] = "asleep"
        BY <1>2, WakeExact
    <2>2. \A m \in Nodes, t \in Slots, e \in Sides :
            m /= n /\ Owner(conn[t], e) = m => conn'[t][e].load = conn[t][e].load
        BY <1>2, <1>3
    <2>3. sessions' = sessions /\ \A t \in Slots : conn'[t].from = conn[t].from /\ conn'[t].to = conn[t].to
        BY <1>1, <1>3
    <2> HIDE DEF IInv
    <2> QED BY <2>1, <2>2, <2>3, QuietWait DEF IInv
<1> QED BY <1>4, <1>6, <1>7, <1>8, <1>9

\* The finally block of _serve.
LEMMA FinishInv ==
    ASSUME IInv, NEW s \in Slots, NEW side \in Sides, Serving(s, side), Finish(s, side),
           faults' \in 0..MaxFaults
    PROVE  IInv'
<1> USE DEF IInv
<1>1. conn[s][side].phase \in {"hello", "up"} /\ UNCHANGED <<running, inbound>>
    BY DEF Serving, Finish
<1>2. PICK n \in Nodes, p \in Nodes : n = Owner(conn[s], side) /\ p = PeerOf(conn[s], side)
    BY <1>1, EndOwned
<1>3. /\ SetEnd(s, side, "closing") /\ Wake(n)
      /\ sessions' = [sessions EXCEPT ![n][p] = IF @ = s THEN 0 ELSE @]
      /\ starting' = [starting EXCEPT ![n] = @ \ {p}]
    BY <1>2 DEF Finish
<1>4. /\ conn' \in [Slots -> Conn]
      /\ \A t \in Slots : conn'[t].from = conn[t].from /\ conn'[t].to = conn[t].to
      /\ \A t \in Slots, e \in Sides :
           /\ conn'[t][e].phase = IF t = s /\ e = side THEN "closing" ELSE conn[t][e].phase
           /\ conn'[t][e].load = conn[t][e].load
    BY <1>3, SetEndExact DEF TypeOK, Phases
<1>5. TypeOK'
    BY <1>1, <1>3, <1>4, WakeExact DEF TypeOK
<1>6. EndsExact'
    BY <1>1, <1>4, EndOwned, MovedEnds DEF Phases
<1>7. TablesHold' /\ HelloOnce' /\ TablesBack'
    <2>1. Others(s, side)
        BY <1>4 DEF Others
    <2>2. conn'[s][side].phase \notin {"hello", "up"}
        BY <1>4
    <2> QED BY <1>1, <1>2, <1>3, <2>1, <2>2, LeaveEnd
<1>8. PlacesExact'
    <2>1. \A t \in Slots : conn'[t].listen.phase = conn[t].listen.phase
            \/ (conn'[t].listen.phase = "closing" /\ conn[t].listen.phase \in {"hello", "up"})
        BY <1>1, <1>4 DEF Sides
    <2>2. \A m \in Nodes : Places(m)' = Places(m)
        BY <1>4, <2>1 DEF Places
    <2> QED BY <1>1, <2>2, QuietPlaces
<1>9. NoMissedPeer'
    BY <1>3, <1>4, WakeExact, QuietWait DEF TypeOK
<1> QED BY <1>5, <1>6, <1>7, <1>8, <1>9

LEMMA EndsInv ==
    ASSUME IInv, NEW s \in Slots, NEW side \in Sides,
           PeerLost(s, side) \/ SessionAged(s, side) \/ LateTimeout(s, side)
    PROVE  IInv'
<1>1. faults' \in 0..MaxFaults
    BY SessionAssumption DEF IInv, TypeOK, PeerLost, SessionAged, LateTimeout
<1>2. Serving(s, side) /\ Finish(s, side)
    BY DEF PeerLost, SessionAged, LateTimeout, Serving
<1> QED BY <1>1, <1>2, FinishInv

LEMMA TaskDoneInv ==
    ASSUME IInv, NEW s \in Slots, NEW side \in Sides, TaskDone(s, side)
    PROVE  IInv'
<1> USE DEF IInv
<1>1. conn[s][side].phase = "closing" /\ UNCHANGED <<running, starting, sessions, waiter, faults>>
    BY DEF TaskDone
<1>2. SetEnd(s, side, "gone")
    BY DEF TaskDone, SetEnd
<1>3. /\ conn' \in [Slots -> Conn]
      /\ \A t \in Slots : conn'[t].from = conn[t].from /\ conn'[t].to = conn[t].to
      /\ \A t \in Slots, e \in Sides :
           /\ conn'[t][e].phase = IF t = s /\ e = side THEN "gone" ELSE conn[t][e].phase
           /\ conn'[t][e].load = conn[t][e].load
    BY <1>2, SetEndExact DEF TypeOK, Phases
<1>4. EndsExact'
    BY <1>1, <1>3, MovedEnds DEF Phases
<1>5. TablesHold' /\ HelloOnce' /\ TablesBack'
    BY <1>1, <1>3, QuietTables
<1>6. NoMissedPeer'
    BY <1>1, <1>3, QuietWait
<1>7. CASE side = "dial"
    <2>1. inbound' = inbound
        BY <1>7 DEF TaskDone
    <2>2. \A m \in Nodes : Places(m)' = Places(m)
        BY <1>3, <1>7 DEF Places, Sides
    <2>3. PlacesExact'
        BY <2>1, <2>2, QuietPlaces
    <2>4. TypeOK'
        BY <1>1, <1>3, <2>1 DEF TypeOK
    <2> QED BY <1>4, <1>5, <1>6, <2>3, <2>4
<1>8. CASE side = "listen"
    <2>1. PICK b \in Nodes : b = conn[s].to
        BY <1>1, <1>8 DEF EndsExact
    <2>2. inbound' = [inbound EXCEPT ![b] = @ - 1]
        <3>1. [conn[s] EXCEPT ![side].phase = "gone"].to = conn[s].to
            BY <1>8 DEF TypeOK, Conn
        <3> QED BY <1>8, <2>1, <3>1 DEF TaskDone
    <2>3. \A m \in Nodes : Places(m)' = IF m = b THEN Places(b) \ {s} ELSE Places(m)
        BY <1>3, <1>8, <2>1 DEF Places, Sides
    <2>4. s \in Places(b)
        BY <1>1, <1>8, <2>1 DEF Places
    <2>5. Cardinality(Places(b) \ {s}) = Cardinality(Places(b)) - 1 /\ Cardinality(Places(b)) \in Nat
        BY <2>4, SessionAssumption, FS_Subset, FS_RemoveElement, FS_CardinalityType DEF Places
    <2>6. inbound[b] = Cardinality(Places(b))
        BY DEF PlacesExact, Places
    <2>7. Cardinality(Places(b) \ {s}) \in Nat
        BY <2>4, SessionAssumption, FS_Subset, FS_RemoveElement, FS_CardinalityType DEF Places
    <2>8. inbound' \in [Nodes -> Nat] /\ \A m \in Nodes : inbound'[m] = IF m = b THEN inbound[b] - 1 ELSE inbound[m]
        BY <2>2, <2>5, <2>6, <2>7 DEF TypeOK
    <2>9. PlacesExact'
        <3>1. \A m \in Nodes : inbound'[m] = Cardinality(Places(m)')
            BY <2>3, <2>5, <2>6, <2>8 DEF PlacesExact, Places
        <3>2. \A m \in Nodes : Cardinality(Nodes \ {m}) \in Nat
            BY SessionAssumption, FS_Subset, FS_CardinalityType
        <3>3. \A m \in Nodes : inbound[m] \in Nat /\ inbound[m] <= Cardinality(Nodes \ {m})
            BY DEF PlacesExact, TypeOK
        <3>4. ASSUME NEW m \in Nodes PROVE inbound'[m] <= Cardinality(Nodes \ {m})
            <4> DEFINE c == Cardinality(Nodes \ {m})
            <4>1. c \in Nat /\ inbound[m] \in Nat /\ inbound[m] <= c
                BY <3>2, <3>3
            <4>2. inbound'[m] = inbound[m] - 1 \/ inbound'[m] = inbound[m]
                BY <2>8
            <4> HIDE DEF c
            <4>3. inbound'[m] <= c
                BY <4>1, <4>2
            <4> QED BY <4>3 DEF c
        <3> QED BY <3>1, <3>4 DEF PlacesExact, Places
    <2>10. TypeOK'
        BY <1>1, <1>3, <2>8 DEF TypeOK
    <2> QED BY <1>4, <1>5, <1>6, <2>9, <2>10
<1> QED BY <1>7, <1>8 DEF Sides

LEMMA IncomingInv ==
    ASSUME IInv, NEW s \in Slots, Incoming(s)
    PROVE  IInv'
<1> USE DEF IInv
<1>1. conn[s].listen.phase = "new" /\ UNCHANGED <<running, starting, sessions, waiter, faults>>
    BY DEF Incoming
<1>2. PICK b \in Nodes : b = conn[s].to
    BY <1>1 DEF EndsExact
<1>3. PICK phase \in {"gone", "accepted"} :
        /\ SetEnd(s, "listen", phase)
        /\ phase = "gone" => inbound' = inbound
        /\ phase = "accepted" => /\ ~(inbound[b] >= Cardinality(Nodes \ {b}))
                                 /\ inbound' = [inbound EXCEPT ![b] = @ + 1]
    BY <1>2 DEF Incoming
<1>4. /\ conn' \in [Slots -> Conn]
      /\ \A t \in Slots : conn'[t].from = conn[t].from /\ conn'[t].to = conn[t].to
      /\ \A t \in Slots, e \in Sides :
           /\ conn'[t][e].phase = IF t = s /\ e = "listen" THEN phase ELSE conn[t][e].phase
           /\ conn'[t][e].load = conn[t][e].load
    BY <1>3, SetEndExact DEF TypeOK, Phases, Sides
<1>5. EndsExact'
    BY <1>1, <1>4, MovedEnds DEF Phases, Sides
<1>6. TablesHold' /\ HelloOnce' /\ TablesBack'
    BY <1>1, <1>4, QuietTables
<1>7. NoMissedPeer'
    BY <1>1, <1>4, QuietWait
<1>8. \A t \in Slots : conn'[t].listen.phase = IF t = s THEN phase ELSE conn[t].listen.phase
    BY <1>4 DEF Sides
<1>9. CASE phase = "gone"
    <2>1. inbound' = inbound
        BY <1>3, <1>9
    <2>2. \A m \in Nodes : Places(m)' = Places(m)
        BY <1>1, <1>4, <1>8, <1>9 DEF Places
    <2>3. PlacesExact'
        BY <2>1, <2>2, QuietPlaces
    <2>4. TypeOK'
        BY <1>1, <1>4, <2>1 DEF TypeOK
    <2> QED BY <1>5, <1>6, <1>7, <2>3, <2>4
<1>10. CASE phase = "accepted"
    <2>1. \A m \in Nodes : Places(m)' = IF m = b THEN Places(b) \cup {s} ELSE Places(m)
        BY <1>2, <1>4, <1>8, <1>10 DEF Places
    <2>2. s \notin Places(b)
        BY <1>1 DEF Places
    <2>3. Cardinality(Places(b) \cup {s}) = Cardinality(Places(b)) + 1
        BY <2>2, SessionAssumption, FS_Subset, FS_AddElement DEF Places
    <2>4. \A m \in Nodes : inbound[m] = Cardinality(Places(m)) /\ inbound[m] <= Cardinality(Nodes \ {m})
        BY DEF PlacesExact, Places
    <2>5. inbound' \in [Nodes -> Nat] /\ \A m \in Nodes : inbound'[m] = IF m = b THEN inbound[b] + 1 ELSE inbound[m]
        BY <1>3, <1>10 DEF TypeOK
    <2>6. \A m \in Nodes : Cardinality(Nodes \ {m}) \in Nat
        BY SessionAssumption, FS_Subset, FS_CardinalityType
    <2>7. ASSUME NEW m \in Nodes PROVE inbound'[m] <= Cardinality(Nodes \ {m})
        <3> DEFINE c == Cardinality(Nodes \ {m})
        <3>1. c \in Nat /\ inbound[m] \in Nat /\ inbound[m] <= c
            BY <2>4, <2>6 DEF TypeOK
        <3>2. m = b => ~(inbound[m] >= c)
            BY <1>3, <1>10
        <3>3. inbound'[m] = IF m = b THEN inbound[m] + 1 ELSE inbound[m]
            BY <2>5
        <3> HIDE DEF c
        <3>4. inbound'[m] <= c
            BY <3>1, <3>2, <3>3
        <3> QED BY <3>4 DEF c
    <2>8. \A m \in Nodes : inbound'[m] = Cardinality(Places(m)')
        BY <2>1, <2>3, <2>4, <2>5
    <2>9. PlacesExact'
        BY <2>7, <2>8 DEF PlacesExact, Places
    <2>10. TypeOK'
        BY <1>1, <1>4, <2>5 DEF TypeOK
    <2> QED BY <1>5, <1>6, <1>7, <2>9, <2>10
<1> QED BY <1>9, <1>10

LEMMA ServeInboundInv ==
    ASSUME IInv, NEW s \in Slots, ServeInbound(s)
    PROVE  IInv'
<1> USE DEF IInv
<1>1. conn[s].listen.phase = "accepted" /\ UNCHANGED <<running, sessions, inbound, faults>>
    BY DEF ServeInbound
<1>2. PICK b \in Nodes : b = conn[s].to
    BY <1>1 DEF EndsExact
<1>3. CASE Authorized(conn[s], "listen") /\ ~Reserved(b, conn[s].from)
    <2>1. /\ conn' = [conn EXCEPT ![s].listen.phase = "hello", ![s].listen.told = TRUE]
          /\ starting' = [starting EXCEPT ![b] = @ \cup {conn[s].from}] /\ waiter' = waiter
        BY <1>2, <1>3 DEF ServeInbound
    <2>2. PICK a \in Nodes : a = conn[s].from /\ a < b
        BY <1>2, <1>3 DEF Authorized, Pinned, PeerOf
    <2>3. /\ conn' \in [Slots -> Conn]
          /\ \A t \in Slots : conn'[t].from = conn[t].from /\ conn'[t].to = conn[t].to
          /\ \A t \in Slots, e \in Sides :
               /\ conn'[t][e].phase = IF t = s /\ e = "listen" THEN "hello" ELSE conn[t][e].phase
               /\ conn'[t][e].load = conn[t][e].load
        <3> DEFINE new == [conn[s] EXCEPT !.listen = [conn[s].listen EXCEPT !.phase = "hello", !.told = TRUE]]
        <3>1. conn[s] \in Conn
            BY DEF TypeOK
        <3>2. conn' = [conn EXCEPT ![s] = new]
            BY <2>1
        <3>3. new \in Conn
            BY <3>1 DEF Conn, Ends, Phases
        <3>4. conn' \in [Slots -> Conn]
            BY <3>2, <3>3 DEF TypeOK
        <3> QED BY <3>1, <3>2, <3>4 DEF TypeOK, Conn, Ends, Sides
    <2>4. TypeOK'
        BY <1>1, <1>2, <2>1, <2>2, <2>3 DEF TypeOK
    <2>5. EndsExact'
        BY <1>1, <1>2, <2>2, <2>3, MovedEnds DEF Phases, Sides
    <2>6. TablesHold' /\ HelloOnce' /\ TablesBack'
        <3>1. Others(s, "listen")
            BY <2>3 DEF Others
        <3>2. Owner(conn'[s], "listen") = b /\ PeerOf(conn'[s], "listen") = a /\ conn'[s]["listen"].phase = "hello"
            BY <1>2, <2>2, <2>3 DEF Owner, PeerOf, Sides
        <3>3. "listen" \in Sides /\ conn[s]["listen"].phase \notin {"hello", "up"} /\ ~Reserved(b, a)
            BY <1>1, <1>3, <2>2 DEF Sides
        <3>4. starting' = [starting EXCEPT ![b] = @ \cup {a}] /\ sessions' = sessions
            BY <1>1, <2>1, <2>2
        <3> QED BY <2>5, <3>1, <3>2, <3>3, <3>4, EnterHello
    <2>7. PlacesExact'
        <3>1. \A t \in Slots : conn'[t].listen.phase = IF t = s THEN "hello" ELSE conn[t].listen.phase
            BY <2>3 DEF Sides
        <3>2. \A m \in Nodes : Places(m)' = Places(m)
            BY <1>1, <2>3, <3>1 DEF Places
        <3> QED BY <1>1, <3>2, QuietPlaces
    <2>8. NoMissedPeer'
        BY <1>1, <2>1, <2>3, QuietWait
    <2> QED BY <2>4, <2>5, <2>6, <2>7, <2>8
<1>4. CASE ~(Authorized(conn[s], "listen") /\ ~Reserved(b, conn[s].from))
    <2>1. SetEnd(s, "listen", "closing") /\ Wake(b) /\ starting' = starting
        BY <1>2, <1>4 DEF ServeInbound
    <2>2. /\ conn' \in [Slots -> Conn]
          /\ \A t \in Slots : conn'[t].from = conn[t].from /\ conn'[t].to = conn[t].to
          /\ \A t \in Slots, e \in Sides :
               /\ conn'[t][e].phase = IF t = s /\ e = "listen" THEN "closing" ELSE conn[t][e].phase
               /\ conn'[t][e].load = conn[t][e].load
        BY <2>1, SetEndExact DEF TypeOK, Phases, Sides
    <2>3. TypeOK'
        BY <1>1, <2>1, <2>2, WakeExact DEF TypeOK
    <2>4. EndsExact'
        BY <1>1, <2>2, MovedEnds DEF Phases, Sides
    <2>5. TablesHold' /\ HelloOnce' /\ TablesBack'
        BY <1>1, <2>1, <2>2, QuietTables
    <2>6. PlacesExact'
        <3>1. \A t \in Slots : conn'[t].listen.phase = IF t = s THEN "closing" ELSE conn[t].listen.phase
            BY <2>2 DEF Sides
        <3>2. \A m \in Nodes : Places(m)' = Places(m)
            BY <1>1, <2>2, <3>1 DEF Places
        <3> QED BY <1>1, <3>2, QuietPlaces
    <2>7. NoMissedPeer'
        BY <1>1, <2>1, <2>2, WakeExact, QuietWait
    <2> QED BY <2>3, <2>4, <2>5, <2>6, <2>7
<1> QED BY <1>3, <1>4

-----------------------------------------------------------------------------
(* Slots.                                                                  *)

\* A slot whose ends are over, or that a connection comes into, is in no table
\* and holds no place.
LEMMA SlotInv ==
    ASSUME IInv, NEW s \in Slots, NEW c \in Conn, conn' = [conn EXCEPT ![s] = c],
           conn[s].dial.phase = "gone", conn[s].listen.phase = "gone",
           c.dial.phase \in {"hello", "gone"}, c.listen.phase \in {"new", "gone"},
           c.dial.phase /= "gone" => c.from \in Nodes /\ c.to \in Nodes /\ c.from < c.to,
           c.listen.phase /= "gone" => c.to \in Nodes,
           inbound' = inbound, sessions' = sessions, waiter' = waiter
    PROVE  /\ conn' \in [Slots -> Conn] /\ EndsExact' /\ PlacesExact' /\ NoMissedPeer'
           /\ Others(s, "dial") /\ conn'[s] = c
           /\ \A t \in Slots \ {s} : conn'[t] = conn[t]
<1> USE DEF IInv
<1>1. conn' \in [Slots -> Conn] /\ conn'[s] = c /\ \A t \in Slots \ {s} : conn'[t] = conn[t]
    BY DEF TypeOK
<1>2. conn[s]["dial"].phase = "gone" /\ conn[s]["listen"].phase = "gone" /\ c["listen"].phase \in {"new", "gone"}
    OBVIOUS
<1>3. Others(s, "dial")
    BY <1>1, <1>2 DEF Others, Sides
<1>4. EndsExact'
    <2> SUFFICES ASSUME NEW t \in Slots
                 PROVE  /\ conn'[t].dial.phase \in {"hello", "up", "closing", "gone"}
                        /\ conn'[t].dial.phase /= "gone" => conn'[t].from \in Nodes /\ conn'[t].to \in Nodes
                        /\ conn'[t].listen.phase /= "gone" => conn'[t].to \in Nodes
                        /\ \A e \in Sides : conn'[t][e].phase \in {"hello", "up"} =>
                             conn'[t].from \in Nodes /\ conn'[t].to \in Nodes /\ conn'[t].from < conn'[t].to
        BY DEF EndsExact
    <2>1. CASE t = s
        BY <1>1, <1>2, <2>1 DEF Sides
    <2>2. CASE t /= s
        BY <1>1, <2>2 DEF EndsExact
    <2> QED BY <2>1, <2>2
<1>5. PlacesExact'
    <2>1. \A m \in Nodes : Places(m)' = Places(m)
        BY <1>1 DEF Places
    <2> QED BY <2>1, QuietPlaces
<1>6. NoMissedPeer'
    <2>1. \A n \in Nodes, p \in Nodes : sessions[n][p] /= s
        BY <1>2, TableUp DEF Sides
    <2> QED BY <1>1, <2>1, QuietWait
<1> QED BY <1>1, <1>3, <1>4, <1>5, <1>6

LEMMA ConnectInv ==
    ASSUME IInv, NEW a \in Nodes, NEW b \in Nodes, Connect(a, b)
    PROVE  IInv'
<1> USE DEF IInv
<1> DEFINE c == [from |-> a, to |-> b, cut |-> FALSE,
                 dial |-> [End("hello") EXCEPT !.told = TRUE], listen |-> End("new")]
<1>1. PICK s \in Slots : conn[s] = Free /\ conn' = [conn EXCEPT ![s] = c]
    BY DEF Connect
<1>2. /\ a < b /\ ~Reserved(a, b) /\ starting' = [starting EXCEPT ![a] = @ \cup {b}]
      /\ UNCHANGED <<running, sessions, inbound, waiter, faults>>
    BY DEF Connect
<1>3. /\ c \in Conn /\ c.from = a /\ c.to = b
      /\ c.dial.phase = "hello" /\ c["dial"].phase = "hello" /\ c.listen.phase = "new"
    BY DEF Conn, Ends, End, Phases
<1> HIDE DEF c
<1>4. conn[s].dial.phase = "gone" /\ conn[s].listen.phase = "gone" /\ conn[s]["dial"].phase = "gone"
    BY <1>1 DEF Free, End
<1>5. /\ conn' \in [Slots -> Conn] /\ EndsExact' /\ PlacesExact' /\ NoMissedPeer'
      /\ Others(s, "dial") /\ conn'[s] = c
    BY <1>1, <1>2, <1>3, <1>4, SlotInv
<1>6. TypeOK'
    BY <1>2, <1>5 DEF TypeOK
<1>7. TablesHold' /\ HelloOnce' /\ TablesBack'
    <2>1. Owner(conn'[s], "dial") = a /\ PeerOf(conn'[s], "dial") = b /\ conn'[s]["dial"].phase = "hello"
        BY <1>3, <1>5 DEF Owner, PeerOf
    <2>2. "dial" \in Sides /\ conn[s]["dial"].phase \notin {"hello", "up"}
        BY <1>4 DEF Sides
    <2> QED BY <1>2, <1>5, <2>1, <2>2, EnterHello
<1> QED BY <1>5, <1>6, <1>7

LEMMA QuietSlotInv ==
    ASSUME IInv, NEW s \in Slots, Recycle(s) \/ (\E b \in Nodes : StrangerConnects(b) /\
             conn' = [conn EXCEPT ![s] = [from |-> Stranger, to |-> b, cut |-> FALSE,
                        dial |-> End("gone"), listen |-> End("new")]] /\ conn[s] = Free)
    PROVE  IInv'
<1> USE DEF IInv
<1>1. /\ UNCHANGED <<running, starting, sessions, inbound, waiter>> /\ faults' \in 0..MaxFaults
    BY SessionAssumption DEF Recycle, StrangerConnects, TypeOK
<1>2. PICK c \in Conn : /\ conn' = [conn EXCEPT ![s] = c] /\ c.dial.phase = "gone"
                        /\ c["dial"].phase = "gone"
                        /\ c.listen.phase \in {"new", "gone"} /\ c["listen"].phase \in {"new", "gone"}
                        /\ c.listen.phase /= "gone" => c.to \in Nodes
    <2>1. CASE Recycle(s)
        BY <2>1 DEF Recycle, Free, End, Conn, Ends, Phases
    <2>2. CASE ~Recycle(s)
        <3>1. PICK b \in Nodes : conn' = [conn EXCEPT ![s] = [from |-> Stranger, to |-> b, cut |-> FALSE,
                                            dial |-> End("gone"), listen |-> End("new")]]
            BY <2>2
        <3> DEFINE c == [from |-> Stranger, to |-> b, cut |-> FALSE, dial |-> End("gone"), listen |-> End("new")]
        <3>2. /\ c \in Conn /\ c.dial.phase = "gone" /\ c["dial"].phase = "gone"
              /\ c.listen.phase = "new" /\ c["listen"].phase = "new" /\ c.to \in Nodes
            BY DEF End, Conn, Ends, Phases
        <3> QED BY <3>1, <3>2
    <2> QED BY <2>1, <2>2
<1>3. conn[s].dial.phase = "gone" /\ conn[s].listen.phase = "gone"
      /\ conn[s]["dial"].phase = "gone" /\ conn[s]["listen"].phase = "gone"
    BY DEF Recycle, Sides, Free, End
<1>4. /\ conn' \in [Slots -> Conn] /\ EndsExact' /\ PlacesExact' /\ NoMissedPeer'
      /\ conn'[s] = c /\ \A t \in Slots \ {s} : conn'[t] = conn[t]
    BY <1>1, <1>2, <1>3, SlotInv
<1>5. TypeOK'
    BY <1>1, <1>4 DEF TypeOK
<1>6. TablesHold' /\ HelloOnce' /\ TablesBack'
    <2>1. \A e \in Sides : conn[s][e].phase \notin {"hello", "up"} /\ conn'[s][e].phase \notin {"hello", "up"}
        BY <1>2, <1>3, <1>4 DEF Sides
    <2> QED BY <1>1, <1>4, <2>1, QuietTables
<1> QED BY <1>4, <1>5, <1>6

LEMMA CutInv ==
    ASSUME IInv, NEW s \in Slots, Cut(s)
    PROVE  IInv'
<1> USE DEF IInv
<1>1. /\ conn' = [conn EXCEPT ![s].cut = TRUE] /\ faults' \in 0..MaxFaults
      /\ UNCHANGED <<running, starting, sessions, inbound, waiter>>
    BY SessionAssumption DEF Cut, TypeOK
<1>2. /\ conn' \in [Slots -> Conn]
      /\ \A t \in Slots : /\ conn'[t].from = conn[t].from /\ conn'[t].to = conn[t].to
                          /\ conn'[t].dial = conn[t].dial /\ conn'[t].listen = conn[t].listen
    <2>1. conn[s] \in Conn
        BY DEF TypeOK
    <2>2. [conn[s] EXCEPT !.cut = TRUE] \in Conn
        BY <2>1 DEF Conn
    <2>3. conn' = [conn EXCEPT ![s] = [conn[s] EXCEPT !.cut = TRUE]]
        BY <1>1
    <2> QED BY <2>1, <2>2, <2>3 DEF TypeOK, Conn
<1>3. \A t \in Slots, e \in Sides : conn'[t][e] = conn[t][e]
    BY <1>2 DEF Sides
<1>4. TypeOK'
    BY <1>1, <1>2 DEF TypeOK
<1>5. EndsExact'
    BY <1>2, <1>3 DEF EndsExact
<1>6. TablesHold' /\ HelloOnce' /\ TablesBack'
    BY <1>1, <1>2, <1>3, QuietTables
<1>7. PlacesExact'
    <2>1. \A m \in Nodes : Places(m)' = Places(m)
        BY <1>2 DEF Places
    <2> QED BY <1>1, <2>1, QuietPlaces
<1>8. NoMissedPeer'
    BY <1>1, <1>2, <1>3, QuietWait
<1> QED BY <1>4, <1>5, <1>6, <1>7, <1>8

\* A node stops: its ends are gone and its tables are empty.
LEMMA StopInv ==
    ASSUME IInv, NEW n \in Nodes, Stop(n)
    PROVE  IInv'
<1> USE DEF IInv
<1>1. PICK silent \in BOOLEAN : conn' = [s \in Slots |->
        [conn[s] EXCEPT !.dial.phase = IF conn[s].from = n THEN "gone" ELSE @,
                        !.listen.phase = IF conn[s].to = n THEN "gone" ELSE @,
                        !.cut = @ \/ (silent /\ n \in {conn[s].from, conn[s].to})]]
    BY DEF Stop
<1>2. /\ \A m \in Nodes : starting'[m] = IF m = n THEN {} ELSE starting[m]
      /\ \A m, p \in Nodes : sessions'[m][p] = IF m = n THEN 0 ELSE sessions[m][p]
      /\ \A m \in Nodes : m /= n => sessions'[m] = sessions[m]
      /\ inbound' \in [Nodes -> Nat] /\ \A m \in Nodes : inbound'[m] = IF m = n THEN 0 ELSE inbound[m]
      /\ \A m \in Nodes : waiter'[m] = IF m = n THEN "none" ELSE waiter[m]
    BY DEF Stop, TypeOK
<1>3. ASSUME NEW s \in Slots
      PROVE  /\ conn'[s] \in Conn /\ conn'[s].from = conn[s].from /\ conn'[s].to = conn[s].to
             /\ conn'[s].dial.phase = IF conn[s].from = n THEN "gone" ELSE conn[s].dial.phase
             /\ conn'[s].listen.phase = IF conn[s].to = n THEN "gone" ELSE conn[s].listen.phase
             /\ conn'[s].dial.load = conn[s].dial.load /\ conn'[s].listen.load = conn[s].listen.load
    <2>1. PICK c \in Conn : c = conn[s]
        BY DEF TypeOK
    <2> DEFINE d == IF c.from = n THEN "gone" ELSE c.dial.phase
               l == IF c.to = n THEN "gone" ELSE c.listen.phase
               cut == c.cut \/ (silent /\ n \in {c.from, c.to})
    <2>2. d \in Phases /\ l \in Phases /\ cut \in BOOLEAN
        BY DEF Conn, Ends, Phases
    <2>3. conn'[s] = [c EXCEPT !.dial.phase = d, !.listen.phase = l, !.cut = cut]
        BY <1>1, <2>1
    <2>4. d = (IF conn[s].from = n THEN "gone" ELSE conn[s].dial.phase)
          /\ l = (IF conn[s].to = n THEN "gone" ELSE conn[s].listen.phase)
        BY <2>1
    <2> HIDE DEF d, l, cut
    <2> DEFINE dial == [c.dial EXCEPT !.phase = d]
               listen == [c.listen EXCEPT !.phase = l]
    <2>5. /\ dial \in Ends /\ dial.phase = d /\ dial.load = c.dial.load
          /\ listen \in Ends /\ listen.phase = l /\ listen.load = c.listen.load
        BY <2>2 DEF Conn, Ends
    <2>6. conn'[s] = [c EXCEPT !.dial = dial, !.listen = listen, !.cut = cut]
        BY <2>3
    <2> HIDE DEF dial, listen
    <2>7. /\ conn'[s] \in Conn /\ conn'[s].from = c.from /\ conn'[s].to = c.to
          /\ conn'[s].dial.phase = d /\ conn'[s].listen.phase = l
          /\ conn'[s].dial.load = c.dial.load /\ conn'[s].listen.load = c.listen.load
        BY <2>2, <2>5, <2>6 DEF Conn
    <2> QED BY <2>1, <2>4, <2>7
<1>4. \A s \in Slots, e \in Sides :
        /\ conn'[s].from = conn[s].from /\ conn'[s].to = conn[s].to
        /\ conn'[s][e].phase = IF Owner(conn[s], e) = n THEN "gone" ELSE conn[s][e].phase
        /\ conn'[s][e].load = conn[s][e].load
        /\ Owner(conn'[s], e) = Owner(conn[s], e) /\ PeerOf(conn'[s], e) = PeerOf(conn[s], e)
    BY <1>3 DEF Sides, Owner, PeerOf
<1>5. TypeOK'
    <2>1. conn' \in [Slots -> Conn]
        BY <1>1, <1>3
    <2>2. faults' \in 0..MaxFaults /\ running' \subseteq Nodes
        <3>1. faults < MaxFaults /\ faults' = faults + 1 /\ running' = running \ {n}
            BY DEF Stop
        <3>2. faults \in 0..MaxFaults /\ running \subseteq Nodes
            BY DEF TypeOK
        <3> QED BY <3>1, <3>2, SessionAssumption
    <2>3. /\ starting' \in [Nodes -> SUBSET Nodes] /\ waiter' \in [Nodes -> {"none", "asleep", "woken"}]
        BY DEF Stop, TypeOK
    <2>4. sessions' \in [Nodes -> [Nodes -> Slots \cup {0}]]
        <3>1. sessions' = [sessions EXCEPT ![n] = [p \in Nodes |-> 0]]
            BY DEF Stop
        <3>2. [p \in Nodes |-> 0] \in [Nodes -> Slots \cup {0}]
            OBVIOUS
        <3> QED BY <3>1, <3>2 DEF TypeOK
    <2> QED BY <1>2, <2>1, <2>2, <2>3, <2>4 DEF TypeOK
<1>6. EndsExact'
    <2>1. \A s \in Slots : /\ conn'[s].dial.phase = conn[s].dial.phase \/ conn'[s].dial.phase = "gone"
                           /\ conn'[s].listen.phase = conn[s].listen.phase \/ conn'[s].listen.phase = "gone"
                           /\ conn'[s].from = conn[s].from /\ conn'[s].to = conn[s].to
        BY <1>3
    <2>2. \A s \in Slots, e \in Sides :
            conn'[s][e].phase = conn[s][e].phase \/ conn'[s][e].phase = "gone"
        BY <1>4
    <2> QED BY <2>1, <2>2 DEF EndsExact
<1>7. TablesHold'
    BY <1>2, <1>4, EndOwned DEF TablesHold
<1>8. HelloOnce'
    BY <1>4 DEF HelloOnce
<1>9. TablesBack'
    <2>1. \A m, p \in Nodes, phase \in {"hello", "up"} : m /= n => Holds(m, p, phase)' = Holds(m, p, phase)
        BY <1>4 DEF Holds
    <2> QED BY <1>2, <2>1 DEF TablesBack
<1>10. PlacesExact'
    <2>1. \A m \in Nodes : Places(m)' = IF m = n THEN {} ELSE Places(m)
        BY <1>3 DEF Places
    <2>2. Cardinality({}) = 0 /\ \A m \in Nodes : Cardinality(Nodes \ {m}) \in Nat
        BY SessionAssumption, FS_EmptySet, FS_Subset, FS_CardinalityType
    <2>3. \A m \in Nodes : inbound[m] = Cardinality(Places(m)) /\ inbound[m] <= Cardinality(Nodes \ {m})
        BY DEF PlacesExact, Places
    <2>4. \A m \in Nodes : inbound'[m] = Cardinality(Places(m)') /\ inbound'[m] <= Cardinality(Nodes \ {m})
        <3> SUFFICES ASSUME NEW m \in Nodes
                     PROVE  inbound'[m] = Cardinality(Places(m)') /\ inbound'[m] <= Cardinality(Nodes \ {m})
            OBVIOUS
        <3>1. CASE m = n
            <4>1. inbound'[m] = 0 /\ Places(m)' = {}
                BY <1>2, <2>1, <3>1
            <4>2. Cardinality(Places(m)') = 0
                BY <2>2, <4>1
            <4>3. 0 <= Cardinality(Nodes \ {m})
                BY <2>2
            <4> QED BY <4>1, <4>2, <4>3
        <3>2. CASE m /= n
            BY <1>2, <2>1, <2>3, <3>2
        <3> QED BY <3>1, <3>2
    <2> QED BY <2>4 DEF PlacesExact, Places
<1>11. NoMissedPeer'
    BY <1>2, <1>4, QuietWait
<1> QED BY <1>5, <1>6, <1>7, <1>8, <1>9, <1>10, <1>11

\* Nothing happens to the connections and the tables.
LEMMA SameConn ==
    ASSUME IInv, UNCHANGED <<conn, starting, sessions, inbound>>
    PROVE  EndsExact' /\ TablesHold' /\ HelloOnce' /\ TablesBack' /\ PlacesExact'
<1>1. EndsExact'
    BY DEF IInv, EndsExact
<1>2. TablesHold' /\ HelloOnce' /\ TablesBack'
    BY QuietTables DEF IInv
<1>3. \A m \in Nodes : Places(m)' = Places(m)
    BY DEF Places
<1>4. PlacesExact'
    BY <1>3, QuietPlaces DEF IInv
<1> QED BY <1>1, <1>2, <1>4

\* A node starts, or looks whether its peers are there.
LEMMA NodeInv ==
    ASSUME IInv, NEW n \in Nodes, Start(n) \/ WaitForPeers(n)
    PROVE  IInv'
<1> USE DEF IInv
<1>1. UNCHANGED <<conn, starting, sessions, inbound, faults>>
    BY DEF Start, WaitForPeers
<1>2. running' \subseteq Nodes /\ waiter' \in [Nodes -> {"none", "asleep", "woken"}]
    BY DEF Start, WaitForPeers, TypeOK, Present
<1>3. TypeOK'
    BY <1>1, <1>2 DEF TypeOK
<1>4. EndsExact' /\ TablesHold' /\ HelloOnce' /\ TablesBack' /\ PlacesExact'
    BY <1>1, SameConn
<1>5. NoMissedPeer'
    <2>1. \A m \in Nodes : Ready(m)' <=> Ready(m)
        BY <1>1 DEF Ready
    <2>2. \A m \in Nodes : waiter'[m] = "asleep" => waiter[m] = "asleep" \/ ~Ready(m)
        BY DEF Start, WaitForPeers, TypeOK
    <2> QED BY <2>1, <2>2 DEF NoMissedPeer
<1> QED BY <1>3, <1>4, <1>5

-----------------------------------------------------------------------------
(* The invariant.                                                          *)

LEMMA StutterInv == ASSUME IInv, UNCHANGED vars PROVE IInv'
<1>1. UNCHANGED <<conn, running, starting, sessions, inbound, waiter, faults>>
    BY DEF vars
<1>2. TypeOK'
    BY <1>1 DEF IInv, TypeOK
<1>3. EndsExact' /\ TablesHold' /\ HelloOnce' /\ TablesBack' /\ PlacesExact'
    BY <1>1, SameConn
<1>4. NoMissedPeer'
    BY <1>1, QuietWait DEF IInv
<1> QED BY <1>2, <1>3, <1>4 DEF IInv

LEMMA NextInv == ASSUME IInv, [Next]_vars PROVE IInv'
<1>1. CASE UNCHANGED vars
    BY <1>1, StutterInv
<1>2. CASE \E a, b \in Nodes : Connect(a, b)
    BY <1>2, ConnectInv
<1>3. CASE \E n \in Nodes : StrangerConnects(n) \/ Stop(n) \/ Start(n) \/ WaitForPeers(n)
    <2>1. ASSUME NEW b \in Nodes, StrangerConnects(b) PROVE IInv'
        <3>1. PICK s \in Slots : /\ conn[s] = Free
                                 /\ conn' = [conn EXCEPT ![s] = [from |-> Stranger, to |-> b, cut |-> FALSE,
                                               dial |-> End("gone"), listen |-> End("new")]]
            BY <2>1 DEF StrangerConnects
        <3> QED BY <2>1, <3>1, QuietSlotInv
    <2> QED BY <1>3, <2>1, StopInv, NodeInv
<1>4. CASE \E s \in Slots : Incoming(s) \/ ServeInbound(s) \/ Recycle(s) \/ Cut(s)
    BY <1>4, IncomingInv, ServeInboundInv, QuietSlotInv, CutInv
<1>5. CASE \E s \in Slots, side \in Sides :
             Step(s, side) \/ SessionAged(s, side) \/ LateTimeout(s, side)
    BY <1>5, ReceiveHelloInv, ReceiveLoadInv, TaskDoneInv, EndsInv DEF Step
<1> QED BY <1>1, <1>2, <1>3, <1>4, <1>5 DEF Next

\* The inductive invariant: the ends of the connections and the tables of their
\* nodes say the same.
THEOREM Invariance == Spec => []IInv
<1>1. IInv /\ [Next]_vars => IInv'
    BY NextInv
<1> QED BY InitInv, <1>1, PTL DEF Spec

\* _serve, _incoming and their finally blocks: the tables of a node name exactly
\* the connections that serve its peers, one each, and every place of its
\* listener is held by a connection, of strangers and refused ones, too.
THEOREM ConnectionsAreAccounted == Spec => []ConnectionsAccounted
<1>1. ASSUME IInv PROVE ConnectionsAccounted
    <2> USE <1>1 DEF IInv
    <2>1. ASSUME NEW n \in Nodes, NEW p \in Nodes
          PROVE  Holds(n, p, "up") = {sessions[n][p]} \ {0}
        <3>1. \A s \in Holds(n, p, "up") : s = sessions[n][p] /\ s /= 0
            BY SessionAssumption DEF Holds, TablesHold
        <3> QED BY <3>1 DEF TablesBack
    <2>2. ASSUME NEW n \in Nodes, NEW p \in Nodes
          PROVE  Cardinality(Holds(n, p, "hello")) = IF p \in starting[n] THEN 1 ELSE 0
        <3>1. CASE p \in starting[n]
            <4>1. PICK s : s \in Holds(n, p, "hello")
                BY <3>1 DEF TablesBack
            <4>2. \A t \in Holds(n, p, "hello") : t = s
                <5> SUFFICES ASSUME NEW t \in Holds(n, p, "hello") PROVE t = s
                    OBVIOUS
                <5>1. PICK e \in Sides : s \in Slots /\ Owner(conn[s], e) = n /\ PeerOf(conn[s], e) = p
                                         /\ conn[s][e].phase = "hello"
                    BY <4>1 DEF Holds
                <5>2. PICK f \in Sides : t \in Slots /\ Owner(conn[t], f) = n /\ PeerOf(conn[t], f) = p
                                         /\ conn[t][f].phase = "hello"
                    BY DEF Holds
                <5>3. e = f /\ conn[s].from = conn[t].from /\ conn[s].to = conn[t].to
                    BY <5>1, <5>2, SameEnd
                <5> QED BY <5>1, <5>2, <5>3 DEF HelloOnce
            <4>3. Holds(n, p, "hello") = {s}
                BY <4>1, <4>2
            <4>4. Cardinality({s}) = 1
                BY FS_Singleton
            <4> QED BY <3>1, <4>3, <4>4
        <3>2. CASE p \notin starting[n]
            <4>1. Holds(n, p, "hello") = {}
                BY <3>2 DEF Holds, TablesHold
            <4>2. Cardinality({}) = 0
                BY FS_EmptySet
            <4> QED BY <3>2, <4>1, <4>2
        <3> QED BY <3>1, <3>2
    <2>3. \A n, p \in Nodes : ~(p \in starting[n] /\ sessions[n][p] /= 0)
        BY DEF TablesBack
    <2>4. TablesExact
        BY <2>1, <2>2, <2>3 DEF TablesExact
    <2> QED BY <2>4 DEF ConnectionsAccounted
<1> QED BY Invariance, <1>1, PTL

\* wait_for_peers: a call that sleeps is not ready, whatever connects, is
\* replaced, stops or is late meanwhile: every change it waits for wakes it.
THEOREM WaitersAreWoken == Spec => []NoMissedPeer
<1>1. IInv => NoMissedPeer
    BY DEF IInv
<1> QED BY Invariance, <1>1, PTL
=============================================================================
