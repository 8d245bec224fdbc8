------------------------------ MODULE SimProofs ------------------------------
(***************************************************************************)
(* Proofs about Swarm, for any number of nodes, any priorities, any timing *)
(* and any faults: the camera follows the view, a camera has one chain of  *)
(* ticks, the detector is as fast as its timeout allows and trusts the     *)
(* living, and one camera is on once nothing has changed for long enough.  *)
(*                                                                         *)
(* IInv says what the first two leave open: no tick is of an epoch the     *)
(* camera has not reached, so the epoch start_camera bumps to is fresh,    *)
(* and stale ticks cannot join the new chain.  TInv adds where simulated   *)
(* time stands: when the last heartbeats of each node were sent, which of  *)
(* them have been heard, and what the last look at an overdue peer saw.    *)
(*                                                                         *)
(* Then about Frames, for any number of nodes, frames and deaths and any   *)
(* queue limit: queues count what will finish, frames are processed and    *)
(* learned once at most.                                                   *)
(***************************************************************************)
EXTENDS Swarm, Frames, FiniteSetTheorems, TLAPS

Current(n) == {t \in ticks[n] : t.epoch = cameraEpoch[n]}

Shapes ==
  /\ alive \subseteq Nodes
  /\ suspected \in [Nodes -> SUBSET Nodes]
  /\ wasLeader \in [Nodes -> BOOLEAN]
  /\ cameraOn \in [Nodes -> BOOLEAN]
  /\ cameraEpoch \in [Nodes -> Nat]
  /\ ticks \in [Nodes -> SUBSET [at : Int, epoch : Nat]]
  /\ now \in Int

NoFutureTick == \A n \in Nodes : \A t \in ticks[n] : t.epoch <= cameraEpoch[n]

OneChain == \A n \in Nodes : cameraOn[n] => \E t \in ticks[n] : Current(n) = {t}

IInv == Shapes /\ NoFutureTick /\ OneChain /\ RoleFollowsView

-----------------------------------------------------------------------------
\* What the detector's accuracy rests on, in simulated time.
Timing ==
  /\ now \in 0..MaxTime
  /\ lastSeen \in [Nodes -> [Nodes -> Int]]
  /\ \A n, p \in Nodes : lastSeen[n][p] \in 0..now
  /\ beatAt \in [Nodes -> Int]
  /\ \A n \in Nodes : beatAt[n] \in now..(now + Interval)
  /\ wire \subseteq [from : Nodes, to : Nodes, at : Int]
  /\ \A m \in wire : m.from # m.to /\ m.at \in now..(now + Delay)
  /\ changed \in [Nodes -> Int]
  /\ lostAt \in [Nodes -> [Nodes -> Int]]

Bounds ==
  /\ faults \in 0..MaxFaults /\ losses \in 0..MaxLosses
  /\ \A n \in Nodes : \A t \in ticks[n] : t.at \in now..(now + Period) /\ t.epoch >= 1

\* Beats are Interval apart, from the first one on.
Phase ==
  \A n \in Nodes : \/ beatAt[n] \in {FirstBeat(n), FirstBeat(n) + Interval}
                   \/ beatAt[n] >= FirstBeat(n) + 2 * Interval

\* The dead are heard for Delay after their death at most, unless the listener
\* was revived or died since.
Silence ==
  /\ \A n \in Nodes, p \in Nodes \ alive :
       p # n => lastSeen[n][p] <= changed[p] + Delay \/ lastSeen[n][p] <= changed[n]
  /\ \A m \in wire : m.from \notin alive => m.at <= changed[m.from] + Delay

\* At its last beat a live node had heard everybody it still trusts in time.
Watch ==
  \A n \in alive, p \in Nodes : p # n /\ p \notin suspected[n] =>
    beatAt[n] - Interval - lastSeen[n][p] <= Timeout

\* A suspect has not been heard for the timeout.
Doubt ==
  \A n \in Nodes : \A p \in suspected[n] : p # n /\ now - lastSeen[n][p] > Timeout

\* The heartbeat p sent at b reaches every node that is alive.
Heartbeat(p, n, b) == [from |-> p, to |-> n, at |-> b + Delay]
Reaches(p, n, b) ==
  \/ Heartbeat(p, n, b) \in wire
  \/ b + Delay <= now /\ (n \in alive => lastSeen[n][p] >= b + Delay)

\* It does so for the last two beats of a live node.
Heard ==
  \A p \in alive, n \in Nodes :
    \A b \in {beatAt[p] - Interval, beatAt[p] - 2 * Interval} :
      n # p /\ b >= FirstBeat(p) /\ changed[p] < b /\ lostAt[n][p] < b => Reaches(p, n, b)

TInv == IInv /\ Timing /\ Bounds /\ Phase /\ Silence /\ Watch /\ Doubt /\ Heard

-----------------------------------------------------------------------------
LEMMA InitInv == Init => IInv
<1> SUFFICES ASSUME Init PROVE IInv
  OBVIOUS
<1> USE DEF Init
<1>1. Shapes
  BY DEF Shapes, IsLeader
<1>2. NoFutureTick
  BY DEF NoFutureTick
<1>3. OneChain
  <2> SUFFICES ASSUME NEW n \in Nodes, cameraOn[n] PROVE \E t \in ticks[n] : Current(n) = {t}
    BY DEF OneChain
  <2> DEFINE first == [at |-> 0, epoch |-> 1]
  <2>1. wasLeader[n]
    OBVIOUS
  <2>2. ticks[n] = {first} /\ cameraEpoch[n] = 1
    BY <2>1
  <2>3. Current(n) = {first}
    BY <2>2 DEF Current
  <2> QED BY <2>2, <2>3
<1>4. RoleFollowsView
  <2> SUFFICES ASSUME NEW n \in Nodes
               PROVE  /\ n \in alive => wasLeader[n] = IsLeader(n, suspected[n])
                      /\ cameraOn[n] <=> n \in alive /\ wasLeader[n]
    BY DEF RoleFollowsView
  <2>1. suspected[n] = {} /\ wasLeader[n] = IsLeader(n, {})
    OBVIOUS
  <2> QED BY <2>1
<1> QED BY <1>1, <1>2, <1>3, <1>4 DEF IInv

\* What a handler at n may do to the camera keeps the chain, whatever becomes
\* of the role.
LEMMA RoleKeepsChain ==
  ASSUME IInv, NEW n \in Nodes, NEW suspects \in SUBSET Nodes, TakeRole(n, suspects)
  PROVE  /\ wasLeader' = [wasLeader EXCEPT ![n] = IsLeader(n, suspects)]
         /\ cameraOn' = [cameraOn EXCEPT ![n] = IsLeader(n, suspects)]
         /\ wasLeader' \in [Nodes -> BOOLEAN] /\ cameraOn' \in [Nodes -> BOOLEAN]
         /\ cameraEpoch' \in [Nodes -> Nat]
         /\ ticks' \in [Nodes -> SUBSET [at : Int, epoch : Nat]]
         /\ NoFutureTick' /\ OneChain'
<1> USE DEF IInv, Shapes
<1>0. wasLeader' = [wasLeader EXCEPT ![n] = IsLeader(n, suspects)] /\ wasLeader' \in [Nodes -> BOOLEAN]
  BY DEF TakeRole, IsLeader
<1>1. CASE StopCamera(n) /\ ~IsLeader(n, suspects)
  <2>1. /\ cameraOn' = [cameraOn EXCEPT ![n] = FALSE]
        /\ cameraEpoch' = cameraEpoch /\ ticks' = ticks
    BY <1>1 DEF StopCamera
  <2>2. cameraOn' = [cameraOn EXCEPT ![n] = IsLeader(n, suspects)]
    <3>1. IsLeader(n, suspects) = FALSE
      BY <1>1 DEF IsLeader
    <3> QED BY <2>1, <3>1
  <2>3. NoFutureTick'
    BY <2>1 DEF NoFutureTick
  <2>4. ASSUME NEW m \in Nodes, cameraOn'[m] PROVE \E t \in ticks'[m] : Current(m)' = {t}
    <3>1. cameraOn[m] /\ ticks'[m] = ticks[m] /\ cameraEpoch'[m] = cameraEpoch[m]
      BY <2>1, <2>4
    <3> QED BY <3>1 DEF OneChain, Current
  <2>5. OneChain'
    BY <2>4 DEF OneChain
  <2>6. cameraOn' \in [Nodes -> BOOLEAN]
    BY <2>1
  <2> QED BY <1>0, <2>1, <2>2, <2>3, <2>5, <2>6
<1>2. CASE StartCamera(n) /\ IsLeader(n, suspects)
  <2>1. cameraOn' = [cameraOn EXCEPT ![n] = TRUE]
    BY <1>2 DEF StartCamera
  <2>2. cameraOn' = [cameraOn EXCEPT ![n] = IsLeader(n, suspects)]
    <3>1. IsLeader(n, suspects) = TRUE
      BY <1>2 DEF IsLeader
    <3> QED BY <2>1, <3>1
  <2>3. CASE cameraOn[n]
    <3>1. cameraEpoch' = cameraEpoch /\ ticks' = ticks /\ cameraOn' = cameraOn
      BY <1>2, <2>1, <2>3 DEF StartCamera
    <3>2. NoFutureTick' /\ OneChain'
      BY <3>1 DEF NoFutureTick, OneChain, Current
    <3> QED BY <1>0, <2>2, <3>1, <3>2
  <2>4. CASE ~cameraOn[n]
    <3> DEFINE fresh == [at |-> now, epoch |-> cameraEpoch[n] + 1]
    <3>1. /\ cameraEpoch' = [cameraEpoch EXCEPT ![n] = @ + 1]
          /\ ticks' = [ticks EXCEPT ![n] = @ \cup {fresh}]
      BY <1>2, <2>4 DEF StartCamera
    <3>2. fresh \in [at : Int, epoch : Nat]
      OBVIOUS
    <3>3. cameraEpoch' \in [Nodes -> Nat] /\ ticks' \in [Nodes -> SUBSET [at : Int, epoch : Nat]]
      BY <3>1, <3>2
    <3>4. NoFutureTick'
      BY <3>1, <3>2 DEF NoFutureTick
    <3>5. ASSUME NEW m \in Nodes, cameraOn'[m] PROVE \E t \in ticks'[m] : Current(m)' = {t}
      <4>1. CASE m = n
        <5>1. \A t \in ticks[n] : t.epoch # cameraEpoch[n] + 1
          BY DEF NoFutureTick
        <5>2. ticks'[n] = ticks[n] \cup {fresh} /\ cameraEpoch'[n] = cameraEpoch[n] + 1
          BY <3>1
        <5>3. Current(n)' = {fresh}
          BY <5>1, <5>2 DEF Current
        <5> QED BY <4>1, <5>2, <5>3
      <4>2. CASE m # n
        <5>1. ticks'[m] = ticks[m] /\ cameraEpoch'[m] = cameraEpoch[m] /\ cameraOn[m]
          BY <2>1, <3>1, <3>5, <4>2
        <5> QED BY <5>1 DEF OneChain, Current
      <4> QED BY <4>1, <4>2
    <3>6. OneChain'
      BY <3>5 DEF OneChain
    <3>7. cameraOn' \in [Nodes -> BOOLEAN]
      BY <2>1
    <3> QED BY <1>0, <2>2, <3>3, <3>4, <3>6, <3>7
  <2> QED BY <2>3, <2>4
<1> QED BY <1>1, <1>2 DEF TakeRole

\* The role that follows from the new view is the one the view gives.
LEMMA RoleKeepsFollowing ==
  ASSUME IInv, NEW n \in Nodes, NEW suspects \in SUBSET Nodes,
         wasLeader' = [wasLeader EXCEPT ![n] = IsLeader(n, suspects)],
         cameraOn' = [cameraOn EXCEPT ![n] = IsLeader(n, suspects)],
         suspected' = [suspected EXCEPT ![n] = suspects],
         alive' = alive \cup {n}
  PROVE  RoleFollowsView'
<1> USE DEF IInv, Shapes
<1> SUFFICES ASSUME NEW m \in Nodes
             PROVE  /\ m \in alive' => wasLeader'[m] = IsLeader(m, suspected'[m])
                    /\ cameraOn'[m] <=> m \in alive' /\ wasLeader'[m]
  BY DEF RoleFollowsView, IsLeader, Leader, LiveMembers
<1>1. CASE m = n
  <2>1. /\ wasLeader'[n] = IsLeader(n, suspects) /\ cameraOn'[n] = IsLeader(n, suspects)
        /\ suspected'[n] = suspects /\ n \in alive'
    OBVIOUS
  <2> QED BY <1>1, <2>1
<1>2. CASE m # n
  <2>1. /\ wasLeader'[m] = wasLeader[m] /\ cameraOn'[m] = cameraOn[m]
        /\ suspected'[m] = suspected[m] /\ (m \in alive' <=> m \in alive)
    BY <1>2
  <2>2. /\ m \in alive => wasLeader[m] = IsLeader(m, suspected[m])
        /\ cameraOn[m] <=> m \in alive /\ wasLeader[m]
    BY DEF RoleFollowsView
  <2> QED BY <2>1, <2>2
<1> QED BY <1>1, <1>2

\* Nothing but the clock and the rest of the world moves.
LEMMA IdleKeepsInv ==
  ASSUME IInv, UNCHANGED <<alive, suspected, camera>>, now' \in Int
  PROVE  IInv'
BY DEF IInv, Shapes, camera, NoFutureTick, OneChain, Current, RoleFollowsView, IsLeader, Leader, LiveMembers

-----------------------------------------------------------------------------
LEMMA BeatKeepsInv ==
  ASSUME IInv, NEW n \in Nodes, NEW lost \in SUBSET Nodes, Beat(n, lost)
  PROVE  IInv'
<1> USE DEF Beat
<1>0. now' = now /\ alive' = alive /\ now \in Int
  BY DEF IInv, Shapes
<1>1. CASE n \notin alive
  BY <1>0, <1>1, IdleKeepsInv
<1>2. CASE n \in alive /\ Overdue(n) = {}
  <2>1. UNCHANGED camera /\ suspected' = [suspected EXCEPT ![n] = @ \cup {}]
    BY <1>2 DEF Suspect
  <2>2. suspected' = suspected
    BY <2>1 DEF IInv, Shapes
  <2> QED BY <1>0, <2>1, <2>2, IdleKeepsInv
<1>3. CASE n \in alive /\ Overdue(n) # {}
  <2> DEFINE suspects == suspected[n] \cup Overdue(n)
  <2>1. suspects \in SUBSET Nodes
    BY DEF IInv, Shapes, Overdue
  <2>2. suspected' = [suspected EXCEPT ![n] = suspects] /\ suspected' \in [Nodes -> SUBSET Nodes]
    BY <1>3, <2>1 DEF Suspect, IInv, Shapes
  <2>3. suspected'[n] = suspects
    BY <2>2 DEF IInv, Shapes
  <2>4. TakeRole(n, suspects)
    BY <1>3, <2>3 DEF Suspect
  <2>5. alive' = alive \cup {n}
    BY <1>0, <1>3
  <2> HIDE DEF suspects
  <2>6. RoleFollowsView'
    BY <2>1, <2>2, <2>4, <2>5, RoleKeepsChain, RoleKeepsFollowing
  <2> QED BY <1>0, <2>1, <2>2, <2>4, <2>6, RoleKeepsChain DEF IInv, Shapes
<1> QED BY <1>1, <1>2, <1>3

LEMMA HandleKeepsInv ==
  ASSUME IInv, NEW m \in wire, Handle(m)
  PROVE  IInv'
<1> DEFINE n == m.to
           suspects == suspected[n] \ {m.from}
<1>0. now' = now /\ alive' = alive /\ now \in Int
  BY DEF Handle, clock, IInv, Shapes
<1>1. CASE n \notin alive
  <2>1. UNCHANGED <<suspected, camera>>
    BY <1>1 DEF Handle, view
  <2> QED BY <1>0, <2>1, IdleKeepsInv
<1>2. CASE n \in alive
  <2>1. n \in Nodes /\ suspects \in SUBSET Nodes /\ alive' = alive \cup {n}
    BY <1>0, <1>2 DEF IInv, Shapes
  <2>2. suspected' = [suspected EXCEPT ![n] = suspects] /\ suspected' \in [Nodes -> SUBSET Nodes]
    BY <1>2, <2>1 DEF Handle, IInv, Shapes
  <2>3. suspected'[n] = suspects
    BY <2>1, <2>2 DEF IInv, Shapes
  <2>4. CASE m.from \notin suspected[n]
    <3>1. suspected' = suspected
      BY <2>1, <2>2, <2>4 DEF IInv, Shapes
    <3>2. UNCHANGED camera
      BY <1>2, <2>4 DEF Handle
    <3> QED BY <1>0, <3>1, <3>2, IdleKeepsInv
  <2>5. CASE m.from \in suspected[n]
    <3>1. TakeRole(n, suspects)
      BY <1>2, <2>3, <2>5 DEF Handle
    <3> HIDE DEF suspects, n
    <3>2. RoleFollowsView'
      BY <2>1, <2>2, <3>1, RoleKeepsChain, RoleKeepsFollowing
    <3> QED BY <1>0, <2>1, <2>2, <3>1, <3>2, RoleKeepsChain DEF IInv, Shapes
  <2> QED BY <2>4, <2>5
<1> QED BY <1>1, <1>2

LEMMA ReviveKeepsInv ==
  ASSUME IInv, NEW n \in Nodes, Revive(n)
  PROVE  IInv'
<1> DEFINE none == {}
<1>1. /\ none \in SUBSET Nodes
      /\ TakeRole(n, none) /\ alive' = alive \cup {n} /\ now' = now
      /\ suspected' = [suspected EXCEPT ![n] = none]
  BY DEF Revive, Fault
<1> HIDE DEF none
<1>2. suspected' \in [Nodes -> SUBSET Nodes] /\ alive' \subseteq Nodes /\ now' \in Int
  BY <1>1 DEF IInv, Shapes
<1>3. RoleFollowsView'
  BY <1>1, RoleKeepsChain, RoleKeepsFollowing
<1> QED BY <1>1, <1>2, <1>3, RoleKeepsChain DEF IInv, Shapes

LEMMA KillKeepsInv ==
  ASSUME IInv, NEW n \in Nodes, Kill(n)
  PROVE  IInv'
<1>1. /\ alive' = alive \ {n} /\ now' = now
      /\ cameraOn' = [cameraOn EXCEPT ![n] = FALSE]
      /\ wasLeader' = [wasLeader EXCEPT ![n] = FALSE]
      /\ suspected' = suspected /\ cameraEpoch' = cameraEpoch /\ ticks' = ticks
  BY DEF Kill, Fault, view
<1>2. Shapes' /\ NoFutureTick'
  BY <1>1 DEF IInv, Shapes, NoFutureTick
<1>3. ASSUME NEW m \in Nodes, cameraOn'[m] PROVE \E t \in ticks'[m] : Current(m)' = {t}
  <2>1. cameraOn[m]
    BY <1>1, <1>3 DEF IInv, Shapes
  <2> QED BY <1>1, <2>1 DEF IInv, OneChain, Current
<1>4. ASSUME NEW m \in Nodes
      PROVE  /\ m \in alive' => wasLeader'[m] = IsLeader(m, suspected'[m])
             /\ cameraOn'[m] <=> m \in alive' /\ wasLeader'[m]
  <2>1. CASE m = n
    <3>1. ~cameraOn'[m] /\ m \notin alive'
      BY <1>1, <2>1 DEF IInv, Shapes
    <3> QED BY <3>1
  <2>2. CASE m # n
    <3>1. /\ wasLeader'[m] = wasLeader[m] /\ cameraOn'[m] = cameraOn[m]
          /\ suspected'[m] = suspected[m] /\ (m \in alive' <=> m \in alive)
      BY <1>1, <2>2 DEF IInv, Shapes
    <3>2. /\ m \in alive => wasLeader[m] = IsLeader(m, suspected[m])
          /\ cameraOn[m] <=> m \in alive /\ wasLeader[m]
      BY DEF IInv, RoleFollowsView
    <3> QED BY <3>1, <3>2
  <2> QED BY <2>1, <2>2
<1>5. OneChain'
  BY <1>3 DEF OneChain
<1>6. RoleFollowsView'
  BY <1>4 DEF RoleFollowsView, IsLeader, Leader, LiveMembers
<1> QED BY <1>2, <1>5, <1>6 DEF IInv

LEMMA TickKeepsInv ==
  ASSUME IInv, NEW n \in Nodes, NEW t \in ticks[n], CameraTick(n, t)
  PROVE  IInv'
<1> DEFINE goesOn == n \in alive /\ cameraOn[n] /\ t.epoch = cameraEpoch[n]
           succ == [at |-> now + Period, epoch |-> t.epoch]
<1> USE DEF IInv, Shapes
<1>1. /\ UNCHANGED <<now, alive, suspected, wasLeader, cameraOn, cameraEpoch>>
      /\ ticks' = [ticks EXCEPT ![n] = (@ \ {t}) \cup (IF goesOn THEN {succ} ELSE {})]
  BY DEF CameraTick, clock, view
<1>2. t \in [at : Int, epoch : Nat] /\ succ \in [at : Int, epoch : Nat]
  BY TimeAssumption
<1>3. ticks'[n] = (ticks[n] \ {t}) \cup (IF goesOn THEN {succ} ELSE {})
  BY <1>1
<1> HIDE DEF goesOn
<1>4. Shapes'
  <2>1. ticks'[n] \in SUBSET [at : Int, epoch : Nat]
    BY <1>2, <1>3
  <2>2. ticks' \in [Nodes -> SUBSET [at : Int, epoch : Nat]]
    BY <1>1, <1>2, <2>1
  <2> QED BY <1>1, <2>2
<1>5. NoFutureTick'
  <2> SUFFICES ASSUME NEW m \in Nodes, NEW u \in ticks'[m] PROVE u.epoch <= cameraEpoch[m]
    BY <1>1 DEF NoFutureTick
  <2>1. u \in ticks[m] \/ (m = n /\ u = succ)
    BY <1>1, <1>3
  <2>2. t.epoch <= cameraEpoch[n]
    BY DEF NoFutureTick
  <2> QED BY <2>1, <2>2 DEF NoFutureTick
<1>6. ASSUME NEW m \in Nodes, cameraOn'[m] PROVE \E u \in ticks'[m] : Current(m)' = {u}
  <2>1. PICK u \in ticks[m] : Current(m) = {u}
    BY <1>1, <1>6 DEF OneChain
  <2>2. CASE m # n
    <3>1. ticks'[m] = ticks[m] /\ cameraEpoch'[m] = cameraEpoch[m]
      BY <1>1, <2>2
    <3> QED BY <2>1, <3>1 DEF Current
  <2>3. CASE m = n /\ t.epoch = cameraEpoch[n]
    <3>1. u = t
      BY <2>1, <2>3 DEF Current
    <3>2. n \in alive
      BY <1>1, <1>6, <2>3 DEF RoleFollowsView
    <3>3. goesOn
      BY <1>1, <1>6, <2>3, <3>2 DEF goesOn
    <3>4. ticks'[n] = (ticks[n] \ {t}) \cup {succ} /\ cameraEpoch'[n] = cameraEpoch[n]
      BY <1>1, <1>3, <3>3
    <3>5. Current(n)' = {succ}
      BY <2>1, <2>3, <3>1, <3>4 DEF Current
    <3> QED BY <2>3, <3>4, <3>5
  <2>4. CASE m = n /\ t.epoch # cameraEpoch[n]
    <3>1. ~goesOn
      BY <2>4 DEF goesOn
    <3>2. ticks'[n] = ticks[n] \ {t} /\ cameraEpoch'[n] = cameraEpoch[n]
      BY <1>1, <1>3, <3>1
    <3>3. u # t
      BY <2>1, <2>4 DEF Current
    <3> QED BY <2>1, <2>4, <3>2, <3>3 DEF Current
  <2> QED BY <2>2, <2>3, <2>4
<1>7. OneChain'
  BY <1>6 DEF OneChain
<1>8. RoleFollowsView'
  BY <1>1 DEF RoleFollowsView, IsLeader, Leader, LiveMembers
<1> QED BY <1>4, <1>5, <1>7, <1>8

LEMMA NextKeepsInv ==
  ASSUME IInv, [Next]_vars
  PROVE  IInv'
<1>1. ASSUME NEW n \in Nodes, NEW lost \in SUBSET Nodes, Beat(n, lost) PROVE IInv'
  BY <1>1, BeatKeepsInv
<1>2. ASSUME NEW m \in wire, Handle(m) PROVE IInv'
  BY <1>2, HandleKeepsInv
<1>3. ASSUME NEW n \in Nodes, Kill(n) PROVE IInv'
  BY <1>3, KillKeepsInv
<1>4. ASSUME NEW n \in Nodes, Revive(n) PROVE IInv'
  BY <1>4, ReviveKeepsInv
<1>5. ASSUME NEW n \in Nodes, NEW t \in ticks[n], CameraTick(n, t) PROVE IInv'
  BY <1>5, TickKeepsInv
<1>6. CASE Advance
  BY <1>6, IdleKeepsInv DEF Advance, view, IInv, Shapes
<1>7. CASE UNCHANGED vars
  BY <1>7, IdleKeepsInv DEF vars, view, clock, IInv, Shapes
<1> QED BY <1>1, <1>2, <1>3, <1>4, <1>5, <1>6, <1>7 DEF Next

\* Every reachable state satisfies the inductive invariant: the events of
\* membership.py, core.py and strategies.py keep it one by one.
THEOREM Invariant == Spec => []IInv
<1> QED BY InitInv, NextKeepsInv, PTL DEF Spec

\* A live node's camera and its record of leadership follow its view of the
\* swarm at every moment, for every swarm, timing and pattern of faults
\* (_ensure_role after every suspicion, readmission and revival; Node.kill).
THEOREM RoleAlwaysFollows == Spec => []RoleFollowsView
<1>1. IInv => RoleFollowsView
  BY DEF IInv
<1> QED BY <1>1, Invariant, PTL

\* A camera that is on has exactly one chain of ticks, however often it was
\* stopped and started between two of them (start_camera's epoch, _tick).
THEOREM ChainAlwaysOne == Spec => []OneTickChain
<1>1. ASSUME IInv, NEW n \in Nodes, cameraOn[n]
      PROVE  Cardinality({t \in ticks[n] : t.epoch = cameraEpoch[n]}) = 1
  <2>1. PICK t \in ticks[n] : Current(n) = {t}
    BY <1>1 DEF IInv, OneChain
  <2> QED BY <2>1, FS_Singleton DEF Current
<1>2. IInv => OneTickChain
  BY <1>1 DEF OneTickChain
<1> QED BY <1>2, Invariant, PTL

-----------------------------------------------------------------------------
(* The detector. *)

LEMMA Parameters ==
  /\ Interval \in Nat \ {0} /\ Delay \in Nat /\ Timeout \in Nat /\ MaxTime \in Nat /\ Period \in Nat
  /\ Interval <= Timeout /\ Delay < Interval
  /\ \A n \in Nodes : FirstBeat(n) \in 0..Interval /\ FirstBeat(n) + Delay <= Timeout
<1> USE TimeAssumption, NAssumption, DelayAssumption
<1>1. Timeout \in Nat /\ Interval <= Timeout
  <2>1. ASSUME NEW i \in Nat, NEW k \in Nat \ {0} PROVE i * k \in Nat /\ i <= i * k
    OBVIOUS
  <2> QED BY <2>1 DEF Timeout
<1>2. ASSUME NEW n \in Nodes PROVE FirstBeat(n) \in 0..Interval
  <2>1. n \in Nat /\ n < N /\ n * Interval \in Nat
    BY DEF Nodes
  <2>2. n * Interval < N * Interval
    BY <2>1
  <2>3. FirstBeat(n) \in Int /\ 0 <= FirstBeat(n) /\ N * FirstBeat(n) <= n * Interval
    BY <2>1 DEF FirstBeat
  <2>4. N * FirstBeat(n) < N * Interval
    BY <2>1, <2>2, <2>3
  <2>5. FirstBeat(n) < Interval
    BY <2>3, <2>4
  <2> QED BY <2>3, <2>5
<1> QED BY <1>1, <1>2

LEMMA TimedInit == Init => TInv
<1> SUFFICES ASSUME Init PROVE TInv
  OBVIOUS
<1>0. IInv
  BY InitInv
<1> USE DEF Init
<1> USE Parameters
<1>1. Timing
  BY DEF Timing, Never
<1>2. Bounds
  BY BoundAssumption DEF Bounds
<1>3. Phase /\ Silence /\ Watch /\ Doubt
  BY DEF Phase, Silence, Watch, Doubt
<1>4. Heard
  BY DEF Heard
<1> QED BY <1>0, <1>1, <1>2, <1>3, <1>4 DEF TInv

\* What a view of the swarm and its clocks say of time.
Detector == Timing /\ Phase /\ Silence /\ Watch /\ Doubt /\ Heard

\* A dead node's beat, a tick and whatever else leaves the detector alone.
LEMMA DetectorAlone ==
  ASSUME Detector, UNCHANGED <<now, alive, lastSeen, suspected, beatAt, wire, changed, lostAt>>
  PROVE  Detector'
BY DEF Detector, Timing, Phase, Silence, Watch, Doubt, Heard, Reaches, Heartbeat

LEMMA DeadBeatDetector ==
  ASSUME IInv, Detector, NEW n \in Nodes \ alive, beatAt[n] = now,
         beatAt' = [beatAt EXCEPT ![n] = now + Interval],
         UNCHANGED <<now, alive, lastSeen, suspected, wire, changed, lostAt>>
  PROVE  Detector'
<1> USE Parameters DEF Detector
<1>1. beatAt' \in [Nodes -> Int] /\ beatAt'[n] = now + Interval /\ \A p \in Nodes \ {n} : beatAt'[p] = beatAt[p]
  BY DEF Timing
<1>2. Timing'
  BY <1>1 DEF Timing
<1>3. Phase'
  BY <1>1 DEF Phase, Timing
<1>4. Silence' /\ Watch' /\ Doubt'
  BY <1>1 DEF Silence, Watch, Doubt
<1>5. Heard'
  <2>1. \A p \in alive : beatAt'[p] = beatAt[p]
    BY <1>1 DEF IInv, Shapes
  <2>2. \A p, m, b : Reaches(p, m, b)' = Reaches(p, m, b)
    BY DEF Reaches, Heartbeat
  <2> QED BY <2>1, <2>2 DEF Heard
<1> QED BY <1>2, <1>3, <1>4, <1>5

LEMMA BeatDetector ==
  ASSUME IInv, Detector, NEW n \in Nodes, NEW lost \in SUBSET Nodes, Beat(n, lost), n \notin lost
  PROVE  Detector'
<1> USE Parameters DEF Detector
<1>1. CASE n \notin alive
  BY <1>1, DeadBeatDetector DEF Beat
<1>2. CASE n \in alive
  <2> DEFINE sent == [from : {n}, to : Nodes \ (lost \cup {n}), at : {now + Delay}]
  <2>1. /\ beatAt[n] = now /\ beatAt' = [beatAt EXCEPT ![n] = now + Interval]
        /\ wire' = wire \cup sent
        /\ lostAt' = [m \in Nodes |-> IF m \in lost THEN [lostAt[m] EXCEPT ![n] = now] ELSE lostAt[m]]
        /\ suspected' = [suspected EXCEPT ![n] = @ \cup Overdue(n)]
        /\ UNCHANGED <<now, alive, lastSeen, changed>>
    BY <1>2 DEF Beat, Broadcast, Suspect
  <2>2. /\ beatAt' \in [Nodes -> Int] /\ beatAt'[n] = now + Interval
        /\ \A p \in Nodes \ {n} : beatAt'[p] = beatAt[p]
        /\ now \in Int
    BY <2>1 DEF Timing
  <2>3. /\ suspected'[n] = suspected[n] \cup Overdue(n)
        /\ \A m \in Nodes \ {n} : suspected'[m] = suspected[m]
    BY <2>1 DEF IInv, Shapes
  <2>4. lostAt' \in [Nodes -> [Nodes -> Int]]
    BY <2>1, <2>2 DEF Timing
  <2>5. \A m \in Nodes, p \in Nodes :
          lostAt'[m][p] = IF m \in lost /\ p = n THEN now ELSE lostAt[m][p]
    BY <2>1, <2>2 DEF Timing
  <2>6. \A m \in sent : /\ m \in [from : Nodes, to : Nodes, at : Int]
                         /\ m.from = n /\ m.to # n /\ m.at = now + Delay
    BY <2>2
  <2> HIDE DEF sent
  <2>7. Timing'
    BY <2>1, <2>2, <2>4, <2>6 DEF Timing
  <2>8. Phase'
    BY <2>1, <2>2 DEF Phase
  <2>9. Silence'
    BY <1>2, <2>1, <2>6 DEF Silence
  <2>10. Watch'
    <3> SUFFICES ASSUME NEW m \in alive, NEW p \in Nodes, p # m, p \notin suspected'[m]
                 PROVE  beatAt'[m] - Interval - lastSeen[m][p] <= Timeout
      BY <2>1 DEF Watch
    <3>1. CASE m = n
      <4>1. ~(now - lastSeen[n][p] > Timeout)
        BY <2>3, <3>1 DEF Overdue
      <4> QED BY <2>2, <3>1, <4>1 DEF Timing
    <3>2. CASE m # n
      BY <2>2, <2>3, <3>2 DEF Watch, IInv, Shapes
    <3> QED BY <3>1, <3>2
  <2>11. Doubt'
    <3> SUFFICES ASSUME NEW m \in Nodes, NEW p \in suspected'[m]
                 PROVE  p # m /\ now - lastSeen[m][p] > Timeout
      BY <2>1 DEF Doubt
    <3>1. p \in suspected[m] \/ (m = n /\ p \in Overdue(n))
      BY <2>3
    <3> QED BY <3>1 DEF Doubt, Overdue
  <2>12. Heard'
    <3> SUFFICES ASSUME NEW p \in alive, NEW m \in Nodes,
                        NEW b \in {beatAt'[p] - Interval, beatAt'[p] - 2 * Interval},
                        m # p, b >= FirstBeat(p), changed[p] < b, lostAt'[m][p] < b
                 PROVE  Reaches(p, m, b)'
      BY <2>1 DEF Heard
    <3>1. Reaches(p, m, b) => Reaches(p, m, b)'
      BY <2>1 DEF Reaches, Heartbeat
    <3>2. p \in Nodes
      BY DEF IInv, Shapes
    <3>3. CASE p # n
      <4>1. beatAt'[p] = beatAt[p] /\ lostAt'[m][p] = lostAt[m][p]
        BY <2>2, <2>5, <3>2, <3>3
      <4> QED BY <3>1, <4>1 DEF Heard
    <3>4. CASE p = n /\ b = now
      <4>1. m \notin lost
        BY <2>2, <2>5, <3>2, <3>4
      <4>2. Heartbeat(p, m, b) \in sent
        BY <3>4, <4>1 DEF Heartbeat, sent
      <4> QED BY <2>1, <4>2 DEF Reaches, Heartbeat
    <3>5. CASE p = n /\ b = now - Interval
      <4>1. b = beatAt[p] - Interval
        BY <2>1, <3>5
      <4>2. lostAt[m][p] < b
        BY <2>2, <2>5, <3>2, <3>5
      <4> QED BY <3>1, <4>1, <4>2 DEF Heard
    <3>6. p = n => b \in {now, now - Interval}
      BY <2>2
    <3> QED BY <3>3, <3>4, <3>5, <3>6
  <2> QED BY <2>7, <2>8, <2>9, <2>10, <2>11, <2>12
<1> QED BY <1>1, <1>2

LEMMA HandleDetector ==
  ASSUME IInv, Detector, NEW m \in wire, Handle(m)
  PROVE  Detector'
<1> USE Parameters DEF Detector
<1>0. /\ m.from \in Nodes /\ m.to \in Nodes /\ m.from # m.to /\ m.at = now /\ now \in Int
      /\ m = [from |-> m.from, to |-> m.to, at |-> m.at]
  BY DEF Handle, Timing
<1>1. /\ wire' = wire \ {m}
      /\ UNCHANGED <<now, alive, beatAt, changed, lostAt>>
  BY DEF Handle, clock, history
<1>2. CASE m.to \notin alive
  <2>1. UNCHANGED <<lastSeen, suspected>>
    BY <1>2 DEF Handle, view
  <2>2. Timing' /\ Phase' /\ Silence' /\ Watch' /\ Doubt'
    BY <1>1, <2>1 DEF Timing, Phase, Silence, Watch, Doubt
  <2>3. ASSUME NEW p, NEW n \in Nodes, NEW b \in Int, Reaches(p, n, b) PROVE Reaches(p, n, b)'
    <3>1. CASE Heartbeat(p, n, b) = m
      <4>1. n = m.to /\ b + Delay = now
        BY <1>0, <3>1 DEF Heartbeat
      <4> QED BY <1>1, <1>2, <4>1 DEF Reaches
    <3>2. CASE Heartbeat(p, n, b) # m
      BY <1>1, <2>1, <2>3, <3>2 DEF Reaches, Heartbeat
    <3> QED BY <3>1, <3>2
  <2>4. Heard'
    <3>1. \A p \in alive : beatAt[p] \in Int /\ FirstBeat(p) \in Int
      BY DEF Timing, IInv, Shapes
    <3> QED BY <1>1, <2>3, <3>1 DEF Heard
  <2> QED BY <2>2, <2>4
<1>3. CASE m.to \in alive
  <2>1. /\ lastSeen' = [lastSeen EXCEPT ![m.to][m.from] = now]
        /\ suspected' = [suspected EXCEPT ![m.to] = @ \ {m.from}]
    BY <1>3 DEF Handle
  <2>2. /\ lastSeen' \in [Nodes -> [Nodes -> Int]]
        /\ \A n, p \in Nodes : lastSeen'[n][p] = IF n = m.to /\ p = m.from THEN now ELSE lastSeen[n][p]
    BY <1>0, <2>1 DEF Timing
  <2>3. \A n \in Nodes : suspected'[n] = IF n = m.to THEN suspected[n] \ {m.from} ELSE suspected[n]
    BY <2>1 DEF IInv, Shapes
  <2>4. \A n, p \in Nodes : lastSeen[n][p] \in Int /\ lastSeen[n][p] <= now /\ lastSeen'[n][p] >= lastSeen[n][p]
    BY <1>0, <2>2 DEF Timing
  <2>5. Timing'
    <3>1. \A n, p \in Nodes : lastSeen'[n][p] \in 0..now
      BY <2>2 DEF Timing
    <3>2. wire' \subseteq wire
      BY <1>1
    <3> QED BY <1>1, <2>2, <3>1, <3>2 DEF Timing
  <2>6. Phase'
    BY <1>1 DEF Phase
  <2>7. Silence'
    BY <1>0, <1>1, <2>2 DEF Silence
  <2>8. Watch'
    <3> SUFFICES ASSUME NEW n \in alive, NEW p \in Nodes, p # n, p \notin suspected'[n]
                 PROVE  beatAt[n] - Interval - lastSeen'[n][p] <= Timeout
      BY <1>1 DEF Watch
    <3>1. n \in Nodes /\ beatAt[n] \in Int /\ beatAt[n] - Interval <= now
      BY <1>0 DEF Timing, IInv, Shapes
    <3>2. CASE n = m.to /\ p = m.from
      BY <1>0, <2>2, <3>1, <3>2
    <3>3. CASE ~(n = m.to /\ p = m.from)
      <4>1. p \notin suspected[n] /\ lastSeen'[n][p] = lastSeen[n][p]
        BY <2>2, <2>3, <3>1, <3>3
      <4> QED BY <4>1 DEF Watch
    <3> QED BY <3>2, <3>3
  <2>9. Doubt'
    <3> SUFFICES ASSUME NEW n \in Nodes, NEW p \in suspected'[n]
                 PROVE  p # n /\ now - lastSeen'[n][p] > Timeout
      BY <1>1 DEF Doubt
    <3>1. p \in suspected[n] /\ p \in Nodes /\ ~(n = m.to /\ p = m.from)
      BY <2>3 DEF IInv, Shapes
    <3> QED BY <2>2, <3>1 DEF Doubt
  <2>10. ASSUME NEW p \in Nodes, NEW n \in Nodes, NEW b \in Int, Reaches(p, n, b) PROVE Reaches(p, n, b)'
    <3>1. CASE Heartbeat(p, n, b) = m
      <4>1. n = m.to /\ p = m.from /\ b + Delay = now
        BY <1>0, <3>1 DEF Heartbeat
      <4> QED BY <1>0, <1>1, <2>2, <4>1 DEF Reaches
    <3>2. CASE Heartbeat(p, n, b) # m
      BY <1>1, <2>4, <2>2, <2>10, <3>2 DEF Reaches, Heartbeat
    <3> QED BY <3>1, <3>2
  <2>11. Heard'
    <3>1. \A p \in alive : p \in Nodes /\ beatAt[p] \in Int
      BY DEF Timing, IInv, Shapes
    <3> QED BY <1>1, <2>10, <3>1 DEF Heard
  <2> QED BY <2>5, <2>6, <2>7, <2>8, <2>9, <2>11
<1> QED BY <1>2, <1>3

LEMMA KillDetector ==
  ASSUME IInv, Detector, NEW n \in Nodes, Kill(n)
  PROVE  Detector'
<1> USE Parameters DEF Detector
<1>1. /\ alive' = alive \ {n} /\ changed' = [changed EXCEPT ![n] = now]
      /\ UNCHANGED <<now, lastSeen, suspected, beatAt, wire, lostAt>>
  BY DEF Kill, Fault, view
<1>2. /\ changed' \in [Nodes -> Int] /\ now \in Int
      /\ \A p \in Nodes : changed'[p] = IF p = n THEN now ELSE changed[p]
  BY <1>1 DEF Timing
<1>3. Timing' /\ Phase' /\ Watch' /\ Doubt'
  BY <1>1, <1>2 DEF Timing, Phase, Watch, Doubt
<1>4. Silence'
  <2>1. ASSUME NEW m \in Nodes, NEW p \in Nodes \ alive', p # m
        PROVE  lastSeen[m][p] <= changed'[p] + Delay \/ lastSeen[m][p] <= changed'[m]
    <3>1. lastSeen[m][p] \in Int /\ lastSeen[m][p] <= now
      BY <1>2 DEF Timing
    <3>2. CASE p = n \/ m = n
      BY <1>2, <3>1, <3>2
    <3>3. CASE p # n /\ m # n
      BY <1>1, <1>2, <2>1, <3>3 DEF Silence
    <3> QED BY <3>2, <3>3
  <2>2. ASSUME NEW m \in wire, m.from \notin alive' PROVE m.at <= changed'[m.from] + Delay
    <3>1. m.from \in Nodes /\ m.at \in Int /\ m.at <= now + Delay
      BY <1>2 DEF Timing
    <3> QED BY <1>1, <1>2, <2>2, <3>1 DEF Silence
  <2> QED BY <1>1, <2>1, <2>2 DEF Silence
<1>5. Heard'
  <2> SUFFICES ASSUME NEW p \in alive', NEW m \in Nodes,
                      NEW b \in {beatAt[p] - Interval, beatAt[p] - 2 * Interval},
                      m # p, b >= FirstBeat(p), changed'[p] < b, lostAt[m][p] < b
               PROVE  Reaches(p, m, b)'
    BY <1>1 DEF Heard
  <2>1. p \in alive /\ p # n /\ p \in Nodes
    BY <1>1 DEF IInv, Shapes
  <2>2. Reaches(p, m, b)
    BY <1>2, <2>1 DEF Heard
  <2> QED BY <1>1, <2>2 DEF Reaches, Heartbeat
<1> QED BY <1>3, <1>4, <1>5

LEMMA ReviveDetector ==
  ASSUME IInv, Detector, NEW n \in Nodes, Revive(n)
  PROVE  Detector'
<1> USE Parameters DEF Detector
<1>1. /\ alive' = alive \cup {n} /\ changed' = [changed EXCEPT ![n] = now]
      /\ lastSeen' = [lastSeen EXCEPT ![n] = [p \in Nodes |-> IF p = n THEN 0 ELSE now]]
      /\ suspected' = [suspected EXCEPT ![n] = {}]
      /\ UNCHANGED <<now, beatAt, wire, lostAt>>
  BY DEF Revive, Fault
<1>2. /\ changed' \in [Nodes -> Int] /\ now \in Int /\ now >= 0
      /\ \A p \in Nodes : changed'[p] = IF p = n THEN now ELSE changed[p]
  BY <1>1 DEF Timing
<1>3. /\ lastSeen' \in [Nodes -> [Nodes -> Int]]
      /\ \A m, p \in Nodes : lastSeen'[m][p] = IF m # n THEN lastSeen[m][p] ELSE IF p = n THEN 0 ELSE now
  BY <1>1, <1>2 DEF Timing
<1>4. \A m \in Nodes : suspected'[m] = IF m = n THEN {} ELSE suspected[m]
  BY <1>1 DEF IInv, Shapes
<1>5. Timing'
  BY <1>1, <1>2, <1>3 DEF Timing
<1>6. Phase'
  BY <1>1 DEF Phase
<1>7. Silence'
  BY <1>1, <1>2, <1>3 DEF Silence
<1>8. Watch'
  <2> SUFFICES ASSUME NEW m \in alive', NEW p \in Nodes, p # m, p \notin suspected'[m]
               PROVE  beatAt[m] - Interval - lastSeen'[m][p] <= Timeout
    BY <1>1 DEF Watch
  <2>1. m \in Nodes /\ beatAt[m] \in Int /\ beatAt[m] - Interval <= now
    BY <1>1, <1>2 DEF Timing, IInv, Shapes
  <2>2. CASE m = n
    BY <1>2, <1>3, <2>1, <2>2
  <2>3. CASE m # n
    BY <1>1, <1>3, <1>4, <2>1, <2>3 DEF Watch
  <2> QED BY <2>2, <2>3
<1>9. Doubt'
  BY <1>1, <1>3, <1>4 DEF Doubt, IInv, Shapes
<1>10. Heard'
  <2> SUFFICES ASSUME NEW p \in alive', NEW m \in Nodes,
                      NEW b \in {beatAt[p] - Interval, beatAt[p] - 2 * Interval},
                      m # p, b >= FirstBeat(p), changed'[p] < b, lostAt[m][p] < b
               PROVE  Reaches(p, m, b)'
    BY <1>1 DEF Heard
  <2>1. p \in Nodes /\ beatAt[p] \in Int /\ b <= now
    BY <1>1, <1>2 DEF Timing, IInv, Shapes
  <2>2. p # n
    BY <1>2, <2>1
  <2>3. Reaches(p, m, b)
    BY <1>1, <1>2, <2>1, <2>2 DEF Heard
  <2>4. CASE Heartbeat(p, m, b) \in wire
    BY <1>1, <2>4 DEF Reaches, Heartbeat
  <2>5. CASE b + Delay <= now /\ (m \in alive => lastSeen[m][p] >= b + Delay)
    <3>1. CASE m = n
      BY <1>1, <1>3, <2>1, <2>2, <2>5, <3>1 DEF Reaches
    <3>2. CASE m # n
      BY <1>1, <1>3, <2>1, <2>5, <3>2 DEF Reaches
    <3> QED BY <3>1, <3>2
  <2> QED BY <2>3, <2>4, <2>5 DEF Reaches
<1> QED BY <1>5, <1>6, <1>7, <1>8, <1>9, <1>10

LEMMA AdvanceDetector ==
  ASSUME IInv, Detector, Advance
  PROVE  Detector'
<1> USE Parameters DEF Detector
<1>1. /\ now < MaxTime /\ now' = now + 1 /\ now \in Int /\ now >= 0
      /\ \A n \in Nodes : beatAt[n] > now
      /\ \A m \in wire : m.at > now
      /\ UNCHANGED <<alive, lastSeen, suspected, beatAt, wire, changed, lostAt>>
  BY DEF Advance, history, view, Timing
<1>2. Timing'
  BY <1>1 DEF Timing
<1>3. Phase' /\ Silence' /\ Watch'
  BY <1>1 DEF Phase, Silence, Watch
<1>4. Doubt'
  BY <1>1 DEF Doubt, Timing, IInv, Shapes
<1>5. \A p \in Nodes, n \in Nodes, b \in Int : Reaches(p, n, b) => Reaches(p, n, b)'
  BY <1>1 DEF Reaches, Heartbeat
<1>6. Heard'
  <2>1. \A p \in alive : p \in Nodes /\ beatAt[p] \in Int
    BY DEF Timing, IInv, Shapes
  <2> QED BY <1>1, <1>5, <2>1 DEF Heard
<1> QED BY <1>2, <1>3, <1>4, <1>6

-----------------------------------------------------------------------------
\* The counters of faults and losses, and the times of the ticks.
LEMMA RoleTicks ==
  ASSUME Bounds, IInv, Timing, NEW n \in Nodes, NEW suspects, TakeRole(n, suspects)
  PROVE  \A m \in Nodes : \A t \in ticks'[m] : t.at \in now..(now + Period) /\ t.epoch >= 1
<1> DEFINE fresh == [at |-> now, epoch |-> cameraEpoch[n] + 1]
<1>1. CASE ticks' = ticks
  BY <1>1 DEF Bounds
<1>2. CASE ticks' = [ticks EXCEPT ![n] = @ \cup {fresh}]
  <2>1. fresh.at \in now..(now + Period) /\ fresh.epoch >= 1
    BY Parameters DEF IInv, Shapes, Timing
  <2>2. \A m \in Nodes : \A t \in ticks'[m] : t \in ticks[m] \/ t = fresh
    BY <1>2 DEF IInv, Shapes
  <2> QED BY <2>1, <2>2 DEF Bounds
<1> QED BY <1>1, <1>2 DEF TakeRole, StartCamera, StopCamera

LEMMA BoundsKept ==
  ASSUME Bounds, IInv, Timing, [Next]_vars
  PROVE  Bounds'
<1> USE Parameters, BoundAssumption
<1> DEFINE Ticks == \A m \in Nodes : \A t \in ticks'[m] : t.at \in now..(now + Period) /\ t.epoch >= 1
<1>0. UNCHANGED ticks => Ticks
  BY DEF Bounds
<1> HIDE DEF Ticks
<1>1. ASSUME NEW n \in Nodes, NEW lost \in SUBSET Nodes, Beat(n, lost) PROVE Bounds'
  <2>1. now' = now /\ faults' = faults
    BY <1>1 DEF Beat
  <2>2. losses' \in 0..MaxLosses
    <3>1. CASE n \notin alive
      BY <1>1, <3>1 DEF Beat, Bounds
    <3>2. CASE n \in alive
      <4>1. IsFiniteSet(Nodes)
        BY NAssumption, FS_Interval DEF Nodes
      <4>2. Cardinality(lost) \in Nat
        BY <4>1, FS_Subset, FS_CardinalityType
      <4> QED BY <1>1, <3>2, <4>2 DEF Beat, Broadcast, Bounds
    <3> QED BY <3>1, <3>2
  <2>3. UNCHANGED ticks \/ TakeRole(n, suspected'[n])
    BY <1>1 DEF Beat, Suspect, camera
  <2>4. Ticks
    BY <1>0, <2>3, RoleTicks DEF Ticks
  <2> QED BY <2>1, <2>2, <2>4 DEF Bounds, Ticks
<1>2. ASSUME NEW m \in wire, Handle(m) PROVE Bounds'
  <2>1. UNCHANGED <<now, faults, losses>>
    BY <1>2 DEF Handle, clock
  <2>2. UNCHANGED ticks \/ TakeRole(m.to, suspected'[m.to])
    BY <1>2 DEF Handle, camera
  <2>3. m.to \in Nodes
    BY DEF Timing
  <2>4. Ticks
    BY <1>0, <2>2, <2>3, RoleTicks DEF Ticks
  <2> QED BY <2>1, <2>4 DEF Bounds, Ticks
<1>3. ASSUME NEW n \in Nodes, Kill(n) PROVE Bounds'
  <2>1. UNCHANGED <<now, losses, ticks>> /\ faults < MaxFaults /\ faults' = faults + 1
    BY <1>3 DEF Kill, Fault
  <2> QED BY <2>1 DEF Bounds
<1>4. ASSUME NEW n \in Nodes, Revive(n) PROVE Bounds'
  <2>1. UNCHANGED <<now, losses>> /\ faults < MaxFaults /\ faults' = faults + 1 /\ TakeRole(n, {})
    BY <1>4 DEF Revive, Fault
  <2>2. Ticks
    BY <2>1, RoleTicks DEF Ticks
  <2> QED BY <2>1, <2>2 DEF Bounds, Ticks
<1>5. ASSUME NEW n \in Nodes, NEW t \in ticks[n], CameraTick(n, t) PROVE Bounds'
  <2> DEFINE succ == [at |-> now + Period, epoch |-> t.epoch]
  <2>1. UNCHANGED <<now, faults, losses>>
    BY <1>5 DEF CameraTick, clock
  <2>2. \A m \in Nodes : \A u \in ticks'[m] : u \in ticks[m] \/ u = succ
    BY <1>5 DEF CameraTick, IInv, Shapes
  <2>3. succ.at \in now..(now + Period) /\ succ.epoch >= 1
    BY DEF Timing, Bounds
  <2>4. Ticks
    BY <2>2, <2>3 DEF Bounds, Ticks
  <2> QED BY <2>1, <2>4 DEF Bounds, Ticks
<1>6. CASE Advance
  <2>1. /\ now' = now + 1 /\ now \in Int /\ UNCHANGED <<faults, losses, ticks>>
        /\ \A n \in Nodes : \A t \in ticks[n] : t.at > now
    BY <1>6 DEF Advance, camera, Timing
  <2> QED BY <2>1 DEF Bounds, IInv, Shapes
<1>7. CASE UNCHANGED vars
  BY <1>7 DEF vars, clock, camera, Bounds
<1> QED BY <1>1, <1>2, <1>3, <1>4, <1>5, <1>6, <1>7 DEF Next

LEMMA NextKeepsDetector ==
  ASSUME IInv, Detector, [Next]_vars
  PROVE  Detector'
<1>1. ASSUME NEW n \in Nodes, NEW lost \in SUBSET Nodes, n \notin lost, Beat(n, lost) PROVE Detector'
  BY <1>1, BeatDetector
<1>2. ASSUME NEW m \in wire, Handle(m) PROVE Detector'
  BY <1>2, HandleDetector
<1>3. ASSUME NEW n \in Nodes, Kill(n) PROVE Detector'
  BY <1>3, KillDetector
<1>4. ASSUME NEW n \in Nodes, Revive(n) PROVE Detector'
  BY <1>4, ReviveDetector
<1>5. ASSUME NEW n \in Nodes, NEW t \in ticks[n], CameraTick(n, t) PROVE Detector'
  BY <1>5, DetectorAlone DEF CameraTick, clock, history, view
<1>6. CASE Advance
  BY <1>6, AdvanceDetector
<1>7. CASE UNCHANGED vars
  BY <1>7, DetectorAlone DEF vars, clock, history, view
<1> QED BY <1>1, <1>2, <1>3, <1>4, <1>5, <1>6, <1>7 DEF Next

\* Every reachable state satisfies the timed invariant.
THEOREM TimedInvariant == Spec => []TInv
<1>1. TInv /\ [Next]_vars => TInv'
  BY NextKeepsInv, NextKeepsDetector, BoundsKept DEF TInv, Detector
<1> QED BY <1>1, TimedInit, PTL DEF Spec

-----------------------------------------------------------------------------
LEMMA DeadSuspected == TInv => DeadAreSuspected
<1> SUFFICES ASSUME TInv, NEW n \in alive, NEW p \in Nodes \ alive,
                    now > changed[p] + Delay + Timeout + Interval,
                    now > changed[n] + Timeout + Interval,
                    p \notin suspected[n]
             PROVE  FALSE
  BY DEF DeadAreSuspected
<1> USE DEF TInv
<1>1. n \in Nodes /\ p # n
  BY DEF IInv, Shapes
<1>2. /\ now \in Int /\ beatAt[n] \in Int /\ beatAt[n] >= now /\ lastSeen[n][p] \in Int
      /\ changed[n] \in Int /\ changed[p] \in Int
  BY <1>1 DEF Timing
<1>3. beatAt[n] - Interval - lastSeen[n][p] <= Timeout
  BY <1>1 DEF Watch
<1>4. lastSeen[n][p] <= changed[p] + Delay \/ lastSeen[n][p] <= changed[n]
  BY <1>1 DEF Silence
<1> QED BY <1>2, <1>3, <1>4, Parameters

LEMMA LiveTrusted == TInv => LiveAreTrusted
<1> SUFFICES ASSUME TInv, NEW n \in alive, NEW p \in alive,
                    now > changed[p] + Interval + Delay,
                    now > lostAt[n][p] + Interval + Delay,
                    p \in suspected[n]
             PROVE  FALSE
  BY DEF LiveAreTrusted
<1> USE DEF TInv
<1> USE Parameters
<1> DEFINE b == beatAt[p] - Interval
           first == FirstBeat(p)
<1>1. n \in Nodes /\ p \in Nodes
  BY DEF IInv, Shapes
<1>2. p # n /\ now - lastSeen[n][p] > Timeout
  BY <1>1 DEF Doubt
<1>3. /\ now \in Int /\ beatAt[p] \in Int /\ now <= beatAt[p] /\ beatAt[p] <= now + Interval
      /\ lastSeen[n][p] \in Int /\ lastSeen[n][p] >= 0
      /\ changed[p] \in Int /\ lostAt[n][p] \in Int
      /\ first \in 0..Interval /\ first + Delay <= Timeout
  BY <1>1 DEF Timing
<1>4. \/ beatAt[p] \in {first, first + Interval}
      \/ beatAt[p] >= first + 2 * Interval
  BY <1>1 DEF Phase
<1>5. CASE beatAt[p] = first
  BY <1>2, <1>3, <1>5
\* The last heartbeat has come.
<1>6. CASE b >= first /\ Reaches(p, n, b) /\ Heartbeat(p, n, b) \notin wire
  BY <1>2, <1>3, <1>6 DEF Reaches
\* It is under way.
<1>7. CASE b >= first /\ Heartbeat(p, n, b) \in wire
  <2>1. b + Delay >= now
    BY <1>7 DEF Timing, Heartbeat
  <2>2. CASE b = first
    BY <1>2, <1>3, <2>1, <2>2
  <2>3. CASE b # first
    <3>1. b - Interval >= first
      BY <1>3, <1>4, <1>7, <2>3
    <3>2. changed[p] < b - Interval /\ lostAt[n][p] < b - Interval
      BY <1>3, <2>1
    <3>3. Reaches(p, n, b - Interval)
      BY <1>1, <1>2, <1>3, <3>1, <3>2 DEF Heard
    <3>4. Heartbeat(p, n, b - Interval) \notin wire
      BY <1>3 DEF Timing, Heartbeat
    <3>5. lastSeen[n][p] >= b - Interval + Delay
      BY <3>3, <3>4 DEF Reaches
    <3> QED BY <1>2, <1>3, <2>1, <3>5
  <2> QED BY <2>2, <2>3
<1>8. b >= first => Reaches(p, n, b)
  <2>1. changed[p] < b /\ lostAt[n][p] < b
    BY <1>3
  <2> QED BY <1>1, <1>2, <2>1 DEF Heard
<1>9. beatAt[p] = first \/ b >= first
  BY <1>3, <1>4
<1> QED BY <1>5, <1>6, <1>7, <1>8, <1>9

LEMMA TimedTypes == TInv => TypeOK
<1> SUFFICES ASSUME TInv PROVE TypeOK
  OBVIOUS
<1> USE DEF TInv
<1>1. lastSeen \in [Nodes -> [Nodes -> 0..MaxTime]]
  BY Parameters DEF Timing
<1>2. \A n \in Nodes : suspected[n] \subseteq Nodes \ {n}
  BY DEF Doubt, IInv, Shapes
<1>3. \A m \in wire : m.from \in Nodes /\ m.to \in Nodes \ {m.from} /\ m.at \in now..(now + Delay)
  BY DEF Timing
<1>4. \A n \in Nodes : \A t \in ticks[n] : t.at \in now..(now + Period) /\ t.epoch \in 1..cameraEpoch[n]
  BY DEF Bounds, IInv, Shapes, NoFutureTick
<1> QED BY <1>1, <1>2, <1>3, <1>4 DEF TypeOK, Timing, Bounds, IInv, Shapes

\* Suspicion tells the dead from the living in bounded time: for every timing,
\* every number of nodes and every pattern of faults and lost heartbeats
\* (_check_peers, handle and reset_after_revive of membership.py).
THEOREM DetectorIsAccurate == Spec => []DetectorAccurate
<1>1. TInv => DetectorAccurate
  BY TimedTypes, DeadSuspected, LiveTrusted DEF DetectorAccurate
<1> QED BY <1>1, TimedInvariant, PTL

-----------------------------------------------------------------------------
(* One camera. *)

\* Any group has one member that beats the others: nobody above it, when the
\* sets of those above are ordered by inclusion.
LEMMA BestExists ==
  ASSUME NEW S \in SUBSET Nodes, S # {}
  PROVE  \E m \in S : \A o \in S :
           Priority[m] > Priority[o] \/ (Priority[m] = Priority[o] /\ m <= o)
<1> DEFINE Beats(o, m) == Priority[o] > Priority[m] \/ (Priority[o] = Priority[m] /\ o < m)
           Above(m) == {o \in S : Beats(o, m)}
           T == {Above(m) : m \in S}
<1>1. IsFiniteSet(S)
  <2>1. IsFiniteSet(Nodes)
    BY NAssumption, FS_Interval DEF Nodes
  <2> QED BY <2>1, FS_Subset
<1>2. \A o \in S : o \in Nat /\ Priority[o] \in Nat
  BY NAssumption, PriorityAssumption DEF Nodes
<1>3. \A o, m, k \in S : /\ ~Beats(o, o)
                         /\ Beats(k, o) /\ Beats(o, m) => Beats(k, m)
  BY <1>2
<1>4. \A o, m \in S : ~Beats(o, m) => Priority[m] > Priority[o] \/ (Priority[m] = Priority[o] /\ m <= o)
  BY <1>2
<1> HIDE DEF Beats
<1>5. T \subseteq FiniteSubsetsOf(S) /\ T # {}
  <2>1. ASSUME NEW m \in S PROVE Above(m) \in FiniteSubsetsOf(S)
    <3>1. Above(m) \in SUBSET S
      OBVIOUS
    <3> HIDE DEF Above
    <3> QED BY <1>1, <3>1, FS_Subset DEF FiniteSubsetsOf
  <2> QED BY <2>1
<1>6. PICK A \in T : \A B \in T : <<B, A>> \notin StrictSubsetOrdering(S)
  <2> HIDE DEF T
  <2> QED BY <1>5, WFMin, FS_StrictSubsetOrderingWellFounded
<1>7. PICK m \in S : A = Above(m)
  OBVIOUS
<1>8. \A o \in S : ~Beats(o, m)
  <2> SUFFICES ASSUME NEW o \in S, Beats(o, m) PROVE FALSE
    OBVIOUS
  <2>1. o \in Above(m) /\ o \notin Above(o)
    BY <1>3
  <2>2. Above(o) \subseteq Above(m)
    BY <1>3
  <2>3. Above(o) \in T /\ Above(o) # A
    BY <1>7, <2>1
  <2>4. <<Above(o), A>> \in StrictSubsetOrdering(S)
    BY <1>7, <2>2, <2>3 DEF StrictSubsetOrdering
  <2> QED BY <1>6, <2>3, <2>4
<1> QED BY <1>4, <1>8

\* The leader is that member, and it is the same for everybody.
LEMMA LeaderIsBest ==
  ASSUME NEW n, NEW suspects \in SUBSET Nodes, suspects # Nodes
  PROVE  /\ Leader(n, suspects) \in Nodes \ suspects
         /\ \A o \in Nodes \ suspects : Priority[Leader(n, suspects)] >= Priority[o]
<1> DEFINE best(m) == \A o \in LiveMembers(suspects) :
                        Priority[m] > Priority[o] \/ (Priority[m] = Priority[o] /\ m <= o)
<1>1. LiveMembers(suspects) \in SUBSET Nodes /\ LiveMembers(suspects) # {}
  BY DEF LiveMembers
<1>2. \E m \in LiveMembers(suspects) : best(m)
  BY <1>1, BestExists
<1>3. Leader(n, suspects) \in LiveMembers(suspects) /\ best(Leader(n, suspects))
  BY <1>2 DEF Leader
<1>4. \A o \in Nodes : Priority[o] \in Nat
  BY PriorityAssumption
<1> QED BY <1>1, <1>3, <1>4 DEF LiveMembers

LEMMA CameraSettles == TInv => OneCamera
<1> SUFFICES ASSUME TInv, Settled, alive # {}
             PROVE  \E n \in alive : /\ \A m \in Nodes : cameraOn[m] <=> m = n
                                     /\ \A m \in alive : Priority[m] <= Priority[n]
  BY DEF OneCamera
<1>1. alive \subseteq Nodes /\ \A n \in Nodes : suspected[n] \subseteq Nodes \ {n}
  BY DEF TInv, IInv, Shapes, Doubt
<1>2. \A n \in Nodes : changed[n] \in Int /\ now \in Int /\ \A p \in Nodes : lostAt[n][p] \in Int
  BY DEF TInv, Timing
<1>3. ASSUME NEW n \in alive PROVE suspected[n] = Nodes \ alive
  <2>1. ASSUME NEW p \in Nodes \ alive PROVE p \in suspected[n]
    BY <1>1, <1>2, <2>1, DeadSuspected, Parameters DEF DeadAreSuspected, Settled
  <2>2. ASSUME NEW p \in alive PROVE p \notin suspected[n]
    BY <1>1, <1>2, <2>2, LiveTrusted, Parameters DEF LiveAreTrusted, Settled
  <2> QED BY <1>1, <2>1, <2>2
<1> DEFINE dead == Nodes \ alive
<1>4. PICK a \in alive : TRUE
  OBVIOUS
<1> DEFINE l == Leader(a, dead)
<1>5. dead \in SUBSET Nodes /\ dead # Nodes /\ Nodes \ dead = alive
  BY <1>1
<1> HIDE DEF dead
<1>6. l \in alive /\ \A o \in alive : Priority[l] >= Priority[o]
  BY <1>5, LeaderIsBest
<1>7. \A n : Leader(n, dead) = l
  BY DEF Leader
<1>8. ASSUME NEW m \in Nodes PROVE cameraOn[m] <=> m = l
  <2>1. /\ m \in alive => wasLeader[m] = IsLeader(m, suspected[m])
        /\ cameraOn[m] <=> m \in alive /\ wasLeader[m]
    BY DEF TInv, IInv, RoleFollowsView
  <2>2. m \in alive => (IsLeader(m, suspected[m]) <=> l = m)
    BY <1>3, <1>7 DEF IsLeader, dead
  <2> QED BY <1>6, <2>1, <2>2
<1> HIDE DEF l
<1>9. \A m \in alive : Priority[m] <= Priority[l]
  BY <1>1, <1>6, PriorityAssumption
<1> QED BY <1>6, <1>8, <1>9

\* When nothing has failed for long, exactly one camera is on, that of the
\* strongest live node: every view is the same, and they elect without a vote
\* (leader of membership.py, _ensure_role of strategies.py).
THEOREM OneCameraIsOn == Spec => []OneCamera
<1> QED BY CameraSettles, TimedInvariant, PTL

-----------------------------------------------------------------------------
(* Simulated work.                                                         *)

\* What carries a frame, by kind.
JobOf(f) == {job \in jobs : job.frame = f /\ job.epoch = epoch[job.node]}
MessageOf(f, kind) == {m \in onAir : m.frame = f /\ m.kind = kind}
AtMostOne(S) == \A x, y \in S : x = y

\* The life of a frame: captured, carried once, rejected or processed, learned.
FrameOk(f) ==
  /\ AtMostOne(JobOf(f)) /\ AtMostOne(MessageOf(f, "frame"))
  /\ JobOf(f) = {} \/ MessageOf(f, "frame") = {}
  /\ JobOf(f) # {} \/ MessageOf(f, "frame") # {} =>
       f \in captured /\ f \notin rejected /\ processed[f] = 0
  /\ processed[f] = 0 \/ (processed[f] = 1 /\ f \in captured /\ f \notin rejected)
  /\ AtMostOne(MessageOf(f, "result"))
  /\ MessageOf(f, "result") # {} => processed[f] = 1 /\ learned[f] = 0
  /\ learned[f] <= processed[f]

FramesInv ==
  /\ FramesTypes /\ IsFiniteSet(jobs) /\ QueueExact
  /\ \A job \in jobs : job.epoch <= epoch[job.node]
  /\ \A f \in Frames : FrameOk(f)

-----------------------------------------------------------------------------
LEMMA FramesStart == FramesInit => FramesInv
<1> SUFFICES ASSUME FramesInit PROVE FramesInv
  OBVIOUS
<1>1. FramesTypes
  BY FramesAssumption DEF FramesInit, FramesTypes
<1>2. IsFiniteSet(jobs) /\ Cardinality({}) = 0
  BY FS_EmptySet DEF FramesInit
<1>3. QueueExact
  <2>1. \A n \in Members : Live(n) = {}
    BY DEF FramesInit, Live
  <2> QED BY <1>2, <2>1 DEF FramesInit, QueueExact
<1>4. \A f \in Frames : FrameOk(f)
  BY DEF FramesInit, FrameOk, JobOf, MessageOf, AtMostOne
<1> QED BY <1>1, <1>2, <1>3, <1>4 DEF FramesInit, FramesInv

\* The work that is booked on a node.
LEMMA LiveFinite ==
  ASSUME FramesTypes, IsFiniteSet(jobs), NEW n \in Members
  PROVE  IsFiniteSet(Live(n)) /\ Cardinality(Live(n)) \in Nat
BY FS_Subset, FS_CardinalityType DEF Live

\* A node with work that will finish is alive.
LEMMA WorkAlive ==
  ASSUME FramesInv, NEW job \in jobs, job.epoch = epoch[job.node]
  PROVE  job.node \in Members /\ job.node \in up /\ queued[job.node] \in 1..QueueLimit
<1>1. job.node \in Members /\ job \in Live(job.node)
  BY DEF FramesInv, FramesTypes, Job, Live
<1>2. Cardinality(Live(job.node)) # 0
  BY <1>1, LiveFinite, FS_EmptySet DEF FramesInv
<1>3. queued[job.node] \in 0..QueueLimit /\ queued[job.node] # 0
  BY <1>1, <1>2 DEF FramesInv, FramesTypes, QueueExact
<1> QED BY <1>1, <1>3 DEF FramesInv, QueueExact

\* try_compute books one more job, or rejects the frame.
LEMMA ComputeQueue ==
  ASSUME FramesInv, UNCHANGED <<up, epoch>>,
         NEW n \in up, NEW f \in Frames, NEW then \in {"ship", "dispatch", "brain"},
         NEW waiting \in 0..QueueLimit, NEW others \in SUBSET jobs,
         waiting = Cardinality({job \in others : job.node = n /\ job.epoch = epoch[n]}),
         \A m \in Members \ {n} : {job \in others : job.node = m /\ job.epoch = epoch[m]} = Live(m),
         \A job \in others : ~(job.frame = f /\ job.epoch = epoch[job.node]),
         Compute(n, f, then, waiting, others)
  PROVE  /\ queued' \in [Members -> 0..QueueLimit] /\ jobs' \subseteq Job /\ IsFiniteSet(jobs')
         /\ QueueExact' /\ \A job \in jobs' : job.epoch <= epoch'[job.node]
         /\ \A g \in Frames \ {f} : JobOf(g)' \subseteq JobOf(g)
         /\ AtMostOne(JobOf(f)') /\ (rejected' = rejected \/ (rejected' = rejected \cup {f} /\ JobOf(f)' = {}))
<1>1. n \in Members /\ IsFiniteSet(others)
  BY FS_Subset DEF FramesInv, FramesTypes
<1> DEFINE Mine == {job \in others : job.node = n /\ job.epoch = epoch[n]}
<1>2. IsFiniteSet(Mine) /\ waiting = Cardinality(Mine)
  BY <1>1, FS_Subset
<1>3. CASE waiting < QueueLimit
  <2>1. PICK r \in Job : /\ r.node = n /\ r.epoch = epoch[n] /\ r.frame = f
                         /\ jobs' = others \cup {r}
    BY <1>1, <1>3 DEF Compute, Job, FramesInv, FramesTypes
  <2>2. queued' = [queued EXCEPT ![n] = waiting + 1] /\ rejected' = rejected
    BY <1>3 DEF Compute
  <2>3. r \notin others
    BY <1>1, <2>1
  <2>4. queued' \in [Members -> 0..QueueLimit]
    BY <1>3, <2>2, FramesAssumption DEF FramesInv, FramesTypes
  <2>5. jobs' \subseteq Job /\ IsFiniteSet(jobs')
    BY <1>1, <2>1, FS_AddElement DEF FramesInv, FramesTypes
  <2>6. QueueExact'
    <3> SUFFICES ASSUME NEW m \in Members
                 PROVE  queued'[m] = Cardinality(Live(m)') /\ (m \notin up => queued'[m] = 0)
      BY DEF QueueExact
    <3>1. CASE m = n
      <4>1. Live(m)' = Mine \cup {r}
        BY <2>1, <3>1 DEF Live
      <4>2. Cardinality(Mine \cup {r}) = waiting + 1
        BY <1>2, <2>3, FS_AddElement
      <4> QED BY <1>1, <2>2, <3>1, <4>1, <4>2 DEF FramesInv, FramesTypes
    <3>2. CASE m # n
      <4>1. Live(m)' = Live(m)
        BY <2>1, <3>2 DEF Live
      <4> QED BY <2>2, <3>2, <4>1 DEF FramesInv, FramesTypes, QueueExact
    <3> QED BY <3>1, <3>2
  <2>7. \A job \in jobs' : job.epoch <= epoch'[job.node]
    BY <1>1, <2>1 DEF FramesInv, FramesTypes
  <2>8. \A g \in Frames \ {f} : JobOf(g)' \subseteq JobOf(g)
    BY <2>1 DEF JobOf
  <2>9. AtMostOne(JobOf(f)')
    BY <2>1 DEF JobOf, AtMostOne
  <2> QED BY <2>2, <2>4, <2>5, <2>6, <2>7, <2>8, <2>9
<1>4. CASE ~(waiting < QueueLimit)
  <2>1. queued' = [queued EXCEPT ![n] = waiting] /\ jobs' = others /\ rejected' = rejected \cup {f}
    BY <1>4 DEF Compute
  <2>2. queued' \in [Members -> 0..QueueLimit] /\ jobs' \subseteq Job /\ IsFiniteSet(jobs')
    BY <1>1, <2>1 DEF FramesInv, FramesTypes
  <2>3. QueueExact'
    <3> SUFFICES ASSUME NEW m \in Members
                 PROVE  queued'[m] = Cardinality(Live(m)') /\ (m \notin up => queued'[m] = 0)
      BY DEF QueueExact
    <3>1. CASE m = n
      <4>1. Live(m)' = Mine
        BY <2>1, <3>1 DEF Live
      <4> QED BY <1>1, <1>2, <2>1, <3>1, <4>1 DEF FramesInv, FramesTypes
    <3>2. CASE m # n
      <4>1. Live(m)' = Live(m)
        BY <2>1, <3>2 DEF Live
      <4> QED BY <2>1, <3>2, <4>1 DEF FramesInv, FramesTypes, QueueExact
    <3> QED BY <3>1, <3>2
  <2>4. (\A job \in jobs' : job.epoch <= epoch'[job.node]) /\ \A g \in Frames : JobOf(g)' \subseteq JobOf(g)
    BY <2>1 DEF FramesInv, JobOf
  <2>5. JobOf(f)' = {}
    BY <2>1 DEF JobOf
  <2> QED BY <2>1, <2>2, <2>3, <2>4, <2>5 DEF AtMostOne
<1> QED BY <1>3, <1>4

\* The job is over, the queue is shorter by it.
LEMMA ReleaseQueue ==
  ASSUME FramesInv, UNCHANGED <<up, epoch>>, NEW job \in jobs, job.epoch = epoch[job.node], Release(job)
  PROVE  /\ queued' \in [Members -> 0..QueueLimit] /\ jobs' \subseteq Job /\ IsFiniteSet(jobs')
         /\ QueueExact' /\ \A j \in jobs' : j.epoch <= epoch'[j.node]
         /\ jobs' = jobs \ {job} /\ rejected' = rejected
         /\ \A g \in Frames : JobOf(g)' = JobOf(g) \ {job}
<1>1. PICK n \in Members : n = job.node /\ n \in up /\ queued[n] \in 1..QueueLimit
  BY WorkAlive
<1>2. queued' = [queued EXCEPT ![n] = @ - 1] /\ jobs' = jobs \ {job} /\ rejected' = rejected
  BY <1>1 DEF Release
<1>3. queued' \in [Members -> 0..QueueLimit]
  <2>1. queued \in [Members -> 0..QueueLimit] /\ queued[n] - 1 \in 0..QueueLimit
    BY <1>1, FramesAssumption DEF FramesInv, FramesTypes
  <2> QED BY <1>2, <2>1
<1>4. jobs' \subseteq Job /\ IsFiniteSet(jobs')
  BY <1>2, FS_Subset DEF FramesInv, FramesTypes
<1>5. QueueExact'
  <2> SUFFICES ASSUME NEW m \in Members
               PROVE  queued'[m] = Cardinality(Live(m)') /\ (m \notin up => queued'[m] = 0)
    BY DEF QueueExact
  <2>1. CASE m = n
    <3>1. Live(m)' = Live(n) \ {job} /\ job \in Live(n)
      BY <1>1, <1>2, <2>1 DEF Live
    <3>2. Cardinality(Live(n) \ {job}) = Cardinality(Live(n)) - 1
      BY <3>1, LiveFinite, FS_RemoveElement DEF FramesInv
    <3>3. queued[n] = Cardinality(Live(n))
      BY DEF FramesInv, QueueExact
    <3>4. queued'[m] = queued[n] - 1
      BY <1>2, <2>1 DEF FramesInv, FramesTypes
    <3> QED BY <1>1, <2>1, <3>1, <3>2, <3>3, <3>4
  <2>2. CASE m # n
    <3>1. Live(m)' = Live(m)
      BY <1>1, <1>2, <2>2 DEF Live
    <3> QED BY <1>2, <2>2, <3>1 DEF FramesInv, FramesTypes, QueueExact
  <2> QED BY <2>1, <2>2
<1>6. (\A j \in jobs' : j.epoch <= epoch'[j.node]) /\ \A g \in Frames : JobOf(g)' = JobOf(g) \ {job}
  BY <1>2 DEF FramesInv, JobOf
<1> QED BY <1>2, <1>3, <1>4, <1>5, <1>6

\* The frame of a job goes to the brain of the same node.
LEMMA KeepQueue ==
  ASSUME FramesInv, UNCHANGED <<up, epoch>>, NEW job \in jobs, job.epoch = epoch[job.node], Keep(job)
  PROVE  /\ queued' \in [Members -> 0..QueueLimit] /\ jobs' \subseteq Job /\ IsFiniteSet(jobs')
         /\ QueueExact' /\ \A j \in jobs' : j.epoch <= epoch'[j.node]
         /\ \A g \in Frames \ {job.frame} : JobOf(g)' \subseteq JobOf(g)
         /\ AtMostOne(JobOf(job.frame)')
         /\ rejected' = rejected \/ (rejected' = rejected \cup {job.frame} /\ JobOf(job.frame)' = {})
         /\ onAir' = onAir
<1>1. PICK n \in Members, f \in Frames : n = job.node /\ f = job.frame
  BY DEF FramesInv, FramesTypes, Job
<1>2. n \in up /\ queued[n] \in 1..QueueLimit
  BY <1>1, WorkAlive
<1> DEFINE others == jobs \ {job}
<1>3. Compute(n, f, "brain", queued[n] - 1, others) /\ onAir' = onAir
  BY <1>1 DEF Keep
<1>4. queued[n] - 1 = Cardinality({j \in others : j.node = n /\ j.epoch = epoch[n]})
  <2>1. {j \in others : j.node = n /\ j.epoch = epoch[n]} = Live(n) \ {job} /\ job \in Live(n)
    BY <1>1 DEF Live
  <2>2. Cardinality(Live(n) \ {job}) = Cardinality(Live(n)) - 1
    BY <2>1, LiveFinite, FS_RemoveElement DEF FramesInv
  <2>3. queued[n] = Cardinality(Live(n))
    BY DEF FramesInv, QueueExact
  <2> QED BY <2>1, <2>2, <2>3
<1>5. \A m \in Members \ {n} : {j \in others : j.node = m /\ j.epoch = epoch[m]} = Live(m)
  BY <1>1 DEF Live
<1>6. \A j \in others : ~(j.frame = f /\ j.epoch = epoch[j.node])
  <2>1. job \in JobOf(f) /\ AtMostOne(JobOf(f))
    BY <1>1 DEF JobOf, FramesInv, FrameOk
  <2> QED BY <2>1 DEF JobOf, AtMostOne
<1>7. queued[n] - 1 \in 0..QueueLimit /\ others \in SUBSET jobs
  BY <1>2, FramesAssumption
<1> HIDE DEF others
<1> QED BY <1>1, <1>2, <1>3, <1>4, <1>5, <1>6, <1>7, ComputeQueue

\* A frame that nothing happens to, or that loses a carrier or a message.
LEMMA FrameQuiet ==
  ASSUME NEW f \in Frames, FrameOk(f), JobOf(f)' \subseteq JobOf(f),
         MessageOf(f, "frame")' \subseteq MessageOf(f, "frame"),
         MessageOf(f, "result")' \subseteq MessageOf(f, "result"),
         processed'[f] = processed[f], learned'[f] = learned[f],
         f \in captured => f \in captured', f \in rejected' => f \in rejected
  PROVE  FrameOk(f)'
BY DEF FrameOk, AtMostOne

\* A frame with a carrier, or a fresh one, that is carried on, lost or rejected.
LEMMA FrameCarried ==
  ASSUME NEW f \in Frames, FrameOk(f), f \in captured', processed[f] = 0, processed'[f] = 0,
         learned'[f] = learned[f],
         AtMostOne(JobOf(f)'), AtMostOne(MessageOf(f, "frame")'),
         JobOf(f)' = {} \/ MessageOf(f, "frame")' = {},
         MessageOf(f, "result")' \subseteq MessageOf(f, "result"),
         f \notin rejected' \/ (JobOf(f)' = {} /\ MessageOf(f, "frame")' = {})
  PROVE  FrameOk(f)'
BY DEF FrameOk, AtMostOne

\* Transmission puts one message on the air, or loses it.
LEMMA SendMessage ==
  ASSUME FramesTypes, NEW to \in Members, NEW kind \in {"frame", "result"}, NEW f \in Frames,
         NEW rest \in SUBSET onAir, Send(to, kind, f, rest)
  PROVE  /\ onAir' \subseteq Message
         /\ \A g \in Frames, k \in {"frame", "result"} : ~(g = f /\ k = kind) =>
              MessageOf(g, k)' \subseteq MessageOf(g, k)
         /\ MessageOf(f, kind) = {} => AtMostOne(MessageOf(f, kind)')
<1> DEFINE m == [to |-> to, kind |-> kind, frame |-> f]
<1>1. m \in Message /\ m.kind = kind /\ m.frame = f
  BY DEF Message
<1>2. onAir' = rest \cup {m} \/ onAir' = rest
  BY DEF Send
<1> HIDE DEF m
<1> QED BY <1>1, <1>2 DEF FramesTypes, MessageOf, AtMostOne

-----------------------------------------------------------------------------
(* Steps.                                                                  *)

LEMMA FinishStaleInv ==
  ASSUME FramesInv, NEW job \in jobs, FinishStale(job)
  PROVE  FramesInv'
<1>1. /\ job.epoch # epoch[job.node] /\ jobs' = jobs \ {job}
      /\ UNCHANGED <<mode, up, epoch, queued, onAir, captured, rejected, processed, learned>>
  BY DEF FinishStale, metrics
<1>2. FramesTypes' /\ IsFiniteSet(jobs') /\ \A j \in jobs' : j.epoch <= epoch'[j.node]
  BY <1>1, FS_Subset DEF FramesInv, FramesTypes
<1>3. \A n \in Members : Live(n)' = Live(n)
  BY <1>1 DEF Live
<1>4. QueueExact'
  BY <1>1, <1>3 DEF FramesInv, QueueExact
<1>5. \A f \in Frames : FrameOk(f)'
  <2>1. \A f \in Frames : JobOf(f)' \subseteq JobOf(f) /\ MessageOf(f, "frame")' = MessageOf(f, "frame")
                          /\ MessageOf(f, "result")' = MessageOf(f, "result")
    BY <1>1 DEF JobOf, MessageOf
  <2> QED BY <1>1, <2>1, FrameQuiet DEF FramesInv
<1> QED BY <1>2, <1>4, <1>5 DEF FramesInv

LEMMA KillInv ==
  ASSUME FramesInv, NEW n \in Members, KillNode(n)
  PROVE  FramesInv'
<1>1. /\ n \in up /\ epoch[n] < MaxKills /\ up' = up \ {n}
      /\ queued' = [queued EXCEPT ![n] = 0] /\ epoch' = [epoch EXCEPT ![n] = @ + 1]
      /\ UNCHANGED <<mode, jobs, onAir, captured, rejected, processed, learned>>
  BY DEF KillNode, metrics
<1>2. /\ epoch' \in [Members -> 0..MaxKills] /\ queued' \in [Members -> 0..QueueLimit]
      /\ \A m \in Members : epoch'[m] = IF m = n THEN epoch[n] + 1 ELSE epoch[m]
      /\ \A m \in Members : queued'[m] = IF m = n THEN 0 ELSE queued[m]
  BY <1>1, FramesAssumption DEF FramesInv, FramesTypes
<1>3. FramesTypes' /\ IsFiniteSet(jobs')
  BY <1>1, <1>2 DEF FramesInv, FramesTypes
<1>4. \A job \in jobs : job.node \in Members /\ job.epoch \in Nat /\ job.epoch <= epoch[job.node]
                        /\ epoch[job.node] \in Nat
  BY FramesAssumption DEF FramesInv, FramesTypes, Job
<1>5. \A job \in jobs' : job.epoch <= epoch'[job.node]
  BY <1>1, <1>2, <1>4
<1>6. QueueExact'
  <2> SUFFICES ASSUME NEW m \in Members
               PROVE  queued'[m] = Cardinality(Live(m)') /\ (m \notin up' => queued'[m] = 0)
    BY DEF QueueExact
  <2>1. CASE m = n
    <3>1. Live(m)' = {}
      BY <1>1, <1>2, <1>4, <2>1 DEF Live
    <3> QED BY <1>2, <2>1, <3>1, FS_EmptySet
  <2>2. CASE m # n
    <3>1. Live(m)' = Live(m)
      BY <1>1, <1>2, <2>2 DEF Live
    <3> QED BY <1>1, <1>2, <2>2, <3>1 DEF FramesInv, QueueExact
  <2> QED BY <2>1, <2>2
<1>7. \A f \in Frames : FrameOk(f)'
  <2>1. \A f \in Frames : JobOf(f)' \subseteq JobOf(f)
    BY <1>1, <1>2, <1>4 DEF JobOf
  <2>2. \A f \in Frames, kind \in {"frame", "result"} : MessageOf(f, kind)' = MessageOf(f, kind)
    BY <1>1 DEF MessageOf
  <2> QED BY <1>1, <2>1, <2>2, FrameQuiet DEF FramesInv
<1> QED BY <1>3, <1>5, <1>6, <1>7 DEF FramesInv

LEMMA ReviveInv ==
  ASSUME FramesInv, NEW n \in Members, ReviveNode(n)
  PROVE  FramesInv'
<1>1. /\ up' = up \cup {n}
      /\ UNCHANGED <<mode, epoch, queued, jobs, onAir, captured, rejected, processed, learned>>
  BY DEF ReviveNode, metrics
<1>2. FramesTypes' /\ IsFiniteSet(jobs') /\ \A job \in jobs' : job.epoch <= epoch'[job.node]
  BY <1>1 DEF FramesInv, FramesTypes
<1>3. QueueExact'
  BY <1>1 DEF FramesInv, QueueExact, Live
<1>4. \A f \in Frames : FrameOk(f)'
  <2>1. \A f \in Frames, kind \in {"frame", "result"} : MessageOf(f, kind)' = MessageOf(f, kind)
                                                        /\ JobOf(f)' = JobOf(f)
    BY <1>1 DEF MessageOf, JobOf
  <2> QED BY <1>1, <2>1, FrameQuiet DEF FramesInv
<1> QED BY <1>2, <1>3, <1>4 DEF FramesInv

LEMMA CaptureInv ==
  ASSUME FramesInv, NEW n \in Members, NEW f \in Frames, NEW leader \in Members, Capture(n, f, leader)
  PROVE  FramesInv'
<1>1. /\ n \in up /\ f \notin captured /\ captured' = captured \cup {f}
      /\ UNCHANGED <<mode, up, epoch, processed, learned>>
  BY DEF Capture
<1>2. /\ JobOf(f) = {} /\ MessageOf(f, "frame") = {} /\ MessageOf(f, "result") = {}
      /\ processed[f] = 0 /\ f \notin rejected
  BY <1>1 DEF FramesInv, FrameOk, FramesTypes
<1>3. CASE Compute(n, f, FirstStep, queued[n], jobs) /\ UNCHANGED onAir
  <2>1. /\ FirstStep \in {"ship", "dispatch", "brain"} /\ queued[n] \in 0..QueueLimit /\ jobs \in SUBSET jobs
        /\ queued[n] = Cardinality({job \in jobs : job.node = n /\ job.epoch = epoch[n]})
        /\ \A m \in Members \ {n} : {job \in jobs : job.node = m /\ job.epoch = epoch[m]} = Live(m)
        /\ \A job \in jobs : ~(job.frame = f /\ job.epoch = epoch[job.node])
    BY <1>2 DEF FirstStep, FramesInv, FramesTypes, QueueExact, Live, JobOf
  <2>2. /\ queued' \in [Members -> 0..QueueLimit] /\ jobs' \subseteq Job /\ IsFiniteSet(jobs')
        /\ QueueExact' /\ \A job \in jobs' : job.epoch <= epoch'[job.node]
        /\ \A g \in Frames \ {f} : JobOf(g)' \subseteq JobOf(g)
        /\ AtMostOne(JobOf(f)') /\ (rejected' = rejected \/ (rejected' = rejected \cup {f} /\ JobOf(f)' = {}))
    BY <1>1, <1>3, <2>1, ComputeQueue
  <2>3. FramesTypes'
    BY <1>1, <1>3, <2>2 DEF FramesInv, FramesTypes
  <2>4. \A g \in Frames, kind \in {"frame", "result"} : MessageOf(g, kind)' = MessageOf(g, kind)
    BY <1>3 DEF MessageOf
  <2>5. ASSUME NEW g \in Frames PROVE FrameOk(g)'
    <3>1. FrameOk(g)
      BY DEF FramesInv
    <3>2. CASE g = f
      <4>1. AtMostOne(MessageOf(f, "frame")') /\ MessageOf(f, "frame")' = {}
        BY <1>2, <2>4 DEF AtMostOne
      <4>2. f \notin rejected' \/ JobOf(f)' = {}
        BY <1>2, <2>2
      <4> QED BY <1>1, <1>2, <2>2, <2>4, <3>1, <3>2, <4>1, <4>2, FrameCarried
    <3>3. CASE g # f
      <4>1. g \in rejected' => g \in rejected
        BY <2>2, <3>3
      <4> QED BY <1>1, <2>2, <2>4, <3>1, <3>3, <4>1, FrameQuiet
    <3> QED BY <3>2, <3>3
  <2> QED BY <2>2, <2>3, <2>5 DEF FramesInv
<1>4. CASE Send(leader, "frame", f, onAir) /\ UNCHANGED <<queued, jobs, rejected>>
  <2>1. /\ onAir' \subseteq Message
        /\ \A g \in Frames, k \in {"frame", "result"} : ~(g = f /\ k = "frame") =>
             MessageOf(g, k)' \subseteq MessageOf(g, k)
        /\ AtMostOne(MessageOf(f, "frame")')
    BY <1>2, <1>4, SendMessage DEF FramesInv
  <2>2. FramesTypes' /\ IsFiniteSet(jobs') /\ QueueExact' /\ \A job \in jobs' : job.epoch <= epoch'[job.node]
    BY <1>1, <1>4, <2>1 DEF FramesInv, FramesTypes, QueueExact, Live
  <2>3. \A g \in Frames : JobOf(g)' = JobOf(g)
    BY <1>1, <1>4 DEF JobOf
  <2>4. ASSUME NEW g \in Frames PROVE FrameOk(g)'
    <3>1. FrameOk(g)
      BY DEF FramesInv
    <3>2. CASE g = f
      <4>1. JobOf(f)' = {} /\ AtMostOne(JobOf(f)') /\ f \notin rejected'
        BY <1>2, <1>4, <2>3 DEF AtMostOne
      <4> QED BY <1>1, <1>2, <2>1, <3>1, <3>2, <4>1, FrameCarried
    <3>3. CASE g # f
      BY <1>1, <1>4, <2>1, <2>3, <3>1, <3>3, FrameQuiet
    <3> QED BY <3>2, <3>3
  <2> QED BY <2>2, <2>4 DEF FramesInv
<1> QED BY <1>3, <1>4 DEF Capture

\* The work of a job that is moved on: kept for the brain of its node, sent to
\* another node, or dropped.
LEMMA MovedInv ==
  ASSUME FramesInv, NEW job \in jobs, job.epoch = epoch[job.node], NEW to \in Members,
         UNCHANGED <<mode, up, epoch, captured, processed, learned>>,
         \/ Keep(job)
         \/ Release(job) /\ UNCHANGED onAir
         \/ Release(job) /\ Send(to, "frame", job.frame, onAir)
  PROVE  FramesInv'
<1>1. PICK f \in Frames : f = job.frame
  BY DEF FramesInv, FramesTypes, Job
<1>2. /\ job \in JobOf(f) /\ FrameOk(f) /\ MessageOf(f, "frame") = {}
      /\ f \in captured /\ f \notin rejected /\ processed[f] = 0
  BY <1>1 DEF FramesInv, FrameOk, JobOf
<1>3. CASE Keep(job)
  <2>1. /\ queued' \in [Members -> 0..QueueLimit] /\ jobs' \subseteq Job /\ IsFiniteSet(jobs')
        /\ QueueExact' /\ \A j \in jobs' : j.epoch <= epoch'[j.node]
        /\ \A g \in Frames \ {f} : JobOf(g)' \subseteq JobOf(g)
        /\ AtMostOne(JobOf(f)')
        /\ rejected' = rejected \/ (rejected' = rejected \cup {f} /\ JobOf(f)' = {})
        /\ onAir' = onAir
    BY <1>1, <1>3, KeepQueue
  <2>2. FramesTypes'
    BY <1>2, <2>1 DEF FramesInv, FramesTypes
  <2>3. \A g \in Frames, kind \in {"frame", "result"} : MessageOf(g, kind)' = MessageOf(g, kind)
    BY <2>1 DEF MessageOf
  <2>4. ASSUME NEW g \in Frames PROVE FrameOk(g)'
    <3>1. CASE g = f
      <4>1. AtMostOne(MessageOf(f, "frame")') /\ MessageOf(f, "frame")' = {}
        BY <1>2, <2>3 DEF AtMostOne
      <4>2. f \notin rejected' \/ JobOf(f)' = {}
        BY <1>2, <2>1
      <4> QED BY <1>2, <2>1, <2>3, <3>1, <4>1, <4>2, FrameCarried
    <3>2. CASE g # f
      <4>1. FrameOk(g) /\ (g \in rejected' => g \in rejected)
        BY <2>1, <3>2 DEF FramesInv
      <4> QED BY <2>1, <2>3, <3>2, <4>1, FrameQuiet
    <3> QED BY <3>1, <3>2
  <2> QED BY <2>1, <2>2, <2>4 DEF FramesInv
<1>4. CASE Release(job) /\ (onAir' = onAir \/ Send(to, "frame", f, onAir))
  <2>1. /\ queued' \in [Members -> 0..QueueLimit] /\ jobs' \subseteq Job /\ IsFiniteSet(jobs')
        /\ QueueExact' /\ \A j \in jobs' : j.epoch <= epoch'[j.node]
        /\ jobs' = jobs \ {job} /\ rejected' = rejected
        /\ \A g \in Frames : JobOf(g)' = JobOf(g) \ {job}
    BY <1>4, ReleaseQueue
  <2>2. /\ onAir' \subseteq Message
        /\ \A g \in Frames, k \in {"frame", "result"} : ~(g = f /\ k = "frame") =>
             MessageOf(g, k)' \subseteq MessageOf(g, k)
        /\ AtMostOne(MessageOf(f, "frame")')
    <3>1. CASE onAir' = onAir
      <4>1. \A g \in Frames, k \in {"frame", "result"} : MessageOf(g, k)' = MessageOf(g, k)
        BY <3>1 DEF MessageOf
      <4> QED BY <1>2, <3>1, <4>1 DEF FramesInv, FramesTypes, AtMostOne
    <3>2. CASE Send(to, "frame", f, onAir)
      BY <1>2, <3>2, SendMessage DEF FramesInv
    <3> QED BY <1>4, <3>1, <3>2
  <2>3. FramesTypes'
    BY <2>1, <2>2 DEF FramesInv, FramesTypes
  <2>4. JobOf(f)' = {} /\ AtMostOne(JobOf(f)')
    <3>1. JobOf(f)' = JobOf(f) \ {job} /\ AtMostOne(JobOf(f))
      BY <1>2, <2>1 DEF FrameOk
    <3> QED BY <1>2, <3>1 DEF AtMostOne
  <2>5. ASSUME NEW g \in Frames PROVE FrameOk(g)'
    <3>1. CASE g = f
      BY <1>2, <2>1, <2>2, <2>4, <3>1, FrameCarried
    <3>2. CASE g # f
      <4>1. FrameOk(g) /\ JobOf(g)' \subseteq JobOf(g)
        BY <2>1 DEF FramesInv
      <4> QED BY <2>1, <2>2, <3>2, <4>1, FrameQuiet
    <3> QED BY <3>1, <3>2
  <2> QED BY <2>1, <2>3, <2>5 DEF FramesInv
<1> QED BY <1>1, <1>3, <1>4

LEMMA ShipInv ==
  ASSUME FramesInv, NEW job \in jobs, NEW leader \in Members, Ship(job, leader)
  PROVE  FramesInv'
<1>1. job.epoch = epoch[job.node] /\ UNCHANGED <<mode, up, epoch, captured, processed, learned>>
  BY DEF Ship, Finishing
<1>2. Keep(job) \/ (Release(job) /\ Send(leader, "frame", job.frame, onAir))
  BY DEF Ship
<1> QED BY <1>1, <1>2, MovedInv

LEMMA DispatchInv ==
  ASSUME FramesInv, NEW job \in jobs, NEW leader \in Members, NEW member \in Members,
         Dispatch(job, leader, member)
  PROVE  FramesInv'
<1>1. job.epoch = epoch[job.node] /\ UNCHANGED <<mode, up, epoch, captured, processed, learned>>
  BY DEF Dispatch, Finishing
<1>2. \/ Keep(job)
      \/ Release(job) /\ UNCHANGED onAir
      \/ Release(job) /\ Send(member, "frame", job.frame, onAir)
  BY DEF Dispatch
<1> QED BY <1>1, <1>2, MovedInv

\* The brain ran: the frame has no carrier any more, and its result is learned
\* here, on its way to the leader, or nowhere.
LEMMA BrainDoneInv ==
  ASSUME FramesInv, NEW job \in jobs, NEW verdict \in Verdicts, NEW leader \in Members,
         BrainDone(job, verdict, leader)
  PROVE  FramesInv'
<1>1. /\ job.epoch = epoch[job.node] /\ Release(job)
      /\ UNCHANGED <<mode, up, epoch, captured>>
  BY DEF BrainDone, Finishing
<1>2. PICK f \in Frames : f = job.frame
  BY DEF FramesInv, FramesTypes, Job
<1>3. /\ job \in JobOf(f) /\ AtMostOne(JobOf(f)) /\ MessageOf(f, "frame") = {} /\ MessageOf(f, "result") = {}
      /\ f \in captured /\ f \notin rejected /\ processed[f] = 0 /\ learned[f] <= 0
  BY <1>1, <1>2 DEF FramesInv, FrameOk, JobOf
<1>4. learned \in [Frames -> Nat] /\ learned[f] = 0
  BY <1>3 DEF FramesInv, FramesTypes
<1>5. processed' \in [Frames -> Nat] /\ \A g \in Frames : processed'[g] = IF g = f THEN 1 ELSE processed[g]
  BY <1>2, <1>3 DEF BrainDone, FramesInv, FramesTypes
<1>6. (Learn(f) /\ onAir' = onAir) \/ (learned' = learned /\ onAir' = onAir)
      \/ (learned' = learned /\ Send(leader, "result", f, onAir))
  BY <1>2 DEF BrainDone, WorkerDone, Report, Decided
<1>7. /\ queued' \in [Members -> 0..QueueLimit] /\ jobs' \subseteq Job /\ IsFiniteSet(jobs')
      /\ QueueExact' /\ \A j \in jobs' : j.epoch <= epoch'[j.node]
      /\ jobs' = jobs \ {job} /\ rejected' = rejected
      /\ \A g \in Frames : JobOf(g)' = JobOf(g) \ {job}
  BY <1>1, ReleaseQueue
<1>8. JobOf(f)' = {}
  BY <1>3, <1>7 DEF AtMostOne
<1>9. /\ onAir' \subseteq Message
      /\ \A g \in Frames, k \in {"frame", "result"} : ~(g = f /\ k = "result") =>
           MessageOf(g, k)' \subseteq MessageOf(g, k)
      /\ AtMostOne(MessageOf(f, "result")')
      /\ learned' \in [Frames -> Nat] /\ \A g \in Frames \ {f} : learned'[g] = learned[g]
      /\ learned'[f] = 0 \/ (learned'[f] = 1 /\ MessageOf(f, "result")' = {})
  <2>1. CASE onAir' = onAir
    <3>1. \A g \in Frames, k \in {"frame", "result"} : MessageOf(g, k)' = MessageOf(g, k)
      BY <2>1 DEF MessageOf
    <3>2. /\ learned' \in [Frames -> Nat] /\ \A g \in Frames \ {f} : learned'[g] = learned[g]
          /\ (learned'[f] = 0 \/ learned'[f] = 1)
      <4>1. learned' = learned \/ learned' = [learned EXCEPT ![f] = @ + 1]
        BY <1>6 DEF Learn
      <4> QED BY <1>4, <4>1
    <3>3. MessageOf(f, "result")' = {}
      BY <1>3, <3>1
    <3>4. AtMostOne(MessageOf(f, "result")')
      BY <3>3 DEF AtMostOne
    <3>5. onAir' \subseteq Message
      BY <2>1 DEF FramesInv, FramesTypes
    <3>6. \A g \in Frames, k \in {"frame", "result"} : ~(g = f /\ k = "result") =>
            MessageOf(g, k)' \subseteq MessageOf(g, k)
      BY <3>1
    <3>7. learned'[f] = 0 \/ (learned'[f] = 1 /\ MessageOf(f, "result")' = {})
      BY <3>2, <3>3
    <3> QED BY <3>2, <3>4, <3>5, <3>6, <3>7
  <2>2. CASE learned' = learned /\ Send(leader, "result", f, onAir)
    BY <1>3, <1>4, <2>2, SendMessage DEF FramesInv
  <2> QED BY <1>6, <2>1, <2>2
<1>10. FramesTypes'
  BY <1>1, <1>5, <1>7, <1>9 DEF FramesInv, FramesTypes
<1>11. ASSUME NEW g \in Frames PROVE FrameOk(g)'
  <2>1. CASE g = f
    <3>1. MessageOf(f, "frame")' = {}
      BY <1>3, <1>9
    <3> QED BY <1>1, <1>3, <1>5, <1>7, <1>8, <1>9, <2>1, <3>1 DEF FrameOk, AtMostOne
  <2>2. CASE g # f
    <3>1. FrameOk(g) /\ JobOf(g)' \subseteq JobOf(g)
      BY <1>7 DEF FramesInv
    <3> QED BY <1>1, <1>5, <1>7, <1>9, <2>2, <3>1, FrameQuiet
  <2> QED BY <2>1, <2>2
<1> QED BY <1>7, <1>10, <1>11 DEF FramesInv

\* A message arrives: a frame at a node that is alive, a result there, or
\* anything at a node that is not.
LEMMA DeliverInv ==
  ASSUME FramesInv, NEW m \in onAir, Deliver(m)
  PROVE  FramesInv'
<1>1. onAir' = onAir \ {m} /\ UNCHANGED <<mode, up, epoch, captured, processed>>
  BY DEF Deliver
<1>2. PICK f \in Frames : f = m.frame
  BY DEF FramesInv, FramesTypes, Message
<1>3. m.to \in Members /\ m.kind \in {"frame", "result"} /\ FrameOk(f) /\ onAir' \subseteq Message
  BY <1>1 DEF FramesInv, FramesTypes, Message
<1>4. \A g \in Frames, k \in {"frame", "result"} : MessageOf(g, k)' \subseteq MessageOf(g, k)
  BY <1>1 DEF MessageOf
<1>5. CASE m.to \in up /\ m.kind = "frame"
  <2>1. Compute(m.to, f, "brain", queued[m.to], jobs) /\ learned' = learned
    BY <1>2, <1>5 DEF Deliver
  <2>2. /\ m \in MessageOf(f, "frame") /\ AtMostOne(MessageOf(f, "frame")) /\ JobOf(f) = {}
        /\ f \in captured /\ f \notin rejected /\ processed[f] = 0
    BY <1>2, <1>3, <1>5 DEF FrameOk, MessageOf
  <2>3. MessageOf(f, "frame")' = {}
    BY <1>1, <2>2 DEF MessageOf, AtMostOne
  <2>4. /\ queued[m.to] \in 0..QueueLimit /\ jobs \in SUBSET jobs
        /\ queued[m.to] = Cardinality({job \in jobs : job.node = m.to /\ job.epoch = epoch[m.to]})
        /\ \A n \in Members \ {m.to} : {job \in jobs : job.node = n /\ job.epoch = epoch[n]} = Live(n)
        /\ \A job \in jobs : ~(job.frame = f /\ job.epoch = epoch[job.node])
    BY <1>3, <2>2 DEF FramesInv, FramesTypes, QueueExact, Live, JobOf
  <2>5. /\ queued' \in [Members -> 0..QueueLimit] /\ jobs' \subseteq Job /\ IsFiniteSet(jobs')
        /\ QueueExact' /\ \A job \in jobs' : job.epoch <= epoch'[job.node]
        /\ \A g \in Frames \ {f} : JobOf(g)' \subseteq JobOf(g)
        /\ AtMostOne(JobOf(f)') /\ (rejected' = rejected \/ (rejected' = rejected \cup {f} /\ JobOf(f)' = {}))
    BY <1>1, <1>5, <2>1, <2>4, ComputeQueue
  <2>6. FramesTypes'
    BY <1>1, <1>3, <2>1, <2>2, <2>5 DEF FramesInv, FramesTypes
  <2>7. ASSUME NEW g \in Frames PROVE FrameOk(g)'
    <3>1. CASE g = f
      <4>1. AtMostOne(MessageOf(f, "frame")')
        BY <2>3 DEF AtMostOne
      <4>2. f \notin rejected' \/ JobOf(f)' = {}
        BY <2>2, <2>5
      <4> QED BY <1>1, <1>3, <1>4, <2>1, <2>2, <2>3, <2>5, <3>1, <4>1, <4>2, FrameCarried
    <3>2. CASE g # f
      <4>1. FrameOk(g) /\ (g \in rejected' => g \in rejected)
        BY <2>5, <3>2 DEF FramesInv
      <4> QED BY <1>1, <1>4, <2>1, <2>5, <3>2, <4>1, FrameQuiet
    <3> QED BY <3>1, <3>2
  <2> QED BY <2>5, <2>6, <2>7 DEF FramesInv
<1>6. CASE ~(m.to \in up /\ m.kind = "frame")
  <2>1. UNCHANGED <<queued, jobs, rejected>>
    BY <1>6 DEF Deliver
  <2>2. IsFiniteSet(jobs') /\ QueueExact' /\ \A job \in jobs' : job.epoch <= epoch'[job.node]
    BY <1>1, <2>1 DEF FramesInv, QueueExact, Live
  <2>3. \A g \in Frames : JobOf(g)' = JobOf(g)
    BY <1>1, <2>1 DEF JobOf
  <2>4. CASE m.to \in up /\ m.kind = "result"
    <3>1. learned' = [learned EXCEPT ![f] = @ + 1]
      BY <1>2, <2>4 DEF Deliver, Learn
    <3>2. /\ m \in MessageOf(f, "result") /\ AtMostOne(MessageOf(f, "result"))
          /\ processed[f] = 1 /\ learned[f] = 0
      BY <1>2, <1>3, <2>4 DEF FrameOk, MessageOf
    <3>3. MessageOf(f, "result")' = {}
      BY <1>1, <3>2 DEF MessageOf, AtMostOne
    <3>4. learned' \in [Frames -> Nat] /\ \A g \in Frames : learned'[g] = IF g = f THEN 1 ELSE learned[g]
      BY <3>1, <3>2 DEF FramesInv, FramesTypes
    <3>5. FramesTypes'
      BY <1>1, <1>3, <2>1, <3>4 DEF FramesInv, FramesTypes
    <3>6. ASSUME NEW g \in Frames PROVE FrameOk(g)'
      <4>1. CASE g = f
        <5>1. JobOf(f)' = JobOf(f) /\ MessageOf(f, "frame")' \subseteq MessageOf(f, "frame")
          BY <1>4, <2>3
        <5> QED BY <1>1, <1>3, <2>1, <3>2, <3>3, <3>4, <4>1, <5>1 DEF FrameOk, AtMostOne
      <4>2. CASE g # f
        BY <1>1, <1>4, <2>1, <2>3, <3>4, <4>2, FrameQuiet DEF FramesInv
      <4> QED BY <4>1, <4>2
    <3> QED BY <2>2, <3>5, <3>6 DEF FramesInv
  <2>5. CASE ~(m.to \in up /\ m.kind = "result")
    <3>1. learned' = learned
      BY <2>5 DEF Deliver
    <3>2. FramesTypes'
      BY <1>1, <1>3, <2>1, <3>1 DEF FramesInv, FramesTypes
    <3>3. \A g \in Frames : FrameOk(g)'
      BY <1>1, <1>4, <2>1, <2>3, <3>1, FrameQuiet DEF FramesInv
    <3> QED BY <2>2, <3>2, <3>3 DEF FramesInv
  <2> QED BY <2>4, <2>5
<1> QED BY <1>5, <1>6

-----------------------------------------------------------------------------
(* The invariant.                                                          *)

LEMMA NextInv == ASSUME FramesInv, [FramesNext]_frameVars PROVE FramesInv'
<1>1. CASE UNCHANGED frameVars
  <2>1. UNCHANGED <<mode, up, epoch, queued, jobs, onAir, captured, rejected, processed, learned>>
    BY <1>1 DEF frameVars, node, metrics
  <2>2. FramesTypes' /\ IsFiniteSet(jobs') /\ QueueExact' /\ \A job \in jobs' : job.epoch <= epoch'[job.node]
    BY <2>1 DEF FramesInv, FramesTypes, QueueExact, Live
  <2>3. \A f \in Frames, k \in {"frame", "result"} : JobOf(f)' = JobOf(f) /\ MessageOf(f, k)' = MessageOf(f, k)
    BY <2>1 DEF JobOf, MessageOf
  <2>4. \A f \in Frames : FrameOk(f)'
    BY <2>1, <2>3, FrameQuiet DEF FramesInv
  <2> QED BY <2>2, <2>4 DEF FramesInv
<1>2. CASE \E n \in Members :
             KillNode(n) \/ ReviveNode(n) \/ \E f \in Frames, leader \in Members : Capture(n, f, leader)
  BY <1>2, KillInv, ReviveInv, CaptureInv
<1>3. CASE \E job \in jobs : Event(job)
  BY <1>3, FinishStaleInv, ShipInv, DispatchInv, BrainDoneInv DEF Event
<1>4. CASE \E m \in onAir : Deliver(m)
  BY <1>4, DeliverInv
<1> QED BY <1>1, <1>2, <1>3, <1>4 DEF FramesNext

\* The inductive invariant: booked work, messages and metrics agree.
THEOREM Invariance == FramesSpec => []FramesInv
<1>1. FramesInit => FramesInv
  BY FramesStart
<1>2. FramesInv /\ [FramesNext]_frameVars => FramesInv'
  BY NextInv
<1> QED BY <1>1, <1>2, PTL DEF FramesSpec

\* Node.compute, _finish and kill: _queued is exactly the work that will still
\* finish, and never above the limit: deaths and revivals neither leak capacity
\* nor let stale work give some back twice.
THEOREM QueuesAreExact == FramesSpec => [](FramesTypes /\ QueueExact)
<1>1. FramesInv => FramesTypes /\ QueueExact
  BY DEF FramesInv
<1> QED BY Invariance, <1>1, PTL

\* A set with at most one element.
LEMMA AtMostOneCardinality ==
  ASSUME NEW S, AtMostOne(S)
  PROVE  IsFiniteSet(S) /\ Cardinality(S) = IF S = {} THEN 0 ELSE 1
<1>1. CASE S = {}
  BY <1>1, FS_EmptySet
<1>2. CASE S # {}
  <2>1. PICK x : x \in S
    BY <1>2
  <2>2. S = {x}
    BY <2>1 DEF AtMostOne
  <2> QED BY <1>2, <2>2, FS_Singleton
<1> QED BY <1>1, <1>2

\* The handlers of every strategy: a frame has one carrier at most, is processed
\* once at most, and the leader learns its result once at most, and only if it
\* was processed.
THEOREM FramesAreOnce == FramesSpec => []FramesKept
<1>1. ASSUME FramesInv PROVE FrameOnce
  <2> SUFFICES ASSUME NEW f \in Frames
               PROVE  /\ Cardinality(Carriers(f)) + processed[f] + (IF f \in rejected THEN 1 ELSE 0) <= 1
                      /\ f \notin captured => Carriers(f) = {} /\ processed[f] = 0
    BY DEF FrameOnce
  <2>1. Carriers(f) = JobOf(f) \cup MessageOf(f, "frame") /\ FrameOk(f)
    BY <1>1 DEF Carriers, JobOf, MessageOf, FramesInv
  <2>2. AtMostOne(Carriers(f))
    BY <2>1 DEF FrameOk, AtMostOne
  <2>3. Cardinality(Carriers(f)) = IF Carriers(f) = {} THEN 0 ELSE 1
    BY <2>2, AtMostOneCardinality
  <2> QED BY <2>1, <2>3 DEF FrameOk
<1>2. ASSUME FramesInv PROVE LearnedOnce
  <2> SUFFICES ASSUME NEW f \in Frames
               PROVE  learned[f] + Cardinality(MessageOf(f, "result")) <= processed[f]
    BY DEF LearnedOnce, MessageOf
  <2>1. FrameOk(f) /\ learned[f] \in Nat
    BY <1>2 DEF FramesInv, FramesTypes
  <2>2. Cardinality(MessageOf(f, "result")) = IF MessageOf(f, "result") = {} THEN 0 ELSE 1
    BY <2>1, AtMostOneCardinality DEF FrameOk
  <2> QED BY <2>1, <2>2 DEF FrameOk
<1>3. FramesInv => FramesKept
  BY <1>1, <1>2 DEF FramesKept
<1> QED BY Invariance, <1>3, PTL
=============================================================================
