------------------------------- MODULE Swarm -------------------------------
(***************************************************************************)
(* Membership, leadership and the leader's camera in the simulated swarm:  *)
(* sim/membership.py, the lifecycle and camera of SwarmNode and the role   *)
(* of StripedNode in sim/strategies.py, kill and revive of sim/core.py,    *)
(* and the broadcast of heartbeats by sim/channel.py.                      *)
(*                                                                         *)
(* Time is the simulator's, in whole units.  With qos a heartbeat never    *)
(* waits for the medium, so it arrives after the same Delay every time.    *)
(* Events of one instant run in any order: the simulator's order is that   *)
(* of their real-valued times, which the units round.                      *)
(***************************************************************************)
EXTENDS Integers, FiniteSets

CONSTANTS
  N,           \* number of nodes; a node is its id
  Priority,    \* what the leader is chosen by (macs_per_cycle * cpu_mhz)
  Interval,    \* hb_interval
  Missed,      \* missed_beats
  Delay,       \* airtime and latency of a heartbeat
  Period,      \* 1 / fps
  MaxFaults,   \* kills and revivals
  MaxLosses,   \* heartbeats lost on their way to a node
  MaxTime

Nodes == 0..(N - 1)

ASSUME NAssumption == N \in Nat \ {0}
ASSUME PriorityAssumption == Priority \in [Nodes -> Nat]
ASSUME TimeAssumption ==
  /\ Interval \in Nat \ {0} /\ Missed \in Nat \ {0}
  /\ Delay \in Nat /\ Period \in Nat \ {0} /\ MaxTime \in Nat
ASSUME BoundAssumption == MaxFaults \in Nat /\ MaxLosses \in Nat

Timeout == Interval * Missed

\* The first _beat of a node: they are staggered by id.
FirstBeat(n) == (n * Interval) \div N

\* A heartbeat arrives before its successor is sent, and the first of every
\* node within the timeout: any Missed above 1 sees to the latter.
ASSUME DelayAssumption ==
  /\ Delay < Interval
  /\ \A n \in Nodes : FirstBeat(n) + Delay <= Timeout

VARIABLES
  now,
  alive,
  lastSeen,    \* lastSeen[n][p]: when n last heard p
  suspected,
  beatAt,      \* when the next _beat of a node is scheduled
  wire,        \* heartbeats in flight: their source, destination and arrival
  wasLeader,
  cameraOn,
  cameraEpoch,
  ticks,       \* scheduled _tick events of a node's camera
  faults, losses,
  changed,     \* when a node last died or was revived (history)
  lostAt       \* lostAt[n][p]: when n last lost a heartbeat of p (history)

clock == <<now, beatAt, faults, losses>>
history == <<changed, lostAt>>
view == <<lastSeen, suspected>>
camera == <<wasLeader, cameraOn, cameraEpoch, ticks>>
vars == <<clock, history, alive, view, wire, camera>>

\* Long enough ago that it does not matter any more.
Never == -(Delay + Timeout + Interval + 1)

-----------------------------------------------------------------------------
LiveMembers(suspects) == Nodes \ suspects

\* Mutant: the highest id among equals, itself before the others.
LeaderSelfish(n, suspects) ==
  CHOOSE m \in LiveMembers(suspects) :
    \A o \in LiveMembers(suspects) :
      Priority[m] > Priority[o] \/ (Priority[m] = Priority[o] /\ (m = n \/ (o # n /\ m <= o)))

\* The live member of the highest priority, the lowest id among equals.
Leader(n, suspects) ==
  CHOOSE m \in LiveMembers(suspects) :
    \A o \in LiveMembers(suspects) :
      Priority[m] > Priority[o] \/ (Priority[m] = Priority[o] /\ m <= o)

IsLeader(n, suspects) == Leader(n, suspects) = n

Init ==
  /\ now = 0
  /\ alive = Nodes
  /\ lastSeen = [n \in Nodes |-> [p \in Nodes |-> 0]]
  /\ suspected = [n \in Nodes |-> {}]
  /\ beatAt = [n \in Nodes |-> FirstBeat(n)]
  /\ wire = {}
  /\ wasLeader = [n \in Nodes |-> IsLeader(n, {})]
  /\ cameraOn = wasLeader
  /\ cameraEpoch = [n \in Nodes |-> IF wasLeader[n] THEN 1 ELSE 0]
  /\ ticks = [n \in Nodes |-> IF wasLeader[n] THEN {[at |-> 0, epoch |-> 1]} ELSE {}]
  /\ faults = 0 /\ losses = 0
  /\ changed = [n \in Nodes |-> Never]
  /\ lostAt = [n \in Nodes |-> [p \in Nodes |-> Never]]

\* Mutant: the camera starts without a new epoch.
StartCameraSameEpoch(n) ==
  /\ cameraOn' = [cameraOn EXCEPT ![n] = TRUE]
  /\ cameraEpoch' = [cameraEpoch EXCEPT ![n] = IF @ = 0 THEN 1 ELSE @]
  /\ ticks' = IF cameraOn[n] THEN ticks
              ELSE [ticks EXCEPT ![n] = @ \cup {[at |-> now, epoch |-> cameraEpoch'[n]]}]

\* start_camera: a camera that was off gets a new epoch and a tick of its own.
StartCamera(n) ==
  /\ cameraOn' = [cameraOn EXCEPT ![n] = TRUE]
  /\ IF cameraOn[n] THEN UNCHANGED <<cameraEpoch, ticks>>
     ELSE /\ cameraEpoch' = [cameraEpoch EXCEPT ![n] = @ + 1]
          /\ ticks' = [ticks EXCEPT ![n] = @ \cup {[at |-> now, epoch |-> cameraEpoch[n] + 1]}]

StopCamera(n) ==
  /\ cameraOn' = [cameraOn EXCEPT ![n] = FALSE]
  /\ UNCHANGED <<cameraEpoch, ticks>>

\* _track_leadership and _ensure_role: the camera is the leader's.  Suspicions
\* of one beat are handled one by one, and only their sum can change the role.
TakeRole(n, suspects) ==
  /\ wasLeader' = [wasLeader EXCEPT ![n] = IsLeader(n, suspects)]
  /\ IF IsLeader(n, suspects) THEN StartCamera(n) ELSE StopCamera(n)

-----------------------------------------------------------------------------
\* Mutant: a silence of twice the timeout is allowed.
OverdueLate(n) == {p \in Nodes \ ({n} \cup suspected[n]) : now - lastSeen[n][p] > 2 * Timeout}

Overdue(n) == {p \in Nodes \ ({n} \cup suspected[n]) : now - lastSeen[n][p] > Timeout}

Suspect(n, peers) ==
  /\ suspected' = [suspected EXCEPT ![n] = @ \cup peers]
  /\ IF peers = {} THEN UNCHANGED camera ELSE TakeRole(n, suspected'[n])

\* A transmission that each of the other nodes hears, unless it loses it.
Broadcast(n, lost) ==
  /\ losses + Cardinality(lost) <= MaxLosses
  /\ wire' = wire \cup [from : {n}, to : Nodes \ (lost \cup {n}), at : {now + Delay}]
  /\ losses' = losses + Cardinality(lost)
  /\ lostAt' = [m \in Nodes |-> IF m \in lost THEN [lostAt[m] EXCEPT ![n] = now] ELSE lostAt[m]]

\* _beat of a live node; a dead one only schedules the next.
Beat(n, lost) ==
  /\ beatAt[n] = now
  /\ beatAt' = [beatAt EXCEPT ![n] = now + Interval]
  /\ IF n \in alive THEN Broadcast(n, lost) /\ Suspect(n, Overdue(n))
     ELSE lost = {} /\ UNCHANGED <<wire, losses, lostAt, suspected, camera>>
  /\ UNCHANGED <<now, alive, lastSeen, faults, changed>>

\* Mutant: a suspect's heartbeat readmits it, and nothing is rebalanced.
HandleQuietly(m) ==
  /\ m.at = now
  /\ wire' = wire \ {m}
  /\ IF m.to \in alive
     THEN /\ lastSeen' = [lastSeen EXCEPT ![m.to][m.from] = now]
          /\ suspected' = [suspected EXCEPT ![m.to] = @ \ {m.from}]
     ELSE UNCHANGED view
  /\ UNCHANGED <<clock, history, alive, camera>>

\* Deliver and handle: a live node notes the time, and readmits a suspect.
Handle(m) ==
  /\ m.at = now
  /\ wire' = wire \ {m}
  /\ IF m.to \in alive
     THEN /\ lastSeen' = [lastSeen EXCEPT ![m.to][m.from] = now]
          /\ suspected' = [suspected EXCEPT ![m.to] = @ \ {m.from}]
          /\ IF m.from \in suspected[m.to] THEN TakeRole(m.to, suspected'[m.to]) ELSE UNCHANGED camera
     ELSE UNCHANGED <<view, camera>>
  /\ UNCHANGED <<clock, history, alive>>

\* _tick: a tick of another epoch, of a camera that is off or of a dead node
\* ends its chain; otherwise a frame is captured and the next tick scheduled.
CameraTick(n, t) ==
  /\ t \in ticks[n] /\ t.at = now
  /\ ticks' = [ticks EXCEPT ![n] =
       (@ \ {t}) \cup (IF n \in alive /\ cameraOn[n] /\ t.epoch = cameraEpoch[n]
                       THEN {[at |-> now + Period, epoch |-> t.epoch]} ELSE {})]
  /\ UNCHANGED <<clock, history, alive, view, wire, wasLeader, cameraOn, cameraEpoch>>

-----------------------------------------------------------------------------
Fault(n) ==
  /\ faults < MaxFaults
  /\ faults' = faults + 1
  /\ changed' = [changed EXCEPT ![n] = now]
  /\ UNCHANGED <<now, beatAt, losses, wire, lostAt>>

Kill(n) ==
  /\ n \in alive /\ alive' = alive \ {n}
  /\ cameraOn' = [cameraOn EXCEPT ![n] = FALSE]
  /\ wasLeader' = [wasLeader EXCEPT ![n] = FALSE]
  /\ Fault(n)
  /\ UNCHANGED <<view, cameraEpoch, ticks>>

\* Mutant: a revived node keeps the times it has last heard its peers.
ReviveStale(n) ==
  /\ n \notin alive /\ alive' = alive \cup {n}
  /\ suspected' = [suspected EXCEPT ![n] = {}]
  /\ TakeRole(n, {})
  /\ Fault(n)
  /\ UNCHANGED lastSeen

\* reset_after_revive trusts every peer as if it had been heard just now.
Revive(n) ==
  /\ n \notin alive /\ alive' = alive \cup {n}
  /\ lastSeen' = [lastSeen EXCEPT ![n] = [p \in Nodes |-> IF p = n THEN 0 ELSE now]]
  /\ suspected' = [suspected EXCEPT ![n] = {}]
  /\ TakeRole(n, {})
  /\ Fault(n)

\* The simulator's clock moves when every event of the instant has run.
Advance ==
  /\ now < MaxTime
  /\ \A n \in Nodes : beatAt[n] > now /\ \A t \in ticks[n] : t.at > now
  /\ \A m \in wire : m.at > now
  /\ now' = now + 1
  /\ UNCHANGED <<history, alive, view, beatAt, wire, camera, faults, losses>>

Next ==
  \/ \E n \in Nodes, lost \in SUBSET Nodes : n \notin lost /\ Beat(n, lost)
  \/ \E m \in wire : Handle(m)
  \/ \E n \in Nodes : Kill(n) \/ Revive(n) \/ \E t \in ticks[n] : CameraTick(n, t)
  \/ Advance

Spec == Init /\ [][Next]_vars

-----------------------------------------------------------------------------
TypeOK ==
  /\ now \in 0..MaxTime /\ alive \subseteq Nodes
  /\ lastSeen \in [Nodes -> [Nodes -> 0..MaxTime]]
  /\ \A n \in Nodes : suspected[n] \subseteq Nodes \ {n}
  /\ \A n \in Nodes : beatAt[n] \in now..(now + Interval)
  /\ \A m \in wire : m.from \in Nodes /\ m.to \in Nodes \ {m.from} /\ m.at \in now..(now + Delay)
  /\ wasLeader \in [Nodes -> BOOLEAN] /\ cameraOn \in [Nodes -> BOOLEAN]
  /\ \A n \in Nodes : \A t \in ticks[n] : t.at \in now..(now + Period) /\ t.epoch \in 1..cameraEpoch[n]
  /\ faults \in 0..MaxFaults /\ losses \in 0..MaxLosses

\* A live node's camera and its record of leadership follow its view, through
\* suspicions, readmissions, deaths and revivals.
RoleFollowsView ==
  \A n \in Nodes : /\ n \in alive => wasLeader[n] = IsLeader(n, suspected[n])
                   /\ cameraOn[n] <=> n \in alive /\ wasLeader[n]

\* A camera that is on has exactly one chain of ticks: it neither starves nor
\* captures twice a period, however often it is switched off and on between
\* two ticks.
OneTickChain ==
  \A n \in Nodes : cameraOn[n] => Cardinality({t \in ticks[n] : t.epoch = cameraEpoch[n]}) = 1

\* A node that has been dead for long is suspected by every node that has not
\* been revived since: the last heartbeat arrives, the silence exceeds the
\* timeout, and the next beat looks.  "Within one heartbeat timeout of a failure"
\* (membership.py 12, ARCHITECTURE.md 52) leaves out the delay and the beat.
DeadAreSuspected ==
  \A n \in alive, p \in Nodes \ alive :
    /\ now > changed[p] + Delay + Timeout + Interval
    /\ now > changed[n] + Timeout + Interval
    => p \in suspected[n]

\* A live node is trusted from its second heartbeat after it was revived or was
\* not heard, whatever happens to the others: a node that has just been revived
\* suspects nobody who can be heard.  It trusts all its peers (ARCHITECTURE.md 52),
\* which is the opposite of "trust nobody until heard from" (membership.py 54).
LiveAreTrusted ==
  \A n, p \in alive :
    /\ now > changed[p] + Interval + Delay
    /\ now > lostAt[n][p] + Interval + Delay
    => p \notin suspected[n]

\* Suspicion tells the dead from the living in bounded time.
DetectorAccurate == TypeOK /\ DeadAreSuspected /\ LiveAreTrusted

\* When nothing has failed for as long as DeadAreSuspected takes, exactly one
\* camera of the stripe is on, that of the live node with the highest priority:
\* all views agree.
Settled ==
  \A n \in Nodes : /\ now > changed[n] + Delay + Timeout + Interval
                    /\ \A p \in Nodes : now > lostAt[n][p] + Interval + Delay
OneCamera ==
  Settled /\ alive # {} =>
    \E n \in alive : /\ \A m \in Nodes : cameraOn[m] <=> m = n
                     /\ \A m \in alive : Priority[m] <= Priority[n]
=============================================================================
