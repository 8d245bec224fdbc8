-------------------------------- MODULE Clash --------------------------------
(***************************************************************************)
(* One episode of the arena's engagement (arena/clash.py): interceptors    *)
(* that learn of attackers from their own sensors and from each other,     *)
(* choose targets, meet attackers and are spent, while attackers cross the *)
(* line.  Flight is left out: who sees and hears whom, who passes within   *)
(* the capture radius, whether the shot hits and who reaches the line are  *)
(* arbitrary.  An episode that is over goes on being stepped as long as    *)
(* others of its batch last.                                               *)
(***************************************************************************)
EXTENDS Integers, FiniteSets, FiniteSetsExt, Functions

CONSTANTS Attackers,
          Rules,       \* settings: [defenders, attackers, shots, relay, every]
          Substeps,    \* physics steps between two decisions
          Duration,    \* steps until the episode is over
          MaxSteps     \* steps the longest episode of the batch takes

ASSUME ClashAssumption ==
    /\ IsFiniteSet(Attackers)
    /\ {Substeps, Duration, MaxSteps} \subseteq Nat \ {0} /\ Duration <= MaxSteps
    /\ \A r \in Rules : /\ {r.defenders, r.shots, r.relay, r.every} \subseteq Nat \ {0}
                        /\ r.attackers \subseteq Attackers /\ r.attackers # {}

VARIABLES
    rules,       \* cfg
    phase,       \* of the loop in play_clash: "decide" or "fly"
    steps, substep,
    done,
    guards,      \* d_alive, as the set of interceptors still in the fight
    ammo, station, target,
    flying,      \* a_alive; with those killed and those that crossed the line
    killed, breached,
    firstSeen,   \* a_seen
    endedAt,     \* a_end
    tracks,      \* track_age: decisions since somebody saw the attacker
    tEnd,
    reports      \* reports[n]: which interceptors a sighting n decisions old
                 \* has reached (history)

clashVars == <<rules, phase, steps, substep, done, guards, ammo, station, target, flying, killed,
               breached, firstSeen, endedAt, tracks, tEnd, reports>>

Nobody == "nobody"
NoTime == -1
Team == 1..rules.defenders
Foes == rules.attackers
Pairs == Team \X Foes
Now == steps * Substeps + substep

\* A report older than the relay allows is as good as none.
Unknown == rules.relay
Aged(n) == IF n + 1 < Unknown THEN n + 1 ELSE Unknown

\* Mutant: whoever is spent leaves a hole in the line.
StationsWithHole(alive) == [d \in Team |-> <<d - 1, Cardinality(Team)>>]

\* A station of the line: its place among how many.
Stations(alive) ==
    [d \in Team |-> <<Cardinality({e \in alive : e <= d}) - 1, Cardinality(alive)>>]

ClashInit ==
    /\ rules \in Rules
    /\ phase = "decide" /\ steps = 0 /\ substep = 0 /\ done = FALSE
    /\ guards = Team /\ ammo = [d \in Team |-> rules.shots] /\ station = Stations(Team)
    /\ target = [d \in Team |-> Nobody]
    /\ flying = Foes /\ killed = {} /\ breached = {}
    /\ firstSeen = [a \in Foes |-> NoTime] /\ endedAt = [a \in Foes |-> NoTime]
    /\ tracks = [p \in Pairs |-> Unknown] /\ tEnd = NoTime
    /\ reports = [n \in 0..(rules.relay - 1) |-> {}]

-----------------------------------------------------------------------------
(* A decision of the interceptors.                                         *)

\* shared: what I see, and what a friend I hear sees.
Shared(seen, hear) == {p \in Pairs : \E e \in Team : <<e, p[2]>> \in seen /\ (e = p[1] \/ <<p[1], e>> \in hear)}

\* Mutant: a friend's report is not a decision older than its own.
RelayTracksAgeless(seen, hear) ==
    [p \in Pairs |-> Min({IF <<e, p[2]>> \in seen THEN 0
                          ELSE IF e = p[1] THEN Aged(tracks[p]) ELSE tracks[<<e, p[2]>>] :
                             e \in {e \in Team : e = p[1] \/ <<p[1], e>> \in hear}})]

\* relay_tracks: the freshest of my own report and those I hear.
RelayTracks(seen, hear) ==
    LET broadcast == [p \in Pairs |-> IF p \in seen THEN 0 ELSE Aged(tracks[p])]
    IN  [p \in Pairs |-> Min({broadcast[<<e, p[2]>>] : e \in {e \in Team : e = p[1] \/ <<p[1], e>> \in hear}})]

\* _known with relay = 1, and otherwise with the table of each interceptor.
NewTracks(seen, hear) ==
    IF rules.relay = 1 THEN tracks
    ELSE [p \in Pairs |-> IF p \in guards \X flying THEN RelayTracks(seen, hear)[p] ELSE Unknown]
Known(seen, hear) ==
    IF rules.relay = 1 THEN Shared(seen, hear)
    ELSE {p \in Pairs : NewTracks(seen, hear)[p] < Unknown}

Heard(seen, hear) ==
    LET onward(set) == (set \cup Shared(set, hear)) \cap (guards \X flying)
    IN  [n \in DOMAIN reports |-> onward(IF n = 0 THEN seen ELSE reports[n - 1])]

\* A brain too slow for its device decides less often than every step.
Due == steps % rules.every = 0

\* links: <<d, e>> when d can hear e.
Hearable == {p \in guards \X guards : p[1] # p[2]}

\* defender_obs notes when an attacker is seen for the first time.
Sighted(seen) ==
    [a \in Foes |-> IF firstSeen[a] = NoTime /\ \E d \in Team : <<d, a>> \in seen THEN Now ELSE firstSeen[a]]

\* What is observed, the brain's choice among the attackers it knows, and
\* apply_defenders.
DefendersDecide ==
    /\ phase = "decide" /\ steps < MaxSteps /\ phase' = "fly"
    /\ IF ~Due THEN UNCHANGED <<firstSeen, tracks, reports, target>>
       ELSE \E seen \in SUBSET (guards \X flying), hear \in SUBSET Hearable :
            /\ firstSeen' = Sighted(seen)
            /\ tracks' = NewTracks(seen, hear)
            /\ reports' = Heard(seen, hear)
            /\ target' \in [Team -> Foes \cup {Nobody}]
            /\ \A d \in Team :
                  IF done \/ d \notin guards THEN target'[d] = target[d]
                  ELSE target'[d] = Nobody \/ <<d, target'[d]>> \in Known(seen, hear)
    /\ UNCHANGED <<rules, steps, substep, done, guards, ammo, station, flying, killed, breached, endedAt, tEnd>>

-----------------------------------------------------------------------------
(* A physics step, the last of which ends the step.                        *)

\* Mutant: an attacker may be shot down after it has crossed the line.
CrossersAnyway(hit) == flying

\* An attacker that is hit can no longer cross.
Crossers(hit) == flying \ hit

\* Mutant: episodes that are over go on fighting.
FightingOn == guards

\* Who can meet anybody in this step.
Fighting == IF done THEN {} ELSE guards

\* Mutant: an interceptor is spent one shot late.
SpentLate(d) == ammo[d] = 0
SpentBy(d) == ammo[d] = 1

\* step: _fly and _engagements and, after the last of them, its end.
\* shot: who hits whom; the closest attacker that an interceptor passes.
Fly ==
    /\ phase = "fly"
    /\ \E shot \in [Team -> flying \cup {Nobody}], crossed \in SUBSET flying :
       LET fired == {d \in Team : shot[d] # Nobody}
           hit == {shot[d] : d \in fired}
           spent == {d \in fired : SpentBy(d)}
           time == Now + 1
           last == substep + 1 = Substeps
           ends == last /\ ~done /\ (flying' = {} \/ steps + 1 = Duration)
       IN  /\ fired \subseteq Fighting
           /\ crossed \subseteq Crossers(hit) /\ (done => crossed = {})
           /\ target' = [d \in Team |-> IF target[d] \in flying THEN target[d] ELSE Nobody]
           /\ killed' = killed \cup hit /\ breached' = breached \cup crossed
           /\ flying' = flying \ (hit \cup crossed)
           /\ endedAt' = [a \in Foes |-> IF a \in hit \cup crossed THEN time ELSE endedAt[a]]
           /\ ammo' = [d \in Team |-> IF d \in fired THEN ammo[d] - 1 ELSE ammo[d]]
           /\ guards' = guards \ spent
           /\ station' = IF spent # {} THEN Stations(guards \ spent) ELSE station
           /\ substep' = (IF last THEN 0 ELSE substep + 1)
           /\ steps' = (IF last THEN steps + 1 ELSE steps)
           /\ phase' = (IF last THEN "decide" ELSE "fly")
           /\ done' = (done \/ ends)
           /\ tEnd' = IF ends THEN time ELSE tEnd
    /\ UNCHANGED <<rules, firstSeen, tracks, reports>>

ClashNext == DefendersDecide \/ Fly

\* summary, of the episode that is over.
Outcome == [held |-> Cardinality(Foes) - Cardinality(killed) - Cardinality(breached),
            reactions |-> {endedAt[a] - firstSeen[a] : a \in {a \in killed : firstSeen[a] # NoTime}}]

ClashSpec == ClashInit /\ [][ClashNext]_clashVars

-----------------------------------------------------------------------------
(* Properties.                                                             *)

\* Every attacker has one fate and one time of it, never after the episode
\* is over; and nobody is shot down before it was first seen, if it was.
FatesExact ==
    /\ killed \cap breached = {} /\ flying = Foes \ (killed \cup breached)
    /\ \A a \in Foes : /\ (endedAt[a] = NoTime) = (a \in flying)
                       /\ done => endedAt[a] <= tEnd
    /\ Outcome.held = Cardinality(flying) /\ \A n \in Outcome.reactions : n > 0

\* The shots that were fired: of each interceptor, down to the one it has left.
Fired == {s \in Team \X (1..rules.shots) : s[2] > ammo[s[1]]}

\* An interceptor is in the fight exactly as long as it has shots, each of
\* which has taken an attacker out; and those in the fight guard the whole
\* line, evenly and in order.
LineHeld ==
    /\ guards = {d \in Team : ammo[d] > 0}
    /\ \A d \in Team : ammo[d] >= 0 /\ rules.shots - ammo[d] <= Cardinality(killed)
    /\ Cardinality(killed) <= Cardinality(Fired)
    /\ Range([d \in guards |-> station[d]]) = {<<n, Cardinality(guards)>> : n \in 0..(Cardinality(guards) - 1)}
    /\ \A d, e \in guards : d < e => station[d][1] < station[e][1]

\* A table holds the age of the freshest sighting that can have come through
\* the mesh, one hop per decision; whoever goes for an attacker knows it from
\* a sighting at most as many decisions old as the relay has hops.
SightingsExact ==
    /\ rules.relay > 1 =>
          \A p \in guards \X flying :
             tracks[p] = Min({n \in DOMAIN reports : p \in reports[n]} \cup {Unknown})
    /\ ~done => \A d \in guards : target[d] # Nobody => \E n \in DOMAIN reports : <<d, target[d]>> \in reports[n]

\* The fates, the line and the sightings of an engagement.
EngagementsExact == FatesExact /\ LineHeld /\ SightingsExact
=============================================================================
