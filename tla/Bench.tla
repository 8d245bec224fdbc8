-------------------------------- MODULE Bench --------------------------------
(***************************************************************************)
(* The scenario battery (bench/scenario.py, bench/runner.py): which        *)
(* simulations a scenario becomes, what their event logs say of a failure, *)
(* and which checks pass.  A metric is a natural number, NaN or Inf, and a *)
(* check compares it in hundredths.                                        *)
(***************************************************************************)
EXTENDS Integers, Sequences, SequencesExt, FiniteSetsExt

NaN == -1
Inf == 1000000

-----------------------------------------------------------------------------
(* The scenario.                                                           *)

SingleCamera == {"striped"}

\* Scenario.__post_init__, and profile_names, which every use of it calls.
ScenarioAccepted(sc) ==
    /\ Range(sc.strategies) \cup {sc.baseline} \subseteq sc.known
    /\ sc.duration > 0 /\ sc.fps > 0
    /\ sc.nodes # <<>> \/ sc.size >= 1

ProfileNames(sc) ==
    IF sc.nodes # <<>> THEN sc.nodes ELSE [i \in 1..sc.size |-> IF i = 1 THEN "leader" ELSE "worker"]

StripedFps(sc) ==
    CASE sc.striped = "none" -> sc.fps
      [] sc.striped = "match" -> sc.fps * Len(ProfileNames(sc))
      [] OTHER -> sc.explicit

\* Mutant: the baseline is simulated where the caller lists it.
NamesAsListed(sc, chosen) ==
    LET asked == IF chosen = <<>> THEN sc.strategies ELSE chosen
    IN  IF sc.baseline \in Range(asked) THEN asked ELSE <<sc.baseline>> \o asked

\* The baseline is always simulated, first.
Names(sc, chosen) ==
    LET asked == IF chosen = <<>> THEN sc.strategies ELSE chosen
    IN  <<sc.baseline>> \o FlattenSeq([i \in DOMAIN asked |->
                                IF asked[i] # sc.baseline THEN <<asked[i]>> ELSE <<>>])

\* resolve_brain: what plays, and whether it reads a file.
BrainFor(sc, override, engine) ==
    LET kind == IF override = "none" THEN sc.kind ELSE override
        there == sc.model = "file"
    IN  IF kind \in {"auto", "package", "native", "numpy"} /\ sc.model = "directory" THEN "package"
        ELSE CASE kind = "oracle" -> "oracle"
               [] kind = "auto" -> IF ~there THEN "oracle" ELSE IF engine THEN "native" ELSE "numpy"
               [] kind = "native" -> IF there /\ engine THEN "native" ELSE "refused"
               [] kind = "numpy" -> IF there THEN "numpy" ELSE "refused"
               [] OTHER -> "refused"

-----------------------------------------------------------------------------
(* The simulations of run_scenario, in their order.  The n-th gets the     *)
(* n-th brain of the factory; the first is only asked for its size.        *)

Simulate(sc, name, faults) ==
    [strategy |-> name, fps |-> IF name \in SingleCamera THEN StripedFps(sc) ELSE sc.fps,
     profiles |-> ProfileNames(sc), seed |-> sc.seed, duration |-> sc.duration, faults |-> faults]

\* Mutant: one undisturbed run, the baseline's, is everybody's twin.
SimulationsOneTwin(sc, chosen) ==
    FlattenSeq([i \in DOMAIN Names(sc, chosen) |->
        <<Simulate(sc, Names(sc, chosen)[i], sc.faults)>> \o
            (IF sc.faults # {} THEN <<Simulate(sc, sc.baseline, {})>> ELSE <<>>)])

Simulations(sc, chosen) ==
    FlattenSeq([i \in DOMAIN Names(sc, chosen) |->
        <<Simulate(sc, Names(sc, chosen)[i], sc.faults)>> \o
            (IF sc.faults # {} THEN <<Simulate(sc, Names(sc, chosen)[i], {})>> ELSE <<>>)])

-----------------------------------------------------------------------------
(* Survivability: around the first kill of the event log, whose entries    *)
(* are [kind, t, n]; learned: when the leader learnt something.            *)

Delay(times, from) == IF times = {} THEN Inf ELSE Min(times) - from

\* Mutant: a suspicion from before the failure counts.
SuspectedAnytime(e, kill) == e.n = kill.n
\* Mutant: whoever is suspected counts as the node that failed.
SomebodySuspected(e, kill) == e.t >= kill.t
Suspected(e, kill) == e.n = kill.n /\ e.t >= kill.t

Survivability(events, learned) ==
    LET k == SelectInSeq(events, LAMBDA e : e.kind = "kill")
        kill == events[k]
        led == SelectLastInSeq(events, LAMBDA e : e.kind = "leader" /\ e.t <= kill.t)
        elected == {e.t : e \in {x \in Range(events) : x.kind = "leader" /\ x.t > kill.t}}
        suspected == {e.t : e \in {x \in Range(events) : x.kind = "suspect" /\ Suspected(x, kill)}}
    IN  IF k = 0 THEN [detect |-> NaN, reelect |-> NaN, recover |-> NaN]
        ELSE [detect |-> Delay(suspected, kill.t),
              reelect |-> IF led # 0 /\ events[led].n = kill.n THEN Delay(elected, kill.t) ELSE NaN,
              recover |-> Delay({t \in Range(learned) : t > kill.t}, kill.t)]

-----------------------------------------------------------------------------
(* Checks.                                                                 *)

Ratio(x, y) == IF y = 0 \/ NaN \in {x, y} \/ {x, y} = {Inf} THEN NaN ELSE (100 * x) \div y

\* Mutant: NaN is compared like any other number.
ComparePlain(actual, op, value) ==
    CASE op = "<" -> actual < value [] op = ">" -> actual > value [] op = "!=" -> actual # value

Compare(actual, op, value) ==
    /\ actual # NaN
    /\ CASE op = "<" -> actual < value [] op = ">" -> actual > value [] op = "!=" -> actual # value

\* metrics[name]: what collect made of the simulation of that strategy.
EvaluateChecks(sc, names, metrics) ==
    LET Judged(check) == IF check.strategy = "*" THEN Range(names) ELSE {check.strategy}
        Actual(check, name) ==
            IF name \notin Range(names) THEN NaN
            ELSE IF check.ratio THEN Ratio(metrics[name], metrics[sc.baseline])
            ELSE IF metrics[name] = NaN THEN NaN ELSE 100 * metrics[name]
    IN  UNION {{[check |-> check, strategy |-> name, actual |-> Actual(check, name),
                 passed |-> Compare(Actual(check, name), check.op, check.value)] : name \in Judged(check)} :
               check \in sc.checks}

-----------------------------------------------------------------------------
(* Properties.                                                             *)

\* Strategies are compared on the same ground: the baseline is simulated
\* once and first; two simulations differ in nothing but the strategy, its
\* camera rate and the faults; with faults every strategy has a twin without
\* any right behind it; and with "match" the swarm's cameras deliver as many
\* frames in every design.
ComparedFairly(sc, chosen) ==
    LET sims == Simulations(sc, chosen)
        n == IF sc.faults # {} THEN 2 ELSE 1
    IN  ScenarioAccepted(sc) =>
        /\ sims[1] = Simulate(sc, sc.baseline, sc.faults)
        /\ \A i \in DOMAIN sims : sims[i].strategy = sc.baseline => i <= n
        /\ \A i \in DOMAIN sims : sims[i].faults = (IF i % n = 1 \/ n = 1 THEN sc.faults ELSE {})
        /\ sc.faults # {} => \A i \in 1..(Len(sims) \div 2) : sims[2 * i].strategy = sims[2 * i - 1].strategy
        /\ \A i, j \in DOMAIN sims :
              sims[i] = [sims[j] EXCEPT !.strategy = sims[i].strategy, !.fps = sims[i].fps, !.faults = sims[i].faults]
        /\ sc.striped = "match" =>
              \A s \in Range(sims) :
                  s.fps * (IF s.strategy \in SingleCamera THEN 1 ELSE Len(s.profiles)) = sc.fps * Len(s.profiles)

\* The time from a failure to the first of what followed it, if anything did.
FirstOf(delay, times, from) ==
    IF times = {} THEN delay = Inf ELSE from + delay \in times /\ \A t \in times : from + delay <= t

\* A recovery time is one of the first failure: the node killed first was
\* suspected then and not before, somebody led then (asked only if that node
\* led last until it was killed), something was learnt then; detection may be
\* immediate, the others take time, and without a failure there is none.
RecoveryExact(events, learned) ==
    LET out == Survivability(events, learned)
        Kills(i) == events[i].kind = "kill"
        LedLast(j, t) == events[j].kind = "leader" /\ events[j].t <= t /\ \A l \in DOMAIN events :
                            l > j /\ events[l].kind = "leader" => events[l].t > t
    IN  /\ (\A i \in DOMAIN events : ~Kills(i)) => {out.detect, out.reelect, out.recover} = {NaN}
        /\ \A i \in DOMAIN events :
              LET from == events[i].t
                  Times(kind) == {e.t : e \in {x \in Range(events) : x.kind = kind}}
                  Of(n) == {e.t : e \in {x \in Range(events) : x.kind = "suspect" /\ x.n = n}}
              IN  Kills(i) /\ (\A j \in 1..(i - 1) : ~Kills(j)) =>
                  /\ out.detect >= 0 /\ out.reelect # 0 /\ out.recover > 0
                  /\ FirstOf(out.detect, {t \in Of(events[i].n) : t >= from}, from)
                  /\ IF \E j \in DOMAIN events : LedLast(j, from) /\ events[j].n = events[i].n
                     THEN FirstOf(out.reelect, {t \in Times("leader") : t > from}, from)
                     ELSE out.reelect = NaN
                  /\ FirstOf(out.recover, {t \in Range(learned) : t > from}, from)

\* A check passes only on a number somebody measured.
ChecksHonest(sc, chosen, metrics) ==
    LET names == Names(sc, chosen)
    IN  \A r \in EvaluateChecks(sc, names, metrics) :
           r.passed => /\ r.strategy \in Range(names)
                       /\ metrics[r.strategy] # NaN
                       /\ r.check.ratio => metrics[sc.baseline] \notin {NaN, 0}

\* A battery without a model still runs, and what is said to come from a
\* model comes from one that is there.
BrainFound(sc, override, engine) ==
    LET kind == BrainFor(sc, override, engine)
    IN  /\ (override = "none" /\ sc.kind = "auto") => kind # "refused"
        /\ kind \in {"native", "numpy"} => sc.model = "file"
        /\ kind = "native" => engine
=============================================================================
