------------------------------ MODULE Training ------------------------------
(***************************************************************************)
(* Training arena brains by evolution (swarm.arena.train, parallel, es).   *)
(* First, as operators: a generation's schedule of episodes, its split     *)
(* over worker processes, the grouping of a chunk's episodes by brain, and *)
(* the scores read back.  Then the run as a state machine: the generations *)
(* of one run, the brain files it rewrites in place, its hall of fame, and *)
(* how it ends (done, stopped, a dead worker process, killed).             *)
(*                                                                         *)
(* Weights are the number of steps that made them; a skill is a number, or *)
(* None when no test episode gave one.  Recorded matches are left out.     *)
(***************************************************************************)
EXTENDS Integers, SequencesExt, FiniteSetsExt

CONSTANTS MinChunk,        \* MIN_CHUNK
          Generations,     \* tc.generations
          HofEvery, HofRecent, HofArchive,
          Skills           \* the values a skill can have

ASSUME TrainingAssumption ==
    /\ {MinChunk, Generations, HofEvery, HofRecent, HofArchive} \subseteq Nat \ {0}
    /\ Skills \subseteq Nat \ {0}

None == 0
Latest == -1      \* the current weights of a brain that learns
Mismatch == -2    \* an index error

-----------------------------------------------------------------------------
(* One generation.                                                         *)

\* Half way between two integers rounds to the even one, like numpy's round.
RoundedShare(i, n, k) ==
    LET q == (i * n) \div k  r == 2 * ((i * n) % k) IN
    IF r > k \/ (r = k /\ q % 2 = 1) THEN q + 1 ELSE q

\* Mutant: chunks of one length, the last one cut.
Strides(n, workers) ==
    LET size == Max({MinChunk, n \div workers})
    IN  [i \in 1..(n \div size) |-> <<(i - 1) * size, i * size>>]

\* The chunks of n episodes, as half-open intervals.
Split(n, workers) ==
    LET k == Max({1, Min({workers, n \div MinChunk})})
        all == [i \in 1..k |-> <<RoundedShare(i - 1, n, k), RoundedShare(i, n, k)>>]
    IN  FlattenSeq([i \in 1..k |-> IF all[i][2] > all[i][1] THEN <<all[i]>> ELSE <<>>])

\* An entry: a brain and its weights in this episode, None for its own.
Entry(brain, row) == [brain |-> brain, row |-> row]

\* The entries of one brain.
GroupOf(entries, brain) ==
    FlattenSeq([i \in DOMAIN entries |-> IF entries[i].brain = brain THEN <<entries[i]>> ELSE <<>>])

\* Mutant: the weights of a group are indexed by the episode.
RowOfEpisode(entries, i) ==
    LET group == GroupOf(entries, entries[i].brain)
    IN  IF group[1].row = None THEN None
        ELSE IF i \in DOMAIN group THEN group[i].row ELSE Mismatch

\* mixed and MixedBrain: the weights brain b of entry i plays with.  A group
\* is one brain with all its rows, or without any if the first has none.
RowInGroup(entries, i) ==
    LET group == GroupOf(entries, entries[i].brain)
        place == Cardinality({j \in 1..i : entries[j].brain = entries[i].brain})
    IN  IF group[1].row = None THEN None
        ELSE IF \E e \in Range(group) : e.row = None THEN Mismatch ELSE group[place].row

Mixed(entries) ==
    [i \in DOMAIN entries |-> Entry(entries[i].brain, RowInGroup(entries, i))]

\* clash_chunk: what each episode of a chunk plays.
ClashChunk(episodes) ==
    LET d == Mixed([i \in DOMAIN episodes |-> episodes[i].d])
        a == Mixed([i \in DOMAIN episodes |-> episodes[i].a])
    IN  [i \in DOMAIN episodes |-> [key |-> episodes[i].key, d |-> d[i], a |-> a[i]]]

\* Workers.play: the chunks may finish in any order and are joined in theirs.
Play(episodes, workers) ==
    LET chunks == Split(Len(episodes), workers)
    IN  FlattenSeq([c \in DOMAIN chunks |->
            ClashChunk(SubSeq(episodes, chunks[c][1] + 1, chunks[c][2]))])

\* Opponents: the current brain first, then ones picked from past selves and
\* built-ins (picks); a brain that does not learn stands for itself.
Sparring(side, n, picks) ==
    IF side.learn THEN <<Entry(side.brain, Latest)>> \o SubSeq(picks, 1, n - 1)
    ELSE [i \in 1..n |-> Entry(side.brain, None)]
Current(side) == Entry(side.brain, IF side.learn THEN Latest ELSE None)

Episode(tag, key, d, a) == [tag |-> tag, key |-> key, d |-> d, a |-> a]

\* The P variants es.ask draws, each against each of E opponents.
Pairing(i, P) == [opponent |-> ((i - 1) \div P) + 1, variant |-> ((i - 1) % P) + 1]

Schedule(d, a, P, E, picksD, picksA) ==
    LET OfD(of) == Episode("d", <<"train", of.opponent>>, Entry(d.brain, of.variant),
                           Sparring(a, E, picksA)[of.opponent])
        OfA(of) == Episode("a", <<"train", of.opponent>>, Sparring(d, E, picksD)[of.opponent],
                           Entry(a.brain, of.variant))
    IN  (IF d.learn THEN [i \in 1..(P * E) |-> OfD(Pairing(i, P))] ELSE <<>>)
        \o (IF a.learn THEN [i \in 1..(P * E) |-> OfA(Pairing(i, P))] ELSE <<>>)
        \o (IF d.learn THEN <<Episode("ed", <<"eval", 1>>, Current(d), Entry("rush", None))>> ELSE <<>>)
        \o (IF a.learn THEN <<Episode("ea", <<"eval", 1>>, Entry("auction", None), Current(a))>> ELSE <<>>)
        \o <<Episode("h2h", <<"h2h", 1>>, Current(d), Current(a))>>

\* What tell receives for variant p: the scores s[kind == tag] reshaped to
\* E rows of P and averaged over the rows.
Scores(episodes, played, tag, P, E, p) ==
    LET mine == FlattenSeq([i \in DOMAIN episodes |-> IF episodes[i].tag = tag THEN <<i>> ELSE <<>>])
    IN  [e \in 1..E |-> played[mine[(e - 1) * P + p]]]

-----------------------------------------------------------------------------
(* The run.                                                                *)

VARIABLES
    learners,   \* the roles that learn in this run
    pc,         \* what the training process is doing
    gen,        \* the generation it is in
    stop,       \* somebody asked it to stop
    theta,      \* [role -> the steps es.tell has made]
    recent, archive, retired,    \* the hall of fame of each role
    best,       \* [role -> [skill, gen]]
    todo,       \* the brain files this generation still has to write
    files,      \* [<<role, which>> -> what is on disk]
    rows,       \* log.rows: the skills of each finished generation
    written     \* how many of them history.json has

trainVars == <<learners, pc, gen, stop, theta, recent, archive, retired, best,
               todo, files, rows, written>>

Roles == {"recon", "defender", "attacker"}
Which == {"latest", "best"}
NoFile == [state |-> "none", theta |-> 0]
Torn == [state |-> "torn", theta |-> 0]
Whole(n) == [state |-> "whole", theta |-> n]
Over == {"done", "stopped", "failed", "killed"}

TrainInit ==
    /\ learners \in {{"recon"}, {"defender"}, {"defender", "attacker"}}
    /\ pc = "idle" /\ gen = 0 /\ stop = FALSE /\ todo = <<>>
    /\ theta = [s \in Roles |-> 0]
    /\ recent = [s \in Roles |-> <<>>] /\ archive = [s \in Roles |-> <<>>]
    /\ retired = [s \in Roles |-> 0]
    /\ best = [s \in Roles |-> [skill |-> 0, gen |-> 0]]
    /\ files = [f \in Roles \X Which |-> NoFile]
    /\ rows = <<>> /\ written = 0

\* The studio's stop file, or a caller's should_stop.
AskStop ==
    /\ ~stop /\ pc \notin Over
    /\ stop' = TRUE
    /\ UNCHANGED <<learners, pc, gen, theta, recent, archive, retired, best, todo,
                   files, rows, written>>

BeginGeneration ==
    /\ pc = "idle" /\ gen < Generations /\ ~stop
    /\ gen' = gen + 1 /\ pc' = "playing"
    /\ UNCHANGED <<learners, stop, theta, recent, archive, retired, best, todo, files,
                   rows, written>>

\* A worker process of the pool dies: the error ends the run.
PoolBreaks ==
    /\ pc = "playing" /\ pc' = "failed"
    /\ UNCHANGED <<learners, gen, stop, theta, recent, archive, retired, best, todo,
                   files, rows, written>>

\* Reservoir sampling: what the archive may become with one more snapshot.
Archived(s, old) ==
    IF Len(archive[s]) < HofArchive THEN {Append(archive[s], old)}
    ELSE {archive[s]} \cup {[archive[s] EXCEPT ![j] = old] : j \in 1..HofArchive}

\* Mutant: the oldest snapshot is archived and stays where it is.
SnapshotKeeping(s, n) ==
    IF Len(recent[s]) < HofRecent
    THEN {[recent |-> Append(recent[s], n), archive |-> archive[s], retired |-> retired[s]]}
    ELSE {[recent |-> Append(recent[s], n), archive |-> arch, retired |-> retired[s] + 1] :
             arch \in Archived(s, Head(recent[s]))}

Snapshot(s, n) ==
    IF s \notin learners \/ s = "recon" \/ gen % HofEvery # 0
    THEN {[recent |-> recent[s], archive |-> archive[s], retired |-> retired[s]]}
    ELSE IF Len(recent[s]) < HofRecent
    THEN {[recent |-> Append(recent[s], n), archive |-> archive[s], retired |-> retired[s]]}
    ELSE {[recent |-> Append(Tail(recent[s]), n), archive |-> arch,
           retired |-> retired[s] + 1] : arch \in Archived(s, Head(recent[s]))}

Beats(s, skill) == skill[s] # None /\ skill[s] >= best[s].skill

\* Mutant: the weights after the step are saved as the best.
SaveBestAfterStep(s, skill) ==
    IF s \in learners /\ Beats(s, skill)
    THEN <<[file |-> <<s, "best">>, theta |-> theta[s] + 1]>> ELSE <<>>

\* The weights that were tested are those before the step.
SaveBest(s, skill) ==
    IF s \in learners /\ Beats(s, skill)
    THEN <<[file |-> <<s, "best">>, theta |-> theta[s]]>> ELSE <<>>
SaveLatest(s) ==
    IF s \in learners THEN <<[file |-> <<s, "latest">>, theta |-> theta[s] + 1]>> ELSE <<>>

\* The scores are back: every learner steps, then the brains worth keeping
\* and the new ones are going to be written, in the order of saves.
LearnFrom(saves, skill) ==
    /\ theta' = [s \in Roles |-> IF s \in learners THEN theta[s] + 1 ELSE theta[s]]
    /\ best' = [s \in Roles |-> IF s \in learners /\ Beats(s, skill)
                                THEN [skill |-> skill[s], gen |-> gen] ELSE best[s]]
    /\ todo' = saves
    /\ rows' = Append(rows, skill) /\ pc' = "saving"
    /\ UNCHANGED <<learners, gen, stop, files, written>>

SkillsOf == {f \in [Roles -> Skills \cup {None}] : \A s \in Roles \ learners : f[s] = None}

LearnClash ==
    /\ pc = "playing" /\ "recon" \notin learners
    /\ \E skill \in SkillsOf, d \in Snapshot("defender", theta["defender"] + 1),
          a \in Snapshot("attacker", theta["attacker"] + 1) :
          /\ LearnFrom(SaveBest("defender", skill) \o SaveBest("attacker", skill)
                           \o SaveLatest("defender") \o SaveLatest("attacker"), skill)
          /\ recent' = [recent EXCEPT !["defender"] = d.recent, !["attacker"] = a.recent]
          /\ archive' = [archive EXCEPT !["defender"] = d.archive, !["attacker"] = a.archive]
          /\ retired' = [retired EXCEPT !["defender"] = d.retired, !["attacker"] = a.retired]

LearnRecon ==
    /\ pc = "playing" /\ "recon" \in learners
    /\ \E skill \in SkillsOf : LearnFrom(SaveBest("recon", skill) \o SaveLatest("recon"), skill)
    /\ UNCHANGED <<recent, archive, retired>>

\* NeuralBrain.save opens the file, which empties it, and then writes it.
OpenFile ==
    /\ pc = "saving" /\ todo # <<>> /\ files[Head(todo).file] # Torn
    /\ files' = [files EXCEPT ![Head(todo).file] = Torn]
    /\ UNCHANGED <<learners, pc, gen, stop, theta, recent, archive, retired, best, todo,
                   rows, written>>
WriteFile ==
    /\ pc = "saving" /\ todo # <<>> /\ files[Head(todo).file] = Torn
    /\ files' = [files EXCEPT ![Head(todo).file] = Whole(Head(todo).theta)]
    /\ todo' = Tail(todo)
    /\ UNCHANGED <<learners, pc, gen, stop, theta, recent, archive, retired, best, rows,
                   written>>

\* _History.add: the row reaches the disk now, or with a later one.
\* _write_json replaces the file as a whole.
AddRow ==
    /\ pc = "saving" /\ todo = <<>>
    /\ pc' = "idle" /\ written' \in {written, Len(rows)}
    /\ UNCHANGED <<learners, gen, stop, theta, recent, archive, retired, best, todo, files,
                   rows>>

\* The loop is over: log.flush.
FinishRun ==
    /\ pc = "idle" /\ (stop \/ gen = Generations)
    /\ pc' = IF gen = Generations THEN "done" ELSE "stopped"
    /\ written' = Len(rows)
    /\ UNCHANGED <<learners, gen, stop, theta, recent, archive, retired, best, todo, files,
                   rows>>

\* ABORT kills the process and, through their parent's sentinel, its workers.
Kill ==
    /\ pc \notin Over /\ pc' = "killed"
    /\ UNCHANGED <<learners, gen, stop, theta, recent, archive, retired, best, todo, files,
                   rows, written>>

TrainNext == \/ AskStop \/ BeginGeneration \/ PoolBreaks \/ LearnClash \/ LearnRecon
             \/ OpenFile \/ WriteFile \/ AddRow \/ FinishRun \/ Kill

-----------------------------------------------------------------------------
(* Properties.                                                             *)

\* However many processes share a generation, every episode is played once,
\* in its place, with its own situation and weights; no chunk is below the
\* minimum that a single one would not be, and sizes differ by one at most.
SplitInvisible(episodes, workers) ==
    LET n == Len(episodes)  chunks == Split(n, workers)
        Size(i) == chunks[i][2] - chunks[i][1]
    IN  /\ Play(episodes, workers) =
              [i \in 1..n |-> [key |-> episodes[i].key, d |-> episodes[i].d, a |-> episodes[i].a]]
        /\ \A i, j \in DOMAIN chunks :
              Size(i) <= Size(j) + 1 /\ (Len(chunks) > 1 => Size(i) >= MinChunk)

\* The scores a variant is ranked by are those of the episodes it played:
\* its own weights, every situation once, the same opponents as its rivals.
ScoresAreOwn(d, a, P, E, picksD, picksA, workers) ==
    LET episodes == Schedule(d, a, P, E, picksD, picksA)
        played == Play(episodes, workers)
    IN  \A p \in 1..P :
          /\ d.learn => Scores(episodes, played, "d", P, E, p) =
                [e \in 1..E |-> [key |-> <<"train", e>>, d |-> Entry(d.brain, p),
                                a |-> Sparring(a, E, picksA)[e]]]
          /\ a.learn => Scores(episodes, played, "a", P, E, p) =
                [e \in 1..E |-> [key |-> <<"train", e>>, d |-> Sparring(d, E, picksD)[e],
                                a |-> Entry(a.brain, p)]]

\* Between generations the best file of a role holds the weights that scored
\* the highest skill of the run, the last ones if several did, as they were
\* when they were tested; and the latest file the weights of the last step.
BestIsTheTested ==
    \A s \in learners :
        LET scored == {g \in DOMAIN rows : rows[g][s] # None}
            top == {g \in scored : \A h \in scored : rows[g][s] >= rows[h][s]}
        IN  pc \in {"idle", "done", "stopped"} =>
               /\ rows # <<>> => files[<<s, "latest">>] = Whole(Len(rows))
               /\ scored # {} => files[<<s, "best">>] = Whole(Max(top) - 1)

\* A run that was stopped or killed, or that failed, at any point: history
\* on disk never shows a generation whose brains were not written, at most
\* the one file that was being written is lost, and a run that ends by
\* itself or by the stop file has all its rows on disk.
DiskIsConsistent ==
    /\ \A s \in learners :
          LET latest == files[<<s, "latest">>] IN
          written > 0 => latest = Torn \/ (latest.state = "whole" /\ latest.theta >= written)
    /\ \A f, h \in DOMAIN files : (files[f] = Torn /\ files[h] = Torn) => f = h
    /\ pc \in {"done", "stopped"} => written = Len(rows) /\ written = gen

\* The hall of fame of a role: the latest snapshots in order, and older ones
\* each at most once, none of them also among the latest.
HallOfFameExact ==
    \A s \in learners \ {"recon"} :
        LET snaps == {g \in 1..theta[s] : g % HofEvery = 0}
            latest == {g \in snaps : Cardinality({h \in snaps : h > g}) < HofRecent}
        IN  /\ Range(recent[s]) = latest
            /\ \A i, j \in DOMAIN recent[s] : i < j => recent[s][i] < recent[s][j]
            /\ Range(archive[s]) \subseteq snaps \ latest
            /\ Cardinality(Range(archive[s])) = Len(archive[s])
            /\ Len(archive[s]) = Min({HofArchive, Cardinality(snaps \ latest)})

\* The brains and rows a training leaves on disk, and its hall of fame.
TrainingKept == BestIsTheTested /\ DiskIsConsistent /\ HallOfFameExact
=============================================================================
