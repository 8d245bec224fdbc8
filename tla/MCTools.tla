------------------------------ MODULE MCTools ------------------------------
(* Parts that share no state, each alone from its initial states: a        *)
(* training run, a fleet, an engagement, a survey, and questions to the    *)
(* pure operators.                                                         *)
EXTENDS Questions, Clash, Recon

CONSTANTS n1, n2, auth1, auth2, foe1, foe2

VARIABLE part

Idle == [kind |-> "idle"]
TrainIdle == learners = {} /\ pc = "idle" /\ gen = 0 /\ stop = FALSE /\ todo = <<>>
             /\ theta = <<>> /\ recent = <<>> /\ archive = <<>> /\ retired = <<>>
             /\ best = <<>> /\ files = <<>> /\ rows = <<>> /\ written = 0

-----------------------------------------------------------------------------
\* Networks of up to four layers, on images down to one pixel.
L0 == [dtype |-> "f32", a |-> 0, b |-> 0, k |-> 0, stride |-> 0, pad |-> 0]
Of(type) == [type |-> type] @@ L0
Pool(k) == [Of("maxpool2d") EXCEPT !.k = k, !.stride = k]
Layers ==
    {Of("relu"), Of("flatten"), Pool(1), Pool(2)}
    \cup {[Of("dense") EXCEPT !.a = x, !.b = y] : x \in {2, 3, 8}, y \in {1, 3}}
    \cup {[Of("conv2d") EXCEPT !.a = x, !.b = 2, !.k = k, !.stride = s, !.pad = p] :
              x \in {1, 2}, k \in {1, 3}, s \in {1, 2}, p \in {0, 1}}
Images == {Shape(1, 1, 2), Shape(2, 2, 2), Shape(1, 3, 4), Shape(1, 4, 3), Shape(3, 1, 1)}
Plans == UNION {[1..n -> Layers] : n \in 1..2}
            \cup {<<l, Pool(2), Of("flatten"), d>> : l, d \in Layers}
AskModel ==
    \E in \in Images, layers \in Plans, q, s \in BOOLEAN :
       input' = [kind |-> "model", caps |-> {0, 64, 128, 200}, m |-> [input |-> in, layers |-> layers, quantize |-> q, softmax |-> s]]
AskGemm == \E M, N, K \in 1..5 : input' = [kind |-> "gemm", M |-> M, N |-> N, K |-> K]

-----------------------------------------------------------------------------
\* Packages: one that is in order, of each type, with up to two flaws.
InOrderPackage(type) ==
    [schema |-> TRUE, name |-> "good", texts |-> TRUE, type |-> type,
     format |-> IF type = "policy" THEN "npz" ELSE "python", role |-> "recon",
     options |-> "object", model |-> "ok", file |-> "good", build |-> "absent", classes |-> 2,
     macs |-> "number", comms |-> TRUE, entry |-> "file", strategy |-> "good", parses |-> TRUE,
     class |-> "documented", attributes |-> TRUE, native |-> FALSE, trained_for |-> "recon",
     taken |-> "free", camera_mode |-> TRUE, declared |-> "same", imports |-> {}, honest_cost |-> TRUE,
     channels |-> 1, square |-> TRUE, outputs |-> 2, empty_first |-> TRUE, runs |-> TRUE,
     in_range |-> TRUE, repeats |-> TRUE, accurate |-> TRUE, recovers |-> TRUE, destination |-> "absent"]
Values ==
    [format |-> {"python", "swm", "npz", "absent"}, role |-> {"defender", "absent"},
     options |-> {"absent", "text"}, model |-> {"absent", "outside", "no_npz"}, file |-> {"absent", "broken", "odd"},
     build |-> {"file", "missing"}, classes |-> {0, 1, 3}, macs |-> {"text"}, name |-> {"bad"},
     entry |-> {"absent", "malformed", "missing"}, strategy |-> {"absent", "bad"},
     class |-> {"node", "other", "absent", "raises"}, trained_for |-> {"attacker"},
     taken |-> {"same_source", "other", "built_in"}, declared |-> {"different"}, imports |-> {{"swarm"}},
     channels |-> {3}, outputs |-> {1, 3}, destination |-> {"empty", "full"}, native |-> {TRUE}]
        @@ [f \in {"schema", "texts", "comms", "parses", "attributes", "camera_mode", "honest_cost",
                   "square", "empty_first", "runs", "in_range", "repeats", "accurate", "recovers"} |-> {FALSE}]
AskPackage ==
    \E type \in {"perception", "tactic", "policy"}, swm \in BOOLEAN, f, g \in DOMAIN Values :
    \E v \in Values[f], w \in Values[g] :
       LET p == InOrderPackage(type)
           formed == IF swm /\ type = "perception" THEN [p EXCEPT !.format = "swm"] ELSE p
       IN  input' = [kind |-> "package", p |-> [[formed EXCEPT ![f] = v] EXCEPT ![g] = w]]

-----------------------------------------------------------------------------
\* File names, archives, folders and files to upload.
AskName == \E text \in UNION {[1..n -> {"a", "A", "1", "_", "."}] : n \in 0..(MaxName + 1)} :
              input' = [kind |-> "name", text |-> text]
Member(parts, size, form) == [parts |-> parts, size |-> size, form |-> form, data |-> "good", dir |-> FALSE]
InFolder == {Member(<<"x">>, 1, "plain"), Member(<<"x", "a">>, 1, "plain"), Member(<<"pyc">>, 1, "plain"),
             Member(<<"b", "junk">>, 1, "plain"), Member(<<"b", "unsafe">>, 1, "plain"), Member(<<"b">>, MaxPacked, "plain"),
             Member(<<"c", "manifest">>, 1, "plain"), Member(<<"z">>, 1, "hollow"), Member(<<"y">>, 0, "plain")}
Bare == <<Member(<<"manifest">>, 1, "plain"), Member(<<"main">>, 1, "plain")>>
Boxed == [i \in 1..2 |-> [Bare[i] EXCEPT !.parts = <<"c">> \o @]]
InArchive == InFolder \cup ToSet(Boxed) \cup
    {[Bare[1] EXCEPT !.data = "bad"], [Member(<<"c">>, 0, "plain") EXCEPT !.dir = TRUE], Member(<<"y">>, 1, "link"),
     Member(<<"junk">>, 1, "link")}
Extras(n) == UNION {[1..i -> InArchive] : i \in 0..n}
AskUploaded == \E first \in {<<>>, Bare, Boxed}, more \in Extras(3) :
                  input' = [kind |-> "uploaded", members |-> first \o more]
AskPacked ==
    \E extra \in UNION {kSubset(n, InFolder) : n \in 0..3}, top \in {"c", "main"} :
       /\ \A f, g \in extra : f # g => ~IsPrefix(f.parts, g.parts)
       /\ input' = [kind |-> "packed", folder |-> ToSet(Bare) \cup extra, top |-> top]
Class == [base |-> "none", methods |-> {"classify"}, role |-> "none", strategy |-> <<>>, macs |-> "absent"]
Classes == {Class, [Class EXCEPT !.methods = {}], [Class EXCEPT !.base = "perception", !.methods = {"act"}]}
    \cup {[Class EXCEPT !.methods = {"act"}, !.role = r, !.macs = n] :
              r \in {"none", "recon"}, n \in {"absent", "number", "negative"}}
    \cup {[Class EXCEPT !.base = "tactic", !.strategy = s] : s \in {<<>>, <<"a">>, <<"A", ".", "a">>, <<"1">>}}
Stems == {<<>>, <<"a">>, <<"A", "a">>, <<"1", "_">>, <<"a", ".", "A", "_", "a">>, <<"a", "a", "a", ".", "a">>}
AskUpload ==
    \E stem \in Stems, sound \in BOOLEAN :
       \/ \E classes \in UNION {[1..n -> Classes] : n \in 0..2} :
             input' = [kind |-> "upload", f |-> [suffix |-> "py", stem |-> stem, parses |-> sound, classes |-> classes]]
       \/ \E role \in {"recon", "defender"} :
             input' = [kind |-> "upload", f |-> [suffix |-> "npz", stem |-> stem, loads |-> sound, role |-> role]]
       \/ \E out \in {1, Labels} :
             input' = [kind |-> "upload", f |-> [suffix |-> "swm", stem |-> stem, loads |-> sound,
                                                 layers |-> <<[Of("dense") EXCEPT !.a = 2, !.b = out]>>]]
       \/ input' = [kind |-> "upload", f |-> [suffix |-> "txt", stem |-> stem, loads |-> sound]]

-----------------------------------------------------------------------------
\* A generation's episodes, however many processes play them.
AskSplit ==
    \E n \in 0..9, workers \in 1..6, mix \in [1..3 -> {"x", "y"}] :
       input' = [kind |-> "split", workers |-> workers,
                 episodes |-> [i \in 1..n |-> Episode("d", <<"train", i>>,
                                  LET own == mix[(i % 3) + 1] IN Entry(own, IF own = "x" THEN i ELSE None),
                                  Entry("z", None))]]
Side(learn) == [learn |-> learn, brain |-> IF learn THEN "net" ELSE "builtin"]
AskScores ==
    \E dl, al \in BOOLEAN, P, E \in 1..3, workers \in 1..5,
       picks \in [1..2 -> {Entry("net", -3), Entry("rush", None)}] :
       input' = [kind |-> "scores", d |-> Side(dl), a |-> Side(al), P |-> P, E |-> E,
                 workers |-> workers, picks |-> picks]

-----------------------------------------------------------------------------
\* Folders to pack and to prepare.
FileOf(path, size, data, kind) ==
    [path |-> path, size |-> size, data |-> data, exec |-> FALSE, kind |-> kind]
Main == FileOf(<<<<"main", 1>>>>, 1, "m", "plain")
Own == FileOf(<<<<"python", 1>>, <<"swarm", 1>>, <<"core", 1>>>>, 1, "core", "plain")
Candidates ==
    {Main, FileOf(<<<<"a", 1>>>>, 2, "x", "plain"), FileOf(<<<<"a", 2>>>>, 1, "y", "plain"),
     FileOf(<<<<"a", 2>>, <<"b", 1>>>>, 1, "x", "here"), FileOf(<<<<"c", 1>>, <<"b", 1>>>>, 0, "e", "plain"),
     FileOf(<<<<"c", 1>>, <<"b", 2>>>>, 3, "z", "plain"), FileOf(<<<<"swarm", 2>>, <<"core", 1>>>>, 1, "w", "plain"),
     FileOf(<<<<"swarm", 1>>, <<"core", 1>>>>, 1, "w", "plain"),
     FileOf(<<<<"credentials", 1>>>>, 1, "k", "plain"), FileOf(<<<<"d", 1>>>>, 1, "k", "key"),
     FileOf(<<<<"d", 1>>>>, 4, "n", "elsewhere"), FileOf(<<<<"e", 1>>>>, 5, "l", "link")}
Folders == {s \in kSubset(0, Candidates) \cup kSubset(1, Candidates) \cup kSubset(2, Candidates)
                    \cup kSubset(3, Candidates) : \A f, g \in s : f # g => f.path # g.path}
Nothing == FileOf(<<>>, 0, "", "none")
Model == FileOf(<<<<"models", 1>>, <<"brain", 1>>>>, 1, "s", "swm")
AskArchive ==
    \E s \in Folders, t \in {"here", "python-any"} : input' = [kind |-> "archive", main |-> Main.path, files |-> s, target |-> t]
AskPrepare ==
    \E s \in Folders, t \in {"here", "python-any"}, m \in {Nothing, Model},
       l \in {Nothing, FileOf(<<<<"native", 1>>, <<"l", 1>>>>, 1, "o", "here")} :
       input' = [kind |-> "prepare", main |-> Main.path, runtime |-> {Own, Main}, files |-> s, target |-> t, model |-> m, library |-> l]

-----------------------------------------------------------------------------
\* Engagements: every attacker has a sensor's and a shot's chance.
RuleSet ==
    {[defenders |-> 2, attackers |-> {foe1, foe2}, shots |-> s[1], relay |-> s[2], every |-> s[3]] :
        s \in {<<2, 2, 1>>, <<1, 1, 2>>, <<1, 1, 1>>}}
        \cup {[defenders |-> 3, attackers |-> {foe1}, shots |-> 1, relay |-> 3, every |-> 1]}

-----------------------------------------------------------------------------
\* Scenarios, the log of a simulation, the measurements of each strategy.
Designs == {"local", "central", "striped"}
Scenario ==
    [strategies |-> <<"local", "striped", "central">>, baseline |-> "central", known |-> Designs, duration |-> 5,
     fps |-> 2, nodes |-> <<>>, size |-> 2, striped |-> "none", explicit |-> 7, seed |-> 1, faults |-> {},
     kind |-> "auto", model |-> "none", checks |-> {}]
AskScenario ==
    \E str \in {<<>>, <<"local">>, <<"striped", "central">>, <<"central", "central", "local">>, <<"ghost", "local">>},
       base \in Designs \cup {"ghost"}, fps \in 0..2, size \in 0..3, nodes \in {<<>>, <<"leader", "worker", "worker">>},
       rate \in {"none", "match", "explicit"}, kills \in {{}, {"kill"}},
       only \in {<<>>, <<"local">>, <<"local", "central">>, <<"striped", "local", "central">>} :
       input' = [kind |-> "scenario", chosen |-> only,
                 sc |-> [Scenario EXCEPT !.strategies = str, !.baseline = base, !.fps = fps, !.size = size,
                                         !.nodes = nodes, !.striped = rate, !.faults = kills]]
AskBrain ==
    \E k \in {"auto", "native", "numpy", "oracle", "package", "ghost"},
       o \in {"none", "auto", "native", "numpy", "oracle", "package"}, file \in {"none", "file", "directory"}, e \in BOOLEAN :
       input' = [kind |-> "brain", override |-> o, engine |-> e, sc |-> [Scenario EXCEPT !.kind = k, !.model = file]]
Logs == UNION {{e \in [1..n -> [kind : {"kill", "suspect", "leader"}, n : 0..1, t : 0..2]] :
                   \A i, j \in 1..n : i < j => e[i].t <= e[j].t} : n \in 0..3}
AskLog == \E e \in Logs, learned \in {<<>>, <<0>>, <<1>>, <<0, 2>>, <<3>>} :
       input' = [kind |-> "log", events |-> e, learned |-> learned]
AskChecks ==
    \E name \in Designs \cup {"*", "ghost"}, op \in {"<", ">", "!="}, bound \in {0, 50, 200}, ratio \in BOOLEAN,
       only \in {<<>>, <<"local">>}, got \in [Designs -> {NaN, 0, 1, 3, Inf}] :
       input' = [kind |-> "checks", chosen |-> only, metrics |-> got,
                 sc |-> [Scenario EXCEPT !.checks =
                            {[strategy |-> name, op |-> op, value |-> bound, ratio |-> ratio]}]]

-----------------------------------------------------------------------------
\* Configurations, packets, models and profiles.
Certificates == [pin : {"p", "q", "r"}, trusted : BOOLEAN,
                 names : {<<>>, <<"me">>, <<"you">>, <<"her">>, <<"you", "her">>}]
PeerSet == [id : {"me", "you", "her", "bad"}, texts : {TRUE}, pin : {"p", "q", "bad"}]
AskNode ==
    \E id \in {"me", "bad"}, timeout \in {2, 3}, peers \in UNION {[1..n -> PeerSet] : n \in 0..2} :
       input' = [kind |-> "node", certs |-> Certificates,
                 node |-> [id |-> id, texts |-> TRUE, numbers |-> TRUE, heartbeat |-> 1,
                                            timeout |-> timeout, peers |-> peers]]
AskPackets == \E n \in 0..4 : input' = [kind |-> "packets", payload |-> n]
AskHandler ==
    \E size \in 1..2, good, opens \in BOOLEAN, cap \in 0..1, threshold \in {0, 50, 101}, empty \in -1..2,
       ins \in 0..2, outs \in 0..3, length \in 0..1,
       got \in {<<>>, <<100>>, <<40, 60>>, <<60, 40>>, <<50, 50>>, <<120, -20>>} :
       input' = [kind |-> "handler", length |-> length, scores |-> got,
                 h |-> [keys |-> TRUE, size |-> size, digest |-> good, cap |-> cap, threshold |-> threshold,
                        empty |-> empty, loads |-> opens, inputs |-> ins, outputs |-> outs]]
Motors == {[id |-> id, channel |-> c, inverted |-> i, min |-> l[1], max |-> l[2]] :
              id \in {"m", "n"}, i \in BOOLEAN, l \in {<<-1, 1>>, <<0, 2>>},
              c \in {[reads |-> "1", text |-> TRUE], [reads |-> "1", text |-> FALSE], [reads |-> "2", text |-> FALSE]}}
    \cup {[id |-> "m", channel |-> [reads |-> "1", text |-> FALSE], inverted |-> FALSE, min |-> 1, max |-> 1]}
AskProfile ==
    \E motors \in UNION {[1..n -> Motors] : n \in 0..2},
       dry \in BOOLEAN, missing \in {{}, {"dry_run"}, {"motors"}},
       outputs \in [{"m"} -> -2..1] \cup [{"m", "n"} -> {-1, 0, 1, NotFinite}] :
       input' = [kind |-> "profile", fields |-> ProfileFields \ missing, outputs |-> outputs,
                 p |-> [schema |-> TRUE, adapter |-> "gpio", watchdog |-> 1, config |-> TRUE, motors |-> motors,
                        attachments |-> <<>>, required |-> <<>>, dry_run |-> dry]]

-----------------------------------------------------------------------------
\* The parts that do not run stay in one state.
ClashIdle == ClashInit /\ rules = CHOOSE r \in Rules : r.defenders = 3
ReconIdle ==
    /\ due = TRUE /\ linked = {} /\ cam = {} /\ covered = FALSE /\ finder = [k \in Targets |-> Missing]
    /\ foundT = finder /\ reported = {} /\ reportT = finder /\ tick = 0 /\ ended = FALSE /\ endT = Missing

Init ==
    /\ input = Idle /\ FleetInit
    /\ \/ part = "training" /\ TrainInit /\ ClashIdle /\ ReconIdle
       \/ part = "clash" /\ ClashInit /\ TrainIdle /\ ReconIdle
       \/ part = "recon" /\ ReconInit /\ TrainIdle /\ ClashIdle
       \/ part \in {"fleet", "questions"} /\ TrainIdle /\ ClashIdle /\ ReconIdle
\* A question is of one topic, so that no state has all questions as successors.
Topics == {"engine", "package", "name", "archive", "upload", "training", "fleet", "bench", "log", "checks", "config", "handler", "profile"}
About(topic) == [kind |-> "topic", of |-> topic]
Ask ==
    \/ input = Idle /\ \E topic \in Topics : input' = About(topic)
    \/ input = About("engine") /\ (AskModel \/ AskGemm)
    \/ input = About("package") /\ AskPackage
    \/ input = About("name") /\ AskName
    \/ input = About("archive") /\ (AskUploaded \/ AskPacked)
    \/ input = About("upload") /\ AskUpload
    \/ input = About("training") /\ (AskSplit \/ AskScores)
    \/ input = About("fleet") /\ (AskArchive \/ AskPrepare)
    \/ input = About("bench") /\ (AskScenario \/ AskBrain)
    \/ input = About("log") /\ AskLog
    \/ input = About("checks") /\ AskChecks
    \/ input = About("config") /\ (AskNode \/ AskPackets)
    \/ input = About("handler") /\ AskHandler
    \/ input = About("profile") /\ AskProfile
Next ==
    /\ UNCHANGED part
    /\ \/ part = "training" /\ TrainNext /\ UNCHANGED <<fleetVars, clashVars, reconVars, input>>
       \/ part = "fleet" /\ FleetNext /\ UNCHANGED <<trainVars, clashVars, reconVars, input>>
       \/ part = "clash" /\ ClashNext /\ UNCHANGED <<trainVars, fleetVars, reconVars, input>>
       \/ part = "recon" /\ ReconNext /\ UNCHANGED <<trainVars, fleetVars, clashVars, input>>
       \/ /\ part = "questions" /\ Ask
          /\ UNCHANGED <<trainVars, fleetVars, clashVars, reconVars>>
Spec == Init /\ [][Next]_<<part, input, trainVars, fleetVars, clashVars, reconVars>>

Symmetric == Permutations(NodeIds) \cup Permutations(Authorities)
=============================================================================
