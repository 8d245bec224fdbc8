------------------------------ MODULE Packages ------------------------------
(***************************************************************************)
(* An SDK package from its manifest to its use: check_manifest decides     *)
(* which manifests are accepted, and everything after it (the views of a   *)
(* Package, its summary, loading its class, network or policy, validating  *)
(* and exporting it) trusts that decision.  A package is a record: of its  *)
(* manifest (each field by the kind of value it has), of its files, and of *)
(* what its code does when it runs.  The answer of an operation is "ok",   *)
(* "refused" (PackageError), "raises" (the package's own code or model     *)
(* file failed) or "crash" (the caller tripped over the manifest).         *)
(***************************************************************************)
EXTENDS Integers, Sequences, FiniteSets

-----------------------------------------------------------------------------
(* The manifest.                                                           *)

\* A path that _inside accepts; the file it names may still be missing.
Inside(path) == path \notin {"absent", "outside"}

\* Mutant: the path of a model is not looked at.
AnyModel(p) == TRUE

EntryAccepted(p) == p.entry = "file"
ModelAccepted(p) == Inside(p.model)

CheckManifest(p) ==
    /\ p.schema /\ p.name = "good" /\ p.texts
    /\ p.type \in {"perception", "tactic", "policy"}
    /\ p.type = "perception" =>
          /\ p.format \in {"python", "swm"} /\ p.options \in {"absent", "object"}
          /\ p.format = "swm" => ModelAccepted(p) /\ p.build \in {"absent", "file"}
          /\ p.classes # 1
    /\ p.type = "policy" =>
          /\ p.role \in {"recon", "defender", "attacker"}
          /\ p.format \in {"npz", "python"} /\ p.options \in {"absent", "object"}
          /\ p.format = "npz" => ModelAccepted(p) /\ p.model # "no_npz"
          /\ p.macs # "text" /\ p.comms
    /\ (p.type = "tactic" \/ p.format = "python") => EntryAccepted(p)
    /\ p.type = "tactic" => p.strategy \in {"absent", "good"}

Format(p) == IF p.type \in {"perception", "policy"} THEN p.format ELSE "python"
Role(p) == IF p.type = "policy" THEN p.role ELSE "none"

\* What reading pkg.model_path finds.  A "broken" file raises what its readers
\* expect; an "odd" one something else: a .npz that is empty (EOFError) or cut
\* short (BadZipFile), a .swm whose pool has a window of 0 (ZeroDivisionError).
ModelPath(p) ==
    IF Format(p) \notin {"swm", "npz"} THEN "none"
    ELSE IF p.model = "absent" THEN "crash"
    ELSE IF ~Inside(p.model) THEN "refused"
    ELSE IF p.file = "absent" THEN "missing" ELSE p.file

-----------------------------------------------------------------------------
(* Using a package.                                                        *)

\* Mutant: a model that cannot be read is left to whoever lists it.
UnguardedSummary(p) ==
    IF ModelPath(p) = "broken" THEN "crash" ELSE "ok"

\* A listing reads the model but runs no code; a broken model is an entry of
\* the information, an odd one passes the except clauses.
Summary(p) ==
    IF ModelPath(p) \in {"crash", "refused"} THEN ModelPath(p)
    ELSE IF p.type = "policy" /\ p.macs = "text" THEN "crash"
    ELSE IF ModelPath(p) = "odd" THEN "raises" ELSE "ok"

\* swm_info raises for it.
ModelError(p) == ModelPath(p) \in {"broken", "odd"}

LoadClass(p) ==
    IF p.entry = "absent" THEN "refused"
    ELSE IF p.entry = "malformed" THEN "crash"
    ELSE IF p.entry = "missing" \/ ~p.parses \/ p.class = "raises" THEN "raises"
    ELSE IF p.class = "absent" THEN "refused" ELSE "ok"

Options(p) == IF p.options = "text" THEN "crash" ELSE "ok"

\* instantiate and PythonBrainAdapter, which needs the four attributes.
Instantiate(p) == IF p.attributes THEN "ok" ELSE "raises"

\* The first of the steps that is not ok.
InOrder(steps) ==
    IF \A i \in DOMAIN steps : steps[i] = "ok" THEN "ok"
    ELSE steps[CHOOSE i \in DOMAIN steps :
                  steps[i] # "ok" /\ \A j \in 1..(i - 1) : steps[j] = "ok"]

\* resolve_brain and the factory it returns.  Only numpy opens the file to
\* see whether it is int8 (a window of 0 is read, not planned with, there);
\* with the engine built the factory opens it.
ResolveBrain(p) ==
    IF p.type # "perception" THEN "refused"
    ELSE IF Format(p) = "python" THEN InOrder(<<LoadClass(p), Options(p)>>)
    ELSE CASE ModelPath(p) = "missing" -> "refused"
           [] ModelPath(p) = "broken" -> IF p.native THEN "ok" ELSE "raises"
           [] ModelPath(p) \in {"crash", "refused"} -> ModelPath(p)
           [] OTHER -> "ok"
MakeBrain(p) ==
    InOrder(<<ResolveBrain(p),
              IF Format(p) = "python" THEN Instantiate(p)
              ELSE IF ModelError(p) THEN "raises" ELSE "ok">>)

MakePolicy(p) ==
    IF p.type # "policy" THEN "refused"
    ELSE IF Format(p) = "python" THEN InOrder(<<LoadClass(p), Options(p), Instantiate(p)>>)
    ELSE IF ModelPath(p) = "crash" THEN "crash"
    ELSE IF ModelPath(p) = "odd" THEN "raises"
    ELSE IF ModelPath(p) = "good" /\ p.trained_for = p.role THEN "ok" ELSE "refused"

\* A class without a strategy of its own takes the manifest's; a name is
\* free, the same source's to replace, another source's, or built in.
RegisterStrategy(p) == p.taken \in {"free", "same_source"} /\ p.camera_mode
Register(p) ==
    IF p.type # "tactic" THEN "refused"
    ELSE IF LoadClass(p) # "ok" THEN LoadClass(p)
    ELSE IF p.class = "other" \/ p.declared = "different" THEN "refused"
    ELSE IF RegisterStrategy(p) THEN "ok" ELSE "raises"

Use(p) == CASE p.type = "perception" -> MakeBrain(p)
            [] p.type = "policy" -> MakePolicy(p)
            [] OTHER -> Register(p)

-----------------------------------------------------------------------------
(* Validation: checks in order.  A check that does not hold is reported    *)
(* with its level, and some of them end the report.                        *)

Check(name, holds, level, ends) == [name |-> name, holds |-> holds, level |-> level, ends |-> ends]
Must(name, holds) == Check(name, holds, "fail", TRUE)
Should(name, holds) == Check(name, holds, "warn", FALSE)

Report(checks) ==
    LET Ends(i) == ~checks[i].holds /\ checks[i].ends
        Reached(i) == \A j \in 1..(i - 1) : ~Ends(j)
    IN  {<<IF checks[i].holds THEN "pass" ELSE checks[i].level, checks[i].name>> :
            i \in {i \in DOMAIN checks : Reached(i)}}
NoFail(report) == \A f \in report : f[1] # "fail"

\* scan_imports: what the package imports that is not its own.
ScanImports(p) == p.imports

SwmChecks(p) ==
    <<Must("model", ModelPath(p) # "missing"),
      Must("model", Summary(p) = "ok" /\ ~ModelError(p) /\ ResolveBrain(p) = "ok"),
      Must("classes", p.classes \in {0, p.outputs})>>

PythonChecks(p) ==
    <<Must("syntax", p.parses),
      Must("load", LoadClass(p) = "ok" /\ Options(p) = "ok" /\ Instantiate(p) = "ok"),
      Should("classes", p.classes \in {0, p.outputs}),
      Must("cost", p.honest_cost),
      Should("portability", "swarm" \notin ScanImports(p))>>

BehaviourChecks(p) ==
    <<Must("input", p.channels = 1), Must("input", p.square),
      Must("classes", p.outputs >= 2), Should("classes", p.empty_first),
      Must("inference", p.runs), Must("outputs", p.in_range), Must("determinism", p.repeats),
      Should("accuracy", p.accurate), Check("deploy", Format(p) = "swm", "info", FALSE)>>

TacticChecks(p) ==
    <<Must("syntax", p.parses), Must("load", LoadClass(p) = "ok"),
      Must("load", p.class # "other"), Should("load", p.class = "documented"),
      Must("name", p.taken # "built_in"), Must("hooks", p.attributes),
      Must("register", Register(p) = "ok"), Must("smoke run", p.runs),
      Must("smoke run", p.in_range), Should("mission", p.accurate),
      Must("determinism", p.repeats), Must("physics", p.honest_cost),
      Must("recovery", p.recovers)>>

PolicyChecks(p) ==
    <<Must("syntax", p.format = "python" => p.parses), Must("load", MakePolicy(p) = "ok"),
      Must("act", p.runs), Should("determinism", p.repeats),
      Should("compute", p.accurate), Check("deploy", p.format = "npz", "info", FALSE)>>

Validate(p) ==
    Report(<<Must("manifest", CheckManifest(p))>> \o
           (IF ~CheckManifest(p) THEN <<>>
            ELSE CASE p.type = "perception" ->
                         (IF Format(p) = "swm" THEN SwmChecks(p) ELSE PythonChecks(p))
                             \o BehaviourChecks(p)
                   [] p.type = "policy" -> PolicyChecks(p)
                   [] OTHER -> TacticChecks(p)))

-----------------------------------------------------------------------------
(* Export: the same kind of list; "fresh" creates the folder.              *)

FreshDir(p) == Must("fresh", p.destination # "full")

\* Mutant: the folder is made before the imports are looked at.
EagerExportPython(p) ==
    <<FreshDir(p), Must("parses", p.parses), Must("swarm", "swarm" \notin ScanImports(p))>>

ExportPython(p) ==
    <<Must("parses", p.parses), Must("swarm", "swarm" \notin ScanImports(p)), FreshDir(p)>>
ExportSwm(p) ==
    <<Must("built", ModelPath(p) # "missing"), Must("info", ~ModelError(p)), FreshDir(p)>>
ExportPolicy(p) ==
    <<Must("npz", p.format = "npz"), Must("policy", MakePolicy(p) = "ok"), FreshDir(p)>>

ExportForDevice(p) ==
    Report(<<Must("manifest", CheckManifest(p)), Must("simulator only", p.type # "tactic")>> \o
           (IF p.type = "policy" THEN ExportPolicy(p)
            ELSE IF Format(p) = "swm" THEN ExportSwm(p) ELSE ExportPython(p)))

-----------------------------------------------------------------------------
(* Properties.                                                             *)

\* Whatever the manifest says, accepting it is the last time its fields are
\* doubted: a listing of an accepted package fails for an odd model file and
\* for nothing else, and using it never trips over a field that is missing or
\* of another type.
AcceptedIsEnough(p) ==
    CheckManifest(p) => /\ Summary(p) = IF ModelPath(p) = "odd" THEN "raises" ELSE "ok"
                        /\ \A r \in {Use(p), ResolveBrain(p), MakePolicy(p), Register(p)} :
                              r # "crash"

\* A report without a fail is a promise: the package can be used, and a
\* perception brain fits the cameras of the simulator and its own class list.
ValidIsUsable(p) ==
    NoFail(Validate(p)) =>
        /\ Use(p) = "ok"
        /\ p.type = "perception" =>
              /\ p.channels = 1 /\ p.square /\ p.outputs >= 2
              /\ Format(p) = "swm" => p.classes \in {0, p.outputs}

\* What the report says about devices, the export keeps: a package reported
\* deployable is exported into a fresh folder; and an export that is refused
\* has not left a folder behind.
ExportKeepsClaim(p) ==
    /\ (/\ NoFail(Validate(p)) /\ p.destination # "full"
        /\ \E check \in {"deploy", "portability"} : <<"pass", check>> \in Validate(p))
           => NoFail(ExportForDevice(p))
    /\ ~NoFail(ExportForDevice(p)) => <<"pass", "fresh">> \notin ExportForDevice(p)

=============================================================================
