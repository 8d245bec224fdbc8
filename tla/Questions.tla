------------------------------ MODULE Questions ------------------------------
(***************************************************************************)
(* The parts whose state is not followed are operators; a question is what *)
(* one of them is asked, and a property says that the answer is right.  A  *)
(* run asks finitely many questions, a theorem is about every question     *)
(* that Asked describes.                                                   *)
(***************************************************************************)
EXTENDS Engine, Uploads, Training, Fleet, Bench, Config

VARIABLE input

-----------------------------------------------------------------------------
(* The questions.                                                          *)

PeerForm == [id : STRING, texts : BOOLEAN, pin : STRING]
EventForm == [kind : STRING, t : Nat, n : Nat]
ProfileForm ==
    [schema : BOOLEAN, adapter : STRING, watchdog : Int, config : BOOLEAN,
     motors : Seq([id : STRING, channel : [reads : STRING, text : BOOLEAN],
                   inverted : BOOLEAN, min : Int, max : Int]),
     attachments : Seq([id : STRING, connection : BOOLEAN]),
     required : Seq(STRING), dry_run : BOOLEAN]
ScenarioForm(sc) ==
    {sc.strategies, sc.nodes} \subseteq Seq(STRING) /\ {sc.size, sc.fps} \subseteq Int

\* Any word, the ones the training itself says among them.
AnyWord == STRING \cup {"d", "a", "ed", "ea", "h2h", "train", "eval", "auction", "rush"}
\* A network: what a layer does not have is 0, a pool's windows lie side by side.
ShapeForm == [c : Nat, h : Nat, w : Nat]
LayerForm ==
    {L \in [type : Weighted \cup {"maxpool2d", "flatten", "relu"}, dtype : {"f32"},
            a : Nat, b : Nat, k : Nat, stride : Nat, pad : Nat] :
        /\ L.type \notin Weighted => L.a = 0 /\ L.b = 0
        /\ IF L.type \in {"conv2d", "maxpool2d"} THEN L.k > 0 /\ L.stride > 0 ELSE L.k = 0 /\ L.stride = 0
        /\ L.type # "conv2d" => L.stride = L.k /\ L.pad = 0}
ModelForm(m) ==
    /\ m.input \in ShapeForm /\ m.layers \in Seq(LayerForm)
    /\ m.quantize \in BOOLEAN /\ m.softmax \in BOOLEAN
\* The characters of an uploaded file's name.
Letters == {"a", "A", "1", "_", "."}
\* A class of an uploaded source file, and what an uploaded file holds.
ClassForm ==
    [base : {"none", "tactic", "perception"}, methods : SUBSET {"act", "classify"},
     role : {"none", "recon", "defender", "attacker"}, strategy : Seq(Letters),
     macs : {"absent", "number", "negative"}]
UploadForm(f) ==
    /\ f.suffix # "zip" /\ f.stem \in Seq(Letters)
    /\ f.suffix = "py" => f.classes \in Seq(ClassForm)
    /\ f.suffix = "npz" => f.role \in {"recon", "defender", "attacker"}
\* A member of an archive or a file of a folder; a folder that is packed, with
\* the name of its top folder.
PathNames == STRING \cup {"manifest", "main", "junk", "pyc", "unsafe"}
MemberForm ==
    [parts : Seq(PathNames) \ {<<>>}, size : Nat, form : STRING, data : STRING, dir : BOOLEAN]
FolderForm(folder, top) ==
    /\ folder \in SUBSET MemberForm /\ IsFiniteSet(folder)
    /\ \A f \in folder : ~f.dir /\ \A g \in folder : f # g => ~IsPrefix(f.parts, g.parts)
    /\ \E f \in folder : f.parts = <<"manifest">> /\ f.data = "good"
    /\ \E f \in folder : f.parts = <<"main">>
    /\ top \in PathNames \ {"junk", "unsafe"}
\* The files of a bundle, each at a path of its own: a name is <<letters,
\* spelling>>.  What prepare assembles: the runtime's own files, at the top or
\* in its package, brains, a network and its library.
Spelled == (STRING \cup {"python"}) \X Nat
BundleFile ==
    [path : Seq(Spelled), size : Nat, data : STRING, exec : BOOLEAN, kind : STRING]
BundleForm(some) ==
    /\ some \in SUBSET BundleFile /\ IsFiniteSet(some)
    /\ \A f, g \in some : f # g => f.path # g.path
RuntimeForm(runtime, main) ==
    /\ BundleForm(runtime) /\ \E f \in runtime : f.path = main
    /\ \A f \in runtime : \/ Len(f.path) = 1
                          \/ Len(f.path) >= 2 /\ f.path[1] = <<"python", 1>> /\ f.path[2] = <<"swarm", 1>>
NativeForm(model, library) ==
    /\ {model, library} \subseteq BundleFile
    /\ model.kind # "none" => Len(model.path) = 2 /\ model.path[1] = <<"models", 1>>
    /\ library.kind # "none" => Len(library.path) = 2 /\ library.path[1] = <<"native", 1>>
\* What reading the model file of a package finds.
PackageForm(p) == p.file \in {"absent", "good", "broken", "odd"}
EntryForm == [brain : AnyWord, row : Int]
EpisodeForm == [tag : AnyWord, key : AnyWord \X Int, d : EntryForm, a : EntryForm]
SideForm == [learn : BOOLEAN, brain : AnyWord]
\* A brain learns or is built in, whatever entry it is in.
OneKind(entries) ==
    \A e, f \in entries : e.brain = f.brain => (e.row = None <=> f.row = None)
GenerationForm(episodes) ==
    /\ episodes \in Seq(EpisodeForm)
    /\ OneKind({episodes[i].d : i \in DOMAIN episodes})
    /\ OneKind({episodes[i].a : i \in DOMAIN episodes})
\* What a side's opponents play with, and those it is tested against.
PicksForm(side, E, picks, builtin) ==
    /\ side \in SideForm /\ picks \in Seq(EntryForm) /\ E <= Len(picks) + 1
    /\ side.learn => OneKind(Range(picks) \cup {Entry(side.brain, Latest), Entry(builtin, None)})

Asked ==
    /\ input.kind = "node" => input.node.peers \in Seq(PeerForm)
    /\ input.kind = "packets" => input.payload \in Nat
    /\ input.kind = "handler" => input.scores \in Seq(Int)
    /\ input.kind = "profile" => input.p \in ProfileForm
    /\ input.kind = "package" => PackageForm(input.p)
    /\ input.kind = "model" => ModelForm(input.m) /\ input.caps \subseteq Nat
    /\ input.kind = "name" => input.text \in Seq(Letters)
    /\ input.kind = "upload" => UploadForm(input.f)
    /\ input.kind = "uploaded" => input.members \in Seq(MemberForm)
    /\ input.kind = "packed" => FolderForm(input.folder, input.top)
    /\ input.kind = "archive" => BundleForm(input.files)
    /\ input.kind = "prepare" =>
          /\ RuntimeForm(input.runtime, input.main) /\ BundleForm(input.files)
          /\ NativeForm(input.model, input.library)
    /\ input.kind = "split" => GenerationForm(input.episodes) /\ input.workers \in Nat
    /\ input.kind = "scores" =>
          /\ {input.P, input.E} \subseteq Nat \ {0} /\ input.workers \in Nat
          /\ PicksForm(input.d, input.E, input.picks, "auction")
          /\ PicksForm(input.a, input.E, input.picks, "rush")
    /\ input.kind = "scenario" => ScenarioForm(input.sc) /\ input.chosen \in Seq(STRING)
    /\ input.kind = "log" => input.events \in Seq(EventForm) /\ input.learned \in Seq(Nat)
    /\ input.kind = "gemm" => {input.M, input.N, input.K} \subseteq Nat

-----------------------------------------------------------------------------
(* The properties.                                                         *)

\* What the image of a network is, to both engines.
ModelExact(m, caps, image) == /\ EnginesAgree(m, image) /\ RunStaysInside(m, image)
                        /\ \A cap \in caps : PlacementFits(m, cap, image)
\* What networks numpy plans and the C++ engine loads, with which shapes, sizes
\* and costs; and the memory of the C++ one: placed within the cap, never left
\* while running, with every cell of a matrix product computed exactly once.
EnginesExact ==
    /\ input.kind = "model" => ModelExact(input.m, input.caps, EncodeSwm(input.m))
    /\ input.kind = "gemm" => TilesExact(input.M, input.N, input.K)
\* What check_manifest accepts and validate passes can be used, and listed
\* unless its model file is odd; what validate says of devices, export keeps;
\* what is uploaded becomes such a package, under a name that stays, or is
\* refused.  What packing a folder wrote, unpacking accepts, and nothing else.
PackagesWork ==
    /\ input.kind = "package" => AcceptedIsEnough(input.p) /\ ValidIsUsable(input.p) /\ ExportKeepsClaim(input.p)
    /\ input.kind = "name" =>
          /\ NameSettled(input.text)
          /\ \A known \in {{}, {input.text}, {Slug(input.text, Fallback)}} :
                SaveFindsNameFree([loads |-> TRUE, stem |-> input.text, role |-> "recon"], input.text, known)
    /\ input.kind = "model" /\ Planned(input.m) => LabelsFit(input.m.layers, Last(PyShapes(input.m)).c)
    /\ input.kind = "upload" => UploadAccepted(input.f)
    /\ input.kind = "uploaded" => NothingOverwritten(input.members)
    /\ input.kind = "packed" => PackInstalls(input.folder, input.top)
    /\ input.kind = "archive" => ArchiveExact(input.files, input.target, input.main)
    /\ input.kind = "prepare" => PreparedPacks(input.runtime, input.files, input.model, input.library, input.target, input.main)
\* Training does not depend on how many processes play.
ProcessesInvisible ==
    /\ input.kind = "split" => SplitInvisible(input.episodes, input.workers)
    /\ input.kind = "scores" => ScoresAreOwn(input.d, input.a, input.P, input.E, input.picks, input.picks, input.workers)
\* What a battery simulates, measures and calls passed.
BatteryFair ==
    /\ input.kind = "scenario" => ComparedFairly(input.sc, input.chosen)
    /\ input.kind = "brain" => BrainFound(input.sc, input.override, input.engine)
    /\ input.kind = "log" => RecoveryExact(input.events, input.learned)
    /\ input.kind = "checks" => ChecksHonest(input.sc, input.chosen, input.metrics)
\* What a runtime relies on once its configuration is accepted.
ConfigSound ==
    /\ input.kind = "node" => PeersNamed(input.node, input.certs)
    /\ input.kind = "packets" => PacketsFit(input.payload)
    /\ input.kind = "handler" => BrainOwned(input.h, input.length, input.scores)
    /\ input.kind = "profile" => DrivenWithinLimits(input.fields, input.p, input.outputs)
=============================================================================
