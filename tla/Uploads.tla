------------------------------ MODULE Uploads ------------------------------
(***************************************************************************)
(* What an upload turns into (sdk/install.py, the upload and save routes   *)
(* of studio/server.py): a name from a file name, a package folder from    *)
(* the members of an archive, and a manifest written around a bare source  *)
(* file, network or set of trained weights.  How folders change places in  *)
(* the library while other requests do the same is module Library.         *)
(*                                                                         *)
(* A name is a sequence of characters "a" (a lower-case letter), "A" (an   *)
(* upper-case one), "1" (a digit), "_" and "." (any other).  A path is a   *)
(* sequence of components; "junk" stands for the names of JUNK, "pyc" for  *)
(* a compiled file, "unsafe" for what _check_member refuses.  A member     *)
(* that is "hollow" inflates more than MAX_RATIO.                          *)
(***************************************************************************)
EXTENDS Packages, SequencesExt, FiniteSetsExt

CONSTANTS MaxName,     \* characters of a package name (40)
          MaxMembers,  \* files in an archive (MAX_FILES)
          MaxPacked,   \* bytes an archive unpacks to (MAX_UNPACKED_BYTES)
          Labels       \* classes of the shipped networks (5)

ASSUME UploadsAssumption == {MaxName, MaxMembers, MaxPacked} \subseteq Nat \ {0} /\ Labels \in Nat \ {0, 1}

Fallback == <<"a", "a">>

-----------------------------------------------------------------------------
(* Names.                                                                  *)

NameOK(s) ==
    /\ Len(s) \in 2..MaxName /\ Head(s) = "a"
    /\ \A i \in DOMAIN s : s[i] \in {"a", "1", "_"}

\* Every run of other characters becomes one "_".
Lower(c) == IF c = "A" THEN "a" ELSE IF c = "." THEN "_" ELSE c
InRun(text, i) == i > 1 /\ text[i] = "." /\ text[i - 1] = "."
Squeeze(text) ==
    FlattenSeq([i \in DOMAIN text |-> IF InRun(text, i) THEN <<>> ELSE <<Lower(text[i])>>])

Solid(s) == {i \in DOMAIN s : s[i] # "_"}
RStrip(s) == SubSeq(s, 1, Max(Solid(s) \cup {0}))
Strip(s) == IF Solid(s) = {} THEN <<>> ELSE SubSeq(s, Min(Solid(s)), Max(Solid(s)))

\* The name before it is cut: it starts with a letter.
Lettered(text, fallback) ==
    LET s == Strip(Squeeze(text))
    IN  IF s = <<>> THEN fallback
        ELSE IF Head(s) = "a" THEN s ELSE fallback \o <<"_">> \o s
Cut(s) == SubSeq(s, 1, Min({Len(s), MaxName}))

\* Mutant: a name cut at its limit may end in "_".
SlugAsCut(text, fallback) == Cut(Lettered(text, fallback))

Slug(text, fallback) == RStrip(Cut(Lettered(text, fallback)))

-----------------------------------------------------------------------------
(* Archives: a sequence of members, in the order of the file.              *)

Junk(parts) == Last(parts) = "pyc" \/ \E i \in DOMAIN parts : parts[i] = "junk"
Unsafe(parts) == \E i \in DOMAIN parts : parts[i] = "unsafe"

\* Directories and junk are left out before anything else is decided.
Kept(members) ==
    FlattenSeq([i \in DOMAIN members |-> IF members[i].dir \/ Junk(members[i].parts)
                                         THEN <<>> ELSE <<members[i]>>])
Bytes(members) == FoldLeft(LAMBDA sum, m : sum + m.size, 0, members)
AtRoot(members) == \E m \in ToSet(members) : m.parts = <<"manifest">>

\* The zip of a folder: its one top folder is taken off every path.
StripTop(members) ==
    IF \/ AtRoot(members) \/ Cardinality({m.parts[1] : m \in ToSet(members)}) # 1
       \/ \E m \in ToSet(members) : Len(m.parts) = 1
    THEN members
    ELSE [i \in DOMAIN members |-> [members[i] EXCEPT !.parts = Tail(@)]]

\* Mutant: the single top folder is looked for before the junk is left out.
ArrangedAsZipped(members) == Kept(StripTop(SelectSeq(members, LAMBDA m : ~m.dir)))

Arranged(members) == StripTop(Kept(members))

\* Mutant: a later member of the same name overwrites an earlier one.
CollideUnlessSame(members) ==
    \E i, j \in DOMAIN members : IsStrictPrefix(members[i].parts, members[j].parts)

\* A file is never opened over another, nor a folder made where one is.
Collide(members) ==
    \E i, j \in DOMAIN members : i # j /\ IsPrefix(members[i].parts, members[j].parts)

\* load_package: the manifest is accepted and its entry file is there.
LoadPackage(files) ==
    /\ \E f \in files : f.parts = <<"manifest">> /\ f.data = "good"
    /\ \E f \in files : f.parts = <<"main">>

Answer(answer, files) == [answer |-> answer, files |-> files]
RefusedArchive == Answer("refused", {})

\* Into a library that holds no package of this name.
InstallArchive(members) ==
    LET placed == Arranged(members)
        files == {[parts |-> m.parts, data |-> m.data] : m \in ToSet(placed)}
    IN  IF \/ Len(members) > 2 * MaxMembers \/ \E m \in ToSet(members) : Unsafe(m.parts)
           \/ \E m \in ToSet(placed) : m.form # "plain"
           \/ Bytes(placed) > MaxPacked \/ Len(placed) > MaxMembers \/ ~AtRoot(placed)
        THEN RefusedArchive
        ELSE IF Collide(placed) THEN Answer("raises", {})
        ELSE IF LoadPackage(files) THEN Answer("ok", files) ELSE RefusedArchive

\* pack writes a package folder's files at the root of the archive.
PackFolder(folder) == SetToSeq({f \in folder : ~Junk(f.parts)})

-----------------------------------------------------------------------------
(* Manifests that the installer writes, in the fields of module Packages.  *)

ManifestOf(name, type, format) ==
    [schema |-> TRUE, name |-> IF NameOK(name) THEN "good" ELSE "bad", texts |-> TRUE,
     type |-> type, format |-> format, role |-> "absent", options |-> "absent",
     model |-> "absent", file |-> "good", build |-> "absent", classes |-> 0, macs |-> "absent",
     comms |-> TRUE, entry |-> "absent", strategy |-> "absent", trained_for |-> "none"]

\* _place: load_package, then a folder of its name in the library refuses it.
PlaceNew(name, manifest, library) ==
    [answer |-> IF CheckManifest(manifest) /\ name \notin library THEN "ok" ELSE "refused",
     name |-> name, manifest |-> manifest]
NotPlaced == [answer |-> "refused", name |-> <<>>]

\* Mutant: the first dense layer is taken for the output.
FirstLabels(layers) ==
    LET dense == {i \in DOMAIN layers : layers[i].type = "dense"}
    IN  IF dense # {} /\ layers[Min(dense)].b = Labels THEN Labels ELSE 0

\* Labels are written when the last dense layer has as many outputs.
NetworkLabels(layers) ==
    LET dense == {i \in DOMAIN layers : layers[i].type = "dense"}
    IN  IF dense # {} /\ layers[Max(dense)].b = Labels THEN Labels ELSE 0

InstallSwm(f, library) ==
    LET name == Slug(f.stem, Fallback)
    IN  IF ~f.loads THEN NotPlaced
        ELSE PlaceNew(name, [ManifestOf(name, "perception", "swm") EXCEPT !.model = "ok",
                              !.classes = NetworkLabels(f.layers)], library)

\* Trained weights; `name' is empty for an upload, which is named by its file.
InstallNpz(f, name, library) ==
    LET pkgName == Slug(IF name = <<>> THEN f.stem ELSE name, Fallback)
    IN  IF ~f.loads \/ ~NameOK(pkgName) THEN NotPlaced
        ELSE PlaceNew(pkgName, [ManifestOf(pkgName, "policy", "npz") EXCEPT !.model = "ok",
                                 !.role = f.role, !.trained_for = f.role], library)

\* A class is its base, its methods and the literals assigned in its body.
ClassRole(c) ==
    IF c.base = "tactic" THEN "tactic"
    ELSE IF "act" \in c.methods /\ c.role \in {"recon", "defender", "attacker"} THEN "policy"
    ELSE IF c.base = "perception" \/ "classify" \in c.methods THEN "perception" ELSE "none"

\* The first class of the role that comes first.
Chosen(classes) ==
    LET Of(role) == {i \in DOMAIN classes : ClassRole(classes[i]) = role}
        preferred == IF Of("tactic") # {} THEN Of("tactic")
                     ELSE IF Of("policy") # {} THEN Of("policy") ELSE Of("perception")
    IN  IF preferred = {} THEN <<>> ELSE <<classes[Min(preferred)]>>

\* Mutant: any number of operations is taken over.
AnyMacs(c) == IF c.macs = "negative" THEN "text" ELSE c.macs

\* macs is only taken over when it is a whole number of at least zero.
ClassMacs(c) == IF c.macs = "number" THEN "number" ELSE "absent"

SourceManifest(c, name) ==
    LET type == ClassRole(c)
        base == [ManifestOf(name, type, IF type = "tactic" THEN "absent" ELSE "python")
                    EXCEPT !.entry = "file"]
    IN  CASE type = "tactic" -> [base EXCEPT !.strategy = IF NameOK(name) THEN "good" ELSE "bad"]
          [] type = "policy" -> [base EXCEPT !.role = c.role, !.macs = ClassMacs(c)]
          [] OTHER -> base

InstallSource(f, library) ==
    LET found == Chosen(f.classes)
        module == Slug(f.stem, Fallback)
        named == IF ClassRole(found[1]) = "tactic" /\ found[1].strategy # <<>>
                 THEN found[1].strategy ELSE module
        name == IF ClassRole(found[1]) = "tactic" THEN Slug(named, Fallback) ELSE module
    IN  IF ~f.parses \/ found = <<>> \/ ~NameOK(name) THEN NotPlaced
        ELSE PlaceNew(name, SourceManifest(found[1], name), library)

InstallUpload(f, library) ==
    CASE f.suffix = "zip" -> InstallArchive(f.members)
      [] f.suffix = "py" -> InstallSource(f, library)
      [] f.suffix = "swm" -> InstallSwm(f, library)
      [] f.suffix = "npz" -> InstallNpz(f, <<>>, library)
      [] OTHER -> NotPlaced

\* Mutant: the name is looked up as it was given.
FindsTakenAsGiven(given, known) == given \in known

FindsTaken(given, known) == Slug(given, Fallback) \in known

\* The studio saves trained weights under a given name; `known' are the
\* names of the packages it discovers.
SaveTrained(f, given, known, library) ==
    LET name == Slug(given, Fallback)
    IN  IF ~NameOK(name) \/ FindsTaken(given, known) THEN [answer |-> "conflict"]
        ELSE InstallNpz(f, name, library)

-----------------------------------------------------------------------------
(* Properties.                                                             *)

\* A name is made once: the second time, with whatever fallback, it stays
\* what it is, and it is a package's name unless it is a single letter.
NameSettled(text) ==
    LET name == Slug(text, Fallback) IN
    /\ NameOK(name) \/ Len(name) = 1
    /\ \A fallback \in {Fallback, <<"a">>} : Slug(name, fallback) = name

\* The server asks whether a name is taken, and install_npz names the folder
\* by a second slug of it: weights that load are never refused after that.
SaveFindsNameFree(f, given, known) ==
    LET saved == SaveTrained(f, given, known, known) IN
    f.loads => \/ saved.answer = "conflict"
               \/ saved.answer = "ok" /\ saved.name = Slug(given, Fallback)

\* The manifest the installer writes is one check_manifest accepts, with a
\* model that can be made: an upload whose content is sound, whose name can
\* be derived, from a tactic's strategy or the file's name, and is free is
\* never refused.
UploadAccepted(f) ==
    LET got == InstallUpload(f, {})
        own == f.suffix = "py" /\ \E c \in ToSet(Chosen(f.classes)) : ClassRole(c) = "tactic" /\ c.strategy # <<>>
        name == Slug(IF own THEN Chosen(f.classes)[1].strategy ELSE f.stem, Fallback)
        sound == CASE f.suffix = "py" -> f.parses /\ Chosen(f.classes) # <<>>
                   [] f.suffix \in {"swm", "npz"} -> f.loads
                   [] OTHER -> FALSE
    IN  /\ sound /\ NameOK(name) => got.answer = "ok"
        /\ got.answer = "ok" => /\ NameOK(got.name)
                                /\ f.suffix = "npz" => MakePolicy(got.manifest) = "ok"
                                /\ InstallUpload(f, {got.name}).answer = "refused"

\* The labels written around a network fit its outputs, or validate fails it.
\* (A convolution after the last dense layer changes what it puts out.)
LabelsFit(layers, outputs) ==
    LET After(i) == \A j \in DOMAIN layers : j > i => layers[j].type # "conv2d" IN
    (\E i \in DOMAIN layers : layers[i].type = "dense" /\ After(i))
        => NetworkLabels(layers) \in {0, outputs}

\* What an archive installs is what was checked: every member that is not
\* junk is a file of the folder, with its own bytes, and no two are one.
NothingOverwritten(members) ==
    LET got == InstallArchive(members) IN
    got.answer = "ok" =>
        /\ Cardinality(got.files) = Len(Kept(members))
        /\ \A f \in got.files : ~Unsafe(f.parts) /\ ~Junk(f.parts)
        /\ \A f, g \in got.files : f # g => ~IsPrefix(f.parts, g.parts)

\* pack and install_archive are two ends of one format: a package folder
\* comes back as it was, without junk, exactly when it is within the limits;
\* and the zip a desktop makes of the folder, with the folder itself, its
\* directory entry and a sidecar for every file, is the same package
\* while its entries are within their own limit.
PackInstalls(folder, top) ==
    LET packed == PackFolder(folder)
        got == InstallArchive(packed)
        inside == [i \in DOMAIN packed |-> [packed[i] EXCEPT !.parts = <<top>> \o @]]
        sidecars == [i \in DOMAIN packed |-> [packed[i] EXCEPT !.parts = <<"junk">> \o @]]
        desktop == <<[Head(packed) EXCEPT !.parts = <<top>>, !.dir = TRUE]>> \o inside \o sidecars
        portable == /\ Len(packed) <= MaxMembers /\ Bytes(packed) <= MaxPacked
                    /\ \A m \in ToSet(packed) : ~Unsafe(m.parts) /\ m.form = "plain"
    IN  /\ (got.answer = "ok") = portable
        /\ got.answer = "ok" =>
              got.files = {[parts |-> m.parts, data |-> m.data] : m \in {f \in folder : ~Junk(f.parts)}}
        /\ InstallArchive(desktop) = IF Len(desktop) <= 2 * MaxMembers THEN got ELSE RefusedArchive

=============================================================================
