------------------------------ MODULE Library ------------------------------
(***************************************************************************)
(* The package library (python/swarm/sdk/install.py, packages.py, the      *)
(* brain routes of studio/server.py): a folder of package folders, changed *)
(* by the threads of the studio's server and by the command line at the    *)
(* same time, with no lock between them.                                   *)
(*                                                                         *)
(* An install unpacks into a scratch folder of its own, checks the package *)
(* and renames the folder to the name in its manifest; with `replace' it   *)
(* removes the installed folder first, entry by entry.  A deletion is the  *)
(* same removal.  Entries are removed through the folder that was opened,  *)
(* whatever has been renamed to its name since.                            *)
(***************************************************************************)
EXTENDS Naturals, FiniteSets

CONSTANTS Requests,     \* server threads and command lines
          Uploads,      \* what can be uploaded
          PackageNames, \* package names
          NameOf,       \* upload -> the name in its manifest
          WellFormed,   \* the uploads whose manifest check_manifest accepts
          Policies,     \* the uploads that are arena policies
          Absent,       \* "no such folder"
          MaxInstalls,  \* bound on scratch folders ever made
          MaxFaults     \* bound on failing file operations and crashes

\* Two kinds of folder names, and manifests that name packages.
ASSUME LibraryAssumption ==
    /\ PackageNames \cap Requests = {} /\ Uploads /= {} /\ PackageNames /= {}
    /\ NameOf \in [Uploads -> PackageNames] /\ WellFormed \subseteq Uploads
    /\ MaxInstalls \in Nat /\ MaxFaults \in Nat
    /\ Absent \notin [id : Nat, files : SUBSET ({"manifest", "code"} \X Uploads)]

VARIABLES
    library,    \* name, or request for its scratch folder -> Absent or the folder
    at,         \* request -> where it is
    op,         \* request -> "upload" (server), "replace" (command line), "delete"
    upload,     \* request -> what it installs
    name,       \* request -> the name it works on
    opened,     \* request -> id of the folder it removes, and the entries left
    serial,     \* scratch folders made so far
    orphans,    \* scratch folders that a crash or a failed removal left in the library
    faults,
    crowded,    \* history: names two requests have changed at the same time
    lost        \* history: names whose replacement failed after it removed something

libraryVars == <<library, at, op, upload, name, opened, serial, orphans, faults, crowded, lost>>
request == <<op, upload, name>>

FilesOf(u) == {"manifest", "code"} \X {u}

\* load_package: the manifest is there, it is valid, and its entry file exists.
Loads(d) == d /= Absent /\ \E u \in WellFormed : d.files = FilesOf(u)
HasManifest(d) == d /= Absent /\ \E u \in Uploads : <<"manifest", u>> \in d.files

\* discover_packages lists every folder with a manifest, scratch ones too.
Listed(n) ==
    \E d \in {library[x] : x \in DOMAIN library} \cup orphans :
        Loads(d) /\ \E u \in Uploads : <<"manifest", u>> \in d.files /\ NameOf[u] = n

LibraryInit ==
    /\ library = [x \in PackageNames \cup Requests |-> Absent]
    /\ at = [r \in Requests |-> "idle"]
    /\ op = [r \in Requests |-> "delete"]
    /\ upload = [r \in Requests |-> CHOOSE u \in Uploads : TRUE]
    /\ name = [r \in Requests |-> CHOOSE n \in PackageNames : TRUE]
    /\ opened = [r \in Requests |-> [id |-> 0, left |-> {}]]
    /\ serial = 0 /\ orphans = {} /\ faults = 0 /\ crowded = {} /\ lost = {}

Goto(r, where) == at' = [at EXCEPT ![r] = where]

Changing(r) == at[r] \in {"open", "clear", "rename", "reload"}

\* A request starts to change what is installed as name n.
Crowd(r, n) ==
    crowded' = IF \E q \in Requests \ {r} : Changing(q) /\ name[q] = n
               THEN crowded \cup {n} ELSE crowded

-----------------------------------------------------------------------------
\* _staging: a new scratch folder.
BeginInstall(r, how, u) ==
    /\ at[r] = "idle" /\ how \in {"upload", "replace"} /\ serial < MaxInstalls
    /\ op' = [op EXCEPT ![r] = how]
    /\ upload' = [upload EXCEPT ![r] = u]
    /\ name' = [name EXCEPT ![r] = NameOf[u]]
    /\ serial' = serial + 1
    /\ library' = [library EXCEPT ![r] = [id |-> serial + 1, files |-> {}]]
    /\ Goto(r, "write")
    /\ UNCHANGED <<opened, orphans, faults, crowded, lost>>

\* install_archive, install_source, install_npz, install_folder: one more file.
WriteUpload(r) ==
    /\ at[r] = "write"
    /\ \E f \in FilesOf(upload[r]) \ library[r].files :
         library' = [library EXCEPT ![r].files = @ \cup {f}]
    /\ Goto(r, IF library'[r].files = FilesOf(upload[r]) THEN "place" ELSE "write")
    /\ UNCHANGED <<request, opened, serial, orphans, faults, crowded, lost>>

\* Mutant: the installed package makes room before the new one is checked.
PlaceUnchecked(r) ==
    LET n == name[r] IN
    /\ at[r] = "place"
    /\ IF library[n] /= Absent /\ op[r] = "upload"
       THEN Goto(r, "undo") /\ UNCHANGED crowded
       ELSE Goto(r, IF library[n] = Absent THEN "rename" ELSE "open") /\ Crowd(r, n)
    /\ UNCHANGED <<library, request, opened, serial, orphans, faults, lost>>

\* _place: the scratch folder must load before anything installed is touched.
Place(r) ==
    LET n == name[r] IN
    /\ at[r] = "place"
    /\ IF ~Loads(library[r]) \/ (library[n] /= Absent /\ op[r] = "upload")
       THEN Goto(r, "undo") /\ UNCHANGED crowded
       ELSE Goto(r, IF library[n] = Absent THEN "rename" ELSE "open") /\ Crowd(r, n)
    /\ UNCHANGED <<library, request, opened, serial, orphans, faults, lost>>

\* The delete route and remove_package: the name is listed and has a manifest.
BeginDelete(r, n) ==
    /\ at[r] = "idle" /\ Listed(n) /\ HasManifest(library[n])
    /\ op' = [op EXCEPT ![r] = "delete"]
    /\ name' = [name EXCEPT ![r] = n]
    /\ Goto(r, "open") /\ Crowd(r, n)
    /\ UNCHANGED <<library, upload, opened, serial, orphans, faults, lost>>

\* Mutant: the scratch folder of a failed replacement stays.
AbortLeaves(r) ==
    /\ Goto(r, IF at[r] = "write" THEN "undo" ELSE "idle")
    /\ lost' = IF op[r] = "replace" /\ at[r] /= "write" /\ ~Loads(library[name[r]])
               THEN lost \cup {name[r]} ELSE lost

\* An exception: an install undoes its scratch folder, a deletion just ends.
Abort(r) ==
    /\ Goto(r, IF op[r] = "delete" THEN "idle" ELSE "undo")
    /\ lost' = IF op[r] = "replace" /\ at[r] /= "write" /\ ~Loads(library[name[r]])
               THEN lost \cup {name[r]} ELSE lost

\* shutil.rmtree opens the folder and lists its entries.
OpenFolder(r) ==
    LET d == library[name[r]] IN
    /\ at[r] = "open"
    /\ IF d /= Absent
       THEN /\ opened' = [opened EXCEPT ![r] = [id |-> d.id, left |-> d.files]]
            /\ Goto(r, "clear") /\ UNCHANGED lost
       ELSE Abort(r) /\ UNCHANGED opened
    /\ UNCHANGED <<library, request, serial, orphans, faults, crowded>>

\* shutil.rmtree: an entry that somebody else removed is an error for some
\* versions of Python and ignored by others.
Unlink(r) ==
    LET n == name[r]
        mine == library[n] /= Absent /\ library[n].id = opened[r].id
    IN  /\ at[r] = "clear"
        /\ \E f \in opened[r].left :
             /\ library' = IF mine THEN [library EXCEPT ![n].files = @ \ {f}] ELSE library
             /\ \/ /\ opened' = [opened EXCEPT ![r].left = @ \ {f}]
                   /\ UNCHANGED <<at, lost>>
                \/ /\ mine => f \notin library[n].files
                   /\ Abort(r) /\ UNCHANGED opened
        /\ UNCHANGED <<request, serial, orphans, faults, crowded>>

\* The emptied folder itself goes by its name, if nothing new is in it.
RemoveFolder(r) ==
    LET n == name[r] IN
    /\ at[r] = "clear" /\ opened[r].left = {}
    /\ IF library[n] /= Absent /\ library[n].files = {}
       THEN /\ library' = [library EXCEPT ![n] = Absent]
            /\ Goto(r, IF op[r] = "delete" THEN "idle" ELSE "rename")
            /\ UNCHANGED lost
       ELSE Abort(r) /\ UNCHANGED library
    /\ UNCHANGED <<request, opened, serial, orphans, faults, crowded>>

\* Mutant: the files are moved into the folder that is there.
MoveInMerges(r) ==
    LET n == name[r] IN
    /\ at[r] = "rename"
    /\ library' = [library EXCEPT ![r] = Absent,
          ![n] = IF @ = Absent THEN library[r] ELSE [@ EXCEPT !.files = @ \cup library[r].files]]
    /\ Goto(r, "reload")
    /\ UNCHANGED <<request, opened, serial, orphans, faults, crowded, lost>>

\* A folder can be renamed over a missing or an empty one.
MoveIn(r) ==
    LET n == name[r] IN
    /\ at[r] = "rename"
    /\ IF library[n] = Absent \/ library[n].files = {}
       THEN /\ library' = [library EXCEPT ![n] = library[r], ![r] = Absent]
            /\ Goto(r, "reload") /\ UNCHANGED lost
       ELSE Abort(r) /\ UNCHANGED library
    /\ UNCHANGED <<request, opened, serial, orphans, faults, crowded>>

\* load_package(dest); then the server removes what is not an arena policy,
\* by its name.
Reload(r) ==
    LET n == name[r] IN
    /\ at[r] = "reload"
    /\ IF Loads(library[n]) /\ op[r] = "upload" /\ upload[r] \notin Policies
       THEN op' = [op EXCEPT ![r] = "delete"] /\ Goto(r, "open")
       ELSE Goto(r, "idle") /\ UNCHANGED op
    /\ lost' = IF op[r] = "replace" /\ ~Loads(library[n]) THEN lost \cup {n} ELSE lost
    /\ UNCHANGED <<library, opened, upload, name, serial, orphans, faults, crowded>>

\* The except clause of every install: the scratch folder goes, but for what
\* the file system refuses to remove, of which nobody hears (ignore_errors).
Undo(r) ==
    /\ at[r] = "undo"
    /\ \/ UNCHANGED <<orphans, faults>>
       \/ /\ library[r] /= Absent /\ faults < MaxFaults /\ faults' = faults + 1
          /\ \E stuck \in SUBSET library[r].files :
               orphans' = orphans \cup {[library[r] EXCEPT !.files = stuck]}
    /\ library' = [library EXCEPT ![r] = Absent]
    /\ Goto(r, "idle")
    /\ UNCHANGED <<request, opened, serial, crowded, lost>>

\* A write, an unlink or a rename that the file system refuses.
OperationFails(r) ==
    /\ at[r] \in {"write", "clear", "rename"} /\ faults < MaxFaults
    /\ Abort(r) /\ faults' = faults + 1
    /\ UNCHANGED <<library, request, opened, serial, orphans, crowded>>

\* The process of a request dies.
Crash(r) ==
    /\ at[r] /= "idle" /\ faults < MaxFaults
    /\ orphans' = orphans \cup ({library[r]} \ {Absent})
    /\ library' = [library EXCEPT ![r] = Absent]
    /\ Goto(r, "idle") /\ faults' = faults + 1
    /\ UNCHANGED <<request, opened, serial, crowded, lost>>

LibraryNext ==
    \E r \in Requests :
        \/ \E u \in Uploads : BeginInstall(r, "upload", u) \/ BeginInstall(r, "replace", u)
        \/ \E n \in PackageNames : BeginDelete(r, n)
        \/ WriteUpload(r) \/ Place(r) \/ OpenFolder(r) \/ Unlink(r) \/ RemoveFolder(r) \/ MoveIn(r)
        \/ Reload(r) \/ Undo(r) \/ OperationFails(r) \/ Crash(r)

LibrarySpec == LibraryInit /\ [][LibraryNext]_libraryVars

-----------------------------------------------------------------------------
\* A package folder never mixes the files of two uploads, and a scratch folder
\* never those of its request with another's, whatever installs, replacements
\* and deletions of the same name run at once.
NoMixture ==
    \A x \in PackageNames \cup Requests :
        library[x] /= Absent => \E u \in Uploads : library[x].files \subseteq FilesOf(u)

\* A request that has ended, well or badly, leaves no scratch folder behind in
\* the library (where it would be listed as a package): each one that stays is
\* owed to a crash of its own or to a removal of its own that was refused.
ScratchCleared ==
    /\ \A r \in Requests : at[r] \in {"idle", "reload"} => library[r] = Absent
    /\ Cardinality(orphans) <= faults

FoldersWhole == NoMixture /\ ScratchCleared

\* A replacement that fails leaves the library without the package only if a
\* file operation failed or somebody else changed the same name meanwhile: an
\* upload that is not a valid package never costs the installed one.
ReplaceKeepsOne == faults = 0 => lost \subseteq crowded
=============================================================================
