------------------------------ MODULE Installer ------------------------------
(***************************************************************************)
(* Installation of signed releases under one root (deploy/installer.py):   *)
(* install stages a release, renames it into releases/ and replaces        *)
(* current.json, under the root's lock; status and launch read the pointer *)
(* and check the release behind it.                                        *)
(*                                                                         *)
(* The file system keeps, besides what the processes see, what would       *)
(* survive a power failure.  A directory entry or the data of a tree that  *)
(* was not synced may survive it or not.  The entry of a root that install *)
(* had to make is one that nothing ever syncs.  Bundles are verified       *)
(* before; only their version and device matter here.                      *)
(***************************************************************************)
EXTENDS Naturals, FiniteSets

CONSTANTS
  Installs,   \* calls of install; the random token of each is its own
  Version,    \* the version of the bundle of each
  Device,     \* its node_id
  None,       \* no current.json, nothing chosen, lock free
  Files,      \* files of a payload; the manifest is one more
  MaxPower    \* bound of the power failures

ASSUME InstallerAssumption ==
  /\ None \notin Installs
  /\ Version \in [Installs -> Nat \ {0}]
  /\ Files \in Nat \ {0} /\ MaxPower \in Nat

VARIABLES
  pc,        \* where a call of install is
  lock,      \* the holder of .install.lock
  root,      \* "given", "absent", "made" by an install, or "kept" on the disk since
  place,     \* where the tree of a call is: "none", ".stage-<token>", "release"
  tree,      \* files written to it
  frozen,    \* its files and directories are synced and read-only
  entry,     \* its place on the disk
  folder,    \* the entry of releases/ in the root is on the disk
  current,   \* the call current.json was written by
  disk,      \* the same, on the disk
  chosen,    \* launch: the pointer read, its release not yet checked
  reported,  \* calls that returned a Deployment (history)
  lostReports, \* the ones among them whose root a power failure took (history)
  power      \* power failures so far, for the bound

files == <<place, tree, frozen, entry, folder>>
pointer == <<current, disk>>
reports == <<reported, lostReports>>
vars == <<pc, lock, root, files, pointer, chosen, reports, power>>

Working == {"locked", "checked", "staging", "frozen", "renamed", "synced", "written"}
Running == Working \cup {"replaced", "failing"}
Ended == {"done", "failed", "uncertain", "dead"}
Places == {"none", "stage", "release"}

TypeOK ==
  /\ pc \in [Installs -> {"idle"} \cup Running \cup Ended]
  /\ lock \in Installs \cup {None}
  /\ place \in [Installs -> Places] /\ entry \in [Installs -> Places]
  /\ tree \in [Installs -> 0..Files + 1] /\ frozen \in [Installs -> BOOLEAN]
  /\ folder \in BOOLEAN
  /\ current \in Installs \cup {None} /\ disk \in Installs \cup {None}
  /\ chosen \in Installs \cup {None}
  /\ root \in {"given", "absent", "made", "kept"}
  /\ reported \in SUBSET Installs /\ lostReports \in SUBSET Installs /\ power \in 0..MaxPower

\* The root was there before, as durable as the file system under it, or the
\* first install makes it.
Init ==
  /\ root \in {"given", "absent"}
  /\ pc = [i \in Installs |-> "idle"] /\ lock = None
  /\ place = [i \in Installs |-> "none"] /\ entry = [i \in Installs |-> "none"]
  /\ tree = [i \in Installs |-> 0] /\ frozen = [i \in Installs |-> FALSE]
  /\ folder = FALSE
  /\ current = None /\ disk = None
  /\ chosen = None
  /\ reported = {} /\ lostReports = {} /\ power = 0

-----------------------------------------------------------------------------
\* status: the release behind a pointer is there and has every file of its
\* manifest.
Complete(i) == place[i] = "release" /\ tree[i] = Files + 1

Status == current = None \/ Complete(current)

\* _check_upgrade against the release status returned.
Upgrades(i) == current # None => Device[i] = Device[current] /\ Version[i] > Version[current]

Goes(i, from, to) == pc[i] = from /\ pc' = [pc EXCEPT ![i] = to]

\* private_directory makes what is missing of the path and syncs none of it.
MakeRoot == root' = IF root = "absent" THEN "made" ELSE root

\* Mutant: the lock does not exclude.
LockShared(i) ==
  /\ MakeRoot
  /\ lock' = i /\ Goes(i, "idle", "locked")
  /\ UNCHANGED <<files, pointer, chosen, reports, power>>

\* The root is made if it has to be; then the lock is taken at once or not.
Lock(i) ==
  /\ MakeRoot
  /\ \/ lock = None /\ lock' = i /\ Goes(i, "idle", "locked")
     \/ UNCHANGED lock /\ Goes(i, "idle", "failed")
  /\ UNCHANGED <<files, pointer, chosen, reports, power>>

Check(i) ==
  /\ Goes(i, "locked", IF Status /\ Upgrades(i) THEN "checked" ELSE "failing")
  /\ UNCHANGED <<lock, root, files, pointer, chosen, reports, power>>

MakeStage(i) ==
  /\ Goes(i, "checked", "staging")
  /\ place' = [place EXCEPT ![i] = "stage"]
  /\ UNCHANGED <<lock, root, tree, frozen, entry, folder, pointer, chosen, reports, power>>

\* One file of the payload, or last of all the manifest.
WriteFile(i) ==
  /\ pc[i] = "staging" /\ tree[i] <= Files
  /\ tree' = [tree EXCEPT ![i] = @ + 1]
  /\ UNCHANGED <<pc, lock, root, place, frozen, entry, folder, pointer, chosen, reports, power>>

\* _freeze_directory syncs every directory of the tree.
Freeze(i) ==
  /\ tree[i] = Files + 1 /\ Goes(i, "staging", "frozen")
  /\ frozen' = [frozen EXCEPT ![i] = TRUE]
  /\ UNCHANGED <<lock, root, place, tree, entry, folder, pointer, chosen, reports, power>>

Rename(i) ==
  /\ Goes(i, "frozen", "renamed")
  /\ place' = [place EXCEPT ![i] = "release"]
  /\ UNCHANGED <<lock, root, tree, frozen, entry, folder, pointer, chosen, reports, power>>

SyncReleases(i) ==
  /\ Goes(i, "renamed", "synced")
  /\ entry' = [entry EXCEPT ![i] = "release"]
  /\ UNCHANGED <<lock, root, place, tree, frozen, folder, pointer, chosen, reports, power>>

\* Mutant: the temporary file is written without a sync of its directory.
WriteStateUnsynced(i) ==
  /\ Goes(i, "synced", "written")
  /\ UNCHANGED <<lock, root, files, pointer, chosen, reports, power>>

\* write_new syncs the temporary file and then the root: with it the entry of
\* releases/ and whatever replaced current.json before.
WriteState(i) ==
  /\ Goes(i, "synced", "written")
  /\ folder' = TRUE /\ disk' = current
  /\ UNCHANGED <<lock, root, place, tree, frozen, entry, current, chosen, reports, power>>

Replace(i) ==
  /\ Goes(i, "written", "replaced")
  /\ current' = i
  /\ UNCHANGED <<lock, root, files, disk, chosen, reports, power>>

Unlock == lock' = None

\* Mutant: install returns without the last sync.
SyncNothing(i) ==
  /\ Goes(i, "replaced", "done")
  /\ reported' = reported \cup {i}
  /\ Unlock
  /\ UNCHANGED <<root, lostReports, files, pointer, chosen, power>>

\* The last sync of the root; install returns.
SyncRoot(i) ==
  /\ Goes(i, "replaced", "done")
  /\ disk' = current
  /\ reported' = reported \cup {i}
  /\ Unlock
  /\ UNCHANGED <<root, lostReports, files, current, chosen, power>>

\* It fails: the commit is reported as uncertain.
SyncFails(i) ==
  /\ Goes(i, "replaced", "uncertain")
  /\ Unlock
  /\ UNCHANGED <<root, files, pointer, chosen, reports, power>>

\* Any step before the commit may raise; the finally removes the stage, if the
\* tree still is one, and may fail at that too.
Fail(i) ==
  /\ pc[i] \in Working
  /\ pc' = [pc EXCEPT ![i] = "failing"]
  /\ UNCHANGED <<lock, root, files, pointer, chosen, reports, power>>

CleanUp(i) ==
  /\ Goes(i, "failing", "failed")
  /\ place' \in {place, [place EXCEPT ![i] = IF @ = "stage" THEN "none" ELSE @]}
  /\ Unlock
  /\ UNCHANGED <<root, tree, frozen, entry, folder, pointer, chosen, reports, power>>

\* The process of an installer dies; the system releases its lock.
Killed(i) ==
  /\ pc[i] \in Running
  /\ pc' = [pc EXCEPT ![i] = "dead"]
  /\ Unlock
  /\ UNCHANGED <<root, files, pointer, chosen, reports, power>>

\* The power fails: of what was not synced, the root an install made, the
\* trees of Kept, releases/ and the new pointer may have reached the disk.
PowerFails(Kept, keepRoot, keepFolder, keepPointer) ==
  LET gone == root = "absent" \/ (root = "made" /\ ~keepRoot)
      there == ~gone /\ (folder \/ (keepFolder /\ \E i \in Installs : place[i] # "none"))
      left == [i \in Installs |->
                 LET p == IF i \in Kept THEN place[i] ELSE entry[i]
                 IN  IF gone \/ (p = "release" /\ ~there) THEN "none" ELSE p]
      now == IF gone THEN None ELSE IF keepPointer THEN current ELSE disk
  IN  /\ power < MaxPower /\ power' = power + 1
      /\ pc' = [i \in Installs |-> IF pc[i] \in Running THEN "dead" ELSE pc[i]]
      /\ lock' = None
      /\ root' = IF gone THEN "absent" ELSE IF root = "made" THEN "kept" ELSE root
      /\ place' = left /\ entry' = left
      /\ folder' = there
      /\ tree' = [i \in Installs |-> IF frozen[i] \/ i \in Kept THEN tree[i] ELSE 0]
      /\ current' = now /\ disk' = now
      /\ chosen' = None
      /\ lostReports' = IF gone THEN reported ELSE lostReports
      /\ UNCHANGED <<frozen, reported>>

\* launch runs the release the pointer names, after status checked it; the
\* pointer may be replaced in between.
LaunchRead ==
  /\ current # None /\ chosen = None
  /\ chosen' = current
  /\ UNCHANGED <<pc, lock, root, files, pointer, reports, power>>

LaunchRun ==
  /\ chosen # None
  /\ chosen' = None
  /\ UNCHANGED <<pc, lock, root, files, pointer, reports, power>>

-----------------------------------------------------------------------------
Install(i) ==
  \/ Lock(i) \/ Check(i) \/ MakeStage(i) \/ WriteFile(i) \/ Freeze(i) \/ Rename(i)
  \/ SyncReleases(i) \/ WriteState(i) \/ Replace(i) \/ SyncRoot(i) \/ SyncFails(i)
  \/ Fail(i) \/ CleanUp(i)

Next ==
  \/ \E i \in Installs : Install(i) \/ Killed(i)
  \/ \E Kept \in SUBSET Installs, keepRoot, keepFolder, keepPointer \in BOOLEAN :
       PowerFails(Kept, keepRoot, keepFolder, keepPointer)
  \/ LaunchRead \/ LaunchRun

Spec == Init /\ [][Next]_vars

-----------------------------------------------------------------------------
\* The pointer, as a process or a reader sees it and as the disk has it, always
\* names a complete release: neither a failed or killed installer nor a power
\* failure leaves a root that status, and so every later install, refuses.
PointerUsable ==
  /\ Status
  /\ chosen # None => Complete(chosen)

\* What an install reported is lost with the whole of a root that an install
\* had made and no power failure had found on the disk before, and in no other
\* way: no other power failure and no later install takes the root below that
\* version or to another device.
ReportedKept ==
  /\ \A i \in reported \ lostReports :
       current # None /\ Version[current] >= Version[i] /\ Device[current] = Device[i]
  /\ root = "given" => lostReports = {}

\* The version of the root grows with every replacement of the pointer, also
\* when installers overlap; only a power failure may take back a replacement,
\* one that was not reported or one in a root it takes as a whole.
VersionsIncrease ==
  [][current' # current /\ power' = power =>
       current' # None /\ (current # None => /\ Version[current'] > Version[current]
                                             /\ Device[current'] = Device[current])]_vars
=============================================================================
