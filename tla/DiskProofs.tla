----------------------------- MODULE DiskProofs ------------------------------
(***************************************************************************)
(* What is replaced on a disk: the releases of a robot and, further down,  *)
(* the packages of the library.                                            *)
(*                                                                         *)
(* The installer never leaves a root it would refuse, loses what it        *)
(* reported only with a root it had made itself, and never takes the       *)
(* version back, for any number of installs, files and power failures. The *)
(* argument: whatever the pointer names, here, on the disk or in launch,   *)
(* is a finished tree every part of which was synced before it was named   *)
(* (Safe); the call that holds the lock compared its version with the      *)
(* pointer, and only it can move the pointer (Progress).                   *)
(***************************************************************************)
EXTENDS Installer, Library, Fleet, FiniteSetTheorems, SequenceTheorems, TLAPS

\* A release nobody changes any more and a power failure cannot take.
Safe(c) ==
  /\ place[c] = "release" /\ entry[c] = "release"
  /\ tree[c] = Files + 1 /\ frozen[c] /\ folder
  /\ pc[c] \in {"replaced", "done", "uncertain", "dead"}

\* What the call that holds the lock has achieved.
Progress(i) ==
  /\ pc[i] \in Running => lock = i
  /\ pc[i] \in {"frozen", "renamed", "synced", "written", "replaced"} =>
       frozen[i] /\ tree[i] = Files + 1
  /\ pc[i] \in {"renamed", "synced", "written", "replaced"} => place[i] = "release"
  /\ pc[i] \in {"synced", "written", "replaced"} => entry[i] = "release"
  /\ pc[i] = "written" => folder
  /\ pc[i] = "replaced" => current = i
  /\ pc[i] \in Working \ {"locked"} => Upgrades(i)

\* A pointer that is at least as new as another.
AtLeast(c, d) == c # None /\ Version[c] >= Version[d] /\ Device[c] = Device[d]

IInv ==
  /\ TypeOK
  /\ \A i \in Installs : Progress(i)
  /\ \A c \in {current, disk, chosen} \ {None} : Safe(c)
  /\ disk # None => AtLeast(current, disk)
  /\ \A i \in reported \ lostReports : disk # None /\ AtLeast(disk, i)
  /\ root = "given" => lostReports = {}

-----------------------------------------------------------------------------
LEMMA Start == Init => IInv
<1> SUFFICES ASSUME Init PROVE IInv
  OBVIOUS
<1>1. TypeOK
  <2>1. folder \in BOOLEAN /\ frozen \in [Installs -> BOOLEAN]
    BY Zenon DEF Init
  <2> QED BY InstallerAssumption, <2>1 DEF Init, TypeOK, Places
<1>2. \A i \in Installs : Progress(i)
  BY DEF Init, Progress, Running, Working
<1>3. {current, disk, chosen} \ {None} = {} /\ disk = None /\ reported = {} /\ lostReports = {}
  BY DEF Init
<1> QED BY <1>1, <1>2, <1>3 DEF IInv

LEMMA TypeStep == TypeOK /\ [Next]_vars => TypeOK'
<1> SUFFICES ASSUME TypeOK, [Next]_vars PROVE TypeOK'
  OBVIOUS
<1> USE InstallerAssumption DEF TypeOK, Running, Working, Ended, Places, Goes, files, pointer, reports
<1>1. ASSUME NEW i \in Installs, Install(i) PROVE TypeOK'
  <2>1. CASE Lock(i) BY <2>1 DEF Lock, MakeRoot
  <2>2. CASE Check(i) BY <2>2 DEF Check
  <2>3. CASE MakeStage(i) BY <2>3 DEF MakeStage
  <2>4. CASE WriteFile(i) BY <2>4 DEF WriteFile
  <2>5. CASE Freeze(i) BY <2>5 DEF Freeze
  <2>6. CASE Rename(i) BY <2>6 DEF Rename
  <2>7. CASE SyncReleases(i) BY <2>7 DEF SyncReleases
  <2>8. CASE WriteState(i) BY <2>8 DEF WriteState
  <2>9. CASE Replace(i) BY <2>9 DEF Replace
  <2>10. CASE SyncRoot(i) BY <2>10 DEF SyncRoot, Unlock
  <2>11. CASE SyncFails(i) BY <2>11 DEF SyncFails, Unlock
  <2>12. CASE Fail(i) BY <2>12 DEF Fail
  <2>13. CASE CleanUp(i) BY <2>13 DEF CleanUp, Unlock
  <2> QED BY <1>1, <2>1, <2>2, <2>3, <2>4, <2>5, <2>6, <2>7, <2>8, <2>9, <2>10, <2>11, <2>12, <2>13 DEF Install
<1>2. ASSUME NEW i \in Installs, Killed(i) PROVE TypeOK'
  BY <1>2 DEF Killed, Unlock
<1>3. ASSUME NEW Kept \in SUBSET Installs, NEW r \in BOOLEAN, NEW f \in BOOLEAN, NEW p \in BOOLEAN,
             PowerFails(Kept, r, f, p)
      PROVE TypeOK'
  BY <1>3 DEF PowerFails
<1>4. CASE LaunchRead BY <1>4 DEF LaunchRead
<1>5. CASE LaunchRun BY <1>5 DEF LaunchRun
<1>6. CASE UNCHANGED vars BY <1>6 DEF vars
<1> QED BY <1>1, <1>2, <1>3, <1>4, <1>5, <1>6 DEF Next

\* The steps of a call that leave the pointer, its image on the disk and what
\* was reported alone.
LEMMA WorkStep ==
  ASSUME IInv, TypeOK', NEW i \in Installs,
         \/ Lock(i) \/ Check(i) \/ MakeStage(i) \/ WriteFile(i) \/ Freeze(i) \/ Rename(i)
         \/ SyncReleases(i) \/ SyncFails(i) \/ Fail(i) \/ CleanUp(i) \/ Killed(i)
  PROVE  IInv'
<1> USE InstallerAssumption DEF IInv, TypeOK, Running, Working, Ended, Places, Goes, files, pointer, reports
<1>1. /\ UNCHANGED <<current, disk, chosen, reported, lostReports, folder>> /\ (root' = "given" => root = "given")
      /\ \A j \in Installs \ {i} : /\ pc'[j] = pc[j] /\ place'[j] = place[j] /\ entry'[j] = entry[j]
                                   /\ tree'[j] = tree[j] /\ frozen'[j] = frozen[j]
  BY DEF Lock, Check, MakeStage, WriteFile, Freeze, Rename, SyncReleases, SyncFails, Fail, CleanUp, Killed, Unlock, MakeRoot
<1>2. Safe(i) => Safe(i)'
  <2>1. Safe(i) => SyncFails(i) \/ Killed(i)
    BY DEF Safe, Lock, Check, MakeStage, WriteFile, Freeze, Rename, SyncReleases, Fail, CleanUp
  <2>2. SyncFails(i) \/ Killed(i) => pc'[i] \in {"uncertain", "dead"} /\ UNCHANGED files
    BY DEF SyncFails, Killed
  <2> QED BY <2>1, <2>2 DEF Safe
<1>3. \A c \in {current, disk, chosen} \ {None} : Safe(c)'
  <2> TAKE c \in {current, disk, chosen} \ {None}
  <2>1. c \in Installs /\ Safe(c)
    OBVIOUS
  <2>2. CASE c = i BY <1>2, <2>1, <2>2
  <2>3. CASE c # i BY <1>1, <2>1, <2>3 DEF Safe
  <2> QED BY <2>2, <2>3
<1>4. \A j \in Installs : Upgrades(j)' <=> Upgrades(j)
  BY <1>1 DEF Upgrades
<1>5. lock' # lock => lock = None \/ (lock = i /\ pc'[i] \notin Running)
  BY DEF Progress, Lock, Check, MakeStage, WriteFile, Freeze, Rename, SyncReleases, SyncFails, Fail, CleanUp, Killed, Unlock
<1>6. \A j \in Installs \ {i} : Progress(j)'
  BY <1>1, <1>4, <1>5 DEF Progress
<1>7. Progress(i)'
  <2>1. CASE Lock(i) BY <1>4, <2>1 DEF Lock, Progress
  <2>2. CASE Check(i) BY <1>4, <2>2 DEF Check, Progress
  <2>3. CASE MakeStage(i) BY <1>4, <2>3 DEF MakeStage, Progress
  <2>4. CASE WriteFile(i) BY <1>4, <2>4 DEF WriteFile, Progress
  <2>5. CASE Freeze(i) BY <1>4, <2>5 DEF Freeze, Progress
  <2>6. CASE Rename(i) BY <1>4, <2>6 DEF Rename, Progress
  <2>7. CASE SyncReleases(i) BY <1>4, <2>7 DEF SyncReleases, Progress
  <2>8. CASE SyncFails(i) BY <1>4, <2>8 DEF SyncFails, Unlock, Progress
  <2>9. CASE Fail(i) BY <1>4, <2>9 DEF Fail, Progress
  <2>10. CASE CleanUp(i) BY <1>4, <2>10 DEF CleanUp, Unlock, Progress
  <2>11. CASE Killed(i) BY <1>4, <2>11 DEF Killed, Unlock, Progress
  <2> QED BY <2>1, <2>2, <2>3, <2>4, <2>5, <2>6, <2>7, <2>8, <2>9, <2>10, <2>11
<1>8. (disk # None => AtLeast(current, disk))'
  BY <1>1 DEF AtLeast
<1>9. (\A j \in reported \ lostReports : disk # None /\ AtLeast(disk, j))'
  BY <1>1 DEF AtLeast
<1>10. (root = "given" => lostReports = {})'
  BY <1>1
<1> QED BY <1>1, <1>3, <1>6, <1>7, <1>8, <1>9, <1>10

\* The three steps of the commit.
LEMMA CommitStep ==
  ASSUME IInv, TypeOK', NEW i \in Installs, WriteState(i) \/ Replace(i) \/ SyncRoot(i)
  PROVE  IInv'
<1> USE InstallerAssumption DEF IInv, TypeOK, Running, Working, Ended, Places, Goes, files, pointer, reports
<1>1. /\ UNCHANGED <<root, lostReports, place, tree, frozen, entry, chosen>> /\ (folder => folder')
      /\ \A j \in Installs \ {i} : pc'[j] = pc[j]
      /\ pc[i] \in {"synced", "written", "replaced"} /\ lock = i /\ (lock' # lock => pc'[i] \notin Running)
  BY DEF WriteState, Replace, SyncRoot, Unlock, Progress
<1>2. \A j \in Installs \ {i} : pc[j] \notin Running
  BY <1>1 DEF Progress
<1>3. \A j \in Installs \ {i} : Progress(j)'
  BY <1>1, <1>2 DEF Progress
<1>4. \A c \in Installs : Safe(c) => Safe(c)'
  BY <1>1 DEF Safe, WriteState, Replace, SyncRoot
<1>5. CASE WriteState(i)
  <2>1. Progress(i)'
    BY <1>5 DEF WriteState, Progress, Upgrades
  <2>2. \A c \in {current', disk', chosen'} \ {None} : Safe(c)'
    BY <1>4, <1>5 DEF WriteState
  <2>3. (disk # None => AtLeast(current, disk))'
    BY <1>5 DEF WriteState, AtLeast
  <2>4. (\A j \in reported \ lostReports : disk # None /\ AtLeast(disk, j))'
    BY <1>5 DEF WriteState, AtLeast
  <2> QED BY <1>1, <1>3, <2>1, <2>2, <2>3, <2>4
<1>6. CASE Replace(i)
  <2>1. Upgrades(i) /\ Progress(i) /\ pc[i] = "written"
    BY <1>6 DEF Replace, Progress
  <2>2. Progress(i)'
    BY <1>6, <2>1 DEF Replace, Progress
  <2>3. Safe(i)'
    BY <1>6, <2>1 DEF Replace, Progress, Safe
  <2>4. \A c \in {current', disk', chosen'} \ {None} : Safe(c)'
    BY <1>4, <1>6, <2>3 DEF Replace
  <2>5. (disk # None => AtLeast(current, disk))'
    BY <1>6, <2>1 DEF Replace, AtLeast, Upgrades
  <2>6. (\A j \in reported \ lostReports : disk # None /\ AtLeast(disk, j))'
    BY <1>6 DEF Replace, AtLeast
  <2> QED BY <1>1, <1>3, <2>2, <2>4, <2>5, <2>6
<1>7. CASE SyncRoot(i)
  <2>1. current = i
    BY <1>7 DEF SyncRoot, Progress
  <2>2. Progress(i)'
    BY <1>7 DEF SyncRoot, Unlock, Progress
  <2>3. \A c \in {current', disk', chosen'} \ {None} : Safe(c)'
    BY <1>4, <1>7 DEF SyncRoot
  <2>4. (disk # None => AtLeast(current, disk))'
    BY <1>7 DEF SyncRoot, AtLeast
  <2>5. (\A j \in reported \ lostReports : disk # None /\ AtLeast(disk, j))'
    BY <1>7, <2>1 DEF SyncRoot, AtLeast
  <2> QED BY <1>1, <1>3, <2>2, <2>3, <2>4, <2>5
<1> QED BY <1>5, <1>6, <1>7

LEMMA PowerStep ==
  ASSUME IInv, TypeOK', NEW Kept \in SUBSET Installs, NEW r \in BOOLEAN, NEW f \in BOOLEAN, NEW p \in BOOLEAN,
         PowerFails(Kept, r, f, p)
  PROVE  IInv'
<1> USE InstallerAssumption DEF IInv, TypeOK, Running, Working, Ended, Places
<1>1. \A j \in Installs : pc'[j] \notin Running
  BY DEF PowerFails
<1>2. \A j \in Installs : Progress(j)'
  BY <1>1 DEF Progress
<1>3. /\ root' = "given" => root = "given" /\ lostReports' = lostReports
      /\ chosen' = None /\ reported' = reported
  BY DEF PowerFails
<1> DEFINE gone == root = "absent" \/ (root = "made" /\ ~r)
<1>4. CASE gone
  <2>1. current' = None /\ disk' = None /\ lostReports' = reported
    BY <1>4 DEF PowerFails
  <2> QED BY <1>2, <1>3, <1>4, <2>1
<1>5. CASE ~gone
  <2>1. current' = disk' /\ current' \in {current, disk} /\ lostReports' = lostReports
    BY <1>5 DEF PowerFails
  <2>2. \A c \in Installs : Safe(c) => Safe(c)'
    BY <1>5 DEF PowerFails, Safe
  <2>3. \A c \in {current', disk', chosen'} \ {None} : Safe(c)'
    BY <1>3, <2>1, <2>2
  <2>4. (disk # None => AtLeast(current, disk))'
    BY <2>1 DEF AtLeast
  <2>5. (\A j \in reported \ lostReports : disk # None /\ AtLeast(disk, j))'
    BY <1>3, <2>1 DEF AtLeast
  <2> QED BY <1>2, <1>3, <2>1, <2>3, <2>4, <2>5
<1> QED BY <1>4, <1>5

LEMMA LaunchStep == ASSUME IInv, TypeOK', LaunchRead \/ LaunchRun PROVE IInv'
<1> USE DEF IInv
<1>1. UNCHANGED <<pc, lock, root, files, pointer, reports>> /\ chosen' \in {current, None}
  BY DEF LaunchRead, LaunchRun
<1>2. \A c \in {current', disk', chosen'} \ {None} : Safe(c)'
  BY <1>1 DEF Safe, files, pointer
<1>3. \A j \in Installs : Progress(j)'
  BY <1>1 DEF Progress, Upgrades, files, pointer
<1> QED BY <1>1, <1>2, <1>3 DEF AtLeast, pointer, reports

LEMMA Step == IInv /\ [Next]_vars => IInv'
<1> SUFFICES ASSUME IInv, [Next]_vars PROVE IInv'
  OBVIOUS
<1>1. TypeOK'
  BY TypeStep DEF IInv
<1>2. ASSUME NEW i \in Installs, Install(i) \/ Killed(i) PROVE IInv'
  BY <1>1, <1>2, WorkStep, CommitStep DEF Install
<1>3. ASSUME NEW Kept \in SUBSET Installs, NEW r \in BOOLEAN, NEW f \in BOOLEAN, NEW p \in BOOLEAN,
             PowerFails(Kept, r, f, p)
      PROVE IInv'
  BY <1>1, <1>3, PowerStep
<1>4. CASE LaunchRead \/ LaunchRun
  BY <1>1, <1>4, LaunchStep
<1>5. CASE UNCHANGED vars
  BY <1>1, <1>5 DEF vars, files, pointer, reports, IInv, Progress, Safe, Upgrades, AtLeast
<1> QED BY <1>2, <1>3, <1>4, <1>5 DEF Next

THEOREM Inductive == Spec => []IInv
<1>1. IInv /\ [Next]_vars => IInv'
  BY Step
<1> QED BY Start, <1>1, PTL DEF Spec

-----------------------------------------------------------------------------
\* Every variable of the installer keeps its type.
THEOREM TypeCorrect == Spec => []TypeOK
<1>1. IInv => TypeOK
  BY DEF IInv
<1> QED BY Inductive, <1>1, PTL

\* The pointer and what launch read of it always name a complete release.
THEOREM PointerStaysUsable == Spec => []PointerUsable
<1>1. IInv => PointerUsable
  BY DEF IInv, PointerUsable, Status, Complete, Safe
<1> QED BY Inductive, <1>1, PTL

\* What install reported survives every later install and every power failure
\* but one that takes the whole of a root an install had made.
THEOREM ReportsAreKept == Spec => []ReportedKept
<1>1. IInv => ReportedKept
  <2> SUFFICES ASSUME IInv, NEW i \in reported \ lostReports
               PROVE  current # None /\ Version[current] >= Version[i] /\ Device[current] = Device[i]
    BY DEF IInv, ReportedKept
  <2>1. AtLeast(current, disk) /\ AtLeast(disk, i)
    BY DEF IInv
  <2>2. current \in Installs /\ disk \in Installs /\ i \in Installs
    BY <2>1 DEF IInv, TypeOK, AtLeast
  <2> QED BY <2>1, <2>2, InstallerAssumption DEF AtLeast
<1> QED BY Inductive, <1>1, PTL

\* Every replacement of the pointer is an upgrade of the same device.
THEOREM VersionsOnlyIncrease == Spec => VersionsIncrease
<1> DEFINE Grows == current' # current /\ power' = power =>
                      current' # None /\ (current # None => /\ Version[current'] > Version[current]
                                                            /\ Device[current'] = Device[current])
<1>1. IInv /\ [Next]_vars => [Grows]_vars
  <2> SUFFICES ASSUME IInv, [Next]_vars, current' # current, power' = power
               PROVE  current' # None /\ (current # None => /\ Version[current'] > Version[current]
                                                            /\ Device[current'] = Device[current])
    OBVIOUS
  <2>1. PICK i \in Installs : Replace(i)
    <3>1. ASSUME NEW i \in Installs, Install(i) \/ Killed(i) PROVE Replace(i)
      BY <3>1 DEF Install, Killed, Lock, Check, MakeStage, WriteFile, Freeze, Rename, SyncReleases, WriteState,
                  SyncRoot, SyncFails, Fail, CleanUp, Unlock, pointer
    <3>2. \A Kept \in SUBSET Installs, r, f, p \in BOOLEAN : ~PowerFails(Kept, r, f, p)
      BY DEF PowerFails, IInv, TypeOK
    <3>3. ~LaunchRead /\ ~LaunchRun /\ ~UNCHANGED vars
      BY DEF LaunchRead, LaunchRun, vars, pointer
    <3> QED BY <3>1, <3>2, <3>3 DEF Next
  <2>2. Upgrades(i) /\ current' = i
    BY <2>1 DEF IInv, Progress, Replace, Goes, Working
  <2> QED BY <2>2, InstallerAssumption DEF Upgrades
<1> QED BY Inductive, <1>1, PTL DEF Spec, VersionsIncrease

-----------------------------------------------------------------------------
(***************************************************************************)
(* The library.  A request that changes a name nobody else has changed at  *)
(* the same time finds there what it left (Solo), and what it is about to  *)
(* place loads (Scratch); so only a fault or a crowd makes a replacement   *)
(* fail after it removed something.                                        *)
(***************************************************************************)
Parts == {"manifest", "code"} \X Uploads
Folders == [id : Nat, files : SUBSET Parts]

LTypes ==
  /\ library \in [PackageNames \cup Requests -> Folders \cup {Absent}]
  /\ at \in [Requests -> {"idle", "write", "place", "open", "clear", "rename", "reload", "undo"}]
  /\ op \in [Requests -> {"upload", "replace", "delete"}]
  /\ upload \in [Requests -> Uploads] /\ name \in [Requests -> PackageNames]
  /\ opened \in [Requests -> [id : Nat, left : SUBSET Parts]]
  /\ serial \in Nat /\ faults \in Nat

\* The scratch folder of a request is there while it installs, with files of
\* what it installs only, and loads before anything is removed for it.
Scratch(r) ==
  /\ library[r] # Absent =>
       /\ at[r] \in {"write", "place", "open", "clear", "rename", "undo"} /\ op[r] # "delete"
       /\ library[r].files \subseteq FilesOf(upload[r])
  /\ at[r] \in {"write", "place"} => library[r] # Absent /\ op[r] # "delete"
  /\ at[r] \in {"open", "clear"} /\ op[r] # "delete" => Loads(library[r])
  /\ at[r] = "rename" => op[r] # "delete" /\ Loads(library[r])

\* What a request finds where it is the only one to change the name.
Solo(r) ==
  name[r] \notin crowded =>
    /\ at[r] = "open" => library[name[r]] # Absent
    /\ at[r] = "clear" => /\ library[name[r]] # Absent
                          /\ library[name[r]].id = opened[r].id
                          /\ library[name[r]].files = opened[r].left
    /\ at[r] = "rename" => library[name[r]] = Absent
    /\ at[r] = "reload" => Loads(library[name[r]])

\* Two requests that change the same name at the same time make a crowd.
Crowds ==
  \A q, r \in Requests :
    q # r /\ Changing(q) /\ Changing(r) /\ name[q] = name[r] => name[r] \in crowded

Whole(n) == library[n] # Absent => \E u \in Uploads : library[n].files \subseteq FilesOf(u)

LInv ==
  /\ LTypes
  /\ \A r \in Requests : Scratch(r) /\ Solo(r)
  /\ Crowds
  /\ \A n \in PackageNames : Whole(n)
  /\ IsFiniteSet(orphans) /\ Cardinality(orphans) <= faults
  /\ ReplaceKeepsOne

LEMMA LibraryStart == ASSUME LibraryInit PROVE LInv
<1> USE LibraryAssumption DEF LibraryInit
<1>1. LTypes
  <2>1. (CHOOSE u \in Uploads : TRUE) \in Uploads /\ (CHOOSE n \in PackageNames : TRUE) \in PackageNames
    OBVIOUS
  <2> QED BY <2>1 DEF LTypes
<1>2. \A r \in Requests : Scratch(r) /\ Solo(r)
  BY DEF Scratch, Solo
<1>3. Crowds /\ \A n \in PackageNames : Whole(n)
  BY DEF Crowds, Changing, Whole
<1>4. IsFiniteSet(orphans) /\ Cardinality(orphans) <= faults
  BY FS_EmptySet
<1> QED BY <1>1, <1>2, <1>3, <1>4 DEF LInv, ReplaceKeepsOne

\* One more scratch folder stays, for one more fault.
LEMMA OneOrphan ==
  ASSUME LInv, NEW d, orphans' = orphans \/ orphans' = orphans \cup {d}, faults' = faults + 1
  PROVE  IsFiniteSet(orphans)' /\ (Cardinality(orphans) <= faults)' /\ faults' > 0
<1>1. /\ IsFiniteSet(orphans) /\ Cardinality(orphans) \in Nat
      /\ Cardinality(orphans) <= faults /\ faults \in Nat
  BY FS_CardinalityType DEF LInv, LTypes
<1>2. /\ IsFiniteSet(orphans \cup {d})
      /\ Cardinality(orphans \cup {d}) \in {Cardinality(orphans), Cardinality(orphans) + 1}
  BY <1>1, FS_AddElement
<1> QED BY <1>1, <1>2

\* What a step of r leaves alone, and how it joins a crowd.
Local(r) ==
  /\ \A q \in Requests \ {r} :
       /\ at'[q] = at[q] /\ op'[q] = op[q] /\ upload'[q] = upload[q] /\ name'[q] = name[q]
       /\ opened'[q] = opened[q] /\ library'[q] = library[q]
  /\ \A n \in PackageNames : library'[n] # library[n] => Changing(r) /\ n = name[r]
  /\ crowded \subseteq crowded'
  /\ Changing(r)' => \/ Changing(r) /\ name'[r] = name[r]
                     \/ Crowd(r, name'[r])

LEMMA OthersKept ==
  ASSUME LInv, LTypes', NEW r \in Requests, Local(r)
  PROVE  /\ \A q \in Requests \ {r} : Scratch(q)' /\ Solo(q)'
         /\ Crowds'
<1>1. ASSUME NEW q \in Requests \ {r} PROVE Scratch(q)' /\ Solo(q)'
  <2>1. Scratch(q) /\ Solo(q) /\ name[q] \in PackageNames
    BY DEF LInv, LTypes
  <2>2. Scratch(q)'
    BY <2>1 DEF Local, Scratch, Loads, FilesOf
  <2>3. CASE library'[name[q]] = library[name[q]]
    <3>1. library'[name'[q]] = library[name[q]] /\ at'[q] = at[q] /\ opened'[q] = opened[q]
      BY <2>3 DEF Local
    <3>2. name'[q] \notin crowded' => name[q] \notin crowded
      BY DEF Local
    <3>3. Solo(q)'
      BY <2>1, <3>1, <3>2 DEF Solo, Loads
    <3> QED BY <2>2, <3>3
  <2>4. CASE library'[name[q]] # library[name[q]]
    <3>1. Changing(r) /\ name[q] = name[r]
      BY <2>1, <2>4 DEF Local
    <3>2. Changing(q) => name[q] \in crowded
      <4>1. Crowds
        BY DEF LInv
      <4> QED BY <3>1, <4>1 DEF Crowds
    <3>3. Solo(q)'
      BY <3>2 DEF Local, Solo, Changing
    <3> QED BY <2>2, <3>3
  <2> QED BY <2>3, <2>4
<1>2. Crowds'
  <2> SUFFICES ASSUME NEW q \in Requests, NEW p \in Requests, q # p,
                      Changing(q)', Changing(p)', name'[q] = name'[p]
               PROVE  name'[p] \in crowded'
    BY DEF Crowds
  <2>1. \A x \in Requests \ {r} : (Changing(x)' <=> Changing(x)) /\ name'[x] = name[x]
    BY DEF Local, Changing
  <2>2. CASE q # r /\ p # r
    BY <2>1, <2>2 DEF LInv, Crowds, Local
  <2>3. ASSUME NEW x \in Requests \ {r}, Changing(x), Changing(r)', name[x] = name'[r]
        PROVE  name'[r] \in crowded'
    <3>1. CASE Changing(r) /\ name'[r] = name[r]
      BY <2>3, <3>1 DEF LInv, Crowds, Local
    <3>2. CASE Crowd(r, name'[r])
      BY <2>3, <3>2 DEF Crowd
    <3> QED BY <2>3, <3>1, <3>2 DEF Local
  <2>4. CASE q = r
    BY <2>1, <2>3, <2>4
  <2>5. CASE p = r
    BY <2>1, <2>3, <2>5
  <2> QED BY <2>2, <2>4, <2>5
<1> QED BY <1>1, <1>2

\* What is left to show of a step of r.
Keeps(r) ==
  /\ LTypes' /\ Local(r) /\ Scratch(r)' /\ Solo(r)'
  /\ \A n \in PackageNames : Whole(n)'
  /\ IsFiniteSet(orphans)' /\ (Cardinality(orphans) <= faults)'
  /\ ReplaceKeepsOne'

\* An exception of r that only happens in a crowd.
LEMMA FailKeeps ==
  ASSUME LInv, NEW r \in Requests, Abort(r),
         at[r] \in {"open", "clear", "rename"}, name[r] \in crowded,
         UNCHANGED <<library, op, upload, name, serial, orphans, faults, crowded>>,
         opened' = opened
  PROVE  Keeps(r)
<1>1. LTypes /\ Scratch(r)
  BY DEF LInv
<1>2. at' = [at EXCEPT ![r] = IF op[r] = "delete" THEN "idle" ELSE "undo"] /\ lost' \subseteq lost \cup {name[r]}
  BY DEF Abort, Goto
<1>3. LTypes' /\ Local(r)
  BY <1>1, <1>2 DEF LTypes, Local, Changing
<1>4. at'[r] = IF op[r] = "delete" THEN "idle" ELSE "undo"
  BY <1>1, <1>2 DEF LTypes
<1>5. Scratch(r)' /\ Solo(r)'
  BY <1>1, <1>4 DEF Scratch, Solo, FilesOf
<1>6. \A n \in PackageNames : Whole(n)'
  BY DEF LInv, Whole, FilesOf
<1> QED BY <1>2, <1>3, <1>5, <1>6 DEF Keeps, LInv, ReplaceKeepsOne

LEMMA BeginInstallKeeps ==
  ASSUME LInv, NEW r \in Requests, NEW u \in Uploads, NEW how, BeginInstall(r, how, u)
  PROVE  Keeps(r)
<1> DEFINE fresh == [id |-> serial + 1, files |-> {}]
<1>1. LTypes /\ Scratch(r) /\ r \notin PackageNames
  BY LibraryAssumption DEF LInv
<1>2. /\ at[r] = "idle" /\ how \in {"upload", "replace"}
      /\ op' = [op EXCEPT ![r] = how] /\ upload' = [upload EXCEPT ![r] = u]
      /\ name' = [name EXCEPT ![r] = NameOf[u]] /\ serial' = serial + 1
      /\ library' = [library EXCEPT ![r] = fresh] /\ at' = [at EXCEPT ![r] = "write"]
      /\ UNCHANGED <<opened, orphans, faults, crowded, lost>>
  BY DEF BeginInstall, Goto
<1>3. fresh \in Folders /\ fresh # Absent /\ fresh.files = {} /\ NameOf[u] \in PackageNames
  BY <1>1, LibraryAssumption DEF LTypes, Folders, Parts
<1> HIDE DEF fresh
<1>4. LTypes'
  BY <1>1, <1>2, <1>3 DEF LTypes
<1>5. at'[r] = "write" /\ library'[r] = fresh /\ op'[r] = how /\ \A n \in PackageNames : library'[n] = library[n]
  BY <1>1, <1>2 DEF LTypes
<1>6. Local(r)
  BY <1>1, <1>2, <1>5 DEF LTypes, Local, Changing
<1>7. Scratch(r)' /\ Solo(r)'
  BY <1>2, <1>3, <1>5 DEF Scratch, Solo
<1>8. \A n \in PackageNames : Whole(n)'
  BY <1>5 DEF LInv, Whole, FilesOf
<1> QED BY <1>2, <1>4, <1>6, <1>7, <1>8 DEF Keeps, LInv, ReplaceKeepsOne

LEMMA WriteKeeps ==
  ASSUME LInv, NEW r \in Requests, WriteUpload(r)
  PROVE  Keeps(r)
<1>1. LTypes /\ Scratch(r) /\ r \notin PackageNames /\ at[r] = "write"
  BY LibraryAssumption DEF LInv, WriteUpload
<1>2. library[r] \in Folders /\ op[r] # "delete" /\ library[r].files \subseteq FilesOf(upload[r])
  BY <1>1 DEF LTypes, Scratch
<1>3. PICK f \in FilesOf(upload[r]) \ library[r].files :
        library' = [library EXCEPT ![r].files = @ \cup {f}]
  BY DEF WriteUpload
<1> DEFINE more == [library[r] EXCEPT !.files = @ \cup {f}]
<1>4. library' = [library EXCEPT ![r] = more]
  BY <1>3
<1>5. more \in Folders /\ more # Absent /\ more.files = library[r].files \cup {f}
  BY <1>1, <1>2, LibraryAssumption DEF Folders, Parts, FilesOf, LTypes
<1> HIDE DEF more
<1>6. library'[r] = more /\ \A n \in PackageNames : library'[n] = library[n]
  BY <1>1, <1>4 DEF LTypes
<1>7. /\ at' = [at EXCEPT ![r] = IF more.files = FilesOf(upload[r]) THEN "place" ELSE "write"]
      /\ UNCHANGED <<op, upload, name, opened, serial, orphans, faults, crowded, lost>>
  BY <1>6 DEF WriteUpload, Goto, request
<1>8. at'[r] \in {"place", "write"}
  BY <1>1, <1>7 DEF LTypes
<1>9. LTypes'
  BY <1>1, <1>4, <1>5, <1>7 DEF LTypes
<1>10. Local(r)
  BY <1>1, <1>4, <1>6, <1>7, <1>8 DEF LTypes, Local, Changing
<1>11. Scratch(r)' /\ Solo(r)'
  BY <1>2, <1>5, <1>6, <1>7, <1>8 DEF Scratch, Solo, FilesOf
<1>12. \A n \in PackageNames : Whole(n)'
  BY <1>6 DEF LInv, Whole, FilesOf
<1> QED BY <1>7, <1>9, <1>10, <1>11, <1>12 DEF Keeps, LInv, ReplaceKeepsOne

LEMMA PlaceKeeps ==
  ASSUME LInv, NEW r \in Requests, Place(r)
  PROVE  Keeps(r)
<1>1. /\ LTypes /\ Scratch(r) /\ at[r] = "place"
      /\ UNCHANGED <<library, op, upload, name, opened, serial, orphans, faults, lost>>
  BY DEF LInv, Place, request
<1>2. \/ at' = [at EXCEPT ![r] = "undo"] /\ crowded' = crowded
      \/ /\ at' = [at EXCEPT ![r] = IF library[name[r]] = Absent THEN "rename" ELSE "open"]
         /\ Loads(library[r]) /\ Crowd(r, name[r])
  BY DEF Place, Goto
<1>3. LTypes' /\ crowded \subseteq crowded' /\ \A q \in Requests \ {r} : at'[q] = at[q]
  BY <1>1, <1>2 DEF LTypes, Crowd
<1>4. \/ at'[r] = "undo" /\ crowded' = crowded
      \/ /\ at'[r] = IF library[name[r]] = Absent THEN "rename" ELSE "open"
         /\ Loads(library[r]) /\ Crowd(r, name[r])
  BY <1>1, <1>2 DEF LTypes
<1>5. Local(r)
  BY <1>1, <1>3, <1>4 DEF Local, Changing
<1>6. Scratch(r)' /\ Solo(r)'
  BY <1>1, <1>4 DEF Scratch, Solo, FilesOf, Loads
<1>7. \A n \in PackageNames : Whole(n)'
  BY <1>1 DEF LInv, Whole, FilesOf
<1> QED BY <1>1, <1>3, <1>5, <1>6, <1>7 DEF Keeps, LInv, ReplaceKeepsOne

LEMMA BeginDeleteKeeps ==
  ASSUME LInv, NEW r \in Requests, NEW n \in PackageNames, BeginDelete(r, n)
  PROVE  Keeps(r)
<1>1. /\ LTypes /\ Scratch(r) /\ at[r] = "idle" /\ library[n] # Absent
      /\ op' = [op EXCEPT ![r] = "delete"] /\ name' = [name EXCEPT ![r] = n]
      /\ at' = [at EXCEPT ![r] = "open"] /\ Crowd(r, n)
      /\ UNCHANGED <<library, upload, opened, serial, orphans, faults, lost>>
  BY DEF LInv, BeginDelete, HasManifest, Goto
<1>2. op'[r] = "delete" /\ name'[r] = n /\ at'[r] = "open" /\ LTypes' /\ crowded \subseteq crowded'
  BY <1>1 DEF LTypes, Crowd
<1>3. Local(r)
  BY <1>1, <1>2 DEF LTypes, Local, Changing
<1>4. Scratch(r)' /\ Solo(r)'
  BY <1>1, <1>2 DEF Scratch, Solo
<1>5. \A m \in PackageNames : Whole(m)'
  BY <1>1 DEF LInv, Whole, FilesOf
<1> QED BY <1>1, <1>2, <1>3, <1>4, <1>5 DEF Keeps, LInv, ReplaceKeepsOne

LEMMA OpenKeeps ==
  ASSUME LInv, NEW r \in Requests, OpenFolder(r)
  PROVE  Keeps(r)
<1> DEFINE d == library[name[r]]
<1>1. /\ LTypes /\ Scratch(r) /\ Solo(r) /\ at[r] = "open" /\ name[r] \in PackageNames
      /\ UNCHANGED <<library, op, upload, name, serial, orphans, faults, crowded>>
  BY DEF LInv, LTypes, OpenFolder, request
<1>2. CASE d = Absent
  <2>1. Abort(r) /\ opened' = opened
    BY <1>2 DEF OpenFolder
  <2>2. name[r] \in crowded
    BY <1>1, <1>2 DEF Solo
  <2> QED BY <1>1, <2>1, <2>2, FailKeeps
<1>3. CASE d # Absent
  <2>1. /\ d \in Folders /\ opened' = [opened EXCEPT ![r] = [id |-> d.id, left |-> d.files]]
        /\ at' = [at EXCEPT ![r] = "clear"] /\ lost' = lost
    BY <1>1, <1>3 DEF OpenFolder, Goto, LTypes
  <2>2. opened'[r] = [id |-> d.id, left |-> d.files] /\ at'[r] = "clear" /\ LTypes'
    BY <1>1, <2>1 DEF LTypes, Folders
  <2>3. Local(r)
    BY <1>1, <2>1, <2>2 DEF LTypes, Local, Changing
  <2>4. Scratch(r)' /\ Solo(r)'
    BY <1>1, <1>3, <2>2 DEF Scratch, Solo, FilesOf, Loads
  <2>5. \A n \in PackageNames : Whole(n)'
    BY <1>1 DEF LInv, Whole, FilesOf
  <2> QED BY <1>1, <2>1, <2>2, <2>3, <2>4, <2>5 DEF Keeps, LInv, ReplaceKeepsOne
<1> QED BY <1>2, <1>3

LEMMA UnlinkKeeps ==
  ASSUME LInv, NEW r \in Requests, Unlink(r)
  PROVE  Keeps(r)
<1> DEFINE n == name[r]
           mine == library[n] # Absent /\ library[n].id = opened[r].id
<1>1. /\ LTypes /\ Scratch(r) /\ Solo(r) /\ at[r] = "clear" /\ n \in PackageNames /\ n # r
      /\ \A m \in PackageNames : Whole(m)
      /\ UNCHANGED <<op, upload, name, serial, orphans, faults, crowded>>
  BY LibraryAssumption DEF LInv, LTypes, Unlink, request
<1>2. PICK f \in opened[r].left :
        /\ library' = IF mine THEN [library EXCEPT ![n].files = @ \ {f}] ELSE library
        /\ \/ /\ opened' = [opened EXCEPT ![r].left = @ \ {f}] /\ at' = at /\ lost' = lost
           \/ (mine => f \notin library[n].files) /\ Abort(r) /\ opened' = opened
  BY DEF Unlink
<1>3. CASE (mine => f \notin library[n].files) /\ Abort(r) /\ opened' = opened
  <2>1. n \in crowded
    BY <1>1, <1>3 DEF Solo
  <2>2. library' = library
    <3>1. CASE mine
      <4>1. library[n] \in Folders
        BY <1>1, <3>1 DEF LTypes
      <4>2. [library[n] EXCEPT !.files = @ \ {f}] = library[n]
        <5>1. library[n].files \ {f} = library[n].files
          BY <1>3, <3>1
        <5> QED BY <4>1, <5>1 DEF Folders
      <4>3. library' = [library EXCEPT ![n] = [library[n] EXCEPT !.files = @ \ {f}]]
        BY <1>2, <3>1
      <4> QED BY <1>1, <4>2, <4>3 DEF LTypes
    <3>2. CASE ~mine
      BY <1>2, <3>2
    <3> QED BY <3>1, <3>2
  <2> QED BY <1>1, <1>3, <2>1, <2>2, FailKeeps
<1>4. CASE opened' = [opened EXCEPT ![r].left = @ \ {f}] /\ at' = at /\ lost' = lost
  <2> DEFINE less == [library[n] EXCEPT !.files = @ \ {f}]
             rest == [opened[r] EXCEPT !.left = @ \ {f}]
  <2>1. opened' = [opened EXCEPT ![r] = rest] /\ library' = IF mine THEN [library EXCEPT ![n] = less] ELSE library
    BY <1>2, <1>4
  <2>2. opened[r] \in [id : Nat, left : SUBSET Parts]
    BY <1>1 DEF LTypes
  <2>3. rest \in [id : Nat, left : SUBSET Parts] /\ rest.id = opened[r].id /\ rest.left = opened[r].left \ {f}
    BY <2>2
  <2>4. mine => /\ less \in Folders /\ less # Absent /\ less.id = library[n].id
                /\ less.files = library[n].files \ {f}
    BY <1>1, LibraryAssumption DEF LTypes, Folders, Parts
  <2> HIDE DEF less, rest
  <2>5. opened'[r] = rest /\ LTypes'
    BY <1>1, <1>4, <2>1, <2>3, <2>4 DEF LTypes
  <2>6. /\ library'[n] = IF mine THEN less ELSE library[n]
        /\ \A x \in (PackageNames \cup Requests) \ {n} : library'[x] = library[x]
    BY <1>1, <2>1 DEF LTypes
  <2>7. Local(r)
    BY <1>1, <1>4, <2>1, <2>6, LibraryAssumption DEF LTypes, Local, Changing
  <2>8. Scratch(r)'
    BY <1>1, <1>4, <2>6 DEF Scratch, FilesOf, Loads
  <2>9. Solo(r)'
    BY <1>1, <1>4, <2>3, <2>4, <2>5, <2>6 DEF Solo
  <2>10. ASSUME NEW m \in PackageNames PROVE Whole(m)'
    <3>1. CASE m = n /\ mine
      BY <1>1, <2>4, <2>6, <3>1 DEF Whole, FilesOf
    <3>2. CASE ~(m = n /\ mine)
      BY <1>1, <2>6, <3>2 DEF Whole, FilesOf
    <3> QED BY <3>1, <3>2
  <2> QED BY <1>1, <1>4, <2>5, <2>7, <2>8, <2>9, <2>10 DEF Keeps, LInv, ReplaceKeepsOne
<1> QED BY <1>2, <1>3, <1>4

LEMMA RemoveKeeps ==
  ASSUME LInv, NEW r \in Requests, RemoveFolder(r)
  PROVE  Keeps(r)
<1> DEFINE n == name[r]
<1>1. /\ LTypes /\ Scratch(r) /\ Solo(r) /\ at[r] = "clear" /\ opened[r].left = {}
      /\ n \in PackageNames /\ n # r /\ \A m \in PackageNames : Whole(m)
      /\ UNCHANGED <<op, upload, name, opened, serial, orphans, faults, crowded>>
  BY LibraryAssumption DEF LInv, LTypes, RemoveFolder, request
<1>2. CASE ~(library[n] # Absent /\ library[n].files = {})
  <2>1. Abort(r) /\ library' = library
    BY <1>2 DEF RemoveFolder
  <2>2. n \in crowded
    BY <1>1, <1>2 DEF Solo
  <2> QED BY <1>1, <2>1, <2>2, FailKeeps
<1>3. CASE library[n] # Absent /\ library[n].files = {}
  <2>1. /\ library' = [library EXCEPT ![n] = Absent] /\ lost' = lost
        /\ at' = [at EXCEPT ![r] = IF op[r] = "delete" THEN "idle" ELSE "rename"]
    BY <1>3 DEF RemoveFolder, Goto
  <2>2. /\ at'[r] = IF op[r] = "delete" THEN "idle" ELSE "rename"
        /\ library'[n] = Absent
        /\ \A x \in (PackageNames \cup Requests) \ {n} : library'[x] = library[x]
        /\ LTypes'
    BY <1>1, <2>1 DEF LTypes
  <2>3. Local(r)
    BY <1>1, <2>1, <2>2, LibraryAssumption DEF LTypes, Local, Changing
  <2>4. Scratch(r)' /\ Solo(r)'
    BY <1>1, <2>2 DEF Scratch, Solo, FilesOf, Loads
  <2>5. \A m \in PackageNames : Whole(m)'
    BY <1>1, <2>2 DEF Whole, FilesOf
  <2> QED BY <1>1, <2>1, <2>2, <2>3, <2>4, <2>5 DEF Keeps, LInv, ReplaceKeepsOne
<1> QED BY <1>2, <1>3

LEMMA RenameKeeps ==
  ASSUME LInv, NEW r \in Requests, MoveIn(r)
  PROVE  Keeps(r)
<1> DEFINE n == name[r]
<1>1. /\ LTypes /\ Scratch(r) /\ Solo(r) /\ at[r] = "rename"
      /\ n \in PackageNames /\ r \notin PackageNames /\ \A m \in PackageNames : Whole(m)
      /\ UNCHANGED <<op, upload, name, opened, serial, orphans, faults, crowded>>
  BY LibraryAssumption DEF LInv, LTypes, MoveIn, request
<1>2. CASE ~(library[n] = Absent \/ library[n].files = {})
  <2>1. Abort(r) /\ library' = library
    BY <1>2 DEF MoveIn
  <2>2. n \in crowded
    BY <1>1, <1>2 DEF Solo
  <2> QED BY <1>1, <2>1, <2>2, FailKeeps
<1>3. CASE library[n] = Absent \/ library[n].files = {}
  <2>1. /\ library' = [library EXCEPT ![n] = library[r], ![r] = Absent] /\ lost' = lost
        /\ at' = [at EXCEPT ![r] = "reload"]
    BY <1>3 DEF MoveIn, Goto
  <2>2. /\ at'[r] = "reload" /\ library'[n] = library[r] /\ library'[r] = Absent
        /\ \A x \in (PackageNames \cup Requests) \ {n, r} : library'[x] = library[x]
        /\ LTypes'
    BY <1>1, <2>1 DEF LTypes
  <2>3. Local(r)
    BY <1>1, <2>1, <2>2, LibraryAssumption DEF LTypes, Local, Changing
  <2>4. Scratch(r)'
    BY <1>1, <2>2 DEF Scratch
  <2>5. Solo(r)'
    BY <1>1, <2>2 DEF Scratch, Solo, Loads
  <2>6. upload[r] \in Uploads
    BY <1>1 DEF LTypes
  <2>7. \A m \in PackageNames : Whole(m)'
    BY <1>1, <2>2, <2>6 DEF Whole, Scratch, FilesOf
  <2> QED BY <1>1, <2>1, <2>2, <2>3, <2>4, <2>5, <2>7 DEF Keeps, LInv, ReplaceKeepsOne
<1> QED BY <1>2, <1>3

LEMMA ReloadKeeps ==
  ASSUME LInv, NEW r \in Requests, Reload(r)
  PROVE  Keeps(r)
<1> DEFINE n == name[r]
<1>1. /\ LTypes /\ Scratch(r) /\ Solo(r) /\ at[r] = "reload"
      /\ UNCHANGED <<library, upload, name, opened, serial, orphans, faults, crowded>>
      /\ lost' = IF op[r] = "replace" /\ ~Loads(library[n]) THEN lost \cup {n} ELSE lost
  BY DEF LInv, Reload
<1>2. \/ Loads(library[n]) /\ op' = [op EXCEPT ![r] = "delete"] /\ at' = [at EXCEPT ![r] = "open"]
      \/ op' = op /\ at' = [at EXCEPT ![r] = "idle"]
  BY DEF Reload, Goto
<1>3. \/ Loads(library[n]) /\ op'[r] = "delete" /\ at'[r] = "open"
      \/ op'[r] = op[r] /\ at'[r] = "idle"
  BY <1>1, <1>2 DEF LTypes
<1>4. LTypes' /\ \A q \in Requests \ {r} : at'[q] = at[q] /\ op'[q] = op[q]
  BY <1>1, <1>2 DEF LTypes
<1>5. Local(r)
  BY <1>1, <1>3, <1>4 DEF Local, Changing
<1>6. Scratch(r)' /\ Solo(r)'
  BY <1>1, <1>3 DEF Scratch, Solo, Loads
<1>7. \A m \in PackageNames : Whole(m)'
  BY <1>1 DEF LInv, Whole, FilesOf
<1>8. ReplaceKeepsOne'
  <2>1. n \notin crowded => lost' = lost
    BY <1>1 DEF Solo
  <2> QED BY <1>1, <2>1 DEF LInv, ReplaceKeepsOne
<1> QED BY <1>1, <1>4, <1>5, <1>6, <1>7, <1>8 DEF Keeps, LInv

LEMMA UndoKeeps ==
  ASSUME LInv, NEW r \in Requests, Undo(r)
  PROVE  Keeps(r)
<1>1. /\ LTypes /\ r \notin PackageNames
      /\ library' = [library EXCEPT ![r] = Absent] /\ at' = [at EXCEPT ![r] = "idle"]
      /\ UNCHANGED <<op, upload, name, opened, serial, crowded, lost>>
      /\ faults' \in {faults, faults + 1}
  BY LibraryAssumption DEF LInv, Undo, Goto, request
<1>2. /\ library'[r] = Absent /\ at'[r] = "idle" /\ LTypes'
      /\ \A n \in PackageNames : library'[n] = library[n]
  BY <1>1 DEF LTypes
<1>3. Local(r)
  BY <1>1, <1>2 DEF LTypes, Local, Changing
<1>4. Scratch(r)' /\ Solo(r)'
  BY <1>2 DEF Scratch, Solo
<1>5. \A m \in PackageNames : Whole(m)'
  BY <1>2 DEF LInv, Whole, FilesOf
<1>6. CASE UNCHANGED <<orphans, faults>>
  BY <1>1, <1>2, <1>3, <1>4, <1>5, <1>6 DEF Keeps, LInv, ReplaceKeepsOne
<1>7. CASE ~UNCHANGED <<orphans, faults>>
  <2>1. faults' = faults + 1 /\ \E d : orphans' = orphans \cup {d}
    BY <1>7 DEF Undo
  <2>2. IsFiniteSet(orphans)' /\ (Cardinality(orphans) <= faults)' /\ faults' > 0
    BY <2>1, OneOrphan
  <2> QED BY <1>2, <1>3, <1>4, <1>5, <2>2 DEF Keeps, ReplaceKeepsOne
<1> QED BY <1>6, <1>7

LEMMA FaultKeeps ==
  ASSUME LInv, NEW r \in Requests, OperationFails(r)
  PROVE  Keeps(r)
<1>1. /\ LTypes /\ Scratch(r)
      /\ at' = [at EXCEPT ![r] = IF op[r] = "delete" THEN "idle" ELSE "undo"]
      /\ at[r] \in {"write", "clear", "rename"} /\ faults' = faults + 1
      /\ UNCHANGED <<library, op, upload, name, opened, serial, orphans, crowded>>
  BY DEF LInv, OperationFails, Abort, Goto, request
<1>2. LTypes' /\ at'[r] = IF op[r] = "delete" THEN "idle" ELSE "undo"
  BY <1>1 DEF LTypes
<1>3. Local(r)
  BY <1>1, <1>2 DEF LTypes, Local, Changing
<1>4. Scratch(r)' /\ Solo(r)'
  BY <1>1, <1>2 DEF Scratch, Solo, FilesOf
<1>5. \A m \in PackageNames : Whole(m)'
  BY <1>1 DEF LInv, Whole, FilesOf
<1>6. IsFiniteSet(orphans)' /\ (Cardinality(orphans) <= faults)' /\ faults' > 0
  BY <1>1, OneOrphan
<1> QED BY <1>2, <1>3, <1>4, <1>5, <1>6 DEF Keeps, ReplaceKeepsOne

LEMMA CrashKeeps ==
  ASSUME LInv, NEW r \in Requests, Crash(r)
  PROVE  Keeps(r)
<1>1. /\ LTypes /\ r \notin PackageNames
      /\ library' = [library EXCEPT ![r] = Absent] /\ at' = [at EXCEPT ![r] = "idle"]
      /\ faults' = faults + 1
      /\ UNCHANGED <<op, upload, name, opened, serial, crowded, lost>>
  BY LibraryAssumption DEF LInv, Crash, Goto, request
<1>2. /\ library'[r] = Absent /\ at'[r] = "idle" /\ LTypes'
      /\ \A n \in PackageNames : library'[n] = library[n]
  BY <1>1 DEF LTypes
<1>3. Local(r)
  BY <1>1, <1>2 DEF LTypes, Local, Changing
<1>4. Scratch(r)' /\ Solo(r)'
  BY <1>2 DEF Scratch, Solo
<1>5. \A m \in PackageNames : Whole(m)'
  BY <1>2 DEF LInv, Whole, FilesOf
<1>6. IsFiniteSet(orphans)' /\ (Cardinality(orphans) <= faults)' /\ faults' > 0
  <2>1. orphans' = orphans \/ orphans' = orphans \cup {library[r]}
    BY DEF Crash
  <2> QED BY <1>1, <2>1, OneOrphan
<1> QED BY <1>1, <1>2, <1>3, <1>4, <1>5, <1>6 DEF Keeps, ReplaceKeepsOne

LEMMA LibraryStep ==
  ASSUME LInv, [LibraryNext]_libraryVars
  PROVE  LInv'
<1>1. ASSUME NEW r \in Requests, Keeps(r) PROVE LInv'
  <2>1. \A q \in Requests : Scratch(q)' /\ Solo(q)'
    BY <1>1, OthersKept DEF Keeps
  <2>2. Crowds'
    BY <1>1, OthersKept DEF Keeps
  <2> QED BY <1>1, <2>1, <2>2 DEF Keeps, LInv
<1>2. CASE UNCHANGED libraryVars
  BY <1>2 DEF libraryVars, LInv, LTypes, Scratch, Solo, Crowds, Whole, ReplaceKeepsOne, Loads, Changing
<1>3. ASSUME LibraryNext PROVE \E r \in Requests : Keeps(r)
  BY <1>3, BeginInstallKeeps, WriteKeeps, PlaceKeeps, BeginDeleteKeeps, OpenKeeps, UnlinkKeeps,
     RemoveKeeps, RenameKeeps, ReloadKeeps, UndoKeeps, FaultKeeps, CrashKeeps DEF LibraryNext
<1> QED BY <1>1, <1>2, <1>3

THEOREM LibraryInductive == LibrarySpec => []LInv
<1>1. LibraryInit => LInv
  BY LibraryStart
<1>2. LInv /\ [LibraryNext]_libraryVars => LInv'
  BY LibraryStep
<1> QED BY <1>1, <1>2, PTL DEF LibrarySpec

-----------------------------------------------------------------------------
\* A folder of the library never mixes two uploads, and a request that has
\* ended leaves no scratch folder behind but for a crash or a refused removal:
\* whatever installs, replacements and deletions run at once, and whichever
\* step fails (_place and the except clauses of sdk/install.py).
THEOREM FoldersStayWhole == LibrarySpec => []FoldersWhole
<1>1. LInv => FoldersWhole
  <2> SUFFICES ASSUME LInv PROVE FoldersWhole
    OBVIOUS
  <2>1. \A r \in Requests : upload[r] \in Uploads
    BY DEF LInv, LTypes
  <2>2. NoMixture
    BY <2>1 DEF LInv, Whole, Scratch, NoMixture
  <2>3. ScratchCleared
    BY DEF LInv, Scratch, ScratchCleared
  <2> QED BY <2>2, <2>3 DEF FoldersWhole
<1> QED BY LibraryInductive, <1>1, PTL

\* A replacement that fails costs the installed package only if a file
\* operation failed or somebody else changed the same name meanwhile.
THEOREM ReplacementsKeepOne == LibrarySpec => []ReplaceKeepsOne
<1>1. LInv => ReplaceKeepsOne
  BY DEF LInv
<1> QED BY LibraryInductive, <1>1, PTL

-----------------------------------------------------------------------------
(* Whatever becomes of drives, clocks and power, credentials are for keys  *)
(* an operator approved, what was approved is usable, and a bundle opens   *)
(* on one directory.  The argument: nothing that was made is changed but   *)
(* for what is still being written of it, so that what enroll, accept and  *)
(* verify compared stays true of the directories and files they compared.  *)

Identities == [node : NodeIds, files : Nat, open : BOOLEAN]
Certificates == [ca : Authorities, key : Nat, node : NodeIds, from : Int, to : Int]
Enrolments == [leaf : Certificates, ca : Authorities, files : Nat, open : BOOLEAN]
Credentials == [identity : Nat, leaf : Certificates, ca : Authorities, pinned : Authorities,
                files : Nat, open : BOOLEAN]
Bundles == [node : NodeIds, recipient : Nat, signer : Authorities, whole : BOOLEAN, open : BOOLEAN]

FleetTypeOK ==
  /\ identities \in Seq(Identities) /\ folders \in Seq(Enrolments)
  /\ credentials \in Seq(Credentials) /\ bundles \in Seq(Bundles)
  /\ approvals \subseteq Authorities \X Nat /\ verified \subseteq Nat \X Nat \X Authorities
  /\ clock \in Nat

\* An enrolment is of a directory that exists, with its node id, approved and
\* within the authority's life.
FolderApproved(f) ==
  LET l == folders[f].leaf IN
  /\ l.key \in 1..Len(identities) /\ l.node = identities[l.key].node
  /\ l.ca = folders[f].ca /\ <<l.ca, l.key>> \in approvals
  /\ l.from >= CaFrom /\ l.to <= CaTo /\ l.to - l.from <= MaxLife

CredentialApproved(c) ==
  /\ <<credentials[c].pinned, credentials[c].leaf.key>> \in approvals
  /\ credentials[c].leaf.key = credentials[c].identity

BundleOpened(v) ==
  /\ v[2] \in 1..Len(bundles)
  /\ bundles[v[2]].whole /\ bundles[v[2]].recipient = v[1] /\ bundles[v[2]].signer = v[3]

FleetInv ==
  /\ FleetTypeOK
  /\ \A f \in 1..Len(folders) : FolderApproved(f)
  /\ \A c \in 1..Len(credentials) : CredentialApproved(c)
  /\ \A v \in verified : BundleOpened(v)

\* One entry of a sequence is rewritten.
LEMMA PutOne ==
  ASSUME NEW S, NEW s \in Seq(S), NEW i \in 1..Len(s), NEW e \in S,
         NEW t, t = [s EXCEPT ![i] = e]
  PROVE  /\ t \in Seq(S) /\ Len(t) = Len(s)
         /\ \A j \in 1..Len(s) : t[j] = IF j = i THEN e ELSE s[j]
OBVIOUS

\* What a step may do to what was made: nothing disappears, and of what is
\* there only the writing goes on.
DirectoriesStay ==
  Len(identities) <= Len(identities') /\ \A i \in 1..Len(identities) : identities'[i].node = identities[i].node
FoldersStay ==
  \A f \in 1..Len(folders') :
     \/ f \in 1..Len(folders) /\ folders'[f].leaf = folders[f].leaf /\ folders'[f].ca = folders[f].ca
     \/ FolderApproved(f)'
CredentialsStay ==
  \A c \in 1..Len(credentials') :
     \/ /\ c \in 1..Len(credentials) /\ credentials'[c].leaf = credentials[c].leaf
        /\ credentials'[c].pinned = credentials[c].pinned /\ credentials'[c].identity = credentials[c].identity
     \/ CredentialApproved(c)'
BundlesStay ==
  /\ Len(bundles) <= Len(bundles')
  /\ \A b \in 1..Len(bundles) : /\ bundles[b].whole => bundles'[b].whole
                                /\ bundles'[b].recipient = bundles[b].recipient
                                /\ bundles'[b].signer = bundles[b].signer

LEMMA MadeStays ==
  ASSUME FleetInv, FleetTypeOK', DirectoriesStay, FoldersStay, CredentialsStay, BundlesStay,
         approvals \subseteq approvals', \A v \in verified' : v \in verified \/ BundleOpened(v)'
  PROVE  FleetInv'
<1>0. /\ Len(identities) \in Nat /\ Len(identities') \in Nat
      /\ Len(bundles) \in Nat /\ Len(bundles') \in Nat
  BY DEF FleetInv, FleetTypeOK
<1>1. ASSUME NEW f \in 1..Len(folders')
      PROVE  FolderApproved(f)'
  <2>1. CASE f \in 1..Len(folders) /\ folders'[f].leaf = folders[f].leaf /\ folders'[f].ca = folders[f].ca
    <3>1. FolderApproved(f)
      BY <2>1 DEF FleetInv
    <3> DEFINE l == folders[f].leaf
    <3>2. l.key \in 1..Len(identities') /\ identities'[l.key].node = identities[l.key].node
      BY <1>0, <3>1 DEF DirectoriesStay, FolderApproved
    <3> QED BY <2>1, <3>1, <3>2 DEF FolderApproved, CaFrom, CaTo
  <2> QED BY <2>1 DEF FoldersStay
<1>2. ASSUME NEW c \in 1..Len(credentials')
      PROVE  CredentialApproved(c)'
  BY DEF CredentialsStay, FleetInv, CredentialApproved
<1>3. ASSUME NEW v \in verified'
      PROVE  BundleOpened(v)'
  <2>1. CASE v \in verified
    <3>1. BundleOpened(v)
      BY <2>1 DEF FleetInv
    <3> QED BY <1>0, <3>1 DEF BundleOpened, BundlesStay
  <2> QED BY <2>1
<1> QED BY <1>1, <1>2, <1>3 DEF FleetInv

LEMMA FleetStart == FleetInit => FleetInv
<1> SUFFICES ASSUME FleetInit PROVE FleetInv
  OBVIOUS
<1>1. FleetTypeOK
  BY EmptySeq DEF FleetInit, FleetTypeOK
<1>2. Len(folders) = 0 /\ Len(credentials) = 0 /\ verified = {}
  BY DEF FleetInit
<1> QED BY <1>1, <1>2 DEF FleetInv

\* What goes on being written, or is cut off.
LEMMA IdentityWritten ==
  ASSUME FleetInv, NEW i \in 1..Len(identities), NEW e \in Identities,
         e.node = identities[i].node, identities' = [identities EXCEPT ![i] = e],
         UNCHANGED <<folders, credentials, bundles, approvals, verified, clock>>
  PROVE  FleetInv'
<1> USE DEF FleetInv
<1>1. identities \in Seq(Identities)
  BY DEF FleetTypeOK
<1>2. /\ identities' \in Seq(Identities) /\ Len(identities') = Len(identities)
      /\ \A j \in 1..Len(identities) : identities'[j] = IF j = i THEN e ELSE identities[j]
  BY <1>1, PutOne
<1>3. FleetTypeOK'
  BY <1>2 DEF FleetTypeOK
<1>4. DirectoriesStay
  BY <1>1, <1>2 DEF DirectoriesStay
<1>5. FoldersStay /\ CredentialsStay /\ BundlesStay
  BY DEF FoldersStay, CredentialsStay, BundlesStay, FleetTypeOK
<1> QED BY <1>3, <1>4, <1>5, MadeStays

LEMMA FolderWritten ==
  ASSUME FleetInv, NEW f \in 1..Len(folders), NEW e \in Enrolments,
         e.leaf = folders[f].leaf, e.ca = folders[f].ca, folders' = [folders EXCEPT ![f] = e],
         UNCHANGED <<identities, credentials, bundles, approvals, verified, clock>>
  PROVE  FleetInv'
<1> USE DEF FleetInv
<1>1. folders \in Seq(Enrolments)
  BY DEF FleetTypeOK
<1>2. /\ folders' \in Seq(Enrolments) /\ Len(folders') = Len(folders)
      /\ \A g \in 1..Len(folders) : folders'[g] = IF g = f THEN e ELSE folders[g]
  BY <1>1, PutOne
<1>3. FleetTypeOK'
  BY <1>2 DEF FleetTypeOK
<1>4. FoldersStay
  BY <1>2 DEF FoldersStay
<1>5. DirectoriesStay /\ CredentialsStay /\ BundlesStay
  BY DEF DirectoriesStay, CredentialsStay, BundlesStay, FleetTypeOK
<1> QED BY <1>3, <1>4, <1>5, MadeStays

LEMMA CredentialWritten ==
  ASSUME FleetInv, NEW c \in 1..Len(credentials), NEW e \in Credentials,
         e.leaf = credentials[c].leaf, e.pinned = credentials[c].pinned, e.identity = credentials[c].identity,
         credentials' = [credentials EXCEPT ![c] = e],
         UNCHANGED <<identities, folders, bundles, approvals, verified, clock>>
  PROVE  FleetInv'
<1> USE DEF FleetInv
<1>1. credentials \in Seq(Credentials)
  BY DEF FleetTypeOK
<1>2. /\ credentials' \in Seq(Credentials) /\ Len(credentials') = Len(credentials)
      /\ \A d \in 1..Len(credentials) : credentials'[d] = IF d = c THEN e ELSE credentials[d]
  BY <1>1, PutOne
<1>3. FleetTypeOK'
  BY <1>2 DEF FleetTypeOK
<1>4. CredentialsStay
  BY <1>2 DEF CredentialsStay
<1>5. DirectoriesStay /\ FoldersStay /\ BundlesStay
  BY DEF DirectoriesStay, FoldersStay, BundlesStay, FleetTypeOK
<1> QED BY <1>3, <1>4, <1>5, MadeStays

LEMMA BundleWritten ==
  ASSUME FleetInv, NEW b \in 1..Len(bundles), NEW e \in Bundles,
         e.recipient = bundles[b].recipient, e.signer = bundles[b].signer, bundles[b].whole => e.whole,
         bundles' = [bundles EXCEPT ![b] = e],
         UNCHANGED <<identities, folders, credentials, approvals, verified, clock>>
  PROVE  FleetInv'
<1> USE DEF FleetInv
<1>1. bundles \in Seq(Bundles)
  BY DEF FleetTypeOK
<1>2. /\ bundles' \in Seq(Bundles) /\ Len(bundles') = Len(bundles)
      /\ \A d \in 1..Len(bundles) : bundles'[d] = IF d = b THEN e ELSE bundles[d]
  BY <1>1, PutOne
<1>3. FleetTypeOK'
  BY <1>2 DEF FleetTypeOK
<1>4. BundlesStay
  BY <1>1, <1>2 DEF BundlesStay
<1>5. DirectoriesStay /\ FoldersStay /\ CredentialsStay
  BY DEF DirectoriesStay, FoldersStay, CredentialsStay, FleetTypeOK
<1> QED BY <1>3, <1>4, <1>5, MadeStays

LEMMA WritingKeeps ==
  ASSUME FleetInv,
         \/ \E i \in DOMAIN identities : WriteIdentity(i)
         \/ \E f \in DOMAIN folders : WriteFolder(f)
         \/ \E c \in DOMAIN credentials : WriteCredentials(c)
         \/ \E b \in DOMAIN bundles : WriteBundle(b)
         \/ LosePower
  PROVE  FleetInv'
<1>0. /\ identities \in Seq(Identities) /\ folders \in Seq(Enrolments)
      /\ credentials \in Seq(Credentials) /\ bundles \in Seq(Bundles)
  BY DEF FleetInv, FleetTypeOK
<1>1. /\ DOMAIN identities = 1..Len(identities) /\ DOMAIN folders = 1..Len(folders)
      /\ DOMAIN credentials = 1..Len(credentials) /\ DOMAIN bundles = 1..Len(bundles)
  BY <1>0
<1>2. ASSUME NEW i \in DOMAIN identities,
             \/ WriteIdentity(i)
             \/ /\ identities' = [identities EXCEPT ![i].open = FALSE]
                /\ UNCHANGED <<folders, credentials, bundles, approvals, verified, clock>>
      PROVE  FleetInv'
  <2>1. identities[i] \in Identities
    BY <1>0, <1>1
  <2>2. PICK e \in Identities : e.node = identities[i].node /\ identities' = [identities EXCEPT ![i] = e]
    <3>1. CASE WriteIdentity(i)
      <4>1. Written(identities[i], IdentityFiles) \in Identities
            /\ Written(identities[i], IdentityFiles).node = identities[i].node
        <5>1. identities[i].files \in Nat /\ identities[i].files + 1 \in Nat
          BY <2>1 DEF Identities
        <5>2. CASE identities[i].files + 1 = IdentityFiles
          <6>1. Written(identities[i], IdentityFiles) = [identities[i] EXCEPT !.files = identities[i].files + 1, !.open = FALSE]
            BY <5>2, <2>1 DEF Written, Identities
          <6> QED BY <2>1, <5>1, <6>1 DEF Identities
        <5>3. CASE identities[i].files + 1 # IdentityFiles
          <6>1. Written(identities[i], IdentityFiles) = [identities[i] EXCEPT !.files = identities[i].files + 1]
            BY <5>3, <2>1 DEF Written, Identities
          <6> QED BY <2>1, <5>1, <6>1 DEF Identities
        <5> QED BY <5>2, <5>3
      <4> QED BY <3>1, <4>1 DEF WriteIdentity
    <3>2. CASE identities' = [identities EXCEPT ![i].open = FALSE]
      <4>1. [identities[i] EXCEPT !.open = FALSE] \in Identities
            /\ [identities[i] EXCEPT !.open = FALSE].node = identities[i].node
        BY <2>1 DEF Identities
      <4> QED BY <3>2, <4>1
    <3> QED BY <1>2, <3>1, <3>2
  <2>3. UNCHANGED <<folders, credentials, bundles, approvals, verified, clock>>
    BY <1>2 DEF WriteIdentity
  <2> QED BY <1>1, <2>2, <2>3, IdentityWritten
<1>3. ASSUME NEW f \in DOMAIN folders,
             \/ WriteFolder(f)
             \/ /\ folders' = [folders EXCEPT ![f].open = FALSE]
                /\ UNCHANGED <<identities, credentials, bundles, approvals, verified, clock>>
      PROVE  FleetInv'
  <2>1. folders[f] \in Enrolments
    BY <1>0, <1>1
  <2>2. PICK e \in Enrolments : /\ e.leaf = folders[f].leaf /\ e.ca = folders[f].ca
                                /\ folders' = [folders EXCEPT ![f] = e]
    <3>1. CASE WriteFolder(f)
      <4>1. /\ Written(folders[f], 2) \in Enrolments
            /\ Written(folders[f], 2).leaf = folders[f].leaf /\ Written(folders[f], 2).ca = folders[f].ca
        <5>1. folders[f].files \in Nat /\ folders[f].files + 1 \in Nat
          BY <2>1 DEF Enrolments
        <5>2. CASE folders[f].files + 1 = 2
          <6>1. Written(folders[f], 2) = [folders[f] EXCEPT !.files = folders[f].files + 1, !.open = FALSE]
            BY <5>2, <2>1 DEF Written, Enrolments
          <6> QED BY <2>1, <5>1, <6>1 DEF Enrolments
        <5>3. CASE folders[f].files + 1 # 2
          <6>1. Written(folders[f], 2) = [folders[f] EXCEPT !.files = folders[f].files + 1]
            BY <5>3, <2>1 DEF Written, Enrolments
          <6> QED BY <2>1, <5>1, <6>1 DEF Enrolments
        <5> QED BY <5>2, <5>3
      <4> QED BY <3>1, <4>1 DEF WriteFolder
    <3>2. CASE folders' = [folders EXCEPT ![f].open = FALSE]
      <4> DEFINE e == [folders[f] EXCEPT !.open = FALSE]
      <4>1. e \in Enrolments /\ e.leaf = folders[f].leaf /\ e.ca = folders[f].ca
        BY <2>1 DEF Enrolments
      <4> QED BY <3>2, <4>1
    <3> QED BY <1>3, <3>1, <3>2
  <2>3. UNCHANGED <<identities, credentials, bundles, approvals, verified, clock>>
    BY <1>3 DEF WriteFolder
  <2> QED BY <1>1, <2>2, <2>3, FolderWritten
<1>4. ASSUME NEW c \in DOMAIN credentials,
             \/ WriteCredentials(c)
             \/ /\ credentials' = [credentials EXCEPT ![c].open = FALSE]
                /\ UNCHANGED <<identities, folders, bundles, approvals, verified, clock>>
      PROVE  FleetInv'
  <2>1. credentials[c] \in Credentials
    BY <1>0, <1>1
  <2>2. PICK e \in Credentials :
           /\ e.leaf = credentials[c].leaf /\ e.pinned = credentials[c].pinned
           /\ e.identity = credentials[c].identity /\ credentials' = [credentials EXCEPT ![c] = e]
    <3>1. CASE WriteCredentials(c)
      <4> DEFINE e == Written(credentials[c], 2)
      <4>1. /\ e \in Credentials /\ e.leaf = credentials[c].leaf /\ e.pinned = credentials[c].pinned
            /\ e.identity = credentials[c].identity
        <5>1. credentials[c].files \in Nat /\ credentials[c].files + 1 \in Nat
          BY <2>1 DEF Credentials
        <5>2. CASE credentials[c].files + 1 = 2
          <6>1. e = [credentials[c] EXCEPT !.files = credentials[c].files + 1, !.open = FALSE]
            BY <5>2, <2>1 DEF Written, Credentials
          <6> QED BY <2>1, <5>1, <6>1 DEF Credentials
        <5>3. CASE credentials[c].files + 1 # 2
          <6>1. e = [credentials[c] EXCEPT !.files = credentials[c].files + 1]
            BY <5>3, <2>1 DEF Written, Credentials
          <6> QED BY <2>1, <5>1, <6>1 DEF Credentials
        <5> QED BY <5>2, <5>3
      <4> QED BY <3>1, <4>1 DEF WriteCredentials
    <3>2. CASE credentials' = [credentials EXCEPT ![c].open = FALSE]
      <4> DEFINE e == [credentials[c] EXCEPT !.open = FALSE]
      <4>1. /\ e \in Credentials /\ e.leaf = credentials[c].leaf /\ e.pinned = credentials[c].pinned
            /\ e.identity = credentials[c].identity
        BY <2>1 DEF Credentials
      <4> QED BY <3>2, <4>1
    <3> QED BY <1>4, <3>1, <3>2
  <2>3. UNCHANGED <<identities, folders, bundles, approvals, verified, clock>>
    BY <1>4 DEF WriteCredentials
  <2> QED BY <1>1, <2>2, <2>3, CredentialWritten
<1>5. ASSUME NEW b \in DOMAIN bundles,
             \/ WriteBundle(b)
             \/ /\ bundles' = [bundles EXCEPT ![b].open = FALSE]
                /\ UNCHANGED <<identities, folders, credentials, approvals, verified, clock>>
      PROVE  FleetInv'
  <2>1. bundles[b] \in Bundles
    BY <1>0, <1>1
  <2>2. PICK e \in Bundles :
           /\ e.recipient = bundles[b].recipient /\ e.signer = bundles[b].signer
           /\ bundles[b].whole => e.whole
           /\ bundles' = [bundles EXCEPT ![b] = e]
    <3>1. CASE WriteBundle(b)
      <4> DEFINE e == [bundles[b] EXCEPT !.whole = TRUE, !.open = FALSE]
      <4>1. /\ e \in Bundles /\ e.recipient = bundles[b].recipient /\ e.signer = bundles[b].signer
            /\ e.whole
        BY <2>1 DEF Bundles
      <4>2. bundles' = [bundles EXCEPT ![b] = e]
        BY <1>0, <1>1, <3>1 DEF WriteBundle
      <4> HIDE DEF e
      <4> QED BY <4>1, <4>2
    <3>2. CASE bundles' = [bundles EXCEPT ![b].open = FALSE]
      <4> DEFINE e == [bundles[b] EXCEPT !.open = FALSE]
      <4>1. /\ e \in Bundles /\ e.recipient = bundles[b].recipient /\ e.signer = bundles[b].signer
            /\ e.whole = bundles[b].whole
        BY <2>1 DEF Bundles
      <4> QED BY <3>2, <4>1
    <3> QED BY <1>5, <3>1, <3>2
  <2>3. UNCHANGED <<identities, folders, credentials, approvals, verified, clock>>
    BY <1>5 DEF WriteBundle
  <2> QED BY <1>1, <2>2, <2>3, BundleWritten
<1> QED BY <1>2, <1>3, <1>4, <1>5 DEF LosePower

LEMMA InitDeviceKeeps ==
  ASSUME FleetInv, NEW n \in NodeIds, InitDevice(n)
  PROVE  FleetInv'
<1> USE DEF FleetInv
<1> DEFINE e == [node |-> n, files |-> 0, open |-> TRUE]
<1>1. identities \in Seq(Identities) /\ e \in Identities /\ identities' = Append(identities, e)
  BY DEF FleetTypeOK, Identities, InitDevice
<1> HIDE DEF e
<1>2. /\ identities' \in Seq(Identities) /\ Len(identities') = Len(identities) + 1
      /\ \A j \in 1..Len(identities) : identities'[j] = identities[j]
  BY <1>1, AppendProperties
<1>3. UNCHANGED <<folders, credentials, bundles, approvals, verified, clock>>
  BY DEF InitDevice
<1>4. FleetTypeOK'
  BY <1>2, <1>3 DEF FleetTypeOK
<1>5. DirectoriesStay
  BY <1>1, <1>2 DEF DirectoriesStay
<1>6. FoldersStay /\ CredentialsStay /\ BundlesStay
  BY <1>3 DEF FoldersStay, CredentialsStay, BundlesStay, FleetTypeOK
<1> QED BY <1>3, <1>4, <1>5, <1>6, MadeStays

LEMMA MaxTwo == ASSUME NEW a \in Int, NEW b \in Int PROVE Max({a, b}) = IF a >= b THEN a ELSE b
BY DEF Max
LEMMA MinTwo == ASSUME NEW a \in Int, NEW b \in Int PROVE Min({a, b}) = IF a <= b THEN a ELSE b
BY DEF Min

\* A certificate lies within its authority's life and lasts no longer than
\* it may.
LEMMA LeafFits ==
  ASSUME FleetInv, NEW a \in Authorities, NEW i \in 1..Len(identities), NEW days \in (Backdate + 1)..MaxLife
  PROVE  LET l == Leaf(a, i, clock, days) IN
         /\ l \in Certificates /\ l.ca = a /\ l.key = i /\ l.node = identities[i].node
         /\ l.from >= CaFrom /\ l.to <= CaTo /\ l.to - l.from <= MaxLife
<1>1. clock \in Nat /\ Backdate \in Nat /\ MaxLife \in Nat /\ CaLife \in Nat
  BY FleetAssumption DEF FleetInv, FleetTypeOK
<1>2. days \in Nat /\ days <= MaxLife
  BY <1>1
<1>3. CaFrom \in Int /\ CaTo \in Int /\ clock - Backdate \in Int
  BY <1>1 DEF CaFrom, CaTo
<1> DEFINE from == Max({clock - Backdate, CaFrom})
<1>4. from \in Int /\ from >= CaFrom
  BY <1>3, MaxTwo
<1> DEFINE to == Min({from + days, CaTo})
<1> HIDE DEF from
<1>5. to \in Int /\ to <= CaTo /\ to - from <= days
  <2>1. from + days \in Int
    BY <1>2, <1>4
  <2> QED BY <1>2, <1>3, <1>4, <2>1, MinTwo
<1>6. Leaf(a, i, clock, days) = [ca |-> a, key |-> i, node |-> identities[i].node, from |-> from, to |-> to]
  BY DEF Leaf, from
<1>7. i \in Nat /\ identities[i].node \in NodeIds
  <2>1. identities \in Seq(Identities) /\ i \in Nat
    BY DEF FleetInv, FleetTypeOK
  <2>2. identities[i] \in Identities
    BY <2>1, ElementOfSeq
  <2> QED BY <2>1, <2>2 DEF Identities
<1> HIDE DEF to
<1>8. to - from <= MaxLife
  BY <1>1, <1>2, <1>4, <1>5
<1> QED BY <1>4, <1>5, <1>6, <1>7, <1>8 DEF Certificates

LEMMA EnrollKeeps ==
  ASSUME FleetInv, NEW a \in Authorities, NEW i \in DOMAIN identities, NEW read \in DOMAIN identities,
         NEW whole \in BOOLEAN, NEW days \in (Backdate + 1)..MaxLife, Enroll(a, i, whole, read, days)
  PROVE  FleetInv'
<1> USE DEF FleetInv
<1> DEFINE l == Leaf(a, i, clock, days)
           e == [leaf |-> l, ca |-> a, files |-> 0, open |-> TRUE]
<1>1. i \in 1..Len(identities) /\ i \in Nat /\ read = i
  BY DEF Enroll, Requested, FleetTypeOK
<1>2. /\ l \in Certificates /\ l.ca = a /\ l.key = i /\ l.node = identities[i].node
      /\ l.from >= CaFrom /\ l.to <= CaTo /\ l.to - l.from <= MaxLife
  BY <1>1, LeafFits
<1>3. /\ folders' = Append(folders, e) /\ approvals' = approvals \cup {<<a, i>>}
      /\ UNCHANGED <<identities, credentials, bundles, verified, clock>>
  BY <1>1 DEF Enroll
<1> HIDE DEF l
<1>4. e \in Enrolments /\ e.leaf = l /\ e.ca = a
  BY <1>2 DEF Enrolments
<1> HIDE DEF e
<1>5. /\ folders' \in Seq(Enrolments) /\ Len(folders) \in Nat /\ Len(folders') = Len(folders) + 1
      /\ \A f \in 1..Len(folders) : folders'[f] = folders[f]
      /\ folders'[Len(folders) + 1] = e
  BY <1>3, <1>4, AppendProperties DEF FleetTypeOK
<1>6. approvals' \subseteq Authorities \X Nat
  BY <1>1, <1>3 DEF FleetTypeOK
<1>7. FleetTypeOK'
  BY <1>3, <1>5, <1>6 DEF FleetTypeOK
<1>8. FoldersStay
  <2>1. ASSUME NEW f \in 1..Len(folders'), f \notin 1..Len(folders)
        PROVE  FolderApproved(f)'
    <3>1. folders'[f] = e
      BY <1>5, <2>1
    <3>2. identities' = identities /\ <<l.ca, l.key>> \in approvals'
      BY <1>2, <1>3
    <3> QED BY <1>1, <1>2, <1>4, <3>1, <3>2 DEF FolderApproved, CaFrom, CaTo
  <2> QED BY <1>5, <2>1 DEF FoldersStay
<1>9. DirectoriesStay /\ CredentialsStay /\ BundlesStay
  BY <1>3 DEF DirectoriesStay, CredentialsStay, BundlesStay, FleetTypeOK
<1> QED BY <1>3, <1>7, <1>8, <1>9, MadeStays

LEMMA AcceptKeeps ==
  ASSUME FleetInv, NEW i \in DOMAIN identities, NEW f \in DOMAIN folders, NEW a \in Authorities,
         NEW lag \in 0..Backdate, AcceptEnrollment(i, f, a, lag)
  PROVE  FleetInv'
<1> USE DEF FleetInv
<1> DEFINE l == folders[f].leaf
           e == [identity |-> i, leaf |-> l, ca |-> folders[f].ca, pinned |-> a, files |-> 0, open |-> TRUE]
<1>1. i \in Nat /\ f \in 1..Len(folders)
  BY DEF FleetTypeOK
<1>2. l \in Certificates /\ folders[f].ca \in Authorities
  <2>1. folders[f] \in Enrolments
    BY <1>1, ElementOfSeq DEF FleetTypeOK
  <2> QED BY <2>1 DEF Enrolments
<1>3. l.ca = a /\ l.key = i /\ <<l.ca, l.key>> \in approvals
  <2>1. Acceptable(i, l, folders[f].ca, a, clock - lag)
    BY DEF AcceptEnrollment
  <2>2. FolderApproved(f)
    BY <1>1
  <2> QED BY <2>1, <2>2 DEF Acceptable, FolderApproved
<1>4. /\ credentials' = Append(credentials, e)
      /\ UNCHANGED <<identities, folders, bundles, approvals, verified, clock>>
  BY DEF AcceptEnrollment
<1> HIDE DEF l
<1>5. e \in Credentials /\ e.leaf = l /\ e.pinned = a /\ e.identity = i
  BY <1>1, <1>2 DEF Credentials
<1> HIDE DEF e
<1>6. /\ credentials' \in Seq(Credentials) /\ Len(credentials) \in Nat
      /\ Len(credentials') = Len(credentials) + 1
      /\ \A c \in 1..Len(credentials) : credentials'[c] = credentials[c]
      /\ credentials'[Len(credentials) + 1] = e
  BY <1>4, <1>5, AppendProperties DEF FleetTypeOK
<1>7. FleetTypeOK'
  BY <1>4, <1>6 DEF FleetTypeOK
<1>8. CredentialsStay
  <2>1. ASSUME NEW c \in 1..Len(credentials'), c \notin 1..Len(credentials)
        PROVE  CredentialApproved(c)'
    <3>1. credentials'[c] = e
      BY <1>6, <2>1
    <3> QED BY <1>3, <1>4, <1>5, <3>1 DEF CredentialApproved
  <2> QED BY <1>6, <2>1 DEF CredentialsStay
<1>9. DirectoriesStay /\ FoldersStay /\ BundlesStay
  BY <1>4 DEF DirectoriesStay, FoldersStay, BundlesStay, FleetTypeOK
<1> QED BY <1>4, <1>7, <1>8, <1>9, MadeStays

\* pack and export_usb add one file to the drive.
LEMMA BundleMade ==
  ASSUME FleetInv, NEW e \in Bundles, bundles' = Append(bundles, e),
         UNCHANGED <<identities, folders, credentials, approvals, verified, clock>>
  PROVE  FleetInv'
<1> USE DEF FleetInv
<1>1. bundles \in Seq(Bundles)
  BY DEF FleetTypeOK
<1>2. /\ bundles' \in Seq(Bundles) /\ Len(bundles) \in Nat /\ Len(bundles') = Len(bundles) + 1
      /\ \A b \in 1..Len(bundles) : bundles'[b] = bundles[b]
  BY <1>1, AppendProperties
<1>3. FleetTypeOK'
  BY <1>2 DEF FleetTypeOK
<1>4. BundlesStay
  BY <1>2 DEF BundlesStay
<1>5. DirectoriesStay /\ FoldersStay /\ CredentialsStay
  BY DEF DirectoriesStay, FoldersStay, CredentialsStay, FleetTypeOK
<1> QED BY <1>3, <1>4, <1>5, MadeStays

LEMMA PackKeeps ==
  ASSUME FleetInv, NEW a \in Authorities, NEW n \in NodeIds, NEW i \in DOMAIN identities, Pack(a, n, i)
  PROVE  FleetInv'
<1> DEFINE e == [node |-> n, recipient |-> i, signer |-> a, whole |-> FALSE, open |-> TRUE]
<1>1. e \in Bundles
  BY DEF Bundles, FleetInv, FleetTypeOK
<1>2. /\ bundles' = Append(bundles, e)
      /\ UNCHANGED <<identities, folders, credentials, approvals, verified, clock>>
  BY DEF Pack
<1> HIDE DEF e
<1> QED BY <1>1, <1>2, BundleMade

LEMMA ExportKeeps ==
  ASSUME FleetInv, NEW b \in DOMAIN bundles, NEW a \in Authorities, ExportUsb(b, a)
  PROVE  FleetInv'
<1> DEFINE e == [bundles[b] EXCEPT !.whole = FALSE, !.open = TRUE]
<1>1. bundles[b] \in Bundles
  BY ElementOfSeq DEF FleetInv, FleetTypeOK
<1>2. e \in Bundles
  BY <1>1 DEF Bundles
<1>3. /\ bundles' = Append(bundles, e)
      /\ UNCHANGED <<identities, folders, credentials, approvals, verified, clock>>
  BY DEF ExportUsb
<1> HIDE DEF e
<1> QED BY <1>2, <1>3, BundleMade

LEMMA VerifyKeeps ==
  ASSUME FleetInv, NEW i \in DOMAIN identities, NEW b \in DOMAIN bundles, NEW a \in Authorities,
         VerifyBundle(i, b, a)
  PROVE  FleetInv'
<1> USE DEF FleetInv
<1>1. i \in Nat /\ b \in 1..Len(bundles) /\ b \in Nat
  BY DEF FleetTypeOK
<1>2. /\ verified' = verified \cup {<<i, b, a>>}
      /\ UNCHANGED <<identities, folders, credentials, bundles, approvals, clock>>
  BY DEF VerifyBundle
<1>3. FleetTypeOK'
  <2>1. verified' \subseteq Nat \X Nat \X Authorities
    BY <1>1, <1>2 DEF FleetTypeOK
  <2> QED BY <1>2, <2>1 DEF FleetTypeOK
<1>4. bundles[b].whole /\ bundles[b].recipient = i /\ bundles[b].signer = a
  BY DEF VerifyBundle, Opens, Signed
<1>5. \A v \in verified' : v \in verified \/ BundleOpened(v)'
  BY <1>1, <1>2, <1>4 DEF BundleOpened
<1>6. DirectoriesStay /\ FoldersStay /\ CredentialsStay /\ BundlesStay
  BY <1>2 DEF DirectoriesStay, FoldersStay, CredentialsStay, BundlesStay, FleetTypeOK
<1> QED BY <1>2, <1>3, <1>5, <1>6, MadeStays

LEMMA FleetStep == FleetInv /\ [FleetNext]_fleetVars => FleetInv'
<1> SUFFICES ASSUME FleetInv, [FleetNext]_fleetVars PROVE FleetInv'
  OBVIOUS
<1>1. CASE UNCHANGED <<identities, folders, credentials, bundles, approvals, verified>> /\ clock' \in Nat
  <2>1. FleetTypeOK'
    BY <1>1 DEF FleetInv, FleetTypeOK
  <2>2. DirectoriesStay /\ FoldersStay /\ CredentialsStay /\ BundlesStay
    BY <1>1 DEF DirectoriesStay, FoldersStay, CredentialsStay, BundlesStay, FleetInv, FleetTypeOK
  <2> QED BY <1>1, <2>1, <2>2, MadeStays
<1>2. CASE UNCHANGED fleetVars
  BY <1>1, <1>2 DEF fleetVars, FleetInv, FleetTypeOK
<1>3. CASE PassTime
  BY <1>1, <1>3 DEF PassTime, FleetInv, FleetTypeOK
<1>4. CASE FleetNext
  BY <1>3, <1>4, WritingKeeps, InitDeviceKeeps, EnrollKeeps, AcceptKeeps, PackKeeps, ExportKeeps,
     VerifyKeeps DEF FleetNext
<1> QED BY <1>2, <1>4

\* What is made on drives and devices stays as it was compared.
THEOREM FleetInductive == FleetSpec => []FleetInv
BY FleetStart, FleetStep, PTL DEF FleetSpec

\* For any number of machines, authorities, drives and power failures:
\* credentials are for keys an operator approved, what was enrolled the device
\* accepts, and a bundle opens on the directory it was packed for alone
\* (enroll, accept_enrollment, verify_bundle).
THEOREM FleetStaysSafe == FleetSpec => []FleetKept
<1>1. FleetInv => CredentialsApproved
  <2> SUFFICES ASSUME FleetInv, NEW c \in DOMAIN credentials
               PROVE  /\ <<credentials[c].pinned, credentials[c].leaf.key>> \in approvals
                      /\ credentials[c].leaf.key = credentials[c].identity
    BY DEF CredentialsApproved, Range
  <2>1. c \in 1..Len(credentials)
    BY DEF FleetInv, FleetTypeOK
  <2> QED BY <2>1 DEF FleetInv, CredentialApproved
<1>2. FleetInv => ApprovalUsable
  <2> SUFFICES ASSUME FleetInv, NEW f \in DOMAIN folders,
                      NEW now \in folders[f].leaf.from..(folders[f].leaf.to - 1)
               PROVE  Acceptable(folders[f].leaf.key, folders[f].leaf, folders[f].ca, folders[f].ca, now)
    BY DEF ApprovalUsable, Range
  <2> DEFINE l == folders[f].leaf
  <2>0. f \in 1..Len(folders)
    BY DEF FleetInv, FleetTypeOK
  <2>1. l.from \in Int /\ l.to \in Int /\ CaFrom \in Int /\ CaTo \in Int
    <3>1. folders[f] \in Enrolments
      BY <2>0, ElementOfSeq DEF FleetInv, FleetTypeOK
    <3>2. l.from \in Int /\ l.to \in Int
      BY <3>1 DEF Enrolments, Certificates
    <3>3. Backdate \in Nat /\ CaLife \in Nat
      BY FleetAssumption
    <3> QED BY <3>2, <3>3 DEF CaFrom, CaTo
  <2>2. FolderApproved(f)
    BY <2>0 DEF FleetInv
  <2>3. l.from <= now /\ now < l.to /\ CaValid(now)
    BY <2>1, <2>2 DEF FolderApproved, CaValid
  <2> QED BY <2>2, <2>3 DEF FolderApproved, Acceptable
<1>3. FleetInv => OpensOnOne
  <2> SUFFICES ASSUME FleetInv, NEW v \in verified, NEW w \in verified
               PROVE  /\ bundles[v[2]].whole /\ bundles[v[2]].recipient = v[1]
                      /\ v[2] = w[2] => v = w
    BY DEF OpensOnOne
  <2>1. BundleOpened(v) /\ BundleOpened(w)
    BY DEF FleetInv
  <2>2. v = <<v[1], v[2], v[3]>> /\ w = <<w[1], w[2], w[3]>>
    BY DEF FleetInv, FleetTypeOK
  <2> QED BY <2>1, <2>2 DEF BundleOpened
<1> QED BY <1>1, <1>2, <1>3, FleetInductive, PTL DEF FleetKept
=============================================================================
