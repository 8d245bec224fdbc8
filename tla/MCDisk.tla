------------------------------- MODULE MCDisk ------------------------------
(* What is replaced on a disk: the releases of a robot by three overlapping *)
(* installs, two upgrades of a device and one of another; and the packages  *)
(* of the library by two requests at a time.  They share no state.          *)
EXTENDS Installer, Library, TLC

CONSTANTS i1, i2, i3, pi, other, r1, r2, first, second, broken, x

VARIABLE part

Versions == i1 :> 1 @@ i2 :> 2 @@ i3 :> 2
Devices == i1 :> pi @@ i2 :> pi @@ i3 :> other
\* One upload is an arena policy, one of another type, one is malformed.
Names == [u \in {first, second, broken} |-> x]
RequestsAlike == Permutations({r1, r2})

MCInit == part \in {"installer", "library"} /\ Init /\ LibraryInit
MCNext == /\ UNCHANGED part
          /\ \/ part = "installer" /\ Next /\ UNCHANGED libraryVars
             \/ part = "library" /\ LibraryNext /\ UNCHANGED vars
MCSpec == MCInit /\ [][MCNext]_<<part, vars, libraryVars>>
=============================================================================
