------------------------------- MODULE MCMesh -------------------------------
(* Instances of Mesh: two jobs of one node, or one of each of two nodes.   *)
EXTENDS Mesh, TLC

CONSTANTS n1, n2, n3, j1, j2

Star == n1 :> {n2, n3} @@ n2 :> {n1} @@ n3 :> {n1}
Pair == n1 :> {n2} @@ n2 :> {n1}

OneJob == j1 :> n1
OneOwner == j1 :> n1 @@ j2 :> n1
TwoOwners == j1 :> n1 @@ j2 :> n2

\* Sound where both jobs have the same owner, and where n1 owns the only job.
JobSymmetry == Permutations({j1, j2})
PeerSymmetry == Permutations({n2, n3})
=============================================================================
