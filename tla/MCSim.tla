------------------------------- MODULE MCSim -------------------------------
(* The simulated swarm: its membership, and the way of its frames.  The two *)
(* share no state here, as Frames reads arbitrary views: each runs alone.   *)
EXTENDS Swarm, Frames, TLC

CONSTANTS a, b, f1, f2, f3

VARIABLE part

\* A strong node and weaker ones of equal strength.
OneStrong == 0 :> 2 @@ 1 :> 1 @@ 2 :> 1

MCInit == part \in {"swarm", "frames"} /\ Init /\ FramesInit /\ (part = "swarm" => mode = "local")
MCNext == /\ UNCHANGED part
          /\ \/ part = "swarm" /\ Next /\ UNCHANGED frameVars
             \/ part = "frames" /\ FramesNext /\ UNCHANGED vars
MCSpec == MCInit /\ [][MCNext]_<<part, vars, frameVars>>
=============================================================================
