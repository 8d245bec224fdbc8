------------------------------ MODULE MCWorker ------------------------------
(* A small instance of Worker for TLC.  Calls, keys and inputs are numbers *)
(* and all alike: a call is the next number when it is made, a key and an  *)
(* input when they are first seen.  Unlike a SYMMETRY this also serves the *)
(* liveness properties.                                                    *)
EXTENDS Worker

Numbered ==
    \A c \in Calls :
       /\ c > 1 /\ status'[c] # "unused" => status'[c - 1] # "unused"
       /\ req'[c].key \in Keys \ {1} => \E d \in 1..c - 1 : req'[d].key = req'[c].key - 1
       /\ req'[c].input \in Inputs \ {1} => \E d \in 1..c - 1 : req'[d].input = req'[c].input - 1

MCSpec == Init /\ [][Next /\ Numbered]_vars /\ Fairness
=============================================================================
