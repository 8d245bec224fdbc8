------------------------------- MODULE MCGuard ------------------------------
(* Small instances of Guard for TLC.                                       *)
EXTENDS Guard, TLC

CONSTANTS t1, t2
MCThreads1 == {t1}
MCThreads2 == {t1, t2}
Symmetry == Permutations(Threads)
=============================================================================
