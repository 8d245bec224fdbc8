----------------------------- MODULE MCSession -----------------------------
(* Session on a small fleet: see MCSession.cfg. *)
EXTENDS Session
=============================================================================
