-------------------------- MODULE MCSessionFilter ---------------------------
(* A few requests on a few sessions; requests and sessions are alike. *)
EXTENDS SessionFilter, TLC

Symmetry == Permutations(Req) \cup Permutations(Sid)
=============================================================================
