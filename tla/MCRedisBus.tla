----------------------------- MODULE MCRedisBus -----------------------------
(* A small RedisBus: observers are interchangeable, and topics are. *)
EXTENDS RedisBus, TLC

Symmetry == Permutations(Id) \cup Permutations(Topic)
=============================================================================
