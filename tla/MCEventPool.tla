------------------------------ MODULE MCEventPool -----------------------------
(* A small instance of EventPool for TLC; the handles are interchangeable. *)
EXTENDS EventPool, TLC

MCCounts == {1, 3}
MCModuli == {2, 4, 8}
Symmetry == Permutations(Handles)
=============================================================================
