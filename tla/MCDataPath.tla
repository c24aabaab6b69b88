----------------------------- MODULE MCDataPath -----------------------------
(* DataPath for TLC: the sessions are interchangeable. *)
EXTENDS DataPath, TLC

Symmetry == Permutations(Session)
=============================================================================
