-------------------------- MODULE MCTaskLifecycle --------------------------
(* Small instances of TaskLifecycle for TLC. *)
EXTENDS TaskLifecycleInv, TLC

\* Tokens and logical ids are drawn at random and only compared.
Symmetry == Permutations(Tokens) \cup Permutations(Logicals)
============================================================================
