----------------------------- MODULE MCUserCache -----------------------------
(* UserCache on small instances. *)
EXTENDS UserCache, TLC

Symmetry == Permutations(Readers) \cup Permutations(Updaters)
=============================================================================
