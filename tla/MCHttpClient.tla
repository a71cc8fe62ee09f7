---------------------------- MODULE MCHttpClient ----------------------------
(* HttpClient on small instances. *)
EXTENDS HttpClient, TLC

Symmetry == Permutations(Calls)
=============================================================================
