---------------------------- MODULE MCRefPool -------------------------------
(* Model-checking instance of the C reference pool. *)
EXTENDS RefPool, TLC

Perms == Permutations(Obj)
=============================================================================
