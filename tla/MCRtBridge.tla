---------------------------- MODULE MCRtBridge ------------------------------
(* Model-checking instance of the runtime bridge. *)
EXTENDS RtBridge, TLC

Perms == Permutations(Caller)
=============================================================================
