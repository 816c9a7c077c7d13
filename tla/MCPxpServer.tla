--------------------------- MODULE MCPxpServer ------------------------------
(* Model-checking instance of the C server. *)
EXTENDS PxpServer, TLC

Perms == Permutations(Req) \cup Permutations(Sid) \cup Permutations(Func)
=============================================================================
