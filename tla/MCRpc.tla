-------------------------------- MODULE MCRpc -------------------------------
(* Model-checking instance of a client and a server in any two languages. *)
EXTENDS Rpc

AllPairs == Language \X Language
=============================================================================
