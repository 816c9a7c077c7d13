----------------------------- MODULE MCLibuvIo ------------------------------
(* Model-checking instance of the libuv server: two packets of two bytes,  *)
(* the first of which could be a size.                                     *)
EXTENDS LibuvIo

Perms == Permutations(Conn)
SmallPackets == {<<2, 1>>}
=============================================================================
