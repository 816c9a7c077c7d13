------------------------------- MODULE MCTable ------------------------------
(* Model-checking instance of the tables: a byte has four values, so that  *)
(* a count of three is the marker and four takes the long form.            *)
EXTENDS Table

SmallInfo == {[types |-> t, named |-> n] :
                t \in {<<"s">>, <<"i", "s">>, <<"s", "c">>}, n \in BOOLEAN}
SmallStrings == {<<>>, <<2, 1, 0>>, <<0, 3, 1, 2>>}
=============================================================================
