------------------------------ MODULE MCCommand ------------------------------
EXTENDS Command

(* The two names, the empty key, a prefix of one, keys that a name is a    *)
(* prefix of, one going on with a NUL, and one with a NUL too early.       *)
MCKeys == {<<>>, <<"e">>, <<"e", "n">>, <<"i", "t">>,
           <<"e", "n", "x">>, <<"e", "n", NUL>>, <<"i", NUL>>}
=============================================================================
