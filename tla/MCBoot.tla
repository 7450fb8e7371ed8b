------------------------------ MODULE MCBoot ------------------------------
(* Boot with two chips: one whose bytes and bits are told apart by any     *)
(* shift, swap or reversal, and one without the mark.                      *)
EXTENDS Boot

MCEpi == <<1, 0, 1>>

MCContents ==
    { [i \in 0..2 |-> <<mark, <<0, 0, 1>>, <<1, 1, 0>>>>[i + 1]] :
        mark \in {MCEpi, <<1, 1, 1>>} }
=============================================================================
