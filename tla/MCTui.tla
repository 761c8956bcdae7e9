------------------------------- MODULE MCTui -------------------------------
(* Model-checking instances of Tui: the keys d/a, d/e/b, d/f and z, of      *)
(* which the filter text selects two.                                       *)
EXTENDS Tui

MCKeyOrder == << <<"d", "a">>, <<"d", "e", "b">>, <<"d", "f">>, <<"z">> >>
MCMatching == { <<"d", "f">>, <<"z">> }
=============================================================================
