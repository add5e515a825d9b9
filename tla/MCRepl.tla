------------------------------- MODULE MCRepl -------------------------------
(* A small instance of Repl for TLC. *)
EXTENDS Repl

MCLines == {<<"INSERT", ";", "\n">>, <<"SELECT", "\n">>, <<"FROM", ";", "\n">>,
            <<"INSERT", ";", " ", "SELECT", "\n">>, <<Quote, "x", "\n">>,
            <<"y", Quote, ";", "\n">>, <<"exit", "\n">>}
=============================================================================
