----------------------------- MODULE MCConsole ------------------------------
(***************************************************************************)
(* Instance of Console for TLC.                                            *)
(***************************************************************************)
EXTENDS Console

CONSTANT x

Characters == {x, Space, Quote}

OneLetter == {x}

\* A line of text, and the clear command.
TextOrClear == {<<Text, "newline">>, <<"clear">>}
=============================================================================
