--------------------------- MODULE MCReplSession ---------------------------
(***************************************************************************)
(* Values of the constants of ReplSession for TLC: packets as a terminal   *)
(* sends them while typing, and as it sends a pasted line.                 *)
(***************************************************************************)
EXTENDS ReplSession

Typing == {<<"char">>, <<"eol">>, <<"backspace">>, <<"tab">>, <<"other">>}

Pasting == {<<"char", "eol">>}

Everything == Typing \cup Pasting

Mistyping == {<<"char">>, <<"backspace">>, <<"eol">>}
=============================================================================
