------------------------------- MODULE MCDesk -------------------------------
(* Two documents or versions of two texts that share a passage. *)
EXTENDS Desk

MCTexts == {{1}, {1, 2}}
MCNone == <<"none", <<0, 0>>>>
=============================================================================
