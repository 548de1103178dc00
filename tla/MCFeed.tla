------------------------------- MODULE MCFeed -------------------------------
(* One source with two entries and one note. *)
EXTENDS Feed

CONSTANT note
MCNone == <<"none", "none">>
=============================================================================
