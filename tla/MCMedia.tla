------------------------------- MODULE MCMedia -------------------------------
(* One video, two recognisers, audio of two windows; and a history of two videos. *)
EXTENDS History

CONSTANT v1

MCNone == <<"none", NoVideo>>
=============================================================================
