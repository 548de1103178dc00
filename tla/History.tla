-------------------------------- MODULE History --------------------------------
(***************************************************************************)
(* A video's files and texts, and the history of videos that it is in.     *)
(***************************************************************************)
EXTENDS Media, Timeline

\* A reader of the history sees every video once, and the numbers beside the list are
\* those of the list.  It is about every small table and no state of this system, so
\* TLC is to evaluate it in the first state only.
TimelineIsRead == Init => TimelineKept
=============================================================================
