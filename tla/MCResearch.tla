----------------------------- MODULE MCResearch -----------------------------
(* Two or three threads for Research. *)
EXTENDS Research

CONSTANTS t1, t2, t3
=============================================================================
