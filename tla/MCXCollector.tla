---------------------------- MODULE MCXCollector ----------------------------
(* A few sources, rows and collectors for XCollector. *)
EXTENDS XCollector

CONSTANTS s1, s2, j1, j2, j3, c1, c2

=============================================================================
