---------------------------- MODULE MCTraceLinks ----------------------------
(* Interchangeable sessions and readers for TraceLinks. *)
EXTENDS TraceLinks, TLC

CONSTANTS c1, c2, c3, r1, r2, k1, k2

SessionsAlike == Permutations(Sessions) \cup Permutations(Readers) \cup Permutations(Contents)
=============================================================================
