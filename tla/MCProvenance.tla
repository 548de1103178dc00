---------------------------- MODULE MCProvenance ----------------------------
(* One claim with one anchor for Provenance, three entities for Walks, and texts *)
(* of up to three characters for Evidence.                                       *)
EXTENDS Answers

CONSTANT a1

MCPairs == {<<"a", "b">>, <<"b", "c">>}
=============================================================================
