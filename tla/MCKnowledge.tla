----------------------------- MODULE MCKnowledge -----------------------------
(* Two chunks, three entities of which one is known, and similar names.     *)
EXTENDS Knowledge, TLC

CONSTANTS a, b, s

MCNames == {a, b, s}
MCStocks == {s}
\* Every two names are alike; so is each to itself.
MCAlike == MCNames \X MCNames
\* The names without a profile can change places.
Symmetric == Permutations({a, b})
=============================================================================
