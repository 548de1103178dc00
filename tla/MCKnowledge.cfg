SPECIFICATION Spec
CONSTANTS
    a = a
    b = b
    s = s
    Ids = {e1, e2, e3}
    Known = {e1}
    Names <- MCNames
    Stocks <- MCStocks
    Alike <- MCAlike
    Last = 2
    NoId = NoId
    MaxAsks = 2
SYMMETRY Symmetric
CHECK_DEADLOCK FALSE
INVARIANTS SucceededIsExtracted AutoMergeGoesOn
PROPERTY EvidenceConserved
