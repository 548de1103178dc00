\* One anchor, three operations, one fault; graphs of up to seven nodes.
CONSTANTS
    a1 = a1
    Anchors = {a1}
    Stages = 3
    MaxAsks = 3
    MaxFaults = 1
    Entities = {"a", "b", "c"}
    Pairs <- MCPairs
    Steps = 3
    Limits = {1, 2, 3, 6}
    Letters = {1, 2}
    Gap = 3
    Break = 4
    MaxText = 3
    Cut = 2
    None = none
SPECIFICATION Spec
CHECK_DEADLOCK FALSE
INVARIANTS EvidenceBacked VerdictsAgree RebuildRepairs BackfillReaches GraphIsRead EvidenceIsFound
