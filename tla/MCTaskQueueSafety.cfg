\* Every registered kind of row and a collector row, batches of two, one crash and one failed commit.
CONSTANTS
    ent = ent  rel = rel  doc = doc  web1 = web1  web2 = web2
    sum = sum  snap = snap  odd = odd
    NoJob = NoJob  NoDoc = NoDoc
    Jobs = {ent, rel, web1, sum, snap}
    Docs = {doc}
    TypeOf <- MCTypeOf
    DocOf <- MCDocOf
    BatchSize = 2
    MayFail = TRUE
    MaxCrashes = 1
    MaxFaults = 1
    MaxClock = 1
SPECIFICATION Spec
CHECK_DEADLOCK FALSE
INVARIANTS DocStatusIsTrue
PROPERTIES Implements
