\* One row that may defer for ever against batches of two; one crash.
CONSTANTS
    ent = ent  rel = rel  doc = doc  web1 = web1  web2 = web2
    sum = sum  snap = snap  odd = odd
    NoJob = NoJob  NoDoc = NoDoc
    Jobs = {ent, rel, snap, sum, odd}
    Docs = {doc}
    TypeOf <- MCTypeOf
    DocOf <- MCDocOf
    BatchSize = 2
    MayFail = TRUE
    MaxCrashes = 1
    MaxFaults = 0
    MaxClock = 1
SPECIFICATION FairSpec
CHECK_DEADLOCK FALSE
PROPERTIES NothingWaitsForever SummaryFinishes ExtractedIsSynced
