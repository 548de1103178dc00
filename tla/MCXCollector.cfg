\* One source, two collectors, two abandoned requests, deaths or failing closes.
CONSTANTS
    s1 = s1  s2 = s2  j1 = j1  j2 = j2  j3 = j3  c1 = c1  c2 = c2
    NoJob = NoJob  NoSource = NoSource
    Sources = {s1}
    Jobs = {j1, j2, j3}
    Collectors = {c1, c2}
    MaxFaults = 2
SPECIFICATION FairSpec
CHECK_DEADLOCK FALSE
INVARIANTS CommandsAreExclusive SucceededIsImported
PROPERTY DueIsServed
