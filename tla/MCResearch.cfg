\* Two threads, four requests, one restart or refused statement.
CONSTANTS
    t1 = t1  t2 = t2  t3 = t3
    Threads = {t1, t2}
    MaxFaults = 1
    MaxAsks = 4
SPECIFICATION FairSpec
CHECK_DEADLOCK FALSE
INVARIANTS RunningIsWorkedOn StatusTellsReport
PROPERTY RunningEnds
