\* Two sessions, two readers, three versions.
CONSTANTS
    c1 = c1  c2 = c2  c3 = c3  r1 = r1  r2 = r2  k1 = k1  k2 = k2
    NoContent = NoContent
    Sessions = {c1, c2}
    Readers = {r1, r2}
    Contents = {k1, k2}
    MaxVersion = 3
    MaxRestarts = 1
SPECIFICATION Spec
CHECK_DEADLOCK FALSE
SYMMETRY SessionsAlike
INVARIANTS LatestIsNewest ReviewsAreSerial ProjectedWasTrue
