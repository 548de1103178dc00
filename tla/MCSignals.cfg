\* Three extractions of two entries against two requests; pages of up to three entries.
CONSTANTS
    w = w
    Items = {1, 2}
    Facts = {1, 2, 3}
    ItemOf <- MCItemOf
    Near <- MCNear
    Weight <- MCWeight
    Lists = {w}
    NoList = NoList
    Limit = 2
    MaxJobs = 3
    MaxAsks = 2
    Addresses = {p, m, n}
    News = {m, n}
    Publisher <- MCPublisher
    Feedpage = page
    None = none
    Headlines = {t, u}
    Lengths = {1, 2, 3, 5}
    Margin = 1
    Long = 3
    Shrink = 1
    PageSize = 3
SPECIFICATION Spec
CHECK_DEADLOCK FALSE
INVARIANTS RefreshRepairs StrongestShows FetchesSettle
PROPERTY FactsOutlive
