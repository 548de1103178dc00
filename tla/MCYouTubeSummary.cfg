\* One video with room for two documents, two crashes, one unexpected exception.
CONSTANTS
    v1 = v1  v2 = v2  d1 = d1  d2 = d2
    NoVideo = NoVideo  NoSlot = NoSlot
    Videos = {v1}
    Slots = {d1, d2}
    MaxCrashes = 2
    MaxAborts = 1
SPECIFICATION FairSpec
CHECK_DEADLOCK FALSE
INVARIANTS ProcessingIsInHand
PROPERTY ProcessingEnds
