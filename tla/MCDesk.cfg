\* Three requests about two documents of at most two versions, and one death.
CONSTANTS
    Passages = {1, 2}
    Texts <- MCTexts
    MaxDocs = 2
    MaxVersions = 2
    MaxDrafts = 2
    MaxVerdicts = 2
    MaxAsks = 3
    MaxDeaths = 1
    NoJob <- MCNone
SPECIFICATION Spec
CHECK_DEADLOCK FALSE
INVARIANTS InsightsOnce StateIsBacked RoundsSeparate
PROPERTIES ReviewStays
