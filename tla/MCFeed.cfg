\* Two entries against batches of one, titles that are edited, one request one failure and one death.
CONSTANTS
    note = note
    Items = {1, 2}
    Docs = {note}
    Chinese = {note}
    Limit = 1
    MaxVersion = 1
    MaxAsks = 1
    MaxDeaths = 1
    MaxFaults = 1
    NoJob <- MCNone
SPECIFICATION FairSpec
CHECK_DEADLOCK FALSE
PROPERTIES DueIsPolled BacklogDrains
