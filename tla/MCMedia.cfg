\* Three requests and two polls of one video, and a death of the process.
CONSTANTS
    v1 = v1
    Videos = {v1}
    Backends = 2
    Attempts = 3
    Windows = 2
    MinChars = 4
    Target = 5
    Window = 2
    Section = 3
    LongChapter = 3
    ShortTail = 2
    Pause = 2
    Paragraph = 2
    LongParagraph = 5
    LongSpan = 3
    MaxCues = 3
    MaxTime = 4
    MaxLength = 2
    Sizes = {1, 3}
    MaxAsks = 3
    MaxPolls = 2
    MaxCrashes = 1
    NoVideo = NoVideo
    Ids = {1, 2}
    Times = {1, 2}
    Channels = {"c"}
    Limits = {1, 2}
    Reads = 3
    NoJob <- MCNone
SPECIFICATION FairSpec
CHECK_DEADLOCK FALSE
INVARIANTS PlayableIsThere FramesHaveImages TextSurvives TimelineIsRead
PROPERTIES DownloadEnds
