CONSTANTS
    HBDelay = 1
    HBFatal = 2
    HCDelay = 1
    HCFatal = 3
    BootInitAfterHb = 1
    BootNoEvent = 2
    BootResEventGap = 1
    Tolerance = 2
    Grace = 2
    FrozenLimit = 2
    HangWarnGap = 2
    HangWarnLead = 1
    FreezeLengths = {3}
    AnswersOutlive = TRUE
    StdioCloses = TRUE
    AgeLimit = 4
SPECIFICATION FairSpec
INVARIANT
    BootFailureOnce
PROPERTY
    GoneReplaced
