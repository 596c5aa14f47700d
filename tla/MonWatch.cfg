CONSTANTS
    HBDelay = 2
    HBFatal = 3
    HCDelay = 2
    HCFatal = 5
    BootInitAfterHb = 3
    BootNoEvent = 3
    BootResEventGap = 2
    Tolerance = 3
    Grace = 3
    FrozenLimit = 2
    HangWarnGap = 4
    HangWarnLead = 2
    FreezeLengths = {}
    AnswersOutlive = FALSE
    StdioCloses = TRUE
    AgeLimit = 6
SPECIFICATION Spec
INVARIANT
    HangCaught
PROPERTY
    PlayersWarned
