CONSTANTS
    Interval <- IntervalValue
    MaxChanges = 2
    AgeLimit = 11
SPECIFICATION FairSpec
CHECK_DEADLOCK FALSE
INVARIANTS
    UnsavedBounded
    PriorityKept
PROPERTIES
    ChangesReachDisk
    FileAdvances
    RollbackLimited
    ImplementsDurableData
