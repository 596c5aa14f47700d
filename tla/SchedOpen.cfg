CONSTANTS
    DayLength = 4
    TwoHours = 1
    LastMinute = 5
    MaxLag = 2
    Schedules = {{}, {1}, {0, 2}}
    TempOffsets = {1, 2, 3}
    Never = Never
SPECIFICATION Spec
CHECK_DEADLOCK FALSE
INVARIANTS
    SkipKeptWithoutTemp
    TempBeforeSetting
PROPERTIES
    ScheduledRestartHappens
