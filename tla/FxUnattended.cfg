CONSTANTS
    Calls = {c1, c2}
    Procs = {p1, p2}
    NoProc = NoProc
    AdminActions = {"stop"}
SPECIFICATION FairLifeSpec
INVARIANTS
    NoUnmanagedServer
    TokenMatches
PROPERTIES
    NoticeBeforeKill
    MonitorRearmed
    CrashRecovered
