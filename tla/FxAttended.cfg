CONSTANTS
    Calls = {c1, c2}
    Procs = {p1, p2, p3}
    NoProc = NoProc
    AdminActions = {"start", "stop", "restart", "deploy"}
SPECIFICATION LifeSpec
INVARIANTS
    TypeOK
    NoticeExclusive
    PrepareExclusive
    RestartFlagBacked
