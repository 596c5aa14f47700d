CONSTANTS
    Names = {root, ann}
    Master = root
    Perms = {p}
    RoomPerm = p
    Links = {}
    None = None
    Absent = Absent
    Empty = Empty
    Broken = Broken
    Sessions = {w1, w2}
    Slots = {s1}
    Watched = FALSE
    MaxPassword = 1
    MaxSockets = 2
    MaxRefreshes = 1
SPECIFICATION Spec
INVARIANTS RoomsFollow OwnSessionKept
SYMMETRY Symmetry
