CONSTANTS
    Names = {root, ann}
    Master = root
    Perms = {}
    Links <- Renamed
    None = None
    Absent = Absent
    Empty = Empty
    Broken = Broken
    Sessions = {}
    Slots = {s1, s2}
    Watched = TRUE
    MaxPassword = 0
SPECIFICATION FairStoreSpec
INVARIANTS SavedWhenQuiet IdUnique
PROPERTIES IdentifierTaken FileSettles
