CONSTANTS
    Builds = {b1, b2}
    Panel = Panel
    Versions = {v1}
    Nothing = Nothing
    Mixed = Mixed
    Deletions = {d1}
    Spawns = {s1}
    MaxQueue = 1
    MaxRequests = 2
SYMMETRY Symmetry
SPECIFICATION Spec
INVARIANTS
    ChoiceConsistent
    RestartKeepsState
PROPERTIES
    UsedBuildKept
