CONSTANTS
    Builds = {b1, b2}
    Panel = Panel
    Versions = {v1, v2}
    Nothing = Nothing
    Mixed = Mixed
    Deletions = {d1}
    Spawns = {s1}
    MaxQueue = 1
    MaxRequests = 1
SPECIFICATION Spec
SYMMETRY Symmetry
INVARIANTS MarkerTruthful
PROPERTIES ImplementsBuildSwitch
