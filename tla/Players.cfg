CONSTANTS
    Ids = {i1, i2}
    Nobody = Nobody
    MaxConns = 2
    MaxPipe = 3
    MaxBuffer = 2
SPECIFICATION Spec
SYMMETRY Symmetry
INVARIANTS
    JoinedOnce
    MirrorSettled
    ViewFollows
