CONSTANTS
    Ids = {i1}
    Nobody = Nobody
    MaxConns = 2
    MaxPipe = 2
    MaxBuffer = 2
SPECIFICATION FairSpec
PROPERTIES
    PlayerShown
