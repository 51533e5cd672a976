SPECIFICATION FairSpec
CONSTANTS
    Node <- Vehicles
    Bounds <- Road
    Mode = "MODE_TIME"
    ModeTime = 40000
    ModeDistance = 100000
    Speeds = {3000}
    SpeedVariation = 500
    Draws <- RandomDraws
    Places <- Grid
    QueryInterval = 30000
    MaxMoves = 1
    MaxTime = 62000
CHECK_DEADLOCK FALSE
INVARIANTS
    TypeOK
    WithinBounds
    OneWalk
    SimilarSpeed
PROPERTIES
    WalkKeepsItsEnd
    WalkEnds
