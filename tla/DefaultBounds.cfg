SPECIFICATION FairSpec
CONSTANTS
    Node = {0}
    Bounds <- DefaultRectangle
    Mode = "MODE_DISTANCE"
    ModeTime = 1000
    ModeDistance = 100000
    Speeds = {200, 400}
    SpeedVariation = 100
    Draws <- DefaultDraws
    Places <- DefaultPlace
    QueryInterval = 1000
    MaxMoves = 0
    MaxTime = 5000
CHECK_DEADLOCK FALSE
PROPERTIES
    WalkEnds
