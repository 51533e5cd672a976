SPECIFICATION FairSpec
CONSTANTS
    Node <- Vehicles
    Null = Null
    NaN = NaN
    PosX <- MCPosX
    PosY <- MCPosY
    VelX <- MCVelX
    WaitingTimes = {900}
    IndeterminateDistance = {1000000}
    Slot = 1
    MaxUes = 3
    TimeWindow <- TdmaWindow
    Interval = 1000
    IncidentWindow = 30000
    IncidentSamples = {9000}
    StartTime <- Together
    StopTime <- OneLeaves
    IndeterminateDegree = {"STANDALONE"}
    IndeterminateClusterId = {0}
    Reach <- FullMesh
    MaxLosses = 0
    MaxTime = 7100
CHECK_DEADLOCK FALSE
PROPERTIES
    HeadlessResolves
