SPECIFICATION Spec
CONSTANTS
    Node <- Vehicles
    Null = Null
    NaN = NaN
    PosX <- MCPosX
    PosY <- MCPosY
    VelX <- MCVelX
    WaitingTimes = {900, 1700}
    IndeterminateDistance = {0, 1000000}
    Slot = 1
    MaxUes = 3
    TimeWindow <- TdmaWindow
    Interval = 1000
    IncidentWindow = 30000
    IncidentSamples = {9000}
    StartTime <- Together
    StopTime <- AfterTheEnd
    IndeterminateDegree = {"STANDALONE"}
    IndeterminateClusterId = {0}
    Reach <- FullMesh
    MaxLosses = 0
    MaxTime = 2600
CHECK_DEADLOCK FALSE
PROPERTIES
    HeadDroppedOnlyWhenSilent
