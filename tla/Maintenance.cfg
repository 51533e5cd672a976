SPECIFICATION FairSpec
CONSTANTS
    Node <- Vehicles
    Null = Null
    NaN = NaN
    PosX <- MCPosX
    PosY <- MCPosY
    VelX <- MCVelX
    WaitingTimes = {900, 1700}
    IndeterminateDistance = {1000000}
    Slot = 1
    MaxUes = 3
    TimeWindow <- TdmaWindow
    Interval = 1000
    IncidentWindow = 30000
    IncidentSamples = {9000}
    StartTime <- Together
    StopTime <- OneLeaves
    IndeterminateDegree = {"STANDALONE"}
    IndeterminateClusterId = {0}
    Reach <- FullMesh
    MaxLosses = 1
    MaxTime = 5600
CHECK_DEADLOCK FALSE
INVARIANTS
    NoNullSocketUse
    StandaloneHasNeighbors
PROPERTIES
    ElectionConcludes
    StandaloneResolves
    StoppedHeadAbandoned
    ImplementsMembership
