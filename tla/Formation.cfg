SPECIFICATION Spec
CONSTANTS
    Node <- Vehicles
    Null = Null
    NaN = NaN
    PosX <- MCPosX
    PosY <- MCPosY
    VelX <- MCVelX
    WaitingTimes = {1, 900}
    IndeterminateDistance = {0, 1000000, NaN}
    Slot = 1
    MaxUes = 3
    TimeWindow <- TdmaWindow
    Interval = 1000
    IncidentWindow = 4000
    IncidentSamples = {}
    StartTime <- Together
    StopTime <- AfterTheEnd
    IndeterminateDegree = {"STANDALONE"}
    IndeterminateClusterId = {0}
    Reach <- FullMesh
    MaxLosses = 1
    MaxTime = 1600
CHECK_DEADLOCK FALSE
INVARIANTS
    TypeOK
    ElectionTimerTracked
    SendChains
    FormsOnce
    NoNullSocketUse
    NeverWithoutTimer
    NoElectionBesideHead
    ClusteredInTime
    LossStrandsOne
PROPERTIES
    StatusOrder
