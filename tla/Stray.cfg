SPECIFICATION Spec
CONSTANTS
    Node <- Vehicles
    Null = Null
    NaN = NaN
    PosX <- MCPosX
    PosY <- MCPosY
    VelX <- MCVelX
    WaitingTimes = {1, 900}
    IndeterminateDistance = {0}
    Slot = 1
    MaxUes = 3
    TimeWindow <- StrayWindow
    Interval = 1000
    IncidentWindow = 4000
    IncidentSamples = {}
    StartTime <- Together
    StopTime <- AfterTheEnd
    IndeterminateDegree = {"CH", "CM"}
    IndeterminateClusterId = {2}
    Reach <- FullMesh
    MaxLosses = 0
    MaxTime = 1600
CHECK_DEADLOCK FALSE
INVARIANTS
    HeadOwnsItsCluster
    MemberKnowsItsHead
    NeverWithoutTimer
PROPERTIES
    ImplementsMembership
