SPECIFICATION Spec
CONSTANTS
    Node <- Vehicles
    Null = Null
    NaN = NaN
    PosX <- TurningPosX
    PosY <- MCPosY
    VelX <- TurningVelX
    WaitingTimes = {1, 1392}
    IndeterminateDistance = {0}
    Slot = 1
    MaxUes = 3
    TimeWindow <- TdmaWindow
    Interval = 1000
    IncidentWindow = 4000
    IncidentSamples = {}
    StartTime <- Together
    StopTime <- OneLeavesEarly
    IndeterminateDegree = {"STANDALONE"}
    IndeterminateClusterId = {0}
    Reach <- FullMesh
    MaxLosses = 1
    MaxTime = 4600
CHECK_DEADLOCK FALSE
INVARIANTS
    NeighborListsNested
    MembersOnlyAtHead
    MemberKnowsItsHead
    OneUpdateChain
    NeighborsRecent
    StableEntriesLag
    StopLeavesOne
