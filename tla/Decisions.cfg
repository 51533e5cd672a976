SPECIFICATION Spec
CONSTANTS
    Node <- Vehicles
    Null = Null
    NaN = NaN
    PosX <- MCPosX
    PosY <- MCPosY
    VelX <- MCVelX
    WaitingTimes = {900}
    IndeterminateDistance = {0, 1000000, NaN}
    OwnInfo <- MCOwnInfo
    Heard <- MCHeard
    PurgedOwnInfo <- MCPurgedOwnInfo
    PurgedHeard <- MCPurgedHeard
CHECK_DEADLOCK FALSE
INVARIANTS
    MergeCheckAgrees
    IsSlowestNodeAgrees
    UpdateNeighborListAgrees
    SpanIsExact
    SomebodyIsSlowest
