SPECIFICATION FairSpec
CONSTANTS
    MaxDepth = 1
    FinishWork = {TRUE, FALSE}
    MaxAccepted = 5
    MaxStarts = 3
INVARIANTS
    DepthBound
    InOrder
    AtMostOneSurvivor
    CleanStop
PROPERTIES
    StopReturnsUnlessMissed
    AcceptedIsDelivered
    ImplementsLossyFifo
CHECK_DEADLOCK FALSE
