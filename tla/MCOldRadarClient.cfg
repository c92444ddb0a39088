SPECIFICATION Spec
CONSTANTS
    MaxStarts = 2
    MaxLosses = 1
    MaxSkips = 1
    MaxNet = 1
    MaxDepth = 1
INVARIANTS
    ConnectedHasReader
    QuietAfterUnset
PROPERTY
    StreamsWhenConnected
CHECK_DEADLOCK FALSE
