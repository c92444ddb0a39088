SPECIFICATION Spec
CONSTANTS
    Powers = {0, 1, 2}
    SearchBins = 6
    BufferBins = 4
    Sizes = {3, 4, 6}
    MinBins = 2
    MaxBins = 3
    Settings <- MCSettings
INVARIANTS
    TypeOK
    PeaksAreMaxima
    WindowsInside
    NoPeakMissed
CHECK_DEADLOCK FALSE
