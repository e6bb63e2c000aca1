SPECIFICATION TimelineSpec
CONSTANTS
    MaxInt = 16777215
    Modulus = 64
    DiscontinuityMs = 8
    IncoherenceMs = 2
    JitterScale = 4
    ContainerTimebase <- MCContainer
    Checkpoints = 4
    DriftEpsilonMs = 2
    MsPerMinute = 6
    MaxDriftDenominator = 100000
    MagnitudeDenominator = 100
    Shapes <- MCShapes
    WrapPackets = 4
    ReadPackets = 3
    SoundPackets = 5
INVARIANTS
    WrapIsInvisible
    GapsAreTheHoles
    CfrMeansOnTheGrid
    AnnouncedJumpsAreFlagged
    OriginIsTheEarliest
    ContinuousAudioDriftsByItsSpan
    LineIsOfLeastSquares
CHECK_DEADLOCK FALSE
