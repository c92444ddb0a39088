SPECIFICATION WorkspaceSpec
CONSTANTS
    Samples = 400
    ConfigPublishCount = 2
    Azimuths = {0, 1, 399}
    BinCounts = {2}
    Strong = 9
    MaxConfigs = 2
    MaxSettings = 1
    MaxImages = 3
    Launch <- MCLaunch
    Settings <- MCSettings
    NavBins = 2
    NavLaunch <- MCNavLaunch
    NavSettings <- MCNavSettings
    NavMaxConfigs = 2
    NavMaxSettings = 2
    VideoAzimuths = {0, 28, 29}
    VideoRoundedDown = {29}
    FftDepth = 2
    ImageDepth = 2
    Kinds <- MCKinds
    MaxTurns = 3
    MaxFrames = 2
    Configs <- MCConfigs
    PolarTurns = 9
    MaxReconnects = 1
    MaxInbox = 1
    MaxFactor = 2
    SweepWrap = 5
    TickWrap = 64
    TurnTicks = 30
    FirstTicks = 36
    Angles = {0, 1}
    PolarRoundedDown = {3}
    MaxLost = 2
    MaxUnopened = 2
    Subscribers = {"platform", "recorder", "detector"}
    LaunchFiles = {"view", "navigation", "video", "ros1"}
    RangeRes = 2
    GridSizes = {3, 10}
CONSTRAINT SubscriberBound
INVARIANTS
    RowsAsReceived
    RowsInside
    RotationPublished
    WhatIsSetTakesEffect
    VideoOfRotations
    ImagesAsReceived
    FileRunsOn
    WhatEndsPlatform
CHECK_DEADLOCK FALSE
