SPECIFICATION FairSpec
CONSTANTS
    s1 = s1
    s2 = s2
    NoServer = NoServer
    Servers <- MCServers
    TokenServers <- MCTokenServers
    TimeoutSeconds = 1
    TimeoutFactor = 2
    TokenLifetime = 5
    ChannelSize = 1
    QueueSize = 1
    SendInterval = 1
    MaxGap = 2
    MaxTime = 12
    MaxBurst = 1
    Horizon = 4
INVARIANTS
    ChallengeOfCurrentServer
    DisconnectNeverLeftOver
    EndedMeansClosed
    LifetimeBoundsConnecting
PROPERTIES
    SilenceEndsConnection
    ClosedReceiverEnds
