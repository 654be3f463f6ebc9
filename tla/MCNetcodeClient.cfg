SPECIFICATION FairSpec
CONSTANTS
    s1 = s1
    s2 = s2
    t1 = t1
    t2 = t2
    t3 = t3
    NoServer = NoServer
    NoToken = NoToken
    Servers <- MCServers
    Tokens <- MCTokens
    InvalidTokens <- MCInvalid
    TokenServers <- MCTokenServers
    TokenTimeout <- OneSecond
    TokenLifetime <- Mixed
    QueueSize = 1
    SendInterval = 1
    TicksPerSecond = 2
    MaxGap = 3
    MaxTime = 17
    Horizon = 6
INVARIANTS
    TypeOK
    ConnectedMeansAnswered
    ChallengeOfCurrentServer
    DisconnectNeverLeftOver
    EndedMeansClean
    LifetimeBoundsConnecting
PROPERTIES
    SilenceEndsConnection
