SPECIFICATION Spec
CONSTANTS
    a1 = a1
    a2 = a2
    a3 = a3
    t1 = t1
    t2 = t2
    t3 = t3
    c1 = c1
    c2 = c2
    local = local
    NoAddress = NoAddress
    NoKey = NoKey
    NoId = NoId
    Addresses <- TwoAddresses
    Tokens <- TwoTokens
    TokenId <- DistinctId
    TokenTimeout <- OneSecond
    TokenExpire <- NeverExpire
    TokensForServer <- TwoTokens
    LoopbackIds <- OneLocal
    MaxMappings = 2
    TicksPerSecond = 2
    MaxClients = 2
    MaxTokenEntries = 2
    QueueSize = 0
    SendInterval = 1
    StopWithLoopback = TRUE
    MaxGap = 1
    MaxTime = 1
    ReceiveHorizon = 3
    MaxStarts = 2
INVARIANTS
    FreeSlotWhenNotFull
