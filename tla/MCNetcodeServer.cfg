SPECIFICATION Spec
CONSTANTS
    a1 = a1
    a2 = a2
    a3 = a3
    t1 = t1
    t2 = t2
    t3 = t3
    c1 = c1
    c2 = c2
    local = local
    NoAddress = NoAddress
    NoKey = NoKey
    NoId = NoId
    Addresses <- ThreeAddresses
    Tokens <- ThreeTokens
    TokenId <- SharedId
    TokenTimeout <- OneSecond
    TokenExpire <- FirstExpires
    TokensForServer <- ThreeTokens
    LoopbackIds <- NoLocal
    MaxMappings = 2
    TicksPerSecond = 2
    MaxClients = 2
    MaxTokenEntries = 3
    QueueSize = 0
    SendInterval = 1
    StopWithLoopback = FALSE
    MaxGap = 1
    MaxTime = 3
    ReceiveHorizon = 3
    MaxStarts = 1
SYMMETRY AddressSymmetry
INVARIANTS
    RemoteClientsDistinct
    MappingBacksClient
    TokenBoundToAddress
PROPERTIES
    ChallengedCanRespond
