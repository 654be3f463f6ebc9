SPECIFICATION FairSpec
VIEW WithoutTokenHistory
CONSTANTS
    a1 = a1
    a2 = a2
    a3 = a3
    t1 = t1
    t2 = t2
    c1 = c1
    c2 = c2
    NoAddress = NoAddress
    NoKey = NoKey
    NoId = NoId
    Addresses <- MCAddresses
    Tokens <- MCTokens
    TokenId <- MCTokenId
    Uses <- MCUses
    MaxClients = 2
    MaxEntries = 2
    Timeout = 1
    ChannelSize = 2
    QueueSize = 1
    SendInterval = 0
    MaxGap = 1
    MaxTime = 3
    MaxBurst = 1
    Horizon = 1
INVARIANTS
    
    MappingBacksClient
    PayloadFromOccupant
PROPERTIES
    SilentClientsDropped
