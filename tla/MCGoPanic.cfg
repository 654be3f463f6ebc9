SPECIFICATION Spec
CONSTANTS
    a1 = a1
    a2 = a2
    a3 = a3
    t1 = t1
    t2 = t2
    c1 = c1
    c2 = c2
    NoAddress = NoAddress
    NoKey = NoKey
    NoId = NoId
    Addresses <- MCAddresses
    Tokens <- MCTokens
    TokenId <- MCTokenId
    Uses <- MCUses
    MaxClients = 2
    MaxEntries = 2
    Timeout = 2
    ChannelSize = 1
    QueueSize = 1
    SendInterval = 1
    MaxGap = 1
    MaxTime = 4
    MaxBurst = 1
    Horizon = 1
INVARIANT
    NeverPanics
