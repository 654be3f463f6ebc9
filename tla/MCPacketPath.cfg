SPECIFICATION Spec
CONSTANTS
    ByteValues = 2
    IPv4Bytes = 2
    IPv6Words = 2
    MaxServers = 2
    Unreadable = Unreadable
    BufferSize = 2
    Protocol = Protocol
    NoKey = NoKey
    NoHeader = NoHeader
    NoPacket = NoPacket
    NumEntries = 2
    NumPending = 2
    Blocks <- Eight
    NoEntry = NoEntry
    QueueSize = 2
    Null = Null
    ServerAddresses <- TwoServers
    ClientAddress = ClientAddress
    TokenExpire <- OneToken
    PrivateKey = PrivateKey
    ZeroKey = ZeroKey
    SentTypes = {4, 5}
    Delays = {0}
    MoreDelays = {1}
    MaxReceive = 1
    MaxSends = 3
    MaxAltered = 1
    MaxTime = 1
INVARIANTS
    SingleOwner
    NoDanglingPointer
    DeliveredOnce
    AcceptedWasSent
    AdmittedTokensGenuine
    GoReadsTheSame
PROPERTIES
    ImplementsFifo
