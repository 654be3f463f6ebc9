SPECIFICATION FairSpec
CONSTANTS
    e1 = e1
    e2 = e2
    Ends <- TwoEnds
    MaxDescriptor = 2
    Ports <- OnePort
    NoEnd = NoEnd
    NoCall = NoCall
    MaxWaiting = 2
    MaxArrivals = 2
INVARIANTS
    SocketsOwned
    LiveObjectsReady
PROPERTIES
    ArrivedIsRead
