SPECIFICATION Spec
CONSTANTS
    a1 = a1
    a2 = a2
    a3 = a3
    a4 = a4
    k1 = k1
    none = none
    NoKey = none
    NoAddress = noaddr
    Addresses <- MCAddresses
    Keys <- MCKeys
    Timeouts <- MCTimeouts
    MaxMappings = 3
    TicksPerSecond = 1
    MaxGap = 2
    MaxTime = 3
SYMMETRY MCSymmetry
INVARIANTS
    NumCoversEntries
    HeldIndexValid
PROPERTIES
    ImplementsStore
