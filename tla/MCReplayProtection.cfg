SPECIFICATION ReplaySpec
CONSTANTS
    BufferSize <- MCBufferSize
    HighBit <- MCHighBit
INVARIANTS
    AtMostOnce
    ReplayInv
PROPERTIES
    ImplementsWindow
