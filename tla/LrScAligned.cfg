SPECIFICATION LrScSpec
CONSTANTS
    Byte = {0, 1}
    MemSize = 4
    PaSpace = 6
    StoreSizes = {1, 2, 4}
    AtomicSizes = {1, 2}
INVARIANT ReservationAligned
