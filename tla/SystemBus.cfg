SPECIFICATION BusSpec
CONSTANTS
    Space = 18
    Lengths = {2, 3, 4, 6, 9}
    Sizes = {1, 2, 4}
    Byte = {0, 1}
    MemSize = 4
    PaSpace = 6
    MemStart = 6
    RangeLength = 6
    StoreSizes = {1, 2, 4}
    AtomicSizes = {1, 2}
INVARIANT DevicesTypeOK
INVARIANT Disjoint
INVARIANT LookupExact
INVARIANT OffsetIsDistance
INVARIANT LrScTypeOK
INVARIANT ReservationIntact
INVARIANT ServedExactly
