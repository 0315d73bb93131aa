----------------------------- MODULE SystemBus ------------------------------
(***************************************************************************)
(* rv_systembus as riscv_test_run uses it: devices are added first, and    *)
(* once the memory is in the map the reference stores, reserves and        *)
(* updates it.  Accesses do not change the map.  The range memory is       *)
(* given, 2 GB, is longer than the memory, 128 MB: an access in between    *)
(* is found by the bus and refused by mmio_mem.                            *)
(***************************************************************************)
EXTENDS DeviceMap, LrSc

CONSTANTS
    MemStart,     \* where the range of memory starts
    RangeLength   \* and its length

AccessSizes == StoreSizes \cup AtomicSizes

ASSUME BusAssumption ==
    /\ AccessSizes \subseteq Sizes
    /\ MemStart \in Nat /\ RangeLength \in Nat
    /\ MemStart % RangeLength = 0 /\ Space % RangeLength = 0
    /\ MemSize < RangeLength
    /\ \A n \in AccessSizes : n < RangeLength

BusVars == <<devices, vars>>

\* The image in memory; stores lead to every other.
Image == [c \in Cell |-> CHOOSE b \in Byte : TRUE]

BusInit == Init /\ LrScInit /\ mem = Image

\* Nothing has been reserved or stored yet.
Untouched == mem = Image /\ lr.size = 0

\* The key of memory in the map.
MemoryRange == [start |-> MemStart, end |-> MemStart + RangeLength]

\* The map of the reference.  LrSc counts addresses from the start of the range.
MemoryOnly == devices = {MemoryRange}

BusNext == \/ Next /\ Untouched /\ UNCHANGED vars
           \/ LrScNext /\ MemoryOnly /\ UNCHANGED devices

BusSpec == BusInit /\ [][BusNext]_BusVars
-----------------------------------------------------------------------------
\* pa_read and pa_write find memory and call its do_read or do_write, which checks
\* the offset it is given against its own size.
Serves(a, n) == MemoryRange \in Lookup(a, n) /\ Mapped(a % RangeLength, n)

\* Whatever other devices there are, memory serves an access exactly if all of it lies
\* in the bytes memory has.  What its range has beyond them the bus finds and memory
\* refuses; so it is at the end of the address space, where the end of an access wraps
\* and the bus takes the access for one in the last range (rv_systembus.hpp:36,
\* mmio_mem.hpp:43).
ServedExactly ==
    MemoryRange \in devices =>
        \A a \in Addr, n \in AccessSizes :
            Serves(a, n) <=> MemStart <= a /\ a + n <= MemStart + MemSize
=============================================================================
