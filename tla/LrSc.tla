-------------------------------- MODULE LrSc --------------------------------
(***************************************************************************)
(* Load-reserved, store-conditional and the atomic operations of the       *)
(* reference: pa_write, pa_lr, pa_sc and pa_amo_op of rv_systembus, as     *)
(* rv_core calls them through rv_priv.  There is one hart, so lr_hart is   *)
(* left out.  Memory has bytes; the values written are any values, the     *)
(* result of an atomic operation included.                                 *)
(***************************************************************************)
EXTENDS Integers

CONSTANTS
    Byte,         \* the values of a byte
    MemSize,      \* the bytes of memory, from address 0 on
    PaSpace,      \* the addresses, of which only the first MemSize are mapped
    StoreSizes,   \* the sizes of stores
    AtomicSizes   \* the sizes of lr, sc and atomic operations (4 and 8)

ASSUME LrScAssumption ==
    /\ Byte # {}
    /\ MemSize \in Nat \ {0} /\ PaSpace \in Nat /\ MemSize <= PaSpace
    /\ StoreSizes \cup AtomicSizes \subseteq Nat \ {0}

Pa   == 0..(PaSpace - 1)
Cell   == 0..(MemSize - 1)

VARIABLES
    mem,      \* memory
    lr,       \* lr_valid, lr_pa and lr_size
    \* history, not in the code:
    seen,     \* memory as it was when the reservation was made
    partly    \* a write has changed part of the reservation since

vars == <<mem, lr, seen, partly>>

LrScTypeOK ==
    /\ mem \in [Cell -> Byte]
    /\ lr \in [valid : BOOLEAN, pa : Pa, size : AtomicSizes \cup {0}]
    /\ seen \in [Cell -> Byte]
    /\ partly \in BOOLEAN

\* lr_pa and lr_size have no initial value, and none is used while lr_valid is false.
LrScInit == /\ mem \in [Cell -> Byte]
        /\ lr = [valid |-> FALSE, pa |-> 0, size |-> 0]
        /\ seen = mem
        /\ partly = FALSE
-----------------------------------------------------------------------------
\* Mutant: only the first byte is looked at.
MappedFirst(pa, size) == pa < MemSize

\* mmio_mem's own check.
Mapped(pa, size) == pa + size <= MemSize

\* The bytes of an access.
Bytes(pa, size) == pa..(pa + size - 1)

\* Some values have been written to the bytes of an access, if they are mapped.
Wrote(pa, size) ==
    /\ mem' \in [Cell -> Byte]
    /\ \A c \in Cell : mem'[c] # mem[c] => Mapped(pa, size) /\ c \in Bytes(pa, size)

\* Mutant: stores do not touch the reservation.
HitsNever(pa, size) == FALSE

\* pa_write invalidates the reservation if it covers size bytes from lr_pa on,
\* which comes down to starting where the reservation starts.
Hits(pa, size) == pa <= lr.pa /\ lr.pa + size <= pa + size

\* A write that overlaps the reservation but starts elsewhere.
Misses(pa, size) == pa # lr.pa /\ Bytes(pa, size) \cap Bytes(lr.pa, lr.size) # {}

PaWrite(pa, size) ==
    /\ Wrote(pa, size)
    /\ lr' = [lr EXCEPT !.valid = @ /\ ~Hits(pa, size)]
    /\ partly' = (partly \/ Misses(pa, size))
    /\ UNCHANGED seen

\* Mutant: the reservation is kept by its end.
LrByEnd(pa, size) ==
    /\ lr' = [valid |-> TRUE, pa |-> pa + size, size |-> size]
    /\ seen' = mem
    /\ partly' = FALSE
    /\ UNCHANGED mem

\* The reservation is made before the read, which may fail.
Lr(pa, size) ==
    /\ lr' = [valid |-> TRUE, pa |-> pa, size |-> size]
    /\ seen' = mem
    /\ partly' = FALSE
    /\ UNCHANGED mem

\* sc writes where, and with the size with which, the last lr reserved.
Granted(pa, size) == lr.valid /\ lr.pa = pa /\ lr.size = size

ScGranted(pa, size) ==
    /\ Granted(pa, size)
    /\ Wrote(pa, size)
    /\ lr' = [lr EXCEPT !.valid = FALSE]
    /\ UNCHANGED <<seen, partly>>

ScRefused(pa, size) ==
    /\ ~Granted(pa, size)
    /\ lr' = [lr EXCEPT !.valid = FALSE]
    /\ UNCHANGED <<mem, seen, partly>>

\* A store is aligned, rv_core sees to that.
Store(pa, size) == pa % size = 0 /\ PaWrite(pa, size)

\* Reads and, if that succeeds, writes.
Amo(pa, size) == IF Mapped(pa, size) THEN PaWrite(pa, size) ELSE UNCHANGED vars

LrScNext ==
    \E pa \in Pa :
        \/ \E size \in StoreSizes : Store(pa, size)
        \/ \E size \in AtomicSizes : \/ Lr(pa, size)
                                     \/ ScGranted(pa, size)
                                     \/ ScRefused(pa, size)
                                     \/ Amo(pa, size)

LrScSpec == LrScInit /\ [][LrScNext]_vars
-----------------------------------------------------------------------------
\* A store-conditional is granted only over the very bytes its load-reserved
\* read, unless a write that started at another address has changed some of them:
\* such a write does not invalidate the reservation (rv_systembus.hpp:56).
ReservationIntact ==
    lr.valid /\ ~partly =>
        \A c \in Cell : c \in Bytes(lr.pa, lr.size) => mem[c] = seen[c]

\* "check address alignment in the core and raise address misalign exception"
\* (rv_systembus.hpp:73): a reservation is aligned.
ReservationAligned == lr.valid => lr.pa % lr.size = 0
=============================================================================
