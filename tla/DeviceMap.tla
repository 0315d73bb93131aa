----------------------------- MODULE DeviceMap ------------------------------
(***************************************************************************)
(* The address map of the two buses of the simulator: rv_systembus, which  *)
(* the reference uses, and nscscc_sram_xbar, which the CPU uses, keep the  *)
(* ranges of their devices in a std::map ordered by <<start, end>>.  Both  *)
(* look only at the neighbours of a range in that order, when a device is  *)
(* added as well as when an address is looked up.                          *)
(*                                                                         *)
(* Ranges do not reach the end of the address space, where start + length  *)
(* would wrap (riscv_test_run maps the second 2 GB of 2^64 bytes); the end *)
(* of an access may.  The byte mode that is part of the keys of the xbar   *)
(* never decides, as equal ranges overlap; its do_read looks up one byte.  *)
(***************************************************************************)
EXTENDS Integers

CONSTANTS
    Space,    \* the number of addresses, 2^64
    Lengths,  \* the lengths of the ranges devices are added with
    Sizes     \* the sizes of accesses

ASSUME SpaceAssumption == /\ Space \in Nat
                          /\ Lengths \subseteq Nat \ {0}
                          /\ Sizes \subseteq Nat \ {0}

Addr == 0..(Space - 1)

VARIABLE devices   \* the keys of the map

Ranges == [start : Addr, end : Addr]

\* The keys of the map are ranges with at least one address.
DevicesTypeOK == devices \subseteq Ranges /\ \A d \in devices : d.start < d.end

Init == devices = {}
-----------------------------------------------------------------------------
\* std::pair's operator <.
Less(r, s) == r.start < s.start \/ (r.start = s.start /\ r.end < s.end)

\* The element upper_bound(r) points at, as a set that is empty for end().
UpperBound(r) == {d \in devices : /\ Less(r, d)
                                  /\ \A e \in devices : Less(r, e) => ~Less(e, d)}

\* The element before upper_bound(r), as a set that is empty for begin().
Before(r) == {d \in devices : /\ ~Less(r, d)
                              /\ \A e \in devices : ~Less(r, e) => ~Less(d, e)}

\* l_max < r_min.
Overlap(r, s) == /\ r.start < s.end
                 /\ r.start < r.end
                 /\ s.start < r.end
                 /\ s.start < s.end

\* Mutant: only the element before the new one is checked.
AcceptsBeforeOnly(r, length) ==
    /\ r.start % length = 0
    /\ \A d \in Before(r) : ~Overlap(d, r)

\* Mutant: the start need not be a multiple of the length.
AcceptsUnaligned(r, length) ==
    \A d \in UpperBound(r) \cup Before(r) : ~Overlap(d, r)

\* The checks of add_dev.
Accepts(r, length) ==
    /\ r.start % length = 0
    /\ \A d \in UpperBound(r) \cup Before(r) : ~Overlap(d, r)

\* Mutant: the key holds the length in place of the end.
AddDevLength(start, length) ==
    LET r == [start |-> start, end |-> length]
    IN  devices' = IF Accepts(r, length) THEN devices \cup {r} ELSE devices

AddDev(start, length) ==
    LET r == [start |-> start, end |-> start + length]
    IN  devices' = IF Accepts(r, length) THEN devices \cup {r} ELSE devices

Next == \E start \in Addr, length \in Lengths :
            start + length \in Addr /\ AddDev(start, length)

Spec == Init /\ [][Next]_devices
-----------------------------------------------------------------------------
\* Mutant: the key looked up has the smallest end instead of the largest.
LookupLowEnd(addr, size) ==
    {d \in Before([start |-> addr, end |-> 0]) :
        d.start <= addr /\ (addr + size) % Space <= d.end}

\* The range pa_read and pa_write find for an access, if any; no end is larger
\* than Space (ULONG_MAX), and end_addr wraps.
Lookup(addr, size) ==
    {d \in Before([start |-> addr, end |-> Space]) :
        d.start <= addr /\ (addr + size) % Space <= d.end}
-----------------------------------------------------------------------------
\* No address belongs to two devices, whatever was added in whatever order
\* (rv_systembus.hpp:155-170, nscscc_sram_xbar.hpp:28-44).
Disjoint == \A d, e \in devices : d # e => ~Overlap(d, e)

\* An access that lies in the range of a device finds it, and one that does not
\* and does not wrap finds none.
LookupExact ==
    \A a \in Addr, n \in Sizes :
        a + n < Space => Lookup(a, n) = {d \in devices : d.start <= a /\ a + n <= d.end}

\* The offset a device is given, the address modulo the length of the range, is
\* the distance from its start: the reason for the check of start % length.
OffsetIsDistance ==
    \A d \in devices : \A a \in d.start..(d.end - 1) :
        a % (d.end - d.start) = a - d.start
=============================================================================
