-------------------------- MODULE SystemBusProofs ---------------------------
(* Proofs about SystemBus and its two parts, for an address space and a        *)
(* memory of any size, ranges of any lengths and accesses of any sizes, and    *)
(* about the interrupt controller on it, for any number of sources and         *)
(* contexts.                                                                   *)
EXTENDS SystemBus, Plic, WellFoundedInduction, TLAPS

\* A set of naturals that is not empty has a least element.
LEMMA LeastElement ==
    ASSUME NEW T \in SUBSET Nat, T # {}
    PROVE  \E m \in T : \A n \in T : m <= n
<1> DEFINE R == {ss \in Nat \X Nat : ss[1] < ss[2]}
<1>1. IsWellFoundedOn(R, Nat)
  BY NatLessThanWellFounded DEF OpToRel
<1>2. \A n, m \in Nat : n < m => <<n, m>> \in R
  OBVIOUS
<1> HIDE DEF R
<1>3. PICK m \in T : \A n \in T : ~(<<n, m>> \in R)
  BY <1>1, WFMin, Zenon
<1>4. \A n \in T : ~(n < m)
  BY <1>2, <1>3, Zenon
<1>5. \A n \in T : m <= n
  BY <1>4, SMT
<1> QED
  BY <1>5, Zenon

\* A range starts at a multiple of its length.
StartsAligned == \A d \in devices : d.start % (d.end - d.start) = 0

MapInv == DevicesTypeOK /\ Disjoint /\ StartsAligned

\* If some range follows r, upper_bound finds one, and none that follows starts
\* before it.
LEMMA UpperBoundFound ==
    ASSUME MapInv, NEW r \in [start : Int, end : Int], NEW d \in devices, Less(r, d)
    PROVE  \E u \in UpperBound(r) : u.start <= d.start
<1> DEFINE S == {e \in devices : Less(r, e)}
           T == {e.start : e \in S}
<1>1. \A e \in devices : e.start \in Nat /\ e.end \in Nat /\ e.start < e.end
  BY SpaceAssumption DEF MapInv, DevicesTypeOK, Ranges, Addr
<1>2. T \in SUBSET Nat /\ d.start \in T
  BY <1>1
<1>3. PICK m \in T : \A n \in T : m <= n
  BY <1>2, LeastElement, Zenon
<1>4. PICK u \in S : u.start = m
  OBVIOUS
<1>5. ASSUME NEW e \in devices, Less(r, e) PROVE ~Less(e, u)
  <2>1. u.start <= e.start
    BY <1>3, <1>4, <1>5
  <2>2. e.start = u.start => e = u
    BY <1>1, <1>4 DEF MapInv, Disjoint, Overlap
  <2> QED
    BY <1>1, <2>1, <2>2 DEF Less
<1>6. u \in UpperBound(r)
  BY <1>5 DEF UpperBound
<1>7. u.start <= d.start
  BY <1>2, <1>3, <1>4
<1> QED
  BY <1>6, <1>7

\* If some range does not follow r, the element before upper_bound does not
\* either, and none of them starts after it.
LEMMA BeforeFound ==
    ASSUME MapInv, NEW r \in [start : Int, end : Int], NEW d \in devices, ~Less(r, d)
    PROVE  \E p \in Before(r) : d.start <= p.start
<1> DEFINE S == {e \in devices : ~Less(r, e)}
           T == {Space - e.start : e \in S}
<1>1. \A e \in devices : /\ e.start \in Nat /\ e.end \in Nat /\ e.start < e.end
                         /\ Space - e.start \in Nat
  BY SpaceAssumption DEF MapInv, DevicesTypeOK, Ranges, Addr
<1>2. T \in SUBSET Nat /\ Space - d.start \in T
  BY <1>1
<1>3. PICK m \in T : \A n \in T : m <= n
  BY <1>2, LeastElement, Zenon
<1>4. PICK p \in S : Space - p.start = m
  OBVIOUS
<1>5. \A e \in S : e.start <= p.start
  <2>1. \A e \in S : Space - p.start <= Space - e.start
    BY <1>3, <1>4
  <2> QED
    BY <1>1, <2>1, SpaceAssumption
<1>6. ASSUME NEW e \in devices, ~Less(r, e) PROVE ~Less(p, e)
  <2>1. e.start <= p.start
    BY <1>5, <1>6
  <2>2. e.start = p.start => e = p
    BY <1>1, <1>4 DEF MapInv, Disjoint, Overlap
  <2> QED
    BY <1>1, <2>1, <2>2 DEF Less
<1>7. p \in Before(r)
  BY <1>6 DEF Before
<1> QED
  BY <1>5, <1>7

\* The check of the two neighbours is enough.
LEMMA NeighboursSuffice ==
    ASSUME MapInv, NEW r \in [start : Int, end : Int], r.start < r.end,
           NEW length, Accepts(r, length), NEW d \in devices
    PROVE  ~Overlap(d, r)
<1>1. \A e \in devices : e.start \in Nat /\ e.end \in Nat /\ e.start < e.end
  BY SpaceAssumption DEF MapInv, DevicesTypeOK, Ranges, Addr
<1>2. \A e \in UpperBound(r) \cup Before(r) : e \in devices /\ ~Overlap(e, r)
  BY DEF Accepts, UpperBound, Before
<1>3. CASE Less(r, d)
  <2>1. PICK u \in UpperBound(r) : u.start <= d.start
    BY <1>3, UpperBoundFound
  <2>2. ~Overlap(u, r) /\ u \in devices /\ Less(r, u)
    BY <1>2 DEF UpperBound
  <2> QED
    BY <1>1, <2>1, <2>2 DEF Overlap, Less
<1>4. CASE ~Less(r, d)
  <2>1. PICK p \in Before(r) : d.start <= p.start
    BY <1>4, BeforeFound
  <2>2. ~Overlap(p, r) /\ p \in devices /\ ~Less(r, p)
    BY <1>2 DEF Before
  <2>3. p # d => ~Overlap(d, p)
    BY <2>2 DEF MapInv, Disjoint
  <2> QED
    BY <1>1, <2>1, <2>2, <2>3 DEF Overlap, Less
<1> QED
  BY <1>3, <1>4

LEMMA NextMapInv == MapInv /\ [Next]_devices => MapInv'
<1> SUFFICES ASSUME MapInv, [Next]_devices PROVE MapInv'
  OBVIOUS
<1>1. ASSUME NEW start \in Addr, NEW length \in Lengths, start + length \in Addr,
             AddDev(start, length)
      PROVE  MapInv'
  <2> DEFINE r == [start |-> start, end |-> start + length]
  <2>1. r \in Ranges /\ r \in [start : Int, end : Int] /\ r.start < r.end
    BY <1>1, SpaceAssumption DEF Ranges, Addr
  <2>2. CASE Accepts(r, length)
    <3>1. devices' = devices \cup {r}
      BY <1>1, <2>2 DEF AddDev
    <3>2. \A d \in devices : ~Overlap(d, r) /\ ~Overlap(r, d)
      BY <2>1, <2>2, NeighboursSuffice DEF Overlap
    <3>3. DevicesTypeOK'
      BY <2>1, <3>1 DEF MapInv, DevicesTypeOK
    <3>4. Disjoint'
      BY <3>1, <3>2 DEF MapInv, Disjoint
    <3>5. StartsAligned'
      <4>1. r.start % (r.end - r.start) = 0
        <5>1. r.start % length = 0
          BY <2>2 DEF Accepts
        <5>2. r.end - r.start = length
          BY <1>1, SpaceAssumption DEF Addr
        <5> HIDE DEF r
        <5> QED
          BY <5>1, <5>2
      <4> HIDE DEF r
      <4> QED
        BY <3>1, <4>1 DEF MapInv, StartsAligned
    <3> QED
      BY <3>3, <3>4, <3>5 DEF MapInv
  <2>3. CASE ~Accepts(r, length)
    BY <1>1, <2>3 DEF AddDev, MapInv, DevicesTypeOK, Disjoint, StartsAligned
  <2> QED
    BY <2>2, <2>3
<1>2. CASE UNCHANGED devices
  BY <1>2 DEF MapInv, DevicesTypeOK, Disjoint, StartsAligned
<1> QED
  BY <1>1, <1>2 DEF Next

LEMMA InitMapInv == Init => MapInv
  BY DEF Init, MapInv, DevicesTypeOK, Disjoint, StartsAligned

\* The ranges in the map have at least one address, and lie in the address space.
THEOREM DevicesTypesCorrect == Spec => []DevicesTypeOK
<1>1. MapInv => DevicesTypeOK
  BY DEF MapInv
<1> QED
  BY <1>1, InitMapInv, NextMapInv, PTL DEF Spec

\* No two devices share an address, in whatever order they are added.
THEOREM DevicesDisjoint == Spec => []Disjoint
<1>1. MapInv => Disjoint
  BY DEF MapInv
<1> QED
  BY <1>1, InitMapInv, NextMapInv, PTL DEF Spec

\* With disjoint ranges, the neighbour before an address is the only candidate.
LEMMA LookupFromMapInv == MapInv => LookupExact
<1> SUFFICES ASSUME MapInv, NEW a \in Addr, NEW n \in Sizes, a + n < Space
             PROVE  Lookup(a, n) = {d \in devices : d.start <= a /\ a + n <= d.end}
  BY DEF LookupExact
<1> DEFINE k == [start |-> a, end |-> Space]
<1>1. n \in Nat /\ n > 0 /\ a \in Nat /\ Space \in Nat
  BY SpaceAssumption DEF Addr
<1>2. (a + n) % Space = a + n
  BY <1>1
<1>3. \A e \in devices : /\ e.start \in Nat /\ e.end \in Nat
                         /\ e.start < e.end /\ e.end < Space
  BY SpaceAssumption DEF MapInv, DevicesTypeOK, Ranges, Addr
<1>4. \A e \in devices : ~Less(k, e) <=> e.start <= a
  BY <1>1, <1>3 DEF Less
<1>5. ASSUME NEW d \in devices, d.start <= a, a + n <= d.end
      PROVE  d \in Before(k)
  <2>1. ASSUME NEW e \in devices, ~Less(k, e), Less(d, e) PROVE FALSE
    <3>1. e # d /\ ~Overlap(d, e)
      BY <1>3, <2>1 DEF Less, MapInv, Disjoint
    <3>2. e.start <= a
      BY <1>4, <2>1
    <3> QED
      BY <1>1, <1>3, <1>5, <2>1, <3>1, <3>2 DEF Less, Overlap
  <2> QED
    BY <1>4, <1>5, <2>1 DEF Before
<1>6. Before(k) \subseteq devices
  BY DEF Before
<1> QED
  BY <1>2, <1>5, <1>6 DEF Lookup

\* The lookup by the neighbour before an address is exact.
THEOREM LookupIsExact == Spec => []LookupExact
  BY LookupFromMapInv, InitMapInv, NextMapInv, PTL DEF Spec

\* From a multiple of n on, less than n further, the remainder is the distance.
LEMMA RemainderIsDistance ==
    ASSUME NEW n \in Nat \ {0}, NEW s \in Nat, s % n = 0, NEW x \in 0..(n - 1)
    PROVE  (s + x) % n = x
  BY SMT

LEMMA OffsetFromMapInv == MapInv => OffsetIsDistance
<1> SUFFICES ASSUME MapInv, NEW d \in devices, NEW a \in d.start..(d.end - 1)
             PROVE  a % (d.end - d.start) = a - d.start
  BY DEF OffsetIsDistance
<1> DEFINE n == d.end - d.start
<1>1. d.start \in Nat /\ d.end \in Nat /\ d.start < d.end
  BY SpaceAssumption DEF MapInv, DevicesTypeOK, Ranges, Addr
<1>2. n \in Nat \ {0} /\ a - d.start \in 0..(n - 1) /\ d.start + (a - d.start) = a
  BY <1>1
<1>3. d.start % n = 0
  BY DEF MapInv, StartsAligned
<1> HIDE DEF n
<1>4. (d.start + (a - d.start)) % n = a - d.start
  BY <1>1, <1>2, <1>3, RemainderIsDistance
<1> QED
  BY <1>2, <1>4 DEF n

\* What a device is given as an offset, the address modulo the length of its range, is
\* the distance from its start, which is why add_dev refuses other starts
\* (rv_systembus.hpp:39, 152).
THEOREM OffsetsAreDistances == Spec => []OffsetIsDistance
  BY OffsetFromMapInv, InitMapInv, NextMapInv, PTL DEF Spec

-----------------------------------------------------------------------------
(* The memory and its reservation. *)

LrScInv == LrScTypeOK /\ ReservationIntact

LEMMA InitLrScInv == LrScInit => LrScInv
<1> SUFFICES ASSUME LrScInit PROVE LrScInv
  OBVIOUS
<1>1. 0 \in Pa
  BY LrScAssumption DEF Pa
<1> QED
  BY <1>1 DEF LrScInit, LrScInv, LrScTypeOK, ReservationIntact

\* A write that neither hits nor misses a valid reservation leaves its bytes alone.
LEMMA PaWriteKeepsInv ==
    ASSUME LrScInv, NEW pa \in Pa, NEW size \in Nat \ {0}, PaWrite(pa, size)
    PROVE  LrScInv'
<1>1. LrScTypeOK'
  <2>1. lr' \in [valid : BOOLEAN, pa : Pa, size : AtomicSizes \cup {0}]
    BY DEF LrScInv, LrScTypeOK, PaWrite
  <2>2. partly' \in BOOLEAN
    BY DEF LrScInv, LrScTypeOK, PaWrite
  <2> QED
    BY <2>1, <2>2 DEF LrScInv, LrScTypeOK, PaWrite, Wrote
<1>2. ASSUME lr'.valid, ~partly', NEW c \in Cell, c \in Bytes(lr'.pa, lr'.size)
      PROVE  mem'[c] = seen'[c]
  <2>1. lr'.pa = lr.pa /\ lr'.size = lr.size /\ lr.valid /\ ~Hits(pa, size)
    BY <1>2 DEF PaWrite, LrScInv, LrScTypeOK
  <2>2. ~partly /\ ~Misses(pa, size) /\ seen' = seen
    BY <1>2 DEF PaWrite
  <2>3. mem[c] = seen[c]
    BY <1>2, <2>1, <2>2 DEF LrScInv, ReservationIntact
  <2>4. pa # lr.pa
    BY <2>1 DEF Hits, Pa
  <2>5. c \notin Bytes(pa, size)
    BY <1>2, <2>1, <2>2, <2>4 DEF Misses
  <2> QED
    BY <2>2, <2>3, <2>5 DEF PaWrite, Wrote
<1> QED
  BY <1>1, <1>2 DEF LrScInv, ReservationIntact

LEMMA NextLrScInv == LrScInv /\ [LrScNext]_vars => LrScInv'
<1> SUFFICES ASSUME LrScInv, [LrScNext]_vars PROVE LrScInv'
  OBVIOUS
<1>1. ASSUME NEW pa \in Pa, NEW size \in StoreSizes, Store(pa, size) PROVE LrScInv'
  BY <1>1, PaWriteKeepsInv, LrScAssumption DEF Store
<1>2. ASSUME NEW pa \in Pa, NEW size \in AtomicSizes, Lr(pa, size) PROVE LrScInv'
  BY <1>2 DEF Lr, LrScInv, LrScTypeOK, ReservationIntact
<1>3. ASSUME NEW pa \in Pa, NEW size \in AtomicSizes,
             ScGranted(pa, size) \/ ScRefused(pa, size)
      PROVE  LrScInv'
  <2>1. lr' = [lr EXCEPT !.valid = FALSE] /\ UNCHANGED <<seen, partly>>
        /\ mem' \in [Cell -> Byte]
    BY <1>3 DEF ScGranted, ScRefused, Wrote, LrScInv, LrScTypeOK
  <2> QED
    BY <2>1 DEF LrScInv, LrScTypeOK, ReservationIntact
<1>4. CASE UNCHANGED vars
  BY <1>4 DEF vars, LrScInv, LrScTypeOK, ReservationIntact
<1>5. ASSUME NEW pa \in Pa, NEW size \in AtomicSizes, Amo(pa, size) PROVE LrScInv'
  BY <1>4, <1>5, PaWriteKeepsInv, LrScAssumption DEF Amo
<1> QED
  BY <1>1, <1>2, <1>3, <1>4, <1>5 DEF LrScNext

\* A granted store-conditional finds its bytes as its load-reserved left them,
\* unless a write from another starting address has changed part of them.
THEOREM ReservationStaysIntact == LrScSpec => []ReservationIntact
<1>1. LrScInv => ReservationIntact
  BY DEF LrScInv
<1> QED
  BY <1>1, InitLrScInv, NextLrScInv, PTL DEF LrScSpec
-----------------------------------------------------------------------------
(* The bus. *)

BusInv == MapInv /\ LrScInv

LEMMA BusInitInv == BusInit => BusInv
<1>1. Image \in [Cell -> Byte]
  BY LrScAssumption DEF Image
<1> QED
  BY InitMapInv, InitLrScInv DEF BusInit, BusInv

LEMMA BusNextInv == BusInv /\ [BusNext]_BusVars => BusInv'
<1> SUFFICES ASSUME BusInv, [BusNext]_BusVars PROVE BusInv'
  OBVIOUS
<1>1. [Next]_devices /\ [LrScNext]_vars
  BY DEF BusNext, BusVars
<1> QED
  BY <1>1, NextMapInv, NextLrScInv DEF BusInv

\* Ranges are not empty and lie in the address space, memory and reservation keep
\* their types.
THEOREM BusTypesCorrect == BusSpec => [](DevicesTypeOK /\ LrScTypeOK)
<1>1. BusInv => DevicesTypeOK /\ LrScTypeOK
  BY DEF BusInv, MapInv, LrScInv
<1> QED
  BY <1>1, BusInitInv, BusNextInv, PTL DEF BusSpec

\* What holds of the parts holds of the bus.
THEOREM BusIsSafe == BusSpec => [](Disjoint /\ LookupExact /\ OffsetIsDistance /\ ReservationIntact)
<1>1. BusInv => Disjoint /\ LookupExact /\ OffsetIsDistance /\ ReservationIntact
  BY LookupFromMapInv, OffsetFromMapInv DEF BusInv, MapInv, LrScInv
<1> QED
  BY <1>1, BusInitInv, BusNextInv, PTL DEF BusSpec

\* Less than n before a multiple of n, the remainder is what is left of n.
LEMMA RemainderBelow ==
    ASSUME NEW n \in Nat \ {0}, NEW s \in Nat, s % n = 0, NEW k \in 1..(n - 1), k <= s
    PROVE  (s - k) % n = n - k
<1> DEFINE q == s \div n
<1>0. q \in Nat /\ s = q * n
  BY SMT
<1>1. (s - n) % n = 0 /\ s - n >= 0
  <2> HIDE DEF q
  <2>1. q >= 1
    <3> SUFFICES ASSUME q = 0 PROVE FALSE
      BY <1>0
    <3> QED BY <1>0
  <2>2. PICK p \in Nat : q = p + 1
    BY <1>0, <2>1
  <2>3. s = p * n + n
    BY <1>0, <2>2, SMT
  <2>4. p * n \in Nat /\ s - n = p * n
    BY <2>3, SMT
  <2>5. (p * n) % n = 0
    BY SMT
  <2> QED BY <2>4, <2>5
<1>2. s - n \in Nat /\ n - k \in 0..(n - 1)
  BY <1>1
<1>3. ((s - n) + (n - k)) % n = n - k
  BY <1>1, <1>2, RemainderIsDistance
<1>4. (s - n) + (n - k) = s - k
  BY SMT
<1> QED
  BY <1>3, <1>4

\* Memory serves an access exactly if it lies in the bytes memory has: below the end of
\* the address space by the look-up and the offset; what wraps there the bus lets through,
\* but with an offset too large, as memory is smaller than its range (BusAssumption;
\* rv_systembus.hpp:36, mmio_mem.hpp:43).
THEOREM MemoryServesItsBytes == BusSpec => []ServedExactly
<1>1. BusInv => ServedExactly
  <2> SUFFICES ASSUME BusInv, MemoryRange \in devices,
                      NEW a \in Addr, NEW n \in AccessSizes
               PROVE  Serves(a, n) <=> MemStart <= a /\ a + n <= MemStart + MemSize
    BY DEF ServedExactly
  <2>1. /\ a \in Nat /\ a < Space /\ Space \in Nat
        /\ n \in Nat \ {0} /\ n < RangeLength /\ n \in Sizes
        /\ MemStart \in Nat /\ RangeLength \in Nat \ {0}
        /\ MemSize \in Nat /\ MemSize < RangeLength
    BY LrScAssumption, SpaceAssumption, BusAssumption DEF Addr, AccessSizes
  <2>2. MemStart + RangeLength < Space
    BY <2>1 DEF BusInv, MapInv, DevicesTypeOK, Ranges, Addr, MemoryRange
  <2>3. CASE a + n < Space
    <3>1. MemoryRange \in Lookup(a, n)
             <=> MemStart <= a /\ a + n <= MemStart + RangeLength
      BY <2>1, <2>3, LookupFromMapInv DEF BusInv, LookupExact, MemoryRange
    <3>2. CASE MemStart <= a /\ a + n <= MemStart + RangeLength
      <4>1. a - MemStart \in 0..(RangeLength - 1) /\ MemStart + (a - MemStart) = a
        BY <2>1, <3>2
      <4>2. MemStart % RangeLength = 0
        BY BusAssumption
      <4>3. (MemStart + (a - MemStart)) % RangeLength = a - MemStart
        BY <2>1, <4>1, <4>2, RemainderIsDistance
      <4>4. a % RangeLength = a - MemStart
        BY <4>1, <4>3
      <4> QED BY <2>1, <3>1, <3>2, <4>4 DEF Serves, Mapped
    <3> QED BY <2>1, <3>1, <3>2 DEF Serves
  <2>4. CASE a + n >= Space
    <3>1. Space - a \in 1..(RangeLength - 1) /\ Space - a <= Space /\ Space - (Space - a) = a
      BY <2>1, <2>4
    <3>2. a % RangeLength = RangeLength - (Space - a)
      BY <2>1, <3>1, BusAssumption, RemainderBelow
    <3>3. RangeLength - (Space - a) + n > MemSize
      BY <2>1, <2>4
    <3>4. ~Mapped(a % RangeLength, n)
      BY <2>1, <3>2, <3>3 DEF Mapped
    <3> QED BY <2>1, <2>2, <2>4, <3>4 DEF Serves
  <2> QED BY <2>1, <2>3, <2>4
<1> QED
  BY <1>1, BusInitInv, BusNextInv, PTL DEF BusSpec
-----------------------------------------------------------------------------
(* The interrupt controller. *)

\* The candidates an interrupt comes from.
Eligible(c) == {i \in Candidates(c) : priority[i] > 0}

Best(i, S) == \A j \in S : \/ priority[i] > priority[j]
                           \/ priority[i] = priority[j] /\ i <= j

LEMMA PriorityType ==
    ASSUME PlicTypeOK, NEW i \in Source
    PROVE  i \in Nat \ {0} /\ priority[i] \in 0..MaxPriority
<1>1. i \in 0..NrSource /\ i \in Nat \ {0}
  BY PlicAssumption DEF Source
<1>2. priority[i] \in Priorities \cup {0}
  BY <1>1 DEF PlicTypeOK
<1>3. Priorities \cup {0} \subseteq 0..MaxPriority
  BY PlicAssumption
<1> QED
  BY <1>1, <1>2, <1>3

\* Among some sources there is a first one of the highest priority.
LEMMA BestExists ==
    ASSUME PlicTypeOK, NEW S \in SUBSET Source, S # {}
    PROVE  \E i \in S : Best(i, S)
<1>1. \A i \in S : priority[i] \in 0..MaxPriority /\ i \in Nat
  BY PriorityType
<1> DEFINE T == {MaxPriority - priority[i] : i \in S}
<1>2. T \in SUBSET Nat /\ T # {}
  BY <1>1, PlicAssumption
<1>3. PICK m \in T : \A n \in T : m <= n
  BY <1>2, LeastElement, Zenon
<1>4. PICK k \in S : m = MaxPriority - priority[k]
  BY <1>3
<1>5. \A j \in S : priority[j] <= priority[k]
  <2>1. \A j \in S : MaxPriority - priority[k] <= MaxPriority - priority[j]
    BY <1>3, <1>4
  <2> QED
    BY <1>1, <2>1, PlicAssumption
<1> DEFINE First == {i \in S : priority[i] = priority[k]}
<1>6. First \in SUBSET Nat /\ First # {}
  BY <1>1, <1>4
<1>7. PICK i \in First : \A n \in First : i <= n
  BY <1>6, LeastElement, Zenon
<1>8. Best(i, S)
  BY <1>1, <1>5, <1>7 DEF Best
<1> QED
  BY <1>7, <1>8

\* What get_int finds: a candidate, and none better, if there is any.
LEMMA FoundIsBest ==
    ASSUME PlicTypeOK, NEW c \in Context
    PROVE  /\ Eligible(c) = {} => Found(c) = 0
           /\ Eligible(c) # {} => Found(c) \in Eligible(c) /\ Best(Found(c), Eligible(c))
<1>1. Found(c) = IF Eligible(c) = {} THEN 0
                 ELSE CHOOSE i \in Eligible(c) : Best(i, Eligible(c))
  BY DEF Found, Eligible, Best
<1>2. Eligible(c) \in SUBSET Source
  BY DEF Eligible, Candidates
<1>3. Eligible(c) # {} => \E i \in Eligible(c) : Best(i, Eligible(c))
  BY <1>2, BestExists
<1> QED
  BY <1>1, <1>3

LEMMA FoundType ==
    ASSUME PlicTypeOK, NEW c \in Context
    PROVE  Found(c) \in 0..NrSource /\ (Found(c) # 0 => Found(c) \in Candidates(c))
<1>1. Eligible(c) \subseteq Candidates(c) /\ Candidates(c) \subseteq 1..NrSource
  BY DEF Eligible, Candidates, Source
<1>2. 0 \in 0..NrSource /\ 1..NrSource \subseteq 0..NrSource
  BY PlicAssumption
<1> QED
  BY <1>1, <1>2, FoundIsBest

\* A flag that is set counts as set.
LEMMA SetIsShifted ==
    ASSUME NEW flags \in SUBSET Int, NEW i \in flags
    PROVE  Shifted(flags, i)
  BY DEF Shifted

-----------------------------------------------------------------------------
PlicInv == PlicTypeOK /\ HandedOutOnce

LEMMA PlicInitInv == PlicInit => PlicInv
<1> SUFFICES ASSUME PlicInit PROVE PlicInv
  OBVIOUS
<1>1. 0 \in 0..NrSource
  BY PlicAssumption
<1>2. priority \in [0..NrSource -> Priorities \cup {0}] /\ priority[0] = 0
  BY <1>1 DEF PlicInit
<1>3. threshold \in [Context -> Thresholds \cup {0}]
  BY DEF PlicInit
<1>4. enable \in [Context -> SUBSET Source] /\ claim \in [Context -> 0..NrSource]
  BY <1>1 DEF PlicInit
<1> QED
  BY <1>2, <1>3, <1>4 DEF PlicInit, PlicInv, PlicTypeOK, HandedOutOnce

\* A look at the lines replaces every claim by a source that is not handed out.
LEMMA GetIntsKeepsInv ==
    ASSUME PlicInv, GetInts
    PROVE  PlicInv'
<1>1. \A c \in Context : claim'[c] = Found(c) /\ Found(c) \in 0..NrSource
  BY FoundType DEF GetInts, PlicInv
<1>2. PlicTypeOK'
  <2>1. claim' \in [Context -> 0..NrSource]
    BY <1>1 DEF GetInts
  <2> QED
    BY <2>1 DEF GetInts, PlicInv, PlicTypeOK
<1>3. ASSUME NEW c \in Context, claim'[c] # 0
      PROVE  claim'[c] \notin claimed'
  <2>1. Found(c) \in Candidates(c)
    BY <1>1, <1>3, FoundType DEF PlicInv
  <2>2. ~Shifted(claimed, Found(c)) /\ claimed \in SUBSET Int
    BY <2>1 DEF Candidates, PlicInv, PlicTypeOK
  <2>3. Found(c) \notin claimed
    BY <2>2, SetIsShifted
  <2> QED
    BY <1>1, <2>3 DEF GetInts
<1> QED
  BY <1>2, <1>3 DEF PlicInv, HandedOutOnce

\* After an access the lines have to be looked at again.
LEMMA CoreStepKeepsInv ==
    ASSUME PlicInv, CoreStep
    PROVE  PlicInv'
<1>1. looked' = FALSE
  BY DEF CoreStep
<1> SUFFICES PlicTypeOK'
  BY <1>1 DEF PlicInv, HandedOutOnce
<1>2. ASSUME NEW c \in Context, ReadClaim(c) PROVE PlicTypeOK'
  BY <1>1, <1>2 DEF ReadClaim, PlicInv, PlicTypeOK
<1>3. ASSUME NEW s \in 0..NrSource, Complete(s) PROVE PlicTypeOK'
  BY <1>1, <1>3 DEF Complete, PlicInv, PlicTypeOK
<1>4. ASSUME NEW s \in 0..NrSource, NEW p \in Priorities, WritePriority(s, p) PROVE PlicTypeOK'
  <2>1. priority' \in [0..NrSource -> Priorities \cup {0}] /\ priority'[0] = 0
    <3>1. priority \in [0..NrSource -> Priorities \cup {0}] /\ priority[0] = 0
      BY DEF PlicInv, PlicTypeOK
    <3>2. s # 0 /\ priority' = [priority EXCEPT ![s] = p] /\ 0 \in 0..NrSource
      BY <1>4, PlicAssumption DEF WritePriority
    <3> QED
      BY <3>1, <3>2
  <2> QED
    BY <1>1, <1>4, <2>1 DEF WritePriority, PlicInv, PlicTypeOK
<1>5. ASSUME NEW c \in Context, NEW flags \in SUBSET Source, WriteEnable(c, flags)
      PROVE  PlicTypeOK'
  BY <1>1, <1>5 DEF WriteEnable, PlicInv, PlicTypeOK
<1>6. ASSUME NEW c \in Context, NEW t \in Thresholds, WriteThreshold(c, t) PROVE PlicTypeOK'
  BY <1>1, <1>6 DEF WriteThreshold, PlicInv, PlicTypeOK
<1>7. CASE NoChange
  BY <1>1, <1>7 DEF NoChange, PlicInv, PlicTypeOK
<1> QED
  BY <1>2, <1>3, <1>4, <1>5, <1>6, <1>7 DEF CoreStep

LEMMA PlicNextInv == PlicInv /\ [PlicNext]_plicVars => PlicInv'
<1> SUFFICES ASSUME PlicInv, [PlicNext]_plicVars PROVE PlicInv'
  OBVIOUS
<1>1. ASSUME NEW s \in Source, NEW fired \in BOOLEAN, UpdateExt(s, fired) PROVE PlicInv'
  BY <1>1 DEF UpdateExt, PlicInv, PlicTypeOK, HandedOutOnce
<1>2. CASE UNCHANGED plicVars
  BY <1>2 DEF plicVars, PlicInv, PlicTypeOK, HandedOutOnce
<1> QED
  BY <1>1, <1>2, GetIntsKeepsInv, CoreStepKeepsInv DEF PlicNext

\* The registers have their types, and source 0 never gets a priority.
THEOREM PlicTypeCorrect == PlicSpec => []PlicTypeOK
<1>1. PlicInv => PlicTypeOK
  BY DEF PlicInv
<1> QED
  BY <1>1, PlicInitInv, PlicNextInv, PTL DEF PlicSpec

\* No source is handed out twice before it is completed, by whatever contexts.
THEOREM NoneHandedOutTwice == PlicSpec => []HandedOutOnce
<1>1. PlicInv => HandedOutOnce
  BY DEF PlicInv
<1> QED
  BY <1>1, PlicInitInv, PlicNextInv, PTL DEF PlicSpec

\* With nothing handed out, get_int finds every context an interrupt of at least the
\* priority of each that is due.
THEOREM NoneMissed == PlicSpec => []NothingMissed
<1>1. PlicInv => NothingMissed
  <2> SUFFICES ASSUME PlicTypeOK, claimed \subseteq {0}, NEW c \in Context,
                      NEW s \in pending \cap enable[c],
                      priority[s] >= threshold[c], priority[s] > 0
               PROVE  Found(c) # 0 /\ priority[Found(c)] >= priority[s]
    BY DEF PlicInv, NothingMissed
  <2>1. pending \in SUBSET Int /\ enable[c] \in SUBSET Int /\ s \in Source
    BY DEF PlicTypeOK, Source
  <2>2. ~Shifted(claimed, s)
    BY <2>1 DEF Shifted, Source
  <2>3. s \in Eligible(c)
    BY <2>1, <2>2, SetIsShifted DEF Eligible, Candidates
  <2>4. Found(c) \in Eligible(c) /\ Best(Found(c), Eligible(c))
    BY <2>3, FoundIsBest
  <2>5. Found(c) \in Source /\ Found(c) \in Nat \ {0}
    <3>1. Found(c) \in Source
      BY <2>4 DEF Eligible, Candidates
    <3> QED
      BY <3>1, PriorityType
  <2>7. priority[s] \in Int /\ priority[Found(c)] \in Int
    BY <2>1, <2>5, PriorityType
  <2>6. \/ priority[Found(c)] > priority[s]
        \/ priority[Found(c)] = priority[s]
    BY <2>3, <2>4 DEF Best
  <2> QED
    BY <2>5, <2>6, <2>7
<1> QED
  BY <1>1, PlicInitInv, PlicNextInv, PTL DEF PlicSpec
=============================================================================
