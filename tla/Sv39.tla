-------------------------------- MODULE Sv39 --------------------------------
(***************************************************************************)
(* Address translation of the reference: the page-table walk and the TLB   *)
(* of rv_sv39.  Software writes page tables in memory and fences; in       *)
(* between, addresses are translated in any order, in any address space.   *)
(*                                                                         *)
(* csr_write never sets satp, so in this repository translation is off and *)
(* only the fence is ever called; what the class promises is modelled all  *)
(* the same, with mode 8 (Sv39) and a root table for each ASID.  A page is *)
(* its three indices; frame and rights of a leaf are one value.            *)
(***************************************************************************)
EXTENDS Integers, FiniteSets

CONSTANTS
    Index,       \* the indices of a table, 0..511
    Va,          \* the pages that are translated: vpn_2, vpn_1 and vpn_0
    Asid,        \* satp.asid of the address spaces
    Root,        \* satp.ppn of each
    Tables,      \* the pages of memory that are tables
    Data,        \* frame and rights of a leaf
    Memories,    \* what the tables may hold at first
    Writes,      \* what software writes: a table, an index and an entry
    NrTlbEntry   \* 32

Pte == [kind : {"fault", "table", "leaf"},  \* "fault": V, R, W and the reserved bits
        next : Tables, align : 0..2, global : BOOLEAN, data : Data]

ASSUME Sv39Assumption ==
    /\ 0 \in Index
    /\ Va \subseteq [0..2 -> Index]
    /\ Asid \subseteq Nat /\ Asid # {} /\ Data # {}
    /\ Root \in [Asid -> Tables]
    /\ Memories \subseteq [Tables -> [Index -> Pte]]
    /\ Writes \subseteq Tables \X Index \X Pte
    /\ NrTlbEntry \in Nat \ {0}

Slot == 0..(NrTlbEntry - 1)

VARIABLES
    pt,       \* the tables
    tlb,      \* pagesize 0 is an invalid entry
    random,   \* the next entry to replace
    \* history, not in the code:
    stale,    \* of each address space the pages that have changed, with no fence since
    staleG    \* pages that were global in some address space and have changed

tlbVars == <<pt, tlb, random, stale, staleG>>

TlbEntry == [pagesize : 0..3, vpa : [0..2 -> Index], asid : Asid, global : BOOLEAN, data : Data]

TlbTypeOK ==
    /\ pt \in [Tables -> [Index -> Pte]]
    /\ tlb \in [Slot -> TlbEntry]
    /\ random \in Slot
    /\ stale \in [Asid -> SUBSET Va]
    /\ staleG \subseteq Va

\* Of an invalid entry the other fields decide nothing.
NoEntry == CHOOSE e \in TlbEntry : e.pagesize = 0

TlbInit == /\ pt \in Memories
           /\ tlb = [i \in Slot |-> NoEntry]
           /\ random = 0
           /\ stale = [s \in Asid |-> {}]
           /\ staleG = {}
-----------------------------------------------------------------------------
(* The walk. *)

\* A leaf found at level i, unless its address has bits below the page's size.
LeafAt(p, i) == {[pagesize |-> i + 1, global |-> p.global, data |-> p.data] :
                    j \in {k \in {i} : k <= p.align}}

\* ptw: the page found, a set that is empty for a page fault.
Ptw(s, va) ==
    LET p2 == pt[Root[s]][va[2]]
        p1 == pt[p2.next][va[1]]
        p0 == pt[p1.next][va[0]]
    IN  IF p2.kind = "leaf" THEN LeafAt(p2, 2)
        ELSE IF p2.kind = "fault" THEN {}
        ELSE IF p1.kind = "leaf" THEN LeafAt(p1, 1)
        ELSE IF p1.kind = "fault" THEN {}
        ELSE IF p0.kind = "leaf" THEN LeafAt(p0, 0)
        ELSE {}

\* The first page of the page of that size around va.
PageStart(va, pagesize) == [k \in 0..2 |-> IF k < pagesize - 1 THEN 0 ELSE va[k]]
-----------------------------------------------------------------------------
(* The TLB. *)

Covers(e, va) == e.pagesize # 0 /\ e.vpa = PageStart(va, e.pagesize)

\* The page an entry keeps.
PageOf(e) == [pagesize |-> e.pagesize, global |-> e.global, data |-> e.data]

\* local_tlb_get: the entries that match.  The code asserts that there is one at most.
Hits(s, va) == {i \in Slot : /\ tlb[i].asid = s \/ tlb[i].global
                             /\ Covers(tlb[i], va)}

\* Mutant: large pages are kept by the page that was asked for.
EntryForUnaligned(s, va, page) ==
    [pagesize |-> page.pagesize, vpa |-> va, asid |-> s,
     global |-> page.global, data |-> page.data]

\* The entry a page that was found is kept in.
EntryFor(s, va, page) ==
    [pagesize |-> page.pagesize, vpa |-> PageStart(va, page.pagesize), asid |-> s,
     global |-> page.global, data |-> page.data]

\* local_tlbe_get; on a hit and on a page fault nothing changes.
Translate(s, va) ==
    /\ Hits(s, va) = {}
    /\ \E page \in Ptw(s, va) : tlb' = [tlb EXCEPT ![random] = EntryFor(s, va, page)]
    /\ random' = (random + 1) % NrTlbEntry
    /\ UNCHANGED <<pt, stale, staleG>>

\* Mutant: only entries of the smallest size are compared with the page.
FencedSmall(e, pages, asid) ==
    /\ e.asid = asid \/ asid = 0
    /\ pages = {} \/ \E va \in pages : e.pagesize = 1 /\ Covers(e, va)

\* Mutant: asid 0 is an address space like any other.
FencedExact(e, pages, asid) ==
    /\ e.asid = asid
    /\ pages = {} \/ \E va \in pages : Covers(e, va)

\* sfence_vma of one page, or of all (vaddr 0, here {}), in one address space, or in
\* all (asid 0).  Global entries go with the address space they were found in.
Fenced(e, pages, asid) ==
    /\ e.asid = asid \/ asid = 0
    /\ pages = {} \/ \E va \in pages : Covers(e, va)

SfenceVma(pages, asid) ==
    /\ tlb' = [i \in Slot |-> IF Fenced(tlb[i], pages, asid)
                              THEN NoEntry ELSE tlb[i]]
    /\ LET done == IF pages = {} THEN Va ELSE pages
       IN  /\ stale' = [s \in Asid |-> IF s = asid \/ asid = 0 THEN stale[s] \ done ELSE stale[s]]
           /\ staleG' = IF asid = 0 THEN staleG \ done ELSE staleG
    /\ UNCHANGED <<pt, random>>

\* A step changes where a page that was mapped is.
Remapped(s, va) == Ptw(s, va) # {} /\ Ptw(s, va)' # Ptw(s, va)

\* Software writes an entry of a table.
WritePte(t, i, p) ==
    /\ pt' = [pt EXCEPT ![t][i] = p]
    /\ stale' = [s \in Asid |-> stale[s] \cup {va \in Va : Remapped(s, va)}]
    /\ staleG' = staleG \cup {va \in Va : \E s \in Asid :
                                /\ Remapped(s, va)
                                /\ \E page \in Ptw(s, va) : page.global}
    /\ UNCHANGED <<tlb, random>>

TlbNext == \/ \E s \in Asid, va \in Va : Translate(s, va)
           \/ \E pages \in {{}} \cup {{va} : va \in Va}, asid \in Asid \cup {0} :
                 SfenceVma(pages, asid)
           \/ \E w \in Writes : WritePte(w[1], w[2], w[3])

TlbSpec == TlbInit /\ [][TlbNext]_tlbVars
-----------------------------------------------------------------------------
\* Software has kept the rules for a page in an address space: a fence after a
\* translation has changed, for all address spaces if it was global, and what is
\* global at that page in any address space is mapped in this one as well.
RulesKept(s, va) ==
    /\ va \notin stale[s] /\ va \notin staleG
    /\ \A t \in Asid : (\E page \in Ptw(t, va) : page.global) => Ptw(t, va) = Ptw(s, va)

\* The assertion of local_tlb_get (rv_sv39.hpp:182, 189, 196): at most one entry
\* matches, whatever sizes and address spaces the entries are of.
OneMatch == \A s \in Asid, va \in Va : RulesKept(s, va) =>
                \A i, j \in Hits(s, va) : i = j

\* What MM_SANITIZER asserts of a hit (rv_sv39.hpp:82-101): the walk still finds this
\* page, of that size, with the same frame, rights and global bit.
HitsAreCurrent ==
    \A s \in Asid, va \in Va : RulesKept(s, va) =>
        \A i \in Hits(s, va) :
            Ptw(s, va) = {PageOf(tlb[i])}
-----------------------------------------------------------------------------
(* The inductive invariant. *)

\* A valid entry is what the walk finds in its address space, everywhere on its page
\* where nothing is stale.
EntriesCurrent ==
    \A i \in Slot, s \in Asid, va \in Va :
        tlb[i].asid = s /\ Covers(tlb[i], va) =>
            \/ va \in IF tlb[i].global THEN staleG ELSE stale[s]
            \/ Ptw(s, va) = {PageOf(tlb[i])}

\* No page is kept twice, by one address space or globally.
NoTwins ==
    \A i, j \in Slot :
        /\ i # j /\ tlb[i].pagesize # 0
        /\ tlb[i].pagesize = tlb[j].pagesize /\ tlb[i].vpa = tlb[j].vpa
        => /\ tlb[i].asid # tlb[j].asid
           /\ ~(tlb[i].global /\ tlb[j].global)

TlbInv == TlbTypeOK /\ EntriesCurrent /\ NoTwins
=============================================================================
