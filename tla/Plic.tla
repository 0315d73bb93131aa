-------------------------------- MODULE Plic --------------------------------
(***************************************************************************)
(* The interrupt controller rv_plic.  get_int is called for every context  *)
(* before a step of the core, which takes the results as its interrupt     *)
(* lines (rv_core.hpp:59), and an instruction makes at most one access to  *)
(* the registers, at an address that has one.  So there is a look at the   *)
(* lines between any two accesses; that the caller sees to it is an        *)
(* assumption, for nothing in the repository instantiates the device.      *)
(* update_ext is called by devices, at any time.  A word of flags is the   *)
(* set of its bits that are set; software writes the bits of sources only. *)
(***************************************************************************)
EXTENDS Integers, FiniteSets

CONSTANTS
    NrSource,       \* sources are 1 .. NrSource; source 0 is reserved
    NrContext,      \* contexts are 0 .. NrContext - 1
    WordBits,       \* bits of a word of flags, 32 in the source
    MaxPriority,    \* the greatest value of a priority register, 2^32 - 1
    Priorities,     \* what software writes to the priority registers
    Thresholds      \* what software writes to the threshold registers

ASSUME PlicAssumption ==
    /\ NrSource \in Nat \ {0} /\ NrContext \in Nat \ {0} /\ WordBits \in Nat \ {0}
    /\ MaxPriority \in Nat /\ Priorities \subseteq 0..MaxPriority
    /\ Thresholds \subseteq Nat

Source == 1..NrSource
Context == 0..NrContext - 1

VARIABLES
    priority,       \* of every source
    threshold,      \* of every context
    pending,        \* sources whose line is up
    enable,         \* per context, the sources it takes
    claim,          \* per context, the source the last get_int found, or 0
    claimed,        \* sources handed out and not completed
    looked          \* whether get_int has been called since the last step

plicVars == <<priority, threshold, pending, enable, claim, claimed, looked>>

PlicTypeOK ==
    /\ priority \in [0..NrSource -> Priorities \cup {0}] /\ priority[0] = 0
    /\ threshold \in [Context -> Thresholds \cup {0}]
    /\ pending \subseteq Source
    /\ enable \in [Context -> SUBSET Source]
    /\ claim \in [Context -> 0..NrSource]
    /\ claimed \subseteq 0..NrSource
    /\ looked \in BOOLEAN

PlicInit ==
    /\ priority = [s \in 0..NrSource |-> 0]
    /\ threshold = [c \in Context |-> 0]
    /\ pending = {} /\ claimed = {}
    /\ enable = [c \in Context |-> {}]
    /\ claim = [c \in Context |-> 0]
    /\ looked = FALSE
-----------------------------------------------------------------------------
\* word >> (i % 32) is not zero: some flag of the word at or above i is set.
Shifted(flags, i) == \E j \in flags : j >= i /\ j \div WordBits = i \div WordBits

\* Mutant: a source that has been handed out is a candidate.
CandidatesHandedOut(c) ==
    {i \in Source : /\ priority[i] >= threshold[c]
                    /\ Shifted(pending, i)
                    /\ Shifted(enable[c], i)}

\* Mutant: the priority has to be above the threshold.
CandidatesAbove(c) ==
    {i \in Source : /\ priority[i] > threshold[c]
                    /\ Shifted(pending, i)
                    /\ Shifted(enable[c], i)
                    /\ ~ Shifted(claimed, i)}

\* The condition of the loop of get_int.
Candidates(c) ==
    {i \in Source : /\ priority[i] >= threshold[c]
                    /\ Shifted(pending, i)
                    /\ Shifted(enable[c], i)
                    /\ ~ Shifted(claimed, i)}

\* The first candidate of the highest priority; priority 0 never interrupts.
Found(c) ==
    LET Eligible == {i \in Candidates(c) : priority[i] > 0}
    IN  IF Eligible = {} THEN 0
        ELSE CHOOSE i \in Eligible : \A j \in Eligible :
                \/ priority[i] > priority[j]
                \/ priority[i] = priority[j] /\ i <= j
-----------------------------------------------------------------------------
\* update_ext
UpdateExt(s, fired) ==
    /\ pending' = IF fired THEN pending \cup {s} ELSE pending \ {s}
    /\ UNCHANGED <<priority, threshold, enable, claim, claimed, looked>>

\* get_int of every context
GetInts ==
    /\ ~ looked /\ looked' = TRUE
    /\ claim' = [c \in Context |-> Found(c)]
    /\ UNCHANGED <<priority, threshold, pending, enable, claimed>>

\* do_read at offset 4 of a context
ReadClaim(c) ==
    /\ claimed' = claimed \cup {claim[c]}
    /\ UNCHANGED <<priority, threshold, pending, enable, claim>>

\* do_write at offset 4 of a context, which the code does not look at
Complete(s) ==
    /\ claimed' = claimed \ {s}
    /\ UNCHANGED <<priority, threshold, pending, enable, claim>>

\* Mutant: the reserved source can be written.
WritePriorityAny(s, p) ==
    /\ priority' = [priority EXCEPT ![s] = p]
    /\ UNCHANGED <<threshold, pending, enable, claim, claimed>>

\* do_write to the priorities refuses address 0
WritePriority(s, p) ==
    /\ s # 0
    /\ priority' = [priority EXCEPT ![s] = p]
    /\ UNCHANGED <<threshold, pending, enable, claim, claimed>>

WriteEnable(c, flags) ==
    /\ enable' = [enable EXCEPT ![c] = flags]
    /\ UNCHANGED <<priority, threshold, pending, claim, claimed>>

WriteThreshold(c, t) ==
    /\ threshold' = [threshold EXCEPT ![c] = t]
    /\ UNCHANGED <<priority, pending, enable, claim, claimed>>

\* Reads of the other registers, writes that are ignored or refused, no access at all
NoChange == UNCHANGED <<priority, threshold, pending, enable, claim, claimed>>

\* One step of the core: at most one access to the device.
CoreStep ==
    /\ looked /\ looked' = FALSE
    /\ \/ \E c \in Context : ReadClaim(c)
       \/ \E s \in 0..NrSource : Complete(s)
       \/ \E s \in 0..NrSource, p \in Priorities : WritePriority(s, p)
       \/ \E c \in Context, flags \in SUBSET Source : WriteEnable(c, flags)
       \/ \E c \in Context, t \in Thresholds : WriteThreshold(c, t)
       \/ NoChange

PlicNext ==
    \/ \E s \in Source, fired \in BOOLEAN : UpdateExt(s, fired)
    \/ GetInts
    \/ CoreStep

PlicSpec == PlicInit /\ [][PlicNext]_plicVars
-----------------------------------------------------------------------------
\* A source that was handed out by one context is not handed out again, by it or by
\* another, before it has been completed: claim registers are as old as the last
\* get_int, and a read marks a source for all contexts (rv_plic.hpp:35, 82).  It rests on
\* the look between any two accesses.
HandedOutOnce == looked => \A c \in Context : claim[c] = 0 \/ claim[c] \notin claimed

\* With nothing handed out by any context, get_int misses no interrupt: if one is pending, enabled and
\* at the threshold, it finds one of at least that priority (rv_plic.hpp:31).
\* While a source is handed out, those below it in its word may be missed.
NothingMissed ==
    claimed \subseteq {0} =>
        \A c \in Context : \A s \in pending \cap enable[c] :
            priority[s] >= threshold[c] /\ priority[s] > 0 =>
                Found(c) # 0 /\ priority[Found(c)] >= priority[s]

\* What get_int finds is an interrupt: a source that is pending and that the context
\* has enabled, as the comments on the registers say (rv_plic.hpp:55, 64).
FoundIsInterrupt ==
    \A c \in Context : Found(c) # 0 => Found(c) \in pending \cap enable[c]
=============================================================================
