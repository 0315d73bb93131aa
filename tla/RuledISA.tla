------------------------------ MODULE RuledISA ------------------------------
(***************************************************************************)
(* The exposed-timing machine together with an observer of the rules a     *)
(* program has to keep (the programs of difftest/test/lab_test do), and    *)
(* what it is then worth: while the rules are kept, the exposed timing     *)
(* cannot be told from sequential execution.  One rule is not observed but *)
(* built in: programs do not execute what they have stored.                *)
(***************************************************************************)
EXTENDS ExposedISA

VARIABLES
    slots,   \* delay slots of a taken branch still to be issued
    broken   \* some instruction has broken a rule

\* A nop, as far as the programmer can tell.
Idle(i) == Dest(i) = 0 /\ ~IsStore(i) /\ i.fusel # "bru"

\* No register the instruction reads is still on its way.
Settled(i) == \A k \in 1..3 : pending[k].rd # 0 => pending[k].rd \notin Reads(i)

\* The rules: nothing is done in a delay slot, and nothing is read too early.
KeepsRules(i) == IF slots > 0 THEN Idle(i) ELSE Settled(i)

RuledInit == Init /\ slots = 0 /\ broken = FALSE

\* The observer, at the issue of an instruction.
Observe ==
    LET i == prog[pcs[1]]
    IN  /\ slots' = IF slots > 0 THEN slots - 1
                    ELSE IF Branches(i, Src1(i, regs), Src2(i, regs)) THEN 2 ELSE 0
        /\ broken' = (broken \/ ~KeepsRules(i))

RuledNext == Issue /\ Observe

RuledSafety == RuledInit /\ [][RuledNext]_<<vars, slots, broken>>
-----------------------------------------------------------------------------
\* The registers once everything on its way has arrived.
FinalRegs == Written(Written(Written(regs, pending[1].rd, pending[1].wdata),
                             pending[2].rd, pending[2].wdata),
                     pending[3].rd, pending[3].wdata)

SEQ == INSTANCE SequentialISA WITH pc <- pcs[slots + 1],
                                   regs <- FinalRegs,
                                   free <- broken

\* As long as a program reads no register within three instructions of its write and
\* leaves the two slots of a taken branch idle, it runs as on a sequential machine:
\* the delays are exactly these, whatever ecalls, loads, stores and branches that
\* fall through are in between (ARegfile.scala:42, FetchUnit.scala:33).
SequentialWhileRuled == SEQ!Safety
=============================================================================
