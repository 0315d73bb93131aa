------------------------------ MODULE MCRvPriv ------------------------------
(* A small instance of RvPriv: two bytes per instruction in a space of four. *)
EXTENDS RvPriv

\* Memory is mapped at 4 and 6; 5 is misaligned; the vector 0 at reset is unmapped.
MCPc          == {0, 2, 4, 5, 6}
MCNextPc(p)   == IF p = 4 THEN 6 ELSE IF p = 5 THEN 6 ELSE 0
MCAligned(p)  == p % 2 = 0
MCMapped(p)   == p \in {4, 6}
MCTvecs       == [base : {0, 4}, vectored : BOOLEAN]
MCZeroTvec    == [base |-> 0, vectored |-> FALSE]
\* Vectored, every cause but 0 has an entry of its own; two of them are told apart.
MCVector(t, c) == IF ~t.vectored THEN t.base ELSE t.base + 2 * (c % 2)
MCLines       == {{}}
MCExceptions  == {2, 4}
MCCauses      == {[cause |-> 2, interrupt |-> FALSE]}
=============================================================================
