------------------------------- MODULE MCSv39 -------------------------------
(***************************************************************************)
(* An instance of Sv39: two address spaces whose root tables share a table *)
(* of the middle level, two neighbouring pages, small and large leaves.    *)
(***************************************************************************)
EXTENDS Sv39

Leaf(align, g)  == [kind |-> "leaf", next |-> "r1", align |-> align, global |-> g, data |-> 0]
Table(t)        == [kind |-> "table", next |-> t, align |-> 0, global |-> FALSE, data |-> 0]
Fault           == [kind |-> "fault", next |-> "r1", align |-> 0, global |-> FALSE, data |-> 0]

MCVa   == {[k \in 0..2 |-> IF k = 0 THEN i ELSE 0] : i \in {0, 1}}
MCRoot == [s \in {1, 2} |-> IF s = 1 THEN "r1" ELSE "r2"]

MCWrites ==
    {"r1"} \X {0} \X {Table("m"), Leaf(2, FALSE)}
    \cup {"r2"} \X {0} \X {Table("m"), Fault}
    \cup {"m"} \X {0} \X {Table("z"), Leaf(1, TRUE), Leaf(0, FALSE)}
    \cup {"z"} \X {0} \X {Leaf(0, FALSE), Leaf(0, TRUE)}
    \cup {"z"} \X {1} \X {Leaf(0, FALSE)}

\* Tables are empty at first.
MCMemories == {[t \in {"r1", "r2", "m", "z"} |-> [i \in {0, 1} |-> Fault]]}
=============================================================================
