------------------------------ MODULE CpuUnits ------------------------------
(***************************************************************************)
(* The combinational parts of the CPU next to those of the reference: the  *)
(* decoders, on every word, and the units, on every pair of operands.      *)
(***************************************************************************)
EXTENDS Datapath, Decode

\* addi x0, x0, 0
Nop == [opc |-> "OPIMM", f3 |-> 0, f7 |-> 0, rd |-> 0, rs1 |-> 0, rs2 |-> 0]

\* Every funct5 of an atomic operation, and the neighbours of what the tables name.
MCFunct7 == {4 * k : k \in 0..31} \cup {1, 2, 9, 33, 127}

MCTriples == {<<0, 0, 0>>, <<0, 0, 1>>, <<0, 0, 2>>, <<0, 0, 5>>, <<10, 0, 5>>, <<1, 31, 31>>,
              <<31, 18, 2>>}

\* Every word is looked at; after it, all pairs of operands.
UnitsInit == Init /\ word \in Words

UnitsNext == \/ word # Nop /\ word' = Nop /\ UNCHANGED vars
             \/ word = Nop /\ Next /\ UNCHANGED word

UnitsSpec == UnitsInit /\ [][UnitsNext]_<<vars, word>>
=============================================================================
