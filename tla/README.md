# Formal models of the CPU and its differential-testing simulator

TLA+ models of the five-stage RISC-V CPU in `chisel/` and of the simulator in
`difftest/` that checks it instruction by instruction against a reference
(`src/` below is the root of the repository). TLC checks small instances; TLAPS
proves the central results for every value of the constants.

Contents: [the system](#the-system) · [modules](#modules-and-how-they-correspond-to-the-code) ·
[runs](#runs) · [fairness](#fairness) · [proofs](#proofs) ·
[findings](#findings) · [what is not modelled](#not-modelled) · [plan](#plan)

## The system

| Component | State | Operations | Talks to |
|---|---|---|---|
| `Core` (chisel): fetch, decode, execute, memory and write-back stage, register file | fetch state and pc, one register per stage, 32 registers | one clock edge | instruction and data SRAM ports; debug port |
| Functional units `Alu`, `Mdu`, `Bru`, `Lsu`, `M_Lsu` | none | one combinational operation per instruction | the stage they sit in |
| SRAM slave and crossbar (`nscscc_sram_slave.hpp`, `nscscc_sram_xbar.hpp`) | devices and their ranges | `beat` (both channels), `add_dev` | CPU ports, `mmio_mem` |
| Test loop (`sim_mycpu.cpp`, `riscv_test_run`) | clock, reset and idle counters, delay-slot counter, tolerated mismatches | one iteration: half a clock cycle, compare on commit | steps the CPU and the reference |
| Reference core (`rv_core.hpp`) | pc, registers, debug fields of the last step | `exec`: fetch, execute or trap | `rv_priv` |
| Privileged state (`rv_priv.hpp`) | mode, CSRs, trap in progress | `pre_exec`, `raise_trap`, `mret`, `sret`, CSR access, `post_exec`, memory access | `rv_core`, `rv_systembus` |
| System bus (`rv_systembus.hpp`) | devices, one reservation | `pa_read`, `pa_write`, `pa_lr`, `pa_sc`, `pa_amo_op`, `add_dev` | `mmio_mem` |
| Address translation (`rv_sv39.hpp`) | TLB, next entry to replace | `local_tlbe_get`, `sfence_vma` | `rv_priv`, page tables through the bus; only the fence is reachable (`satp` is never written) |
| Interrupt controller (`rv_plic.hpp`) | priorities, thresholds, enables, lines, claims | `update_ext`, `get_int`, register accesses | devices, interrupt lines of the core; not instantiated |
| Timer (`rv_clint.hpp`) | two registers and the time | — | not instantiated |

What makes them hard to get right:

- **Exposed timing.** The CPU neither forwards nor stalls nor flushes. An
  instruction reads the registers as the fourth one before it left them, a branch
  has two delay slots, an `ecall` holds the memory stage so that its predecessor
  commits twice, and stores are not gated by the valid bit. Each of these is a
  relation between stages several cycles apart.
- **Two machines in step.** The loop steps the reference once per commit, except
  in delay slots, which only the CPU executes; it compares register writes and
  program counters, never memory or whole register files; and it gives up after a
  mismatch, a silence, an exit deep inside the reference, or `sim_time`.
- **Traps.** A trap, a return and an interrupt all go through the same few
  variables of `rv_priv`, whose mode takes effect only at the next call.
- **Neighbours in a map.** Both buses check overlap and find devices by looking at
  one or two neighbours in a sorted map.
- **Narrow arithmetic.** Words of 32 and 64 bits, signed and unsigned, byte lanes
  and strobes.
- **Two decoders.** Immediates are put together from scattered bits twice, and what is
  an illegal instruction is decided twice.
- **Copies that go stale.** TLB entries of three sizes, shared by address spaces through
  the global bit, against tables software changes; a claim register that is as old as
  the last look at the lines.

There is no concurrency (the simulator is one thread) and nothing survives a run,
so there are no crashes to recover from.

## Modules and how they correspond to the code

| Module | Models | Built on |
|---|---|---|
| `Isa` | decoded instructions; what decoder, units and register file do with them, with the arithmetic as parameters | |
| `Pipeline` | the CPU with both SRAM ports, one clock edge per step | `Isa` |
| `ExposedISA` | abstract: a machine with one instruction per step and its timing exposed | `Isa` |
| `SequentialISA` | abstract: one instruction per step, nothing delayed | `Isa` |
| `PipelineRefinesISA` | refinement mapping and invariant | `Pipeline`, `ExposedISA` |
| `RuledISA`, `RuledPipeline` | the exposed machine, and the pipeline, with an observer of the rules a program has to keep; mapping to the sequential machine | `ExposedISA`, `PipelineRefinesISA`, `SequentialISA` |
| `RefCore` | `rv_core` for the instructions the CPU has: fetch, execute, trap, exit | `Isa` |
| `Difftest` | `riscv_test_run` with all its options; composes CPU and reference | `Pipeline`, `RefCore` |
| `RvPriv` | `rv_priv` and the stages of `exec` that drive it | |
| `TrapStack` | abstract: modes as a stack of one level | |
| `DeviceMap` | `add_dev` and look-up of both buses | |
| `LrSc` | load-reserved, store-conditional and atomics of the bus | |
| `SystemBus` | composes the two: the memory of `LrSc` as a device of the map | `DeviceMap`, `LrSc` |
| `Decode` | patterns and immediates of `Decoder` against the bit fields and the switch of `rv_core` | |
| `Datapath` | the functional units against the reference's `alu_exec`, loads and stores | |
| `CpuUnits` | composes the two | `Decode`, `Datapath` |
| `Sv39` | `rv_sv39`: walk, TLB, fence; software that writes tables | |
| `Plic` | `rv_plic`: lines, priorities, claim and completion | |
| `MCUnits`, `MCPipeline`, `MCDifftest`, `MCRvPriv`, `MCSv39` | instances for TLC | |
| `PipelineProofs`, `IsaLemmas`, `RuledISAProofs`, `RuledPipelineProofs`, `RvPrivProofs`, `SystemBusProofs`, `DifftestProofs`, `CpuUnitsProofs` | proofs | |

**Pipeline.** A variable is a register of the design (`id`, `ex`, `mem`, `wb` are
the stage registers) or the registered output of an SRAM; operators such as
`BranchTaken`, `InstAddr`, `DmemNext` and `MemResult` are the wires between them.
`Clock` is the conjunction of one action per Chisel module. The data channel writes
before it reads, as `nscscc_sram_slave::data_channel` does, and keeps the read data
while the port is not enabled. Instructions are records in the form the decoder
gives them; a word the decoder does not know is `Undecoded`, an invalid add. The
program (`prog`) is a constant apart from data memory, although both ports of the code
lead to one memory: see [self-modifying code](#not-modelled). What
the units compute (`AluMdu`, `Holds`, `Target`, `LineOf`, `Merge`, `Extract`) are
constants: `Datapath` is about them.

**ExposedISA** is the contract of that design: it reads `regs`, keeps the last three
commits in `pending`, the next three program counters in `pcs`, and accesses memory
in program order. `PipelineRefinesISA` maps the stage registers to it: an
instruction counts as issued when it leaves decode.

**SequentialISA** is what a programmer would like: no delays and no slots.
`RuledISA` watches each instruction at its issue (`Observe`): in the slots of a taken
branch it has to be idle (no destination, no store, no branch), and elsewhere it may
read no register that one of the last three instructions writes. Both are what the
generators of `difftest/test/lab_test` keep. Until a rule is broken the machine is
mapped to the sequential one: its registers are those with everything in `pending`
written, its program counter the one after the slots. A step in a slot stutters. One
more rule is built into the modules and not observed: programs do not execute what they
have stored.

**Difftest** is one loop iteration per step. `RisingEdge` moves the CPU and, if that
commits, lets the reference step (`Retire`); `OtherEdge` is a falling edge or a
cycle under reset. The command line is a variable (`options`) chosen with the
program. The history variables `recent` and `clean` state the rules the
generators in `difftest/test/lab_test` keep: no register is read within three
instructions of its write, no trap except one that ends the test, and branches only
in delay-slot mode with nops in their slots. No functional unit takes an
`ecall`, so the memory stage keeps the instruction before it, which commits a second
time, and with that commit the reference executes the `ecall`. A program that begins with
one has nothing to repeat: the CPU does not commit it, and if nothing else follows it is
reported stuck. `clean` therefore starts false for such a program. Two more history
variables make the rule about code explicit: `overwritten` is the set of lines whose
contents a store has changed in either memory, and `codeKept` is true until the CPU or the
reference fetches an instruction from one of them (`WatchCode`; `CodeLine` gives the line
of a pc). Up to that fetch the constant program is the one the code fetches. `Ruled` is
`clean` and `codeKept`, the hypothesis of every property about programs that keep the
rules. Both machines compute with the same parameters for the units; where the units
really differ (`auipc`, `rem`, `divw`, `jalr` over an odd register) is the subject of
`Datapath`. `assert` is redefined in
`sim_mycpu.cpp:39` to stop the loop; `exit` inside the reference is `exited`.

**RvPriv.** One call of `exec` is the sequence of stages *pre*, *fetch*, *execute*,
*post*; a trap jumps to *post*. The program is any program: the instruction is chosen
when executed, as an action with its effects on the privileged state. Since
`medeleg`, `mideleg` and `satp` are not writable, no trap is delegated and nothing is
translated; `sie`, `spie` and `spp` are never looked at and left out, as are
counters, `mscratch` and `mtval`. Exits of the process are in `RefCore`.
`Lines` is what `exec` is given as interrupt lines; `sim_mycpu.cpp` passes none.

**DeviceMap.** The map is the set of its keys, with `upper_bound` and `std::prev`
spelt out. One action: `add_dev`. Look-up is an operator, evaluated in every state
for every address and size.

**LrSc.** Memory of bytes, one reservation; the values written are any values. `seen`
and `partly` are history: memory at the time of the reservation, and whether a
write that starts at another address has reached into it.

**SystemBus.** Devices are added before anything is stored, as `riscv_test_run` does;
when the map is the memory of `LrSc` alone, its operations follow. Memory is given a range
longer than itself (2 GB for 128 MB in the code), so there are accesses that the bus
finds and `mmio_mem` refuses. `Serves` is the whole way of an access: look-up, offset and
the check of `mmio_mem`; `ServedExactly` says that the three together let through what
lies in memory and nothing else. It is evaluated for every map that has memory in it,
other devices or not, and for accesses whose end wraps.

**Datapath.** Pure operators. A unit is a record with a field per operation, in the
formulation of the Chisel source (cut, sign-extend, absolute values and sign); the
reference is `Exec`, on integers as in C. Words are numbers and shifts are products and
quotients with `Pow2`, a recursive function, since the width is a parameter. A line of
memory after a store, and what a load returns, are compared byte by byte, which is what
`memcpy` of the reference moves. A step of the module moves to the next pair of
operands.

**Decode.** A word is a record of the fields both decoders cut it into, opcodes by
name. `DecodeTable` has the rows of the tables with the funct3 and funct7 their
patterns allow; `Matches`, `Immediate` and `Info` are the decoder and the operand
multiplexers. `RefOp` is the switch of `decode_exec`, `RefImm` its immediates as sums
of signed and unsigned bit fields. The reference decodes more than the CPU, and
`OnlyReferenceDecodes` names all of it.

**Sv39.** A page is its three indices, a leaf's frame and rights are one value, and a
table entry is a fault, a table or a leaf (with how well its frame is aligned). Each
address space has a fixed root. `Translate` is a miss of `local_tlbe_get` (a hit and a
page fault change nothing), `SfenceVma` the fence; `WritePte` is software. `stale` and
`staleG` are history: the pages whose translation has changed with no fence for the
address space since (for all address spaces, if they were global). `RulesKept` is what
software owes at a page: nothing stale, and pages that are global anywhere are mapped
alike everywhere. An invalid TLB entry is one value (`NoEntry`): the fields the code
leaves in it decide nothing.

**Plic.** Words of flags are sets of bits; `Shifted` is the test `word >> i` as it is
written, without a mask. `GetInts` is `get_int` of all contexts before a step of the
core (their order does not matter), `CoreStep` an instruction with at most one access
to a register; `UpdateExt` comes from devices at any time. That the lines are looked at
between any two accesses is an assumption about a caller the repository does not have;
without it a context could read a claim that another has taken since.

## Runs

| Run | States | Shows |
|---|---|---|
| `MCPipeline` | 90 000: 3 instructions of 11 kinds, then undecoded words | the pipeline implements `ExposedISA` (`ImplementsISA`), runs as `SequentialISA` while the rules are kept (`SequentialWhileRuled`), loads get the right line (`LoadDataFresh`), the invariant of the proof holds, and in the end every cycle commits (`CommitsEveryCycle`) |
| `MCDifftest` | 201 000 | straight-line programs with `-delay`, `-pc` and `-trace`, and programs with branches with `-hasdelayslot` and `-pc`: those that keep the rules are never blamed (`NoFalseAlarm`), silence means equal registers as long as no changed code is run (`ComparisonIsSound`), memories agree (`MemoriesAgree`), the loop never runs with the budget below zero (`BudgetEndsTheRun`), and it ends (`Terminates`); the invariant of the proofs holds (`DifftestInv`) |
| `MCDifftestInitGprs` | violation | see [findings](#findings) |
| `MCRvPriv` | 926 000 | interrupts before instructions, user mode confined, entry at the vector only, refinement of `TrapStack` |
| `MCRvPrivOnlyM` | violation | see findings |
| `SystemBus` | 12 000 | disjoint ranges, exact look-up, offsets; a valid reservation covers unchanged bytes, but for writes that reach into it from another address; memory serves its own bytes and no others (`ServedExactly`) |
| `LrScAligned` | violation | see findings |
| `CpuUnits` | 95 000 | the decoders agree on every word the CPU knows and the rest traps, with the exceptions named; the units agree with the reference on all operands, with the exceptions the properties name |
| `DatapathDivw` | violation | see findings |
| `MCSv39` | 94 000 | one match at most (the assertion of `local_tlb_get`), hits are what the walk would find (the assertions under `MM_SANITIZER`), and the invariant of the proof |
| `Plic` | 73 000 | a source handed out is not handed out again before completion, by either context, if the lines are looked at between accesses (`HandedOutOnce`), and while nothing is handed out no interrupt that is due is missed (`NothingMissed`) |
| `PlicBits` | violation | see findings |

Bounds, and why they are enough:

- *Pipeline.* Three instructions over eleven kinds (arithmetic, multiply, both
  upper-immediate forms, loads, stores, a branch, jumps, `ecall`) cover every pair and
  every distance up to the depth at which stages interact; taken branches and jumps
  repeat them in other orders, and the program counter wraps around. Words are 0 to
  15, registers 0 to 3, memory has two lines. The proofs remove these bounds. A program of
ecalls only, which never commits and to which `CommitsEveryCycle` does not apply, is not
among them; three instructions are followed by undecoded words, which do commit.
- *Difftest.* Programs have the shape of the labs: a write, three fillers, two users,
  an exit; or a branch or jump with its slots; or they begin with an `ecall`, or have
  nothing else. In most of them some choice breaks a rule, so both outcomes of every
  comparison occur. Reset takes 2 iterations (10 in the code), silence is 14 iterations
  (3000) and has to exceed the time to fill the pipeline, reset and 11 more, `Delay` is
  12 (1500) and has to exceed the 10 at which the history is dumped, the step limit is
  16 (2 million). The instructions at the end of the programs share a line with data, so
  that stores before them change code in some programs and data in others.
- *RvPriv.* Two interrupts (one the pre-step overwrites, one it keeps; so only one of them
  can be due at a time, and which of several is taken first is not exercised), five
  addresses (mapped, unmapped, misaligned), two vectors, direct or vectored.
- *SystemBus, map.* 18 addresses, lengths that divide each other and some that do not, up
  to half the address space.
- *SystemBus, memory.* Four bytes of memory in a range of six that starts at 6 (as in the
  code, where start and length are equal), so two addresses that only the bus knows;
  stores of 1, 2 and 4 bytes, atomics of 1 and 2 (in the code 1 to 8, and 4 and 8).
- *Datapath.* Four bytes of two bits: sign, carry, shift amounts and lanes behave as in
  eight bytes of eight, and all 65 536 pairs of operands are evaluated. The proof is
  for all widths.
- *Decode.* All opcodes and funct3; 37 values of funct7 (every funct5 of an atomic,
  every value a table or the switch names, and neighbours with other low bits); seven
  combinations of registers, which set each bit of the immediates both ways. Real
  widths throughout. The proof is for every word.
- *Sv39.* Two address spaces, two TLB entries, a shared table of the middle level and
  one below; two neighbouring pages, so that a large page covers both; leaves of all
  three sizes, misaligned ones, and global ones. The proof removes these bounds.
- *Plic.* Two sources, two contexts, priorities 0 to 2, thresholds 0 and 1: ties, and
  thresholds below, at and above a priority.

## Fairness

`RuledPipeline`: weak fairness of the clock edge: the simulator toggles the clock as long
as it runs, and the design has no other source of steps. `Difftest`: weak fairness of
the loop iteration, which is a plain `while`. Nothing else is assumed; the other
modules state safety only.

## Proofs

All proofs are checked by `tlapm` to the last leaf.

- **Pipeline.** `TypeCorrect`, `InvariantHolds`, `LoadsAreFresh` and `Refinement` hold for any number
  of registers, any word, any program and any functions of the units. Refinement
  needs `PipelineInv`: bubbles hold the undecoded instruction (the strobes of a store
  and the hold of the memory stage do not look at valid), the instruction that travels
  with a pc is that of the program, the data on the read port belong to the load in
  the memory stage, and no `ecall` gets beyond execute. Assumptions: the widths of the
  constants (`RegAssumption` … `UnitAssumption` in `Isa`), and that `PrevPc` is
  inverted by `NextPc` at the reset value.
- **Sequential execution.** `SequentialExecution` is about `RuledISA`. Its invariant has
  the type of the state and `InSequence`: until a rule is broken, the program counters
  already chosen follow each other except behind the slots of a taken branch. An
  instruction that reads nothing in `pending` finds the same operands in `regs` and in
  `FinalRegs` (`OperandsSettled`), and other operands it does not look at
  (`OnlyReadsMatter`, from the assumption `OperandAssumption` on the units); so an issue
  is a sequential step, or a stutter in a slot. `RunsSequentially` carries it over to
  the pipeline by the refinement.
- **Difftest.** `BudgetIsKept` holds whatever the program does: below 10 the
  budget of `-delay` with `-pc` is odd (`CountersInv`), so dropping by two it meets -1
  with the loop stopped, and never passes zero unseen. `ComparisonSound` is inductive
  with `StagesMatchPc` and `PipelineInv`: a commit that is not reported has written
  what the reference wrote. It needs none of the rules of the pipeline, but that the
  program runs no code it has changed: from there on the instruction the CPU commits may
  not be the one the reference executes. `NeverBlamed` and `MemoriesStayEqual` follow from
  `DifftestInv`, whose part `InStep` says where the two machines stand while the program
  keeps the rules: nothing has reached memory yet (`Filling`), the next instruction of
  the reference is in memory or behind the slots of a branch (`Flowing`), or it is an
  `ecall` for which a commit repeats (`Held`). The instructions in execute and memory
  have read the registers of the reference but for those overwritten since, by
  the last two commits (`ReadByEx`, `ReadByMem`); the rules say that they read none of
  those, so they compute what the reference computes. `CommitIsNear` bounds the iterations until
  the first commit, hence the stuck report. Hypothesis: not `-initgprs`, with which the
  properties are false (see findings). `InStep` is stated under `Ruled`. Assumptions: `RefAssumption` and
  `HarnessAssumption` (the silence exceeds reset plus 11 iterations, the budget is at
  least 10) besides those of the pipeline and the units.
- **RvPriv.** `PrivInv` is the conjunction of the type invariant, the three state
  properties and two that make them inductive: `EntryInv` (while a trap out of the
  user mode is on its way, `trapPc` is the vector of the cause recorded) and `RestInv`
  (between calls no trap is pending and no jump remembered). From it follow
  type correctness (`PrivTypesCorrect`), the state properties (`TrapsOnce` among them),
  the two action properties and the refinement of `TrapStack`.
- **DeviceMap.** `Disjoint` is inductive together with the type invariant. The step is
  the reason the code may look at neighbours only: if the new range overlapped any
  device, it would overlap the least above or the greatest below it. The existence of
  these neighbours is a lemma on least elements of sets of ranges. `LookupIsExact`
  follows from disjointness by the same lemma. `OffsetsAreDistances` rests on
  `StartsAligned`: `add_dev` takes a range only if its start is a multiple of its
  length, so the remainder by the length is the distance from the start.
- **LrSc.** The property is inductive together with type correctness (`LrScInv`).
- **SystemBus.** Both invariants hold of the composition (`BusTypesCorrect`,
  `BusIsSafe`), since its steps are steps of one part that leave the other alone.
  `MemoryServesItsBytes` needs that the range of memory is aligned to its length, that this
  divides the address space, and that memory is smaller than the range (`BusAssumption`):
  an access that ends at the last address of all wraps to an end of 0, passes the check of
  the bus, and is refused by memory only because of that. The proofs of all three modules, and of
  `Plic`, are in `SystemBusProofs`.
- **Sv39.** `TlbInv` says that a valid entry is what the walk finds in its own address
  space on every page it covers that is not stale, and that no page is kept twice in one
  size. `HitsStayCurrent` follows because a hit in another address space is global, and
  `AtMostOneMatch` because two hits are both the page the walk finds, hence of one size
  and start. The step that needs care is a miss: the new entry has no twin, since a twin
  would have matched.
- **Plic.** The invariant is type correctness and `HandedOutOnce`, under the assumption on
  the looks named above: looking at the lines
  makes every claim a candidate that is not handed out, and an access that changes
  what is handed out makes the look an old one. `NoneMissed` rests on
  `FoundIsBest`: among the candidates at the threshold there is one of the highest
  priority and, among those, the first; it exists because priorities are bounded
  (`PlicAssumption`; 32 bits in the code) and sources are numbers.

- **Decode.** `DecodersMatch` and `RestIsIllegal` are about every combination of fields
  (`AnyWord`). Each opcode has a lemma that says which row can match, and that it gives
  what the reference gives; the immediates are the same sums of bits
  (`ImmediatesAgree`). Conversely every operation the reference names has a row
  (`NamedRow`), but for those the property lists. The assumption is that the fields have
  their widths (`FieldAssumption`).
- **Datapath.** `AluCorrect`, `MduCorrect`, `JumpsCorrect` and `AccessesCorrect` hold for
  all operands and for bytes of 2, 4 or 8 bits and words of 4 or 8 bytes
  (`WidthAssumption`), so for the 64 bits of the code. That `Pow2` obeys its recursive
  definition is proved from least counterexamples, since induction is not available
  (`LeastElement`, `Pow2Recursion`). From there on the argument is modular arithmetic:
  two numbers are cut to the same if they differ by a multiple of the power (`CutShift`,
  `SameCut`), signed and unsigned operands do, and sums, differences and products keep
  it (`CutSum`). Quotients do not, so division rests on `QuotOfAbsVals`, whose hypothesis
  is the exception of the property: the quotient of the absolute values, with the sign
  of the operands, is the quotient unless the dividend is the least number. For stores,
  a repeated datum is its bytes times a geometric sum (`Geometric`, `StoreDataBytes`),
  and the runs of the strobes of an aligned access are the one range of its bytes
  (`WrittenLanes`); for loads, the top byte decides the sign (`TopByte`), which fills what
  is above (`BytesAbove`). `ExceptionsAreReal` shows that the two exceptions are needed
  at every width (with -1 for `divw` and 3 for `rem`, since no power of two is a multiple
  of three). The proofs of both modules are in `CpuUnitsProofs`, those of
  `Sv39` in `RvPrivProofs`.

Every invariant and action property a run checks is proved. Only model-checked is
liveness (`CommitsEveryCycle`, `Terminates`), which is out of the prover's reach.

## Findings

- `-initgprs` numbers the registers of the reference, while the CPU resets them to
  zero (`ARegfile.scala:33`): lab 1, which relies on the numbers, is reported as an
  error at its first write (run `MCDifftestInitGprs`).
- `-onlymodem` does not keep the reference in the machine mode: `mret` sets `mpp` to
  the user mode, so a second return without a trap leaves it, and `sret` does at once
  (run `MCRvPrivOnlyM`).
- The bus says the core checks the alignment of atomics; the core does not (run
  `LrScAligned`).
- `divw` with the least 32-bit dividend has the wrong sign extension (run
  `DatapathDivw`). `rem` with the least 64-bit dividend is wrong for divisors that are
  no power of two; `MduAgrees` excludes exactly these two dividends, and
  `ExceptionsAreReal` proves both at the width of the code.
- `auipc` of the CPU keeps the low 32 bits of `pc + imm` and fills the rest with zeros
  (`Alu.scala:57`), where the reference keeps 64 (`rv_core.hpp:180`): for sums of 2^32 and
  more, which the largest immediate reaches from 0x80001000 on, the loop reports an error.
  `AluAgrees` leaves these sums out and fails with them.
- `jalr` of the reference clears bit 0 of the immediate, not of the sum
  (`rv_core.hpp:198`): with an odd register it reports a misaligned target where the CPU
  jumps. `JumpsAgree` is stated for targets the reference takes.
- With two interrupt sources or more, `get_int` takes a source for pending, enabled or
  claimed when a higher one of its word is (run `PlicBits`). The default of one source
  does not show it.

Where the README of the repository and the code differ in scope, the code is
modelled: the CPU issues one instruction at a time and has I and M instructions only.

## Not modelled

- Self-modifying code. The instruction and the data port of the CPU share one memory
  (`sim_mycpu.cpp:102`, `nscscc_sram_slave.hpp:19`), and the reference fetches from the
  memory it stores to (`rv_core.hpp:155`); in the models programs are constants. So
  `ImplementsISA`, `SequentialWhileRuled` and the properties of `Difftest` say nothing once
  a program runs what it has stored. The loop then can be silently wrong: let a store
  replace the next instruction, `addi x5, x0, 1`, by a `nop`. The CPU has fetched the
  `addi` already and commits it; the reference executes the `nop`, with
  `debug_reg_num` 0, so only the program counters are compared
  (`sim_mycpu.cpp:165-168`), nothing is reported, and the registers differ.
- Two traps raised within the code of one instruction (the assert at `rv_priv.hpp:672`):
  an instruction of `RvPriv` is one step that raises at most one. What the user mode may
  read is not modelled either.
- Reads of memory that no image has initialised: the memories of `Difftest` start equal in
  every line, those of the code beyond the image need not.
- `and`, `or`, `xor` of the units (the same operation on both sides).
- Misaligned accesses of the CPU, which lose bytes at the end of a line; the
  generators do not produce them, and the reference traps.
- `make_cpu_trace`, which drives the same loop to write a file; performance counters;
  waveforms; reading images.
- `rv_clint`: three registers and a comparison, not instantiated.
- How `rv_priv` uses the rights of a TLB entry, and `satp`, which cannot be written.
- Accesses to addresses of `rv_plic` without a register.
- The values of atomic operations.
- Compressed instructions: `rv_core` has them behind a constant `false`.
- Test programs, build files, Chisel elaboration.

## Plan

Done: the core (`Isa`, `Pipeline`, `ExposedISA`, `RefCore`, `Difftest`), traps
(`RvPriv`, `TrapStack`), the buses (`DeviceMap`, `LrSc`, `SystemBus`), the decoder and
the units (`Decode`, `Datapath`), the sequential machine and what the pipeline owes it
(`SequentialISA`, `RuledISA`), translation (`Sv39`), the interrupt controller (`Plic`),
and the proofs above. What could follow, in this order:

1. *Misaligned accesses.* What a misaligned store of the CPU loses at the end of a line,
   beside the trap of the reference.
2. *Timer.* `rv_clint` as the source of the timer interrupt, composed with the lines of
   `RvPriv`.
