# A TLA+ model of WarpSim

WarpSim executes small GPU kernels: an assembler turns text into 64-bit words,
a device runs a grid of thread blocks, a block runs its warps round-robin with
a barrier between them, and a warp runs 32 lanes in lockstep under a mask, with
a stack of deferred paths for branches on which the lanes disagree. This
directory holds TLA+ specifications of its core, TLC configurations that check
them on small instances, and TLAPS proofs for instances of any size. Paths below
are relative to the repository.

## 1. Inventory

| Component | State | Operations | What makes it correct |
|---|---|---|---|
| Warp (`src/core/warp.cpp`, `include/warpsim/core/warp_state.hpp`) | PC, active and live masks, divergence stack, registers and predicates, `parked`, two counters | `step`: resolve the stack, retire lanes that fell off the end, issue one instruction (branch, exit, barrier, memory, ALU) | every lane executes its own path; no lane is lost, duplicated or resurrected; a barrier is only waited at with all lanes together; the stack stays small; the loops of `step` end |
| Block scheduler (`run_block` in `src/core/device.cpp`) | the warps, `any_runnable`, statistics | a pass steps each runnable warp once; the scan after it completes a barrier, ends the block or starts the next pass | nobody passes a barrier early or is left behind; finished warps do not block it; issue is fair; the no-progress fault is unreachable; the block ends |
| Reconvergence analysis (`src/asm/reconvergence.cpp`) | basic blocks, successor lists, a set of post-dominators per block | cut into blocks, iterate the data flow, write the immediate post-dominator into each guarded branch | equals the definition in `docs/wisa-spec.md` section 8; ends; what it records is what the warp relies on |
| Device launch (`Device::launch`) | global memory, accumulated statistics | decode all words, refuse empty launches, run the blocks in order | blocks are isolated but for global memory; a fault stops the launch; every thread runs once |
| Host (`python/bindings/module.cpp`) | none of its own | write and read global memory, launch | it reads what the launches have left, also those that faulted |
| Memories (`src/core/memory.cpp`, `Warp::memory_access`) | global, shared, parameter words | bounds and alignment check, load, store, in lane order | lane order decides races within a warp; a refused access leaves the effects of the lanes before it |
| Memory analysis (`src/core/memory_analysis.cpp`) | counters | distinct segments, bank conflict degree | equals the definitions in `docs/counters.md` |
| ALU (`src/core/alu.cpp`, `register_file.hpp`) | registers | 32-bit integer and binary32 operations, comparisons | two's complement, one rounding, NaN and saturation at their edges; nothing but the destination of the lanes under the mask changes |
| Instruction encoding (`src/isa/instruction.cpp`) | none | validate, encode, decode | one word per valid instruction, and none for anything else |
| Assembler (`src/asm/assembler.cpp`, `lexer.cpp`) | token stream, the program so far, labels, pending branches | parse line by line, resolve branches, annotate | accepts exactly the well-formed sources; names the first faulty line; branches go where their labels are; never ends the process |
| Disassembler (`src/asm/disassembler.cpp`) | none | print a program | the listing reassembles to the same words |
| Timing, Python package, reports | none of their own | marshalling and sums | out of scope |

Interactions: the launch calls the scheduler for one block at a time; the
scheduler calls `Warp::step` for one warp at a time and writes `parked` of all of
them; a warp calls the block's memory; the assembler's analysis reaches the warp
only through the 16-bit reconvergence PC in each branch. Nothing runs on a second
thread. The hard part is not preemption but the interleaving of *logical* actors:
the lanes of a warp, whose paths the stack multiplexes, and the warps of a block,
which the pass multiplexes and the barrier synchronises; and long sequences of
legal steps (nested divergence with lanes retiring in the middle of it) that no
unit test writes down. The list of hazards is in `PROJECT.json`.

## 2. Modules

| Module | Models |
|---|---|
| `Isa` | program counters of 16 bits, guards, decoded instructions |
| `Simt` | `WarpState` and, as functions from warp to warp, everything `warp.cpp` does to it |
| `Warp` | one warp driven to its end: the transitions of `Warp::step` |
| `LanePaths` | abstract: lanes with a PC each, no masks and no stack |
| `Block` | `run_block`: several warps of `Simt`, the pass, the barrier |
| `Barrier` | abstract: what `bar.sync` promises to the warps of a block |
| `Reconvergence` | `annotate_reconvergence`, one transition per visited block |
| `PostDom` | sections 8.1 and 8.2 of the ISA document as definitions over paths, the reference `Reconvergence` is compared with |
| `Assembled` | what holds of `Warp` on the programs that the assembler emits: branches with the PCs of `PostDom` |
| `Memory` | `Warp::memory_access` lane by lane, the memories and the analyzer behind it |
| `Launch` | `Device::launch`: the grid, its blocks, lanes and threads in 32-bit sizes |
| `Device` | the composition: a host that reads, writes and launches; blocks one after the other, each the scheduler of `Block`; global and shared memory behind the memory instructions |
| `Alu` | `execute_alu` on the registers of a warp, after `Encoding` has decoded the word: integers, binary32, comparisons |
| `Word` | an instruction as a struct and as a word: fields, `validate`, packing and unpacking |
| `Encoding` | `encode` and `decode` applied to and fro |
| `Assembler` | `assemble` from lines to words, and `disassemble`, whose listing is assembled again |
| `MC*` | programs, lanes and alphabets for TLC |
| `ControlProofs` (of `Simt` and `PostDom`), `WarpProofs`, `ReconvergenceProofs`, `DeviceProofs` (with those of `Block`), `MemoryProofs`, `LaunchProofs`, `InstructionProofs` (of `Encoding` and `Alu`), `AssemblerProofs` | the proofs |

### Correspondence with the code

`Simt` keeps the code's decomposition: `SwitchTo` is `switch_to`, `Rejoined` and
`Resumed` are the two branches of the loop of `resolve_stack`, `Retire` is
`retire`, `Diverged`, `Jumped`, `Exited`, `Parked`, `Compared` and `Advance` are
the cases of the switch in `step`. Masks are sets of lanes; the vector `stack` is
a sequence with its top at the end, and an entry has the code's three fields. Of
the registers only the predicates are kept, as the set of those that are true of
each lane; the lanes on which a `setp` compares true are chosen
nondeterministically, which covers every value the registers can hold. Memory and
ALU instructions are then steps to the next PC, and a memory instruction some lane
executes may also fault.

`step` is a loop around a loop around a switch. A transition of `Warp` is one turn
of the inner loop (`Rejoin`, `Resume`), one turn of the outer loop (`FallOffEnd`) or
the switch (`Bra` .. `Fault`). Nothing can interrupt the code between them; the
grain is chosen so that invariants are checked, and proved, at each turn, and so
that the end of the loops is a liveness property. `Block` uses the same turns for
the warp at `turn` and moves to the next warp when it has issued. A warp that
finishes by falling off the end issues nothing, and `Skip` moves on from it, as
`StepOutcome::Finished` does.

In `Block`, `arrivals` counts the steps that returned `StepOutcome::Barrier` and
`issued` the instructions between barriers; the first does not exist in the code
(its sum is `barrier_instructions`), the second is per warp what
`instructions_issued` counts. Neither influences a transition except for the bound.

`Reconvergence` names a block by its first PC and the virtual exit node by the PC
after the last instruction; the code numbers them in the same order. A bit set is
a set. `Visit` is one turn of the inner loop of `post_dominators`, in place.

`Memory` has two kinds of transitions: `Issue` is `memory_access` up to its second loop
(addresses, `on_warp_access`), and `Load`, `Store` or `Refuse` is one turn of that loop. The
code cannot be interrupted there either; the grain shows what a fault leaves behind. A
memory is a function on its whole words: every access that passes `check` is aligned, so
bytes are never read apart. `before` is a history variable, the state at issue.

`Launch` takes `run_block` by its outcome (`Block` models it): every live lane of a block ends,
in any order, or a lane faults. A lane ends as the *thread* it reads from the special
registers, and `ran` collects the threads. `phase` is the place in `launch`: `called` before the
loops, `block` in `run_block`, `next` between two blocks. Sizes, indices and counters are
numbers below `WordRange`, and `Count` multiplies modulo it as `Dim2::count` does.

`Device` extends `Block` and uses its actions as they are: `Control` is any step of `run_block` that is no
memory instruction, and to `Other` and `Fault` of a memory instruction `Performs` and `Refuses` add what the lanes do to the
memories. `Memory` shows that the lanes of one instruction act in lane order, so here they act in one
transition, in which the highest of the lanes that store to a word prevails. A word of memory is known by the *event* that stored it
(a lane's part of an instruction, or a write of the host); `stored` and `loaded` are histories. An epoch
is a block or an access of the host, which come one after the other. The address of an access is a function of
block and thread, chosen by the program (`Accesses`).

`Alu` extends `Encoding`: a word is decoded and then executed, on any mask and registers. Numbers have `Bits` bits; a binary32 is a
sign, an exponent and `Mantissas` mantissas, its value a whole number of the smallest positive float's, so that sums
and products are exact and `Nearest` is the only rounding. C++ leaves the payload of a NaN and the zero that `fmin` returns to the machine: both are
choices. `add`, `sub` and `mul` are unsigned in the code and therefore taken modulo 2^`Bits`. Powers of two (`TwoTo`) and
`Bitwise` are recursive functions, of which one can prove something.

`Word` has the nine fields of an instruction with sizes that are constants (`Numbers` opcode
numbers, 2^8 in the code, and so on; an immediate has `Immediates` values). `Place` is a
field's weight in the word, 2 to the power of its shift: shifting and masking is division and
remainder, or-ing the fields of a validated struct is adding them. `Validate` keeps the order of the
checks of the code, because the error of the first one is returned.

`Assembler` reads a *line* per transition: an optional label and a statement with its operands as
they are written (a register, a signed number, an address, a name). This is what the lexer and
the token functions leave; an operand that the code refuses has no reading. An error of the lexer, wherever it is
in the file, comes before every error of the parser, so the sources are those that the lexer accepts. `program` is
`program_`, `labels` is `labels_` (PCs by name), and `program.labels` the names by PC, of which
`emplace` keeps the first. The words are those of `Word`, and each pass decodes and encodes them as
the code does; where the code calls `value()` the model has a phase `aborted`. The analysis is
taken by its result, `PostDom`, which `ReconvergenceProofs` justifies. After a first round the
listing becomes the source of a second one.

## 3. Runs

Bounds common to the runs of warps and blocks: two or three lanes, one predicate register, programs of two
to seven instructions. `NoReconv` stands for 0xFFFF and is chosen beyond these
programs' PCs, so that it plays both its roles (one program of `warp` and one of `block` is longer,
so that the PC wraps around in it); `MaxDivergences` bounds how often a
warp may diverge, and a run whose programs loop may stop there (deadlock is then not
checked).

| Run | Question | Bounds |
|---|---|---|
| `warp` | Do masks, stack, barrier and counters stay consistent, does each lane run its own path, whatever the reconvergence PCs, and does a warp end whose program branches forward only? Every program of a `setp` and two instructions with every target and reconvergence PC, and of a `setp` and three with those of loops and ifs, and a program of ten instructions with nine PCs. And does the nesting hold that the core relies on and does not check? Every assembled program of four instructions, and kernels shaped like those of `tests/core/divergence_test.cpp` (`Parsed`) | 3 lanes, 4 divergences; nesting is at most 2 with 3 lanes, reached after 2; forward programs never reach the bound |
| `reconvergence` | Is the data flow equal to the definition, and does it end? All programs of up to three instructions and those of four that begin with a guarded branch or none | no state bound |
| `block` | Does the scheduler implement the barrier, is issue fair at every moment between two barriers, and does a block end whose program branches forward only? All short programs with forward branches and three loops with barriers that warps leave at different times; one warp, or up to three, the last partial or full | 2 lanes per warp, 10 issues between barriers, 4 barriers: forward programs never reach the bounds |
| `memory` | Do lane order, loads, faults and counters keep to sections 2.5 and 5 of the ISA document? Addresses that coincide, conflict in a bank, wrap around, straddle the end or are not aligned | 3 lanes under every mask, words of 16 values, 2 and 3 words of memory, 2 instructions, so that a load can see a store and a destination can be the next address |
| `launch` | Does a launch run every thread once, block by block, and say the truth in counters and faults? 63 pairs of grid and block: empty, partial last warps, wrapping products | warps of 3 lanes, words of 16 values, 1 launch (nothing the module describes survives into the next) |
| `device` | Which values may a load deliver? Kernels that exchange data between lanes, warps and blocks with and without barriers, races included, that access out of bounds on some lanes, under guards and branches; host reads and writes in between | blocks of 3 lanes in 2 warps, 1 or 2 blocks, 3 epochs: a launch of two blocks and a host access, or three launches, as many as an earlier store, an overwriting one and a load need; no kernel reaches the bounds on issues and barriers |
| `encoding` | Are `encode` and `decode` inverse, and do they accept the table of section 3 of the ISA document and nothing else? Every word, and every struct with each field up to one value more than its bits hold, for one opcode of each of the ten shapes and the two numbers next to the table. And does the ALU compute what section 4 says? Every ALU opcode, with register and immediate operands, the destination being a source or not | fields of 48, 2, 3 and 3 values (`InstructionProofs` has the others); 2 lanes; registers of 6 bits: all values of the first operand against 3 (also a subnormal), 28 (infinity), 32 (the least number, also -0.0) and 63 (-1, also a quiet NaN), immediates of 0 and 61 (-3, also a signaling NaN); either lane under the mask alone; floats with 4 mantissas, so that a NaN may be quiet or signaling, on both sides of the range of integers |
| `assembler` | What is accepted, which line does an error name, where do branches go, does the listing reassemble? All sequences of four lines of labels and branches, of three lines of directives and references, and every operand in every shape | PCs of 2 bits: programs of up to three instructions and one too many; immediates of 4 bits; 2 registers and 2 predicates, so that 2 is one too large |
| `entry_first`, `patched_barrier`, `longest_program`, `wrapping_block` | four statements of the documentation that the code does not keep, section 5 | one program each, or the sources of three directives |

Three lanes are enough for what the stack can do: two lanes give a taken and a
deferred path, the third lets either of them diverge again before they rejoin.
Three warps let one run, one wait and one be finished.

### Fairness

`FairSpec` adds weak fairness of the whole next-state relation and nothing else.
`run_block` and `step` are loops on one thread: they do not stop while they can take
a turn. Which turn that is has no fairness; the choices in the model (the outcome of
a comparison, whether an access faults) are data. `Terminates` and `BlockEnds` are therefore
stated of programs whose branches go forward: with a backward branch a kernel may loop for ever
by itself.

### Properties worth a comment

- `LanePartition` says more than the assertion in `check_invariants`: a live lane is
  in *some* mask. A lane in none would never run again, and `run_block` would poll a
  warp that is drained and not finished for ever.
- `StackBounded`: running and deferred paths are no more than the live lanes, in
  every loop, although the code has no limit.
- `StackDiscipline`: `retire` walks the whole stack and never finds a lane to clear.
- `CounterBound`: at most two reconvergence events per divergence, with the pending
  entries accounted for.
- `PathsNested` is the invariant the ISA document says "is not checked at run time". With it, rule 4 resumes only
  paths that have no reconvergence PC.
- `WellPlacedBarriersMeet`: when a `bar.sync` post-dominates the divergent branches that
  reach it and no lane exits there, it never faults.
- `FewestTransactions`: the conflict degree is the least number of passes in which the banks can
  serve the lanes, and the segments the least number of transactions that cover them, which is what `memory_stats.hpp`
  says they count.
- `FaultIsFirst` ties the address and the lane of a fault to the registers at issue and to what the lanes below have done.
- `NoThreadTwice` holds for all sizes, also where the product wraps (and so does `ThreadsInside`, which is proved);
  `EveryThreadRuns` needs `BlockFits`: the lanes of a block, rounded up to warps, can be counted.
- `LoadsInOrder` is the memory model of section 5 in one property: barriers, lane order, program order of a warp, the order of
  blocks and launches are the only orders there are, and within them no load delivers a value too early or one that was
  overwritten. It fails if shared memory outlives its block, if a barrier is released early, or if the lowest lane prevails.
- `IntegerResults`, `FloatResults` and `PredicateResults` are stated of exact integers and of the instruction in the word,
  by what characterises a result (a remainder smaller than the divisor, no float nearer), not by the code's cases.
- `FloatResults` constrains every f32 instruction, with each statement for its own operands: nearest for finite ones, infinite terms of a sum,
  NaN, the least and greatest number for `fmin` and `fmax` (where quiet and signaling NaNs differ, section 6), the sign for `fneg`.
- `TypeOK` of `Warp` says that the PC keeps its 16 bits, also in programs longer than there are PCs, which the assembler
  refuses but `Program` of the Python module may hold. It does not say that the PC never wraps around: in such programs it
  does, as in the code, and what the warp promises of lanes, stack and barriers holds there, too. That a warp ends
  (`Terminates`, `BlockEnds`) does not, and is stated of programs that the PCs can index.
- `FaultNamesBlock`: the launch drops all statistics when a block faults; what the host can
  tell from the block number is exactly which blocks have completed.
- `AcceptsSpecified` compares two independent descriptions: the masks of `field_use` and the checks
  of `validate` with the table of shapes.
- `AcceptsOrNamesFirst` is stated of the source alone: what is on a line and what precedes it. The
  assembler finds the same faults in three passes.
- `RoundTrip` of `Assembler` covers every form in which an immediate is written and printed, and a source whose
  label has the form of a synthesized one.
- `BarrierContract`: the flags `parked`, the pass and the scan implement `Barrier`.

## 4. Proofs

All proofs hold for every finite non-empty set of lanes, every set of predicates,
every program (for what rests on the assembler, of a length it accepts), every source, every size of block, grid, memory and word. The assumptions are
those of the modules (`IsaAssumption`, `SimtAssumption`, `ProgramsAssumption`, `AssembledAssumption`, `BlockAssumption`,
`MemoryAssumption`, `LaunchAssumption`, `DeviceAssumption`, `WordAssumption`, `EncodingAssumption`,
`AluAssumption`, `AssemblerAssumption`), which the runs evaluate.

- `ControlProofs`, the warp: lemmas about the functions of `Simt`. The invariant of a warp is
  `Sound`: its type, the *partition* of the live lanes into the active mask and
  non-empty, pairwise disjoint stack masks, and that a parked warp is converged. The
  assertion of the code (disjointness) is not inductive: that popping an entry keeps
  the masks disjoint needs the disjointness of all pairs, that a drained warp has
  finished needs the covering, and the bound on the stack needs that no entry is empty.
  Retiring lanes empties no entry because the lanes that retire are active ones. A
  converged mask implies an empty stack, which is why the barrier may ignore the stack.
- `ControlProofs`, programs: the order of `PostDom`. A node post-dominates another if a set of nodes that is *closed* (under successors,
  but for the first node) has the second and neither the first nor the exit; what `ReachAvoiding` computes is the least
  closed set. From unions and differences of closed sets follow transitivity, antisymmetry of nodes that can exit, that the post-dominators of
  such a node are a chain, and, by the cardinality of these chains, that there is a nearest one.
- `WarpProofs`, whatever the reconvergence PCs: `TypeOK`, `LanePartition`, `BarrierConvergent`,
  `StackBounded`, that a drained warp has finished, and `StackDiscipline`. `CounterBound` is inductive once the
  arrivals that a stack can still cause are a function of it (`Pending`: two for a deferred path, one for lanes that wait):
  rule 3 counts one and takes one away, rule 4 only takes away. And the refinement, `Spec => LanePathsSpec`: the
  mapping gives a lane the warp's PC when it is active, the resume PC of the entry that holds it when it is deferred,
  and -1 when it has retired. The partition makes this a function; rule 3 moves no lane because the PC
  it compares is the PC it stores, and rule 4 because it restores what was stored.
- `WarpProofs`, on assembled programs: `PathsNested` and `WellPlacedBarriersMeet`. The first is not inductive. `Nested`
  adds that of two entries the lower's reconvergence PC post-dominates the upper's; an upper entry *without* one is the
  case that makes this delicate, for a branch whose paths never exit records none: above it every path is `Trapped` in a loop
  without exit, where everything post-dominates, and where no lane retires to let rule 4 resume the entry. An instruction then
  passes nothing recorded: at the PC of a path only the top's reconvergence PC can be, since the others strictly
  post-dominate it, and there rule 3 acts before the instruction. For barriers the invariant also remembers that every entry
  has a branch from which the paths above it have come (`HaveBranches`): were a lane deferred at a well-placed barrier, the
  branch of the top entry would be post-dominated by the barrier, and so the nearest post-dominator it recorded by it, too, and
  it by that one, without being it: a cycle without exit, which contradicts that the branch can exit.
- `ReconvergenceProofs`: `RecordsReference`, the result of `annotate_reconvergence` is the reference, for every program it does not refuse.
  A block is a straight line, so that blocks and instructions have the same post-dominators (`StraightLine`, `Entered`). The data flow never
  loses a post-dominator (`FlowOK`, in whatever order blocks are visited); when a sweep has changed nothing its sets have only
  post-dominators, since the blocks without a given element are a closed set. That the code finds the immediate one by *counting* the
  post-dominators of post-dominators is right because strict post-dominators are a chain; of a branch that cannot
  exit every block is a post-dominator of every other, and it finds none.
- `DeviceProofs`, one block: the same `Sound` for every warp, `BarrierPhases`, and that
  the no-progress fault is unreachable. The invariant needed for the last is
  `NothingToStep`: a pass that has stepped no warp so far has only seen warps that are
  finished or parked. `RoundRobin` needs to know where the turn is (`InStep`): of two running warps the earlier
  is one instruction ahead exactly while the turn is between them. `BarrierContract` includes that the rounding up in
  `warp_count` never creates a warp without lanes.
- `DeviceProofs`, the device: each block of each launch keeps the invariant of a block from its first state to its end or fault, and
  `LoadsInOrder`. Its invariant says that no event so far is ordered after the one that happens (`AllPast`) and that the event a word holds is
  not ordered before any that was stored at the word's place (`AllLatest`): what a load delivers is then a latest store. Between warps the
  order comes from `BarrierPhases`, within a warp from the number of the instruction, within an instruction from the lane.
- `MemoryProofs`: stores in lane order, loads that deliver what memory held at issue, the fault
  of the first refused lane, and no access outside, for any number of lanes, word size and
  sizes of memory. Besides these four the invariant says that performed lanes are below
  pending ones, that an instruction changes registers or memory but not both (so a later lane's load sees the
  memory of issue, and a later lane's store the registers of issue) and that addresses are those of issue.
  `FewestTransactions` is combinatorial: a numbering of the lanes that separates what must be separate is an injection of the segments, or
  of the words of the fullest bank, and numbering those is one.
- `LaunchProofs`: every thread of a successful launch runs, none twice and none outside, blocks in order,
  all in 32 bits. The invariant ties the threads that ran to the lanes that ended
  (`RanSoFar`); the rest is arithmetic: the linear index is one to one on the lanes, its split into
  `tid.x` and `tid.y` is one to one, every thread of a block that fits is some live lane of
  some warp, and the two loops visit the blocks in row order. `FaultNamesBlock` follows at the step that faults: the
  number of a block orders blocks as the loops do, and some lane of the block that faults has not ended. `CountersMatch`: before
  a block has ended the counters are those of its number in this order (`Counted`), and threads and warps
  are counted by mapping them one to one to numbers.
- `InstructionProofs`, encoding: `Inverses`, `AcceptsTable` and `TypeCorrect`, for fields of any size. A word is a number in
  mixed radix and its fields are its digits: `Unpacked(Packed(i)) = i` when every field is below its size,
  `Packed(Unpacked(w)) = w` always, by uniqueness of quotient and remainder, one digit at a time. That `Validate`
  accepts exactly the table is a case per shape. The invariant says of an accepted instruction that it is
  specified and that its other form is its origin.
- `InstructionProofs`, the ALU: `OnlyDestination`, `IntegerResults`, `FloatResults` and `PredicateResults`, for registers and floats of any
  width in which 1.0 is finite. The invariant (`Ran`) says where an executed instruction has left what `Evaluate` or `Compare`
  makes of the registers before it, and that the instruction is one `Validate` accepts; the rest is arithmetic. That `TwoTo` and
  `Bitwise` are what their recursions say needs that such functions exist (`Recursion`) and an induction over a set of
  numbers, which takes no operator. A word is congruent to its signed value, so ring operations on words are those on signed values; a
  word is the sum of its bits, so `Bitwise` has the bits of its table; the floor division that `\div` is truncates once the signs are
  taken off; `sra` fills the sign in because the bits it sets are those the logical shift left clear. `Units` is strictly
  increasing (a float's exponent decides, and at equal exponents its mantissa): therefore
  a closest float exists, at most two are, and these are neighbours, one of them even, so that the choice in `Nearest` is
  not empty. A float is a whole multiple of the smallest, and multiplying by `One` scales the exact
  value of a product to the same unit, which gives `fadd`, `fsub` and `fmul` as cases of `ffma`.
- `AssemblerProofs`: `BranchesAsWritten`, `AcceptsOrNamesFirst` and `RoundTrip`, for sources of any length. The invariant
  (`Inv`) is that what has been read of the source *determines* the state: the lines read hold no fault (`NoFaultBefore`), and
  directives, words, labels and pending branches are what these lines say (`DirectivesRead`, `WordsRead`, `LabelsRead`,
  `PendingRead`), where the immediate of a branch depends on the pass (`ImmIn`): no target yet, its target, its target
  and reconvergence PC. The third of the properties needs the most. In the second round the invariant says only
  that the source is the listing of a `WellAssembled` program, which the first round leaves. A listing has a
  line for each directive, each label and each instruction, in order (`Shows`, `Relisted`); an operand that is printed is read as it
  was (`Reparse`, by the shapes of operands, a float by its sign and bits, a signed number modulo the word); so no line is
  faulty (`RelistedFaultless`), every target is labelled, and the listing cannot be refused. Its words
  are the same (`RelistedWord`) because a reconvergence PC depends on nothing but successors (`SameFlowReconverges`),
  which the labels of the listing preserve, whether the source's or made up. That `value()` never meets an error is
  part of it: words of instructions that `Validate` accepts are decoded to these, and a patched branch is accepted again.

Only model-checked:

- liveness: that a warp ends (`Terminates`), that a block ends (`BlockEnds`) and that the analysis does (`AnalysisEnds`) rest
  on fairness, about which TLAPS does not reason.

Every other property of the passing runs is stated by a theorem.

Two conventions of the modules come from proving about them. Difference is parenthesised next to `UNION` and `SUBSET`, because TLC and
TLAPS read `UNION S \ T` differently. And where the code decides one case after another the modules say `IF .. ELSE`: a `CASE` whose
guards overlap may choose any of them, which TLC does not show (it takes the first) and a proof does.

## 5. Where code and documentation disagree

1. `.entry` need not be the first directive (`docs/wisa-spec.md:185`): the assembler requires only that no
   instruction precedes it (`src/asm/assembler.cpp:149`) and accepts `.param` and `.shared` before it. Run
   `entry_first`.
2. Results do depend on the reconvergence point (`docs/wisa-spec.md:262`) when a kernel has a
   barrier after an if: with 0xFFFF in the branch it faults. Run `patched_barrier`.
3. In a program of the maximal length the PC after the last instruction is 0xFFFF, the value
   of "no reconvergence point", and lanes that fall off the end are treated as arrivals
   (`src/core/warp.cpp:81`) instead of retiring. Run `longest_program`.
4. `Dim2::count` multiplies in 32 bits (`include/warpsim/core/types.hpp:32`), so a block whose size
   exceeds them runs fewer lanes than `docs/counters.md:21` counts, or is refused as empty, and near the
   limit (2^32 - 31 lanes and more) the rounding up to warps wraps and no lane runs at all.
   Run `wrapping_block`, with words of 4 bits.

## 6. Not modelled

The warp, the block, the analysis and how they fit, memory accesses, the launch with its memories and its host, the
ALU, encoding, assembler and disassembler are modelled. Left out:

- the sums of the memory and issue counters over warps and blocks (`device.cpp:53-77`, `143-151`): nothing reads them but
  the host, and each is an addition;
- characters, columns and messages in the lexer and the assembler: a line is modelled by what they leave of it;
- the decimal form of floats in sources and listings (`std::from_chars`, `std::to_chars`): a float is its bits, so that
  printing and reading back loses nothing is assumed;
- which NaN an operation returns: a choice in the model;
- the timing model (`src/instr/timing.cpp`): a sum of counters weighted with constants, with no state;
- the Python package but for the host's three operations: marshalling, NumPy references, reports.

Details that the modules leave out, on which no property depends: the host reads and writes bytes (`module.cpp:182-207`), in
`Device` whole words, the unit in which kernels access memory; an address refused for its alignment is in `Device` like one refused
for its bounds (`Memory` tells them apart); that the rounding up to warps wraps at 32 bits is in `Launch`, not in `Block`.

Further remarks on the documentation, which no run checks:

- `bar.sync` ignores its guard (`warp.cpp:172`): a warp parks at one whose guard is false on every lane.
  `docs/wisa-spec.md:29` says that such a guard skips the lane. `Simt` does what the code does.
- `docs/wisa-spec.md:113` says that `fmin` and `fmax` of a number and a NaN give the number. The code calls `std::fmin` and
  `std::fmax` (`alu.cpp:200-203`), which may return a NaN when the operand is a signaling one, and with glibc do on some
  machines. Integer registers and immediates can hold one (0x7F800001). `Lesser` allows both results, and `FloatResults` demands the number only of a quiet NaN.
- `BREAKDOWN.md:147`, a plan, expects a deadlock to be reported when a warp exits before a barrier. `docs/wisa-spec.md:123` and the
  code let the barrier complete without it, and so does `Barrier`.
- `disassembler.hpp:28` promises that a listing reassembles to the same words; for a program whose words were patched by hand
  (other reconvergence PCs, a target without label where the made-up name is taken) it does not.
