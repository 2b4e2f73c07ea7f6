-------------------------------- MODULE Isa --------------------------------
(***************************************************************************)
(* What the control flow of a kernel is made of: program counters, guards  *)
(* and decoded instructions (include/warpsim/isa/instruction.hpp).         *)
(***************************************************************************)
EXTENDS Integers, Sequences, FiniteSets

CONSTANTS
    Preds,          \* the predicate registers (p0..p3 in the code)
    NoReconv        \* isa::no_reconvergence = 0xFFFF, also the last 16-bit PC

ASSUME IsaAssumption == NoReconv \in Nat \ {0}

PC == 0..NoReconv

\* Mutant: the PC is wider than 16 bits.
SuccessorWide(pc) == pc + 1
\* ++pc on a uint16_t.
Successor(pc) == IF pc = NoReconv THEN 0 ELSE pc + 1

\* isa::Guard: @p is [pred |-> p, negate |-> FALSE, present |-> TRUE], @!p negates.
Guards == [present : BOOLEAN, negate : BOOLEAN, pred : Preds]

\* isa::Instruction, one operation per case of the switch of Warp::step; dst is
\* the destination of a setp, target and rpc are the halves of a bra's imm.
Operations == {"bra", "exit", "bar.sync", "memory", "setp", "alu"}
Instructions ==
    [op : Operations, guard : Guards, dst : Preds, target : PC, rpc : PC]
=============================================================================
