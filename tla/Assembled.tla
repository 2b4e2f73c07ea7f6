----------------------------- MODULE Assembled -----------------------------
(***************************************************************************)
(* A warp running what the assembler emits: Warp on programs whose         *)
(* branches carry the reconvergence PCs of PostDom.  The stack discipline  *)
(* of warp.cpp and the post-dominators of reconvergence.cpp meet here: the *)
(* first does not check what the second guarantees (wisa-spec.md:256).     *)
(***************************************************************************)
EXTENDS Warp, PostDom

CONSTANT Parsed        \* programs as the parser leaves them, among those considered

\* As the assembler emits them.
Emitted == {Annotated(prog) : prog \in Parsed}

\* The analysis refuses a branch past the last instruction (Reconvergence.tla).
ASSUME AssembledAssumption ==
    /\ Emitted \subseteq Programs
    /\ \A prog \in Parsed :
           /\ prog \in Seq(Instructions) /\ Len(prog) \in 1..NoReconv
           /\ \A k \in DOMAIN prog : prog[k].op = "bra" => prog[k].target < Len(prog)

-----------------------------------------------------------------------------
(* Properties                                                              *)

\* The entries are ordered by nesting (wisa-spec.md:256): every recorded PC is
\* still ahead, on every way to the exit, of the path that runs and of every path
\* deferred above it. So no path can overtake the point where others wait for it, and
\* rule 4 resumes only paths with no reconvergence PC: a divergence that records
\* one ends there, with every lane that took part in it.
PathsNested ==
    LET Ahead(pc, n) == \A j \in 1..n :
            LET r == warp.stack[j].rpc
            IN  r # NoReconv => PostDominates(program, r, pc)
    IN  program \in Emitted =>
            /\ \A k \in DOMAIN warp.stack : Ahead(warp.stack[k].resume, k)
            /\ warp.active # {} => Ahead(warp.pc, Len(warp.stack))
            /\ Emptied(warp) => Top(warp.stack).rpc = NoReconv

\* A bar.sync that post-dominates every divergent branch that can reach it (and
\* whose lanes can exit) is never executed in divergent code.
BarrierPlacedWell(prog, b) ==
    \A c \in 0..Len(prog) - 1 :
        /\ prog[c + 1].op = "bra" /\ prog[c + 1].guard.present
        /\ b \in ReachAvoiding(prog, c, -1)
        => PostDominates(prog, b, c) /\ CanExit(prog, c)
WellPlacedBarriersMeet ==
    /\ program \in Emitted
    /\ \A k \in DOMAIN program :
           program[k].op = "bar.sync" => BarrierPlacedWell(program, k - 1)
    => BarriersMet
=============================================================================
