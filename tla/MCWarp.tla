------------------------------- MODULE MCWarp -------------------------------
(* Small programs for TLC: any short ones, assembled ones, and kernels like *)
(* those of tests/core/divergence_test.cpp.                                *)
EXTENDS Assembled

CONSTANTS p, L1, L2, L3

MCLanes == {L1, L2, L3}

NoGuard == [present |-> FALSE, negate |-> FALSE, pred |-> p]
If == [present |-> TRUE, negate |-> FALSE, pred |-> p]
IfNot == [present |-> TRUE, negate |-> TRUE, pred |-> p]

Op(op, guard) == [op |-> op, guard |-> guard, dst |-> p, target |-> 0, rpc |-> 0]
BraTo(guard, target, rpc) ==
    [Op("bra", guard) EXCEPT !.target = target, !.rpc = rpc]

SetpP == Op("setp", NoGuard)
Alu == Op("alu", NoGuard)

\* A setp followed by any instructions, branches with the given targets and
\* reconvergence PCs.
Alphabet(targets, rpcs) ==
    {Op("exit", NoGuard), Op("exit", If), Op("bar.sync", NoGuard), Op("setp", If),
     Op("memory", IfNot)}
    \cup {BraTo(NoGuard, t, NoReconv) : t \in targets}
    \cup {BraTo(If, t, r) : t \in targets, r \in rpcs}

\* Three instructions with every target and every reconvergence PC, and four
\* with the targets and reconvergence PCs of loops and of ifs.
ShortPrograms ==
    {<<SetpP>> \o s : s \in
        [1..2 -> Alphabet(0..2, 0..2 \cup {NoReconv})]
        \cup [1..3 -> Alphabet({0, 3}, {0, 3, NoReconv})]}

\* As the parser leaves them.
Goto(guard, target) == BraTo(guard, target, 0)
ExitAll == Op("exit", NoGuard)
ExitIf == Op("exit", If)
Bar == Op("bar.sync", NoGuard)

\* A setp and three instructions.
Short ==
    LET alphabet == {ExitAll, ExitIf, Bar, Op("setp", If)}
                        \cup {Goto(If, t) : t \in 0..3} \cup {Goto(NoGuard, t) : t \in {0, 3}}
    IN  {<<SetpP>> \o s : s \in [1..3 -> alphabet]}

\* The worked example of section 8.5, and a barrier at its join.
IfElse == <<SetpP, Goto(If, 4), Alu, Goto(NoGuard, 5), Alu, Bar, ExitAll>>
NestedIf == <<SetpP, Goto(If, 6), SetpP, Goto(If, 5), Alu, Alu, Bar>>
IfsWithOneJoin == <<SetpP, Goto(If, 6), SetpP, Goto(If, 6), Alu, Alu, Bar>>
Loop == <<SetpP, Goto(If, 4), Alu, Goto(NoGuard, 0), Bar>>
EarlyExitLoop == <<SetpP, Goto(If, 5), SetpP, Goto(If, 0), ExitAll, ExitAll>>
LoopInIf == <<SetpP, Goto(If, 5), Alu, SetpP, Goto(If, 2), Bar, ExitAll>>
GuardedExitOnPath == <<SetpP, Goto(If, 4), SetpP, ExitIf, Alu, ExitAll>>
BarrierOnBothPaths == <<SetpP, Goto(If, 4), Bar, ExitAll, Bar, ExitAll>>
BarrierInLoop == <<SetpP, Bar, SetpP, Goto(If, 1), ExitAll>>
GuardedBarrier == <<SetpP, Goto(If, 3), Alu, Op("bar.sync", IfNot), ExitIf>>
FallsOffOnePath == <<SetpP, Goto(If, 3), ExitAll, Alu>>

Kernels == {IfElse, NestedIf, IfsWithOneJoin, Loop, EarlyExitLoop, LoopInIf,
            GuardedExitOnPath, BarrierOnBothPaths, BarrierInLoop, GuardedBarrier,
            FallsOffOnePath}

MCParsed == Short \cup Kernels
\* More instructions than PCs: the one after the barrier, at the last PC, is the first.
\* That PC is also no_reconvergence, so that the paths of the branch rejoin at it.
Wrapping == <<SetpP, ExitIf, BraTo(If, 7, NoReconv), Alu, Alu, Alu, Alu, Alu, Bar, ExitAll>>

AllPrograms == ShortPrograms \cup Emitted \cup {Wrapping, <<>>}
MCPrograms == AllPrograms   \* TLC evaluates AllPrograms only once

\* An if with a barrier after it, as test_torture.py patches it: the branch has
\* lost its reconvergence PC.
PatchedIf == {<<SetpP, BraTo(If, 3, NoReconv), Alu, Op("bar.sync", NoGuard)>>}

\* The longest program the assembler accepts, PCs 0..NoReconv - 1, in which a
\* branch has paths that never rejoin and one of them falls off the end.
LongestProgram ==
    {<<SetpP, BraTo(If, 4, NoReconv), Op("bar.sync", NoGuard), Op("exit", NoGuard), Alu>>}
=============================================================================
