------------------------------- MODULE MCBlock -------------------------------
(* Blocks of two and three warps of two lanes for TLC.                      *)
EXTENDS Block

CONSTANT p

MCLanes == 0..1

NoGuard == [present |-> FALSE, negate |-> FALSE, pred |-> p]
If == [present |-> TRUE, negate |-> FALSE, pred |-> p]

Op(op, guard) == [op |-> op, guard |-> guard, dst |-> p, target |-> 0, rpc |-> 0]
BraTo(guard, target, rpc) ==
    [Op("bra", guard) EXCEPT !.target = target, !.rpc = rpc]

Compare == Op("setp", NoGuard)
Alu == Op("alu", NoGuard)
Bar == Op("bar.sync", NoGuard)
ExitIf == Op("exit", If)

\* A setp and any three of: a barrier, guarded exit and branches, an access.
Alphabet ==
    {Bar, ExitIf, Op("memory", If), BraTo(NoGuard, 4, NoReconv)}
    \cup {BraTo(If, t, r) : t \in {2, 3}, r \in {3, NoReconv}}
Backward(prog) == \E k \in DOMAIN prog : prog[k].op = "bra" /\ prog[k].target < k
ShortPrograms ==
    {prog \in {<<Compare>> \o s \o <<Alu>> : s \in [1..3 -> Alphabet]} : ~Backward(prog)}

\* Kernels that meet at a barrier in every turn of a loop. In the first the warps
\* leave the loop after different numbers of barriers, in the second and the third
\* lane by lane.
LoopPrograms ==
    { <<Bar, Compare, ExitIf, BraTo(NoGuard, 0, NoReconv)>>,
      <<Alu, Compare, BraTo(If, 5, 5), Alu, BraTo(NoGuard, 1, NoReconv), Bar,
        BraTo(NoGuard, 3, NoReconv)>>,
      <<Compare, BraTo(If, 3, NoReconv), BraTo(NoGuard, 0, NoReconv), Bar>> }

\* More instructions than PCs: every turn of NoReconv + 1 instructions has a barrier.
Wrapping == <<Compare, ExitIf, Alu, Alu, Bar, Alu, Alu, Alu, ExitIf>>

MCPrograms == ShortPrograms \cup LoopPrograms \cup {Wrapping}
=============================================================================
