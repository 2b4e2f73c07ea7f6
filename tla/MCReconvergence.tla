--------------------------- MODULE MCReconvergence ---------------------------
(* Every program over the instructions the analysis distinguishes.         *)
EXTENDS Reconvergence

CONSTANT p

NoGuard == [present |-> FALSE, negate |-> FALSE, pred |-> p]
If == [present |-> TRUE, negate |-> FALSE, pred |-> p]

Op(op, guard) == [op |-> op, guard |-> guard, dst |-> p, target |-> 0, rpc |-> 0]

\* As the parser leaves a branch, with NoReconv to be filled in; a target n is a
\* label after the last instruction, which the analysis refuses.
Alphabet(n) ==
    {Op("alu", NoGuard), Op("exit", NoGuard), Op("exit", If)}
    \cup {[Op("bra", g) EXCEPT !.target = t, !.rpc = NoReconv] :
             g \in {NoGuard, If}, t \in 0..n}

Loops == {[Op("bra", If) EXCEPT !.target = t, !.rpc = NoReconv] : t \in 0..3}

MCPrograms == UNION {[1..n -> Alphabet(n)] : n \in 1..3}
        \cup {<<i>> \o s : i \in {Op("alu", NoGuard)} \cup Loops, s \in [1..3 -> Alphabet(3)]}
=============================================================================
