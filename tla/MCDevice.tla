------------------------------ MODULE MCDevice ------------------------------
(* Kernels for TLC that exchange data between the lanes, warps and blocks  *)
(* of a launch and between launches.                                       *)
EXTENDS Device

CONSTANT p

MCLanes == 0..1

\* Accesses by the number that selects them: to a thread's own word, the next
\* thread's, the block's, one for all, or one that only the first threads have.
Touch(space, store, Word(_, _)) ==
    [space |-> space, store |-> store, cell |-> [x \in BlockIndices \X Threads |-> Word(x[1], x[2])]]
Own(b, t) == t
Following(b, t) == (t + 1) % 3
OfBlock(b, t) == b
First(b, t) == 0
Far(b, t) == 3 * t
MCAccesses ==
    << Touch("shared", TRUE, Own), Touch("shared", FALSE, Following), Touch("shared", TRUE, First),
       Touch("shared", FALSE, First), Touch("global", TRUE, Own), Touch("global", FALSE, Own),
       Touch("global", TRUE, First), Touch("global", FALSE, First), Touch("global", TRUE, OfBlock),
       Touch("global", FALSE, OfBlock), Touch("global", TRUE, Far), Touch("shared", TRUE, Far) >>

NoGuard == [present |-> FALSE, negate |-> FALSE, pred |-> p]
If == [present |-> TRUE, negate |-> FALSE, pred |-> p]
Op(op, guard) == [op |-> op, guard |-> guard, dst |-> p, target |-> 0, rpc |-> 0]
BraTo(guard, target, rpc) == [Op("bra", guard) EXCEPT !.target = target, !.rpc = rpc]
Acc(guard, n) == [Op("memory", guard) EXCEPT !.target = n]
Do(n) == Acc(NoGuard, n)
Alu == Op("alu", NoGuard)
Bar == Op("bar.sync", NoGuard)
Compare == Op("setp", NoGuard)

MCPrograms ==
    { \* Through shared memory, with and without a barrier; barriers in a row.
      <<Do(1), Bar, Do(2), Do(5)>>, <<Do(1), Do(2), Bar, Do(2)>>,
      <<Do(1), Bar, Do(2), Bar, Do(3), Do(4)>>,
      \* Whether a block finds what an earlier one has stored.
      <<Do(4), Do(3), Do(6), Do(5)>>, <<Do(8), Do(7), Do(10), Do(9), Do(8)>>,
      \* Accesses refused to some of the lanes.
      <<Do(1), Do(11)>>, <<Do(12), Do(5)>>,
      \* By the lanes that a comparison has selected, with and without a branch.
      <<Compare, Acc(If, 7), Do(8)>>, <<Do(1), Compare, Op("exit", If), Bar, Do(2)>>,
      <<Compare, BraTo(If, 5, 6), Alu, Alu, BraTo(NoGuard, 6, NoReconv), Do(3),
        Do(1), Bar, Do(2)>> }
=============================================================================
