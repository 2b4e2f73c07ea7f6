------------------------------ MODULE MCLaunch ------------------------------
(* Words of 16 values and warps of 3 lanes: sizes that are empty, that     *)
(* fill warps or leave one partial, and sizes whose product wraps around.  *)
EXTENDS Launch

Size(x, y) == [x |-> x, y |-> y]

\* 4 x 5 counts as 4, 4 x 4 as 0.
MCGrids == {Size(1, 1), Size(2, 2), Size(3, 1), Size(1, 2), Size(4, 5), Size(4, 4), Size(0, 2)}

\* 3 x 6 counts as 2, 4 x 4 as 0; 15 lanes fit but their warps do not.
MCBlockSizes ==
    {Size(1, 1), Size(2, 3), Size(3, 2), Size(5, 1), Size(2, 2), Size(3, 6), Size(4, 4),
     Size(3, 5), Size(0, 2)}

\* The second is longer than there are PCs.
MCPrograms == {{}, {9, 10}}

OneGrid == {Size(1, 1)}
WrappingBlock == {Size(3, 6)}
=============================================================================
