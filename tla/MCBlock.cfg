\* Every short program without backward branches and three loops with barriers, and
\* one longer than PCs;
\* one warp, or up to three, the last one partial or full.
CONSTANTS
    p = p
    Lanes <- MCLanes
    Preds = {p}
    NoReconv = 7
    MaxDivergences = 2
    BlockSizes = {2, 3, 5}
    MaxIssued = 10
    MaxBarriers = 4
    Programs <- MCPrograms
SPECIFICATION FairSpec
INVARIANTS TypeOK RoundRobin BarrierPhases AlwaysProgress
PROPERTIES BarrierContract BlockEnds
CHECK_DEADLOCK FALSE
