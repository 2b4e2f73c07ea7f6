\* Every program of a setp and up to three instructions, one longer than PCs, three lanes.
CONSTANTS
    p = p
    L1 = L1
    L2 = L2
    L3 = L3
    Lanes <- MCLanes
    Preds = {p}
    NoReconv = 8
    MaxDivergences = 4
    Programs <- MCPrograms
    Parsed <- MCParsed
SPECIFICATION FairSpec
INVARIANTS TypeOK LanePartition StackBounded BarrierConvergent CounterBound PathsNested WellPlacedBarriersMeet
PROPERTIES StackDiscipline LanePathsSpec Terminates
CHECK_DEADLOCK FALSE
