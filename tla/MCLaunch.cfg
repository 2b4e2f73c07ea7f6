\* One launch: nothing that the module describes survives into the next one but its result.
CONSTANTS
    WarpSize = 3
    WordRange = 16
    PCRange = 8
    Programs <- MCPrograms
    Grids <- MCGrids
    BlockSizes <- MCBlockSizes
    MaxLaunches = 1
SPECIFICATION Spec
INVARIANTS TypeOK NoThreadTwice BlocksInOrder EveryThreadRuns CountersMatch
INVARIANT FaultNamesBlock
