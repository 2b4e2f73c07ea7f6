\* One block of 3 x 6 lanes, which 4 bits count as 2.
CONSTANTS
    WarpSize = 3
    WordRange = 16
    PCRange = 8
    Programs <- MCPrograms
    Grids <- OneGrid
    BlockSizes <- WrappingBlock
    MaxLaunches = 1
SPECIFICATION Spec
INVARIANT LanesAreSizeTimesBlocks
