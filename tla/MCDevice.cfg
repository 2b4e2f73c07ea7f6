\* Launches of one or two blocks of two warps, up to three epochs.
CONSTANTS
    p = p
    Lanes <- MCLanes
    Preds = {p}
    NoReconv = 12
    MaxDivergences = 2
    BlockSizes = {3}
    GridSizes = {1, 2}
    GlobalCells = 3
    SharedCells = 3
    MaxEpochs = 3
    MaxIssued = 7
    MaxBarriers = 2
    Accesses <- MCAccesses
    Programs <- MCPrograms
SPECIFICATION DeviceSpec
INVARIANT LoadsInOrder
CHECK_DEADLOCK FALSE
