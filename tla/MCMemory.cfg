\* Words of 16 values and memories of 2 and 3 whole words, with two bytes left over in
\* global memory: two accesses, so that a load can see what a store has left.
CONSTANTS
    WarpSize = 3
    WordRange = 16
    GlobalBytes = 10
    SharedBytes = 12
    Params <- MCParams
    SegmentBytes = 8
    BankCount = 2
    Accesses <- MCAccesses
    InitRegisters <- MCInitRegisters
    MaxAccesses = 2
SPECIFICATION Spec
INVARIANTS StoresInLaneOrder LoadsDeliver FaultIsFirst PerformedInside FewestTransactions
