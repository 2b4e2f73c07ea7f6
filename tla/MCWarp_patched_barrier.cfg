\* A barrier after an if whose branch carries no reconvergence PC.
CONSTANTS
    p = p
    L1 = L1
    L2 = L2
    L3 = L3
    Lanes <- MCLanes
    Preds = {p}
    NoReconv = 5
    MaxDivergences = 2
    Programs <- PatchedIf
    Parsed = {}
SPECIFICATION Spec
INVARIANT BarriersMet
