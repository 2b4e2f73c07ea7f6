\* A program of the maximal length, one path of which falls off the end.
CONSTANTS
    p = p
    L1 = L1
    L2 = L2
    L3 = L3
    Lanes <- MCLanes
    Preds = {p}
    NoReconv = 5
    MaxDivergences = 2
    Programs <- LongestProgram
    Parsed = {}
SPECIFICATION Spec
PROPERTY FallingOffRetires
