\* Halves of an immediate of 4 values: programs of up to three instructions.
CONSTANTS
    Numbers = 48
    GeneralRegisters = 2
    PredRegisters = 2
    Immediates = 16
    SpecialRegisters = 2
    Halves = 4
    NoReconv = 3
    Preds = {0, 1}
    NonFinite = {6, 7}
    Names <- MCNames
    SynthesizedLabel <- MCSynthesizedLabel
    Sources <- MCSources
SPECIFICATION Spec
INVARIANTS BranchesAsWritten AcceptsOrNamesFirst RoundTrip
