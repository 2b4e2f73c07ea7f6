\* Fields of 48, 2, 3 and 3 values: words of twelve opcodes. Registers of 6 bits: s32 are
\* -32..31, floats are multiples of 0.25 of three significant bits up to 56, and two of the
\* three NaNs of a sign are quiet.
CONSTANTS
    Numbers = 48
    GeneralRegisters = 3
    PredRegisters = 2
    Immediates = 64
    SpecialRegisters = 2
    InitInstructions <- MCInitInstructions
    InitWords <- MCInitWords
    Bits = 6
    Mantissas = 4
    Bias = 1
    WarpSize = 2
    Special <- MCSpecial
    Masks <- MCMasks
    InitGeneral <- MCInitGeneral
    InitPredicates <- MCInitPredicates
SPECIFICATION AluSpec
INVARIANTS TypeOK RoundTrip AcceptsSpecified
INVARIANTS IntegerResults FloatResults PredicateResults OnlyDestination
