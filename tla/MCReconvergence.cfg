\* Every program of up to three instructions, and those of four that
\* begin with a guarded branch or no branch.
CONSTANTS
    p = p
    Preds = {p}
    NoReconv = 5
    Programs <- MCPrograms
SPECIFICATION FairSpec
INVARIANT RecordsReference
PROPERTY AnalysisEnds
