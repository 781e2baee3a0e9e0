SPECIFICATION FairSpec
CONSTANTS
    N = 3
    MaxDeps = 2
    Specs <- MCSpecs
INVARIANTS
    CycleVerdict
    ResolvesToDenoted
PROPERTIES
    Returns
