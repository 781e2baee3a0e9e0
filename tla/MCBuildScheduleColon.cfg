SPECIFICATION Spec
CONSTANTS
    N = 2
    MaxDeps = 1
    Specs <- MCReferenceSpecs
INVARIANTS
    KeyReferencesResolve
