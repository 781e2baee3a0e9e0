SPECIFICATION Spec
CONSTANTS
    N = 3
    NumCPU = 1
    MaxConcurrent = 2
    MaxDeps = 1
    Schedules <- MCSchedules
INVARIANTS
    OnlyDeclaredSerialized
