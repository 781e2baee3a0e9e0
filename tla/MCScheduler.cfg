SPECIFICATION FairSpec
CONSTANTS
    N = 3
    NumCPU = 1
    MaxConcurrent = 2
    MaxDeps = 2
    Schedules <- MCSchedules
INVARIANTS
    ExactlyOnce
    NoMapRace
    ClosedAfterSenders
    RunsAfterPassing
    SkipReasonExact
    NeverAbandons
PROPERTIES
    ImplementsSweep
