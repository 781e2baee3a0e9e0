SPECIFICATION ReportSpec
CONSTANTS
    N = 2
    NumCPU = 1
    MaxConcurrent = 2
    Leaves = {"T", "F", "E"}
    MaxLines = 2
    MaxPats = 2
    Formats = {"silent", "nagios", "tap", "junit", "rspecish", "documentation", "json", "structured", "prometheus"}
INVARIANTS
    TallyExact
    PassIsReal
    SkipsExplained
    ClosedAfterAllReported
PROPERTIES
    ImplementsSweep
    ReportEnds
