SPECIFICATION ReportSpec
CONSTANTS
    N = 2
    NumCPU = 1
    MaxConcurrent = 2
    Leaves = {"T"}
    MaxLines = 0
    MaxPats = 0
    Formats = {"documentation"}
INVARIANTS
    EveryResourceReports
