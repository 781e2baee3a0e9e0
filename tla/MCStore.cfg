CONSTANTS
    NumCPU = 1
    MaxConcurrent = 2
    Registers = {"a", "b"}
    Files = {1, 2, 3, 4}
    Keys = {"k"}
    DKeys = {"d1", "d2"}
    MaxDepth = 4
    AutoAddable = {"file", "port", "process", "service"}
    Paths = {"/b"}
    Names = {"c"}
    PortKeys = {"80"}
SPECIFICATION Spec
INVARIANTS
    AddStatusHonest
    GossfileExact
    VerdictsExact
    LastIncludedWins
    WarningsExact
PROPERTIES
    LoadReturns
