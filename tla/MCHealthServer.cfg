SPECIFICATION FairSpec
CONSTANTS
    Requests = {q1, q2}
    NoRequest = NoRequest
    Formats = {"documentation", "prometheus"}
    OutputFormat = "documentation"
INVARIANTS
    StatusHonest
    BurstCostsOneSweep
    MonotonicReads
PROPERTIES
    ProbesAnswered
    SignalStops
