SPECIFICATION FairSpec
CONSTANTS
    RetryTimeouts <- MCRetryTimeouts
    Sleeps <- MCSleeps
    MaxSweep = 2
INVARIANTS
    ExitCodeHonest
    NoSweepPastDeadline
PROPERTIES
    Returns
