SPECIFICATION RecallSpec
CONSTANTS
    Notes = {n1, n2}
    TopK = 2
    SkipTurns = 2
    Pool = 4
    SourceCap = 2
    MaxRequests = 2
    MaxTurns = 3
INVARIANTS
    RecentNotesSkipped
CHECK_DEADLOCK FALSE
