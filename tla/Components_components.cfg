SPECIFICATION ComponentsSpec
CONSTANTS
    MaxFaults = 2
    MaxForeign = 1
    Parties = {a, b, c}
    Child = c
    MaxReplaced = 1
    OutputLimit = 1
    MaxOutput = 2
    Keys = {"diff.command", "filter.clean", "core.worktree"}
    Callers = {a, b}
    MaxEdits = 1
    Agents = {a1, a2}
    MaxOutside = 1
    MaxActs = 2
    MaxStops = 2
    MaxApplies = 1
    Platforms = {"posix", "windows"}
    MaxLevels = 2
    Families = {"anthropic", "responses", "chat", "ollama"}
    MaxEvents = 7
    MaxRetries = 1
    MaxLegacyEdits = 2
    MaxFailures = 2
    Savers = {s1, s2}
    Coarse = 2
    RacyWindow = 2
    MaxTime = 4
    MaxRewrites = 2
    Notes = {n1, n2}
    TopK = 2
    SkipTurns = 2
    Pool = 4
    SourceCap = 2
    MaxRequests = 2
    MaxTurns = 2
    MaxPending = 2
    MaxInputs = 3
    MaxAsks = 2
    MaxTyped = 4
    MaxStreams = 2
    MaxSnapshots = 4
    ResultContents = {c1, c2}
    MaxRetained = 1
    MaxRunSteps = 2
    MaxCalls = 2
    MaxAux = 1
    MaxRecordFaults = 2
    MaxTextLines = 3
    MaxTextWidth = 3
    MaxPageLines = 2
    MaxPageSize = 4
    MaxTextEdits = 1
INVARIANTS
    ComponentsTypeOK
    OldContentsSafe
    WorkspaceEditsSafe
    LockSafe
    CommandsAccounted
    GitSafe
    EffectsTold
    AgentsMergedSafely
    AgentsWorkKept
    MigratedRunsKept
    PolicyFailsClosed
    ExchangesFaithful
    SessionsMigratedWhole
    MemoryFaithful
    ContextFits
    TerminalFaithful
    
PROPERTIES
    AtomicWrites
    UnknownSpared
    CommandsEnd
    MigrationSettles
CHECK_DEADLOCK FALSE
