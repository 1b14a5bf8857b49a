SPECIFICATION AnswerSpec
CONSTANTS
    None = None
    m1 = m1
    m2 = m2
    r1 = r1
    r2 = r2
    Models = {m1, m2}
    Modes = {"default", "auto", "plan"}
    Texts = {}
    Tools = {}
    Writers = {r1, r2}
    Runtimes = {r1, r2}
    FirstModel = m1
    Creator = r1
    MaxEntries = 10
    CanCrash = FALSE
    LabelOlder = FALSE
    MaxSteps = 1
    MaxTurns = 1
    MaxCommands = 1
    Replies = {"final", "host"}
INVARIANTS
    FreshResponse
    ResponseBinding
    TurnAnsweredOnce
PROPERTIES
    BlockedTurnWritesNothing
CHECK_DEADLOCK FALSE
