SPECIFICATION FairAnswerSpec
CONSTANTS
    None = None
    m1 = m1
    r1 = r1
    t1 = t1
    Models = {m1}
    Modes = {"default", "auto", "plan"}
    Texts = {t1}
    Tools = {}
    Writers = {r1}
    Runtimes = {r1}
    FirstModel = m1
    Creator = r1
    MaxEntries = 20
    CanCrash = FALSE
    LabelOlder = FALSE
    MaxSteps = 1
    MaxTurns = 1
    MaxCommands = 1
    Replies = {"final", "malformed", "host", "rejected", "write_plan", "exit_plan"}
INVARIANTS
    AgentTypeOK
    EffectsAreRecorded
PROPERTIES
    TurnEnds
CHECK_DEADLOCK FALSE
