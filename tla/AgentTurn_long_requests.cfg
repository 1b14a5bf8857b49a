SPECIFICATION FairSpec
CONSTANTS
    None = None
    m1 = m1
    r1 = r1
    other = other
    Models = {m1}
    Modes = {"default", "auto", "plan"}
    Texts = {}
    Tools = {}
    Writers = {r1, other}
    Runtimes = {r1}
    FirstModel = m1
    Creator = r1
    MaxEntries = 20
    CanCrash = FALSE
    LabelOlder = FALSE
    MaxSteps = 1
    MaxTurns = 1
    MaxCommands = 1
    Replies = {"host", "malformed"}
PROPERTIES
    TurnEnds
    StoreSpec
CHECK_DEADLOCK FALSE
