SPECIFICATION AnswerSpec
CONSTANTS
    None = None
    m1 = m1
    r1 = r1
    editor = editor
    t1 = t1
    t2 = t2
    Models = {m1}
    Modes = {"default", "auto", "plan"}
    Texts = {t1, t2}
    Tools = {}
    Writers = {r1, editor}
    Runtimes = {r1}
    FirstModel = m1
    Creator = r1
    MaxEntries = 9
    CanCrash = FALSE
    LabelOlder = FALSE
    MaxSteps = 2
    MaxTurns = 1
    MaxCommands = 2
    Replies = {"final", "write_plan", "exit_plan"}
INVARIANTS
    StaleResponseRefused
CHECK_DEADLOCK FALSE
