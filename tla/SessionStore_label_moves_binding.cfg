SPECIFICATION Spec
CONSTANTS
    None = None
    m1 = m1
    m2 = m2
    w1 = w1
    w2 = w2
    shell = shell
    Models = {m1, m2}
    Modes = {"default", "auto", "plan"}
    Texts = {}
    Tools = {shell}
    Writers = {w1, w2}
    FirstModel = m1
    Creator = w1
    MaxEntries = 6
    CanCrash = FALSE
    LabelOlder = TRUE
PROPERTIES
    BindingOnlyByWriter
CHECK_DEADLOCK FALSE
