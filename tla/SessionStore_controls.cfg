SPECIFICATION Spec
CONSTANTS
    None = None
    m1 = m1
    m2 = m2
    w1 = w1
    t1 = t1
    t2 = t2
    shell = shell
    Models = {m1, m2}
    Modes = {"default", "auto", "plan"}
    Texts = {t1, t2}
    Tools = {shell}
    Writers = {w1}
    FirstModel = m1
    Creator = w1
    MaxEntries = 6
    CanCrash = FALSE
    LabelOlder = FALSE
INVARIANTS
    PlanRevisionNamesOneText
PROPERTIES
    BindingOnlyByWriter
    ResetKeepsControls
CHECK_DEADLOCK FALSE
