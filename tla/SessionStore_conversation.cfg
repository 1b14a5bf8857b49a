SPECIFICATION ConversationSpec
CONSTANTS
    None = None
    m1 = m1
    w1 = w1
    w2 = w2
    Models = {m1}
    Modes = {"default", "auto", "plan"}
    Texts = {}
    Tools = {}
    Writers = {w1, w2}
    FirstModel = m1
    Creator = w1
    MaxEntries = 7
    CanCrash = TRUE
    LabelOlder = TRUE
INVARIANTS
    TypeOK
    KeptEntryOnPath
    NothingForgotten
    BranchSummaryComplete
    CloneKeepsConversation
PROPERTIES
    AppendOnly
CHECK_DEADLOCK FALSE
