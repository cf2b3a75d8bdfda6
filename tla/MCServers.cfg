SPECIFICATION MCSpec
CONSTANTS
    p1 = p1
    p2 = p2
    Processes = {p1, p2}
    Managers = {p2}
    Limit = 1
    NoLimit = NoLimit
    MaxOps <- MCMaxOps
    t1 = t1
    t2 = t2
    d1 = d1
    Tabs = {t1, t2}
    Docs = {d1}
    LineBreak = "nl"
    Units <- MCUnits
    Texts <- MCTexts
    EditLists <- MCEditLists
    MaxStarts = 2
    Starts <- MCStarts
INVARIANTS NoGhostEntries LimitHoldsUnlessRaced StoppedMeansFree CrashedSlotsReclaimed VersionsMatchServer AnswersMeetTheirRequest CurrentEditsApply
PROPERTIES KeystrokesReachServer AnsweringServersStayListed
CHECK_DEADLOCK FALSE
