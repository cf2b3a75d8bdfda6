CONSTANTS
    pane1 = pane1
    pane2 = pane2
    local1 = local1
    far1 = far1
    far2 = far2
    one = one
    two = two
    noText = noText
    Panes = {pane1, pane2}
    Local = {local1}
    Remote = {far1, far2}
    Blank = noText
    Texts = {one, two}
    NoPath = NoPath
    Openings <- MCOpenings
    MaxTabs = 2
    Letters = {"a", "z"}
    Space = " "
    NewLine = "nl"
    Limit = 2
    MaxParam = 2
    Outputs = 3
    Sizes <- MCSizes
    Shells <- MCShells
    Books = {1}
    MaxPane = 4
    MaxItems = 2
    Begins <- MCBegins
    Sources <- MCSources
    Needles <- MCNeedles
    Replacement <- MCReplacement
    Keeps <- MCKeeps
    MaxTasks = 4
    Bytes <- MCBytes
    Units <- MCUnits
    Lower <- MCLower
    Lines <- MCLines
    Walked <- MCWalked
    Hosts <- MCHosts
    Queries <- MCQueries
    MaxPages = 3
    MaxVisits = 2
    MaxStrokes = 5
SPECIFICATION MCSpec
PROPERTY EditsRaiseVersion
CHECK_DEADLOCK FALSE
