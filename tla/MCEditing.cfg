SPECIFICATION MCSpec
CONSTANTS
    Starts <- MCStarts
    Inserts <- MCInserts
    Pastes <- MCPastes
    Queries <- MCQueries
    Formatted <- MCFormatted
    NoLimit = NoLimit
    LimitStep = 1
    MaxLimit = 3
    DefaultLimit = 2
    Base <- MCBase
    FarSites <- MCFarSites
    NearSite = 1
    MaxEntries = 2
INVARIANTS TypingRunIsNewest EditsAreSimultaneous EditsLeaveCursorsSound
INVARIANTS ExtractedOpsReproduceEdits SimpleEditsConverge CursorKeepsItsPlace
PROPERTIES StacksRespectLimit ImplementsUndoTimeline AddingKeepsSelections
CHECK_DEADLOCK FALSE
