SPECIFICATION MCSpec
CONSTANTS
  shared = shared
  untitled = untitled
  MaxSites = 2
  Files <- OneFile
  Untitled = untitled
  DocFile = shared
  HiddenFiles = {}
  Chars <- Letters
  DiskText <- Disk
  OldText <- Old
  DefaultRole = "Contributor"
  InitialPerms <- Writers
  Toggles <- NoToggles
  Limits <- LiveLimits
  Things <- MCThings
  Hidden = {2}
  Trees <- MCTrees
INVARIANT RowsAreAWalk
PROPERTIES ListingsKeepTheRest TreeCatchesUp GuestsAreWelcomed EditsAreAcknowledged
CHECK_DEADLOCK FALSE
