SPECIFICATION FairSpec
CONSTANTS
  shared = shared
  untitled = untitled
  MaxSites = 1
  Files <- OneFile
  Untitled = untitled
  DocFile = shared
  HiddenFiles = {}
  Chars <- Letters
  DiskText <- Disk
  OldText <- Old
  DefaultRole = "Viewer"
  InitialPerms <- Managers
  Toggles <- NoToggles
  Limits <- OrderLimits
PROPERTY
  UnauthorizedWritesDropped
CHECK_DEADLOCK FALSE
