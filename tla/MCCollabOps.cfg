SPECIFICATION Spec
CONSTANTS
  shared = shared
  untitled = untitled
  MaxSites = 2
  Files <- OneFile
  Untitled = untitled
  DocFile = shared
  HiddenFiles = {}
  Chars <- Letters
  DiskText <- Disk
  OldText <- Old
  DefaultRole = "Contributor"
  InitialPerms <- Writers
  Toggles <- NoToggles
  Limits <- OpsLimits
INVARIANTS
  TypeOK
  InflightMatchesWire
  TurnsConverge
PROPERTIES
  CursorsStayInDocument
  ImplementsOrderAuthority
CHECK_DEADLOCK FALSE
