SPECIFICATION Spec
CONSTANTS
  shared = shared
  untitled = untitled
  MaxSites = 1
  Files <- OneFile
  Untitled = untitled
  DocFile = shared
  HiddenFiles = {}
  Chars <- Letters
  DiskText <- Disk
  OldText <- Old
  DefaultRole = "Contributor"
  InitialPerms <- Managers
  Toggles <- OneToggle
  Limits <- PermsLimits
INVARIANT
  PermissionsAgree
CHECK_DEADLOCK FALSE
