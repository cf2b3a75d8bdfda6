SPECIFICATION Spec
CONSTANTS
  shared = shared
  untitled = untitled
  MaxSites = 2
  Files <- TwoTabs
  Untitled = untitled
  DocFile = shared
  HiddenFiles = {}
  Chars <- Letters
  DiskText <- Disk
  OldText <- Old
  DefaultRole = "Moderator"
  InitialPerms <- Managers
  Toggles <- OneToggle
  Limits <- RosterLimits
INVARIANTS
  SendersAreMembers
  RostersCatchUp
PROPERTY
  RolesChangeByManagers
CHECK_DEADLOCK FALSE
