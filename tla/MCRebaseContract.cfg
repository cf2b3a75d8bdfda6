SPECIFICATION CrossSpec
CONSTANTS
  Base <- MCBase
  FarSites <- MCFarSites
  NearSite = 1
  MaxEntries = 2
INVARIANT
  RebaseConverges
CHECK_DEADLOCK FALSE
