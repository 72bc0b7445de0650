SPECIFICATION Spec
CONSTANTS
  here = here
  gone = gone
  NoFilter = NoFilter
  Accounts <- Existing
  OtherAccounts <- Vanished
  Stored <- FirstFilters
  Foreign <- ByOthers
  Imported <- FromFiles
  MaxFilters = 3
  MaxEdits = 2
CHECK_DEADLOCK FALSE
INVARIANTS
  AgentFollows
  EditsReachTheirFilter
  SavedSoundly
PROPERTIES
  MovesKeepOrder
