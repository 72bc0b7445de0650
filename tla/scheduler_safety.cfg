SPECIFICATION Spec
CONSTANTS
  inbox = inbox
  lists = lists
  deleted = deleted
  NoTask = NoTask
  Folders <- AllFolders
  ValidFolders <- LiveFolders
  TaskTypes <- ExpiryAndUnique
  MaxTasks = 4
  MaxPauses = 1
INVARIANTS
  TypeOK
  NoDuplicateTasks
  TaskOwnership
  PendingIsExact
  NoLostWakeup
PROPERTIES
  RunsSerially
SYMMETRY SameFolders
