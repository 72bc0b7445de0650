SPECIFICATION Spec
CONSTANTS
  inbox = inbox
  lists = lists
  deleted = deleted
  NoTask = NoTask
  Folders <- AllFolders
  ValidFolders <- LiveFolders
  TaskTypes <- ExpiryOnly
  MaxTasks = 3
  MaxPauses = 1
INVARIANTS
  ImmediateRunsFirst
