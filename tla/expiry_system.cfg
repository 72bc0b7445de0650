SPECIFICATION FairSystemSpec
CONSTANTS
  inbox = inbox
  lists = lists
  deleted = deleted
  m1 = m1
  m2 = m2
  NoTask = NoTask
  NoDate = NoDate
  NoPolicy = NoPolicy
  Folders <- AllFolders
  ValidFolders <- LiveFolders
  TaskTypes <- ExpiryOnly
  MaxTasks = 3
  MaxPauses = 1
  Now <- Today
  Messages <- TwoMessages
  Mail <- OldMail
  Policies <- DeletePolicy
  ExcludeImportant = TRUE
  BatchSize = 1
PROPERTIES
  PauseLosesNothing
  QueueDrains
  ImplementsScheduler
