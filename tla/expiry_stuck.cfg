SPECIFICATION FairSystemSpec
CONSTANTS
  inbox = inbox
  lists = lists
  deleted = deleted
  m1 = m1
  m2 = m2
  NoTask = NoTask
  NoDate = NoDate
  NoPolicy = NoPolicy
  Folders <- TwoFolders
  ValidFolders <- TwoFolders
  TaskTypes <- ExpiryOnly
  MaxTasks = 2
  MaxPauses = 0
  Now <- Today
  Messages <- OneMessage
  Mail <- UnreadMail
  Policies <- MovePolicy
  ExcludeImportant = TRUE
  BatchSize = 1
PROPERTIES
  ExpiryQueueDrains
