SPECIFICATION FairSpec
CONSTANTS
  top = top
  sub = sub
  subsub = subsub
  other = other
  m1 = m1
  m2 = m2
  m3 = m3
  NoFolder = NoFolder
  Folders <- Tree
  Root = top
  Parent <- Family
  Messages <- Mailbox
  Content <- FirstMail
  Size <- SizeOne
  SizeLimit = 3
  Recursive = TRUE
  DeleteAfter = TRUE
CHECK_DEADLOCK FALSE
INVARIANTS
  TypeOK
  OneOutcome
  ArchiveIsWhole
  DeletedMeansSaved
PROPERTIES
  AnswersInTurn
  BackupEnds
