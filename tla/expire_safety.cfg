SPECIFICATION Spec
CONSTANTS
  m1 = m1
  m2 = m2
  m3 = m3
  NoDate = NoDate
  NoPolicy = NoPolicy
  Now <- Today
  Messages <- ThreeMessages
  Mail <- SomeMail
  Policies <- AnyPolicy
  ExcludeImportant = TRUE
  BatchSize = 2
INVARIANTS
  TypeOK
  NeverKilledHalfway
  EndMeansDone
PROPERTIES
  OnlyDueMailGoes
SYMMETRY SameMessages
CHECK_DEADLOCK FALSE
