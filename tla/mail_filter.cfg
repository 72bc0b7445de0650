SPECIFICATION Spec
CONSTANTS
  here = here
  elsewhere = elsewhere
  friend = friend
  work = work
  smtp = smtp
  ours = ours
  theirs = theirs
  MaxRules = 8
  Tags <- AllTags
  Identities <- AllIdentities
  Transports <- AllTransports
  SecretKeys <- OurKeys
  FilterLists <- Lists
  Messages <- Mails
  Accounts <- AllAccounts
  Outbound = TRUE
CHECK_DEADLOCK FALSE
INVARIANTS
  FetchSuffices
  ChangesAreStored
  NoneBehindTheStop
  PatternsAgree
