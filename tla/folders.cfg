SPECIFICATION FairSpec
CONSTANTS
  Parts = {"kernel", "settings", "tree", "chooser", "order", "expiry", "receipts"}
  None = None
  NoDate = NoDate
  Invalid = Invalid
  Unranked = Unranked
  Nothing = Nothing
  NoDialog = NoDialog
  NoAction = NoAction
  MaxEdits <- MaxEditsIn
  MaxChanges <- MaxChangesIn
  AllFolders = {"f", "g"}
  MayHold = {"f"}
  MayGrow = {"f", "g"}
  Virtual = {}
  Outbox = {}
  HideInSelectionDialog = {}
  Broken = {}
  MustBeReadWrite = FALSE
  MaxQuestions = 2
  Today = 10
  Ages = {0, 5}
  Targets = {"t"}
  Self = "s"
  Messages <- MessagesIn
  Boxes <- BoxesIn
  MaxJobs = 2
  ContentTypes = {"Meta", "Rule"}
  Lengths = {3, 11}
  TimeStamp = 2
  Unit = 10
  Limits <- LimitsIn
  MaxEntries = 4
  LineTexts = {"a", "b"}
  Tags = {"t1"}
  OtherTags = {"t2"}
  Numbers = {0, 46, 100, 1000, 2048}
  MaxAge = 99
  Dates = {"today", "d1"}
  StatusValues <- StatusValuesIn
  Configured = {"f"}
  Objects = {"o1", "o2"}
  Dialogs = {"d"}
  Ids = {"i1", "i2"}
  AccountKinds <- AccountKindsIn
  MessageFormats = {"Global", "Unknown", "Html"}
  Accounts <- AccountsIn
  Roles = {"plain", "inbox"}
  IdentityUses = {"drafts", "sent"}
  Pop3 = {}
  TagNames = {" ", "x", "y"}
  BlankNames = {" "}
  TagForms <- FormsIn
  MaxTags = 2
  Headers <- HeadersIn
  NewTag <- NewTagIn
  NumberWords = {"0", "1", "5"}
  StatusCodes = {"R"}
  MdnCodes = {"I"}
  ActionTypes <- ActionTypesIn
  AllTags <- AllTagsIn
  Offers <- OffersOf
  Existing <- ExistingIn
  SnippetNames <- SnippetNamesIn
  ActionOf <- NormalNames
  SnippetTexts = {"long", "short"}
  Variables = {"$name$"}
  Stored <- FirstTree
  MaxDialogs = 1
  MaxRules = 2
  FilterLists <- SieveFilters
  Mails <- SieveMessages
  MaxMade = 6
CHECK_DEADLOCK FALSE
INVARIANTS
  SettingsStay
  StoredAsAnswered
  ChooserShowsChoice
PROPERTIES
  DefaultFoldersReturn
  JumpsArrive
