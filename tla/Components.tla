------------------------------ MODULE Components ------------------------------
(***************************************************************************)
(* The components that are dialogs, editors or small stores, side by side. *)
(* They do not meet: a behaviour is one of a single component, while the   *)
(* variables of the others rest at 0.                                      *)
(***************************************************************************)
EXTENDS Integers, Sequences, FiniteSets

CONSTANTS Parts,      \* the components of which there are behaviours
          MaxEdits,   \* per component, how often its user changes something
          MaxChanges  \* per component, how often the world around it changes
VARIABLE  part        \* the component of this behaviour

(* FolderChooser *)
CONSTANTS AllFolders, Invalid, MayHold, MayGrow, Virtual, Outbox, HideInSelectionDialog, Broken,
          MustBeReadWrite, MaxQuestions
(* A folder is not the invalid one, and none of the texts of the line. *)
ASSUME ChooserAssumption == Invalid \notin AllFolders /\ {"", "local", "select"} \cap AllFolders = {}
VARIABLES folders, collection, text, pending, dialog, lastSelected
Chooser == INSTANCE FolderChooser WITH Folders <- AllFolders
chooserVars == <<folders, collection, text, pending, dialog, lastSelected>>
ChooserRests == /\ folders = 0 /\ collection = 0 /\ text = 0 /\ pending = 0 /\ dialog = 0 /\ lastSelected = 0

(* ExpirySettings *)
CONSTANTS Today, NoDate, Ages, Targets, Self, None
(* Ages are days, there is a folder to move to, and None is no folder. *)
ASSUME FormsAssumption == Ages \subseteq Nat /\ Targets # {} /\ None \notin Targets \cup {Self}
VARIABLES stored, page, modify, task, entered, edits
Expiry == INSTANCE ExpirySettings WITH Now <- Today, MaxEdits <- MaxEdits["expiry"]
expiryVars == <<stored, page, modify, task, entered, edits>>
ExpiryRests == /\ stored = 0 /\ page = 0 /\ modify = 0 /\ task = 0 /\ entered = 0 /\ edits = 0

(* Receipts *)
CONSTANTS Messages, Boxes, MaxJobs
VARIABLES message, box, state, storing, sent, answers, failed, jobs
Receipt == INSTANCE Receipts WITH modify <- storing
receiptVars == <<message, box, state, storing, sent, answers, failed, jobs>>
ReceiptRests == /\ message = 0 /\ box = 0 /\ state = 0 /\ storing = 0 /\ sent = 0 /\ answers = 0
                /\ failed = 0 /\ jobs = 0

(* FilterLog *)
CONSTANTS ContentTypes, Lengths, TimeStamp, Unit, Limits, MaxEntries
(* Lengths and limits are numbers; a time stamp may have any length. *)
ASSUME LogAssumption == Lengths \subseteq Int /\ TimeStamp \in Int /\ Unit \in Nat /\ Limits \subseteq Int
VARIABLES mLogEntries, mMaxLogSize, mCurrentLogSize, mAllowedTypes, mLogging, added
Log == INSTANCE FilterLog
logVars == <<mLogEntries, mMaxLogSize, mCurrentLogSize, mAllowedTypes, mLogging,
             added>>
LogRests == /\ mLogEntries = 0 /\ mMaxLogSize = 0 /\ mCurrentLogSize = 0 /\ mAllowedTypes = 0
            /\ mLogging = 0 /\ added = 0

(* RuleEditor *)
CONSTANTS LineTexts, Tags, OtherTags, Numbers, MaxAge, Dates, StatusValues
(* Sizes are entered in bytes, and the spin box has a largest value. *)
ASSUME RulesAssumption == Numbers \subseteq Nat /\ MaxAge \in Nat
VARIABLES isBalooSearch, fetched, editor, given, changes
Rule == INSTANCE RuleEditor WITH Texts <- LineTexts, MaxEdits <- MaxEdits["rule"], edits <- changes
ruleVars == <<isBalooSearch, fetched, editor, given, changes>>
RuleRests == /\ isBalooSearch = 0 /\ fetched = 0 /\ editor = 0 /\ given = 0 /\ changes = 0

(* FolderSettings *)
CONSTANTS Configured, Objects, Dialogs, Ids, AccountKinds, MessageFormats
VARIABLES identities, default, account, config, fcMap, object, properties, others,
          wanted, asked, unsure, defaults, unwritten, settingEdits
Settings == INSTANCE FolderSettings WITH
              Folders <- Configured, Accounts <- AccountKinds, Formats <- MessageFormats,
              MaxEdits <- MaxEdits["settings"],
              dialog <- properties, edits <- settingEdits
(* None is neither an object, an identity nor a change that is on its way. *)
ASSUME SettingsAssumption ==
           /\ None \notin Objects \cup Ids /\ "Global" \in MessageFormats
           /\ None \notin [folder : Configured, write : BOOLEAN, value : Settings!Settings(Ids, MessageFormats)]
settingsVars == <<identities, default, account, config, fcMap, object, properties,
                  others, wanted, asked, unsure, defaults, unwritten, settingEdits>>
SettingsRest == /\ identities = 0 /\ default = 0 /\ account = 0 /\ config = 0 /\ fcMap = 0 /\ object = 0
                /\ properties = 0 /\ others = 0 /\ wanted = 0 /\ asked = 0 /\ unsure = 0 /\ defaults = 0
                /\ unwritten = 0 /\ settingEdits = 0

(* FolderOrder *)
CONSTANTS Accounts, Roles, IdentityUses, Pop3, Unranked
VARIABLES agents, special, uses, order, enabled, orderDialog, topLevelOrder, manual, ranks, stale, main,
          viewConfig, orderChanges
Order == INSTANCE FolderOrder WITH
           MaxChanges <- MaxChanges["order"], dialog <- orderDialog, config <- viewConfig,
           changes <- orderChanges
(* Accounts are listed once each. *)
ASSUME OrderAssumption ==
           /\ Accounts \in Seq(Order!Folders)
           /\ \A i, j \in DOMAIN Accounts : Accounts[i] = Accounts[j] => i = j
orderVars == <<agents, special, uses, order, enabled, orderDialog, topLevelOrder, manual,
               ranks, stale, main, viewConfig, orderChanges>>
OrderRests == /\ agents = 0 /\ special = 0 /\ uses = 0 /\ order = 0 /\ enabled = 0 /\ orderDialog = 0
              /\ topLevelOrder = 0 /\ manual = 0 /\ ranks = 0 /\ stale = 0 /\ main = 0 /\ viewConfig = 0
              /\ orderChanges = 0

(* Tags *)
CONSTANTS TagNames, BlankNames, TagForms, MaxTags
VARIABLES tagServer, creating, tagDialog, tagGiven, tagMeant, tagsAsked, tagEdits
Tag == INSTANCE Tags WITH
         Names <- TagNames, Blank <- BlankNames, Forms <- TagForms,
         MaxEdits <- MaxEdits["tags"], server <- tagServer, pending <- creating,
         dialog <- tagDialog, given <- tagGiven, meant <- tagMeant, asked <- tagsAsked,
         edits <- tagEdits
(* A form is what the widgets can show; no colour and no font is none of them. *)
ASSUME TagsAssumption ==
           /\ \A form \in TagForms : Tag!IsForm(form)
           /\ Invalid \notin {"black", "white"} /\ Invalid \notin BOOLEAN \X BOOLEAN
tagVars == <<tagServer, creating, tagDialog, tagGiven, tagMeant, tagsAsked, tagEdits>>
TagsRest == /\ tagServer = 0 /\ creating = 0 /\ tagDialog = 0 /\ tagGiven = 0 /\ tagMeant = 0
            /\ tagsAsked = 0 /\ tagEdits = 0

(* ActionEditor *)
CONSTANTS Headers, NewTag, NumberWords, StatusCodes, MdnCodes, ActionTypes, Nothing, AllTags,
          Offers, Existing
VARIABLES server, snapshot, events, tagList, listed, storedAction, action, actionEditor, chosen, saved, shaken,
          actionEdits, tagChanges
Act == INSTANCE ActionEditor WITH
         Numbers <- NumberWords, Names <- ActionTypes, MaxEdits <- MaxEdits["action"],
         MaxChanges <- MaxChanges["action"], tags <- tagList, stored <- storedAction, editor <- actionEditor,
         edits <- actionEdits, changes <- tagChanges
(* What is offered are parameters of the actions there are, the lists are  *)
(* lists, and Nothing is no set of tags, no text, no action and no editor. *)
ASSUME ActionsAssumption ==
           /\ ActionTypes \subseteq Act!ActionNames
           /\ \A n \in ActionTypes : \A p \in Offers[n] : Act!IsChoice(n, p, Existing)
           /\ AllTags \in Seq(Act!ToSet(AllTags)) /\ Headers \in Seq(Act!ToSet(Headers))
           /\ "tags" \in DOMAIN Existing
           /\ \A S \in SUBSET Act!ToSet(AllTags) : S # Nothing
           /\ Nothing \notin {Act!Text(c) : c \in Act!Choosable}
           /\ LET Params == UNION {Offers[n] : n \in ActionTypes}
                  New    == {Act!FirstParam[Act!KindOf[n]] : n \in ActionTypes}
                  Known  == Seq(Act!ToSet(AllTags))
              IN  /\ Nothing \notin [name : ActionTypes, param : Params, known : Known]
                  /\ Nothing \notin [owner : [name : ActionTypes, param : New, known : Known],
                                      shows : Params, loaded : BOOLEAN]
actionVars == <<server, snapshot, events, tagList, listed, storedAction, action, actionEditor,
                chosen, saved, shaken, actionEdits, tagChanges>>
ActionRests == /\ server = 0 /\ snapshot = 0 /\ events = 0 /\ tagList = 0 /\ listed = 0 /\ storedAction = 0
               /\ action = 0
               /\ actionEditor = 0 /\ chosen = 0 /\ saved = 0 /\ shaken = 0 /\ actionEdits = 0
               /\ tagChanges = 0

(* Snippets *)
CONSTANTS SnippetNames, ActionOf, SnippetTexts, Variables, Stored, NoDialog, NoAction, MaxDialogs,
          MaxMade
VARIABLES groups, variables, made, file, dirty, actions, selected, dialogs, broken, unmarked, worn,
          snippetChanges
Snippet == INSTANCE Snippets WITH
             Names <- SnippetNames, Texts <- SnippetTexts, MaxChanges <- MaxChanges["snippets"],
             config <- file, changes <- snippetChanges
snippetVars == <<groups, variables, made, file, dirty, actions, selected, dialogs,
                 broken, unmarked, worn, snippetChanges>>
SnippetsRest == /\ groups = 0 /\ variables = 0 /\ made = 0 /\ file = 0 /\ dirty = 0 /\ actions = 0
                /\ selected = 0 /\ dialogs = 0 /\ broken = 0 /\ unmarked = 0 /\ worn = 0
                /\ snippetChanges = 0

(* SieveScripts *)
CONSTANTS MaxRules, FilterLists, Mails
VARIABLES filters, required, blocks
Sieve == INSTANCE SieveScripts WITH Messages <- Mails, requires <- required
(* A list of filters, and messages whose sizes can be compared. *)
ASSUME ScriptsAssumption ==
           /\ MaxRules \in Nat
           /\ \A fs \in FilterLists : Sieve!IsFilterList(fs)
           /\ \A m \in Mails : m.size \in Int
sieveVars == <<filters, required, blocks>>
SieveRests == filters = 0 /\ required = 0 /\ blocks = 0

-----------------------------------------------------------------------------

vars == <<part, chooserVars, expiryVars, receiptVars, logVars, ruleVars, settingsVars,
          orderVars, tagVars, actionVars, snippetVars, sieveVars>>

Init ==
    /\ part \in Parts
    /\ IF part = "chooser" THEN Chooser!Init ELSE ChooserRests
    /\ IF part = "expiry" THEN Expiry!Init ELSE ExpiryRests
    /\ IF part = "receipts" THEN Receipt!Init ELSE ReceiptRests
    /\ IF part = "log" THEN Log!Init ELSE LogRests
    /\ IF part = "rule" THEN Rule!Init ELSE RuleRests
    /\ IF part = "settings" THEN Settings!Init ELSE SettingsRest
    /\ IF part = "order" THEN Order!Init ELSE OrderRests
    /\ IF part = "tags" THEN Tag!Init ELSE TagsRest
    /\ IF part = "action" THEN Act!Init ELSE ActionRests
    /\ IF part = "snippets" THEN Snippet!Init ELSE SnippetsRest
    /\ IF part = "sieve" THEN Sieve!Init ELSE SieveRests

Next ==
    /\ part' = part
    /\ IF part = "chooser" THEN Chooser!Next ELSE UNCHANGED chooserVars
    /\ IF part = "expiry" THEN Expiry!Next ELSE UNCHANGED expiryVars
    /\ IF part = "receipts" THEN Receipt!Next ELSE UNCHANGED receiptVars
    /\ IF part = "log" THEN Log!Next ELSE UNCHANGED logVars
    /\ IF part = "rule" THEN Rule!Next ELSE UNCHANGED ruleVars
    /\ IF part = "settings" THEN Settings!Next ELSE UNCHANGED settingsVars
    /\ IF part = "order" THEN Order!Next ELSE UNCHANGED orderVars
    /\ IF part = "tags" THEN Tag!Next ELSE UNCHANGED tagVars
    /\ IF part = "action" THEN Act!Next ELSE UNCHANGED actionVars
    /\ IF part = "snippets" THEN Snippet!Next ELSE UNCHANGED snippetVars
    /\ IF part = "sieve" THEN Sieve!Next ELSE UNCHANGED sieveVars

Spec == Init /\ [][Next]_vars

-----------------------------------------------------------------------------
(* Properties *)

\* FolderSettings and FolderOrder: what was last set for a folder, for its identity and
\* for the order of the folders is what is shown and what is stored, through every
\* object, cache and dialog that has it.
SettingsStay ==
    /\ part = "settings" => Settings!LastSettingStays /\ Settings!IdentityExists
    /\ part = "order" => Order!OrderIsKept

\* ExpirySettings and Receipts: what a form said when it was saved is what is stored, and
\* what a task does unless it was already waiting for the folder; and what the server
\* keeps of a receipt is the last answer that was given, however many are under way.
StoredAsAnswered ==
    /\ part = "expiry" => Expiry!ExpiryAsEntered
    /\ part = "receipts" => Receipt!AnswersAreKept

\* FolderChooser: once its questions are answered the line shows the folder that is
\* stored, and the dialog accepts no folder that is gone.
ChooserShowsChoice == part = "chooser" => Chooser!ChooserShowsChoice

\* RuleEditor: a rule that is only looked at is read back as it was, whatever the editor
\* showed before, and one that is edited is what the visible widgets show.
RuleStays == part = "rule" => Rule!RuleStays /\ Rule!RuleIsShown

\* ActionEditor: an action is stored as it was last chosen, through reading, copying,
\* showing, cancelling and saving, and the manager's list misses no tag.  Tags: a tag is
\* stored and shown as it was last entered.
ChoiceStays ==
    /\ part = "action" => Act!ChoiceStays /\ Act!NoTagIsMissed
    /\ part = "tags" => Tag!TagAsEntered

\* Snippets: a change of the tree is saved or known to be unsaved, and the boxes of the
\* dialogs, the selection and the dialogs' items stay in the tree.
Remembered == part = "snippets" => Snippet!TypeOK /\ Snippet!Remembered

\* Snippets: every snippet has an action, which inserts its text.
ActionsServe == part = "snippets" => Snippet!ActionsServe

\* Snippets: accepting a dialog changes the snippet it was opened for and no other.
EditsAsMeant == [][part = "snippets" => Snippet!EditAsMeant]_vars

\* Snippets: "Do you really want to remove snippet" (src/src/snippets/
\* snippetsmanager.cpp:288) is asked before one is removed.  The code breaks it.
NoneLostByEditing == [][part = "snippets" => Snippet!EditLosesNone]_vars

\* FilterLog: the size counted is the size of what is there, and within the limit.
SizeIsExact == part = "log" => Log!SizeIsExact

\* SieveScripts: a script requires what it uses, and a filter that Sieve can express acts
\* on the messages it matches here, but for the unit of sizes.
ConvertedAlike == part = "sieve" => Sieve!ConvertedAlike /\ Sieve!ExtensionsRequired
=============================================================================
