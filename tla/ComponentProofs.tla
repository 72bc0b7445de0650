---------------------------- MODULE ComponentProofs ----------------------------
(***************************************************************************)
(* Theorems about the dialogs, editors and small stores of Components.     *)
(***************************************************************************)
EXTENDS Components, ListLemmas

(* One component begins and moves, the others rest.                        *)
LEMMA OneBegins ==
  ASSUME Init
  PROVE  /\ part = "chooser" => Chooser!Init
         /\ part = "expiry" => Expiry!Init
         /\ part = "receipts" => Receipt!Init
         /\ part = "log" => Log!Init
         /\ part = "rule" => Rule!Init
         /\ part = "settings" => Settings!Init
         /\ part = "order" => Order!Init
         /\ part = "tags" => Tag!Init
         /\ part = "action" => Act!Init
         /\ part = "snippets" => Snippet!Init
         /\ part = "sieve" => Sieve!Init
BY DEF Init

(* What the component of a behaviour does is a step of its own.            *)
LEMMA OneMoves ==
  ASSUME [Next]_vars
  PROVE  /\ part' = part
         /\ part = "chooser" => [Chooser!Next]_Chooser!vars
         /\ part = "expiry" => [Expiry!Next]_Expiry!vars
         /\ part = "receipts" => [Receipt!Next]_Receipt!vars
         /\ part = "log" => [Log!Next]_Log!vars
         /\ part = "rule" => [Rule!Next]_Rule!vars
         /\ part = "settings" => [Settings!Next]_Settings!vars
         /\ part = "order" => [Order!Next]_Order!vars
         /\ part = "tags" => [Tag!Next]_Tag!vars
         /\ part = "action" => [Act!Next]_Act!vars
         /\ part = "snippets" => [Snippet!Next]_Snippet!vars
         /\ part = "sieve" => [Sieve!Next]_Sieve!vars
<1>1. CASE Next
  BY <1>1 DEF Next
<1>2. CASE UNCHANGED vars
  BY <1>2 DEF vars, chooserVars, Chooser!vars, expiryVars, Expiry!vars, receiptVars, Receipt!vars, logVars, Log!vars,
     ruleVars, Rule!vars, settingsVars, Settings!vars, orderVars, Order!vars, Order!roles, Order!dialogVars,
     Order!proxyVars, Order!viewVars, tagVars, Tag!vars, actionVars, Act!vars, Act!tagVars, Act!editVars, snippetVars, Snippet!vars,
     Snippet!treeVars, sieveVars, Sieve!vars
<1>3. QED
  BY <1>1, <1>2

-----------------------------------------------------------------------------
(* The folder chooser.  What else its line shows is no folder. *)
OtherTexts == {"", "local", "select"}

(* The line shows the folder, or an answer is awaited that will have it    *)
(* shown; what is selected in the dialog is there, and the buttons are as  *)
(* the selection wants them.                                               *)
LineInv ==
  /\ collection \in AllFolders \cup {Invalid}
  /\ pending \in Seq(AllFolders)
  /\ collection # Invalid => text = collection \/ \E i \in DOMAIN pending : pending[i] = collection
  /\ collection = Invalid => MustBeReadWrite \/ text \notin AllFolders

IsDialog(d) ==
  /\ d = [forRequester |-> d.forRequester, mayCreate |-> d.mayCreate, selected |-> d.selected,
          ok |-> d.ok, create |-> d.create]
  /\ d.selected \in folders \cup {Invalid}
  /\ d.ok => d.selected # Invalid /\ (d.mayCreate => d.selected \in MayHold)

ButtonsInv ==
  /\ folders \subseteq AllFolders
  /\ dialog # << >> => dialog = <<dialog[1]>> /\ IsDialog(dialog[1])

ChooserInv == LineInv /\ ButtonsInv

(* The requester takes a folder. *)
LEMMA FolderTaken ==
  ASSUME LineInv, NEW c \in AllFolders \cup {Invalid}, NEW fetch, Chooser!SetCollectionTo(c, fetch)
  PROVE  LineInv'
<1>0. "local" \notin AllFolders
  BY Zenon, ChooserAssumption DEF OtherTexts
<1>1. CASE c = Invalid
  BY <1>0, <1>1 DEF LineInv, Chooser!SetCollectionTo
<1>2. CASE c # Invalid /\ fetch
  <2>1. pending' = Append(pending, c) /\ collection' = c /\ text' = text
    BY <1>2 DEF Chooser!SetCollectionTo
  <2>2. pending' \in Seq(AllFolders) /\ Len(pending) + 1 \in DOMAIN pending' /\ pending'[Len(pending) + 1] = c
    BY <1>2, <2>1 DEF LineInv
  <2>3. QED
    BY <1>2, <2>1, <2>2 DEF LineInv
<1>3. CASE c # Invalid /\ ~fetch
  BY <1>3 DEF LineInv, Chooser!SetCollectionTo
<1>4. QED
  BY <1>1, <1>2, <1>3

(* Akonadi answers the oldest question. *)
LEMMA FolderAnswered ==
  ASSUME LineInv, Chooser!SlotCollectionsReceived
  PROVE  LineInv'
<1>0. "select" \notin AllFolders
  BY Zenon, ChooserAssumption DEF OtherTexts
<1> DEFINE c == Head(pending)
<1>1. /\ pending # << >> /\ pending \in Seq(AllFolders) /\ pending' = Tail(pending)
      /\ Chooser!AnswerTo(c)
  BY DEF Chooser!SlotCollectionsReceived, LineInv
<1>2. /\ pending' \in Seq(AllFolders) /\ c \in AllFolders /\ c = pending[1]
      /\ \A i \in DOMAIN pending : i # 1 => i - 1 \in DOMAIN pending' /\ pending'[i - 1] = pending[i]
  BY <1>1
<1>3. CASE c \notin folders
  BY <1>0, <1>1, <1>2, <1>3 DEF LineInv, Chooser!AnswerTo
<1>4. CASE c \in folders /\ c = collection
  BY <1>1, <1>2, <1>4, ChooserAssumption DEF LineInv, Chooser!AnswerTo
<1>5. CASE c \in folders /\ c # collection
  <2>1. collection' = collection /\ text' = text
    BY <1>1, <1>5 DEF Chooser!AnswerTo
  <2>2. ASSUME collection # Invalid, text # collection
        PROVE  \E i \in DOMAIN pending' : pending'[i] = collection
    <3>1. PICK i \in DOMAIN pending : pending[i] = collection
      BY <2>2 DEF LineInv
    <3>2. i - 1 \in DOMAIN pending' /\ pending'[i - 1] = collection
      BY <1>2, <1>5, <3>1
    <3>3. QED
      BY <3>2
  <2>3. QED
    BY <1>2, <2>1, <2>2 DEF LineInv
<1>6. QED
  BY <1>3, <1>4, <1>5

(* The buttons follow the selection.                                       *)
LEMMA SelectingSetsButtons ==
  ASSUME NEW d, d = [forRequester |-> d.forRequester, mayCreate |-> d.mayCreate, selected |-> d.selected,
                     ok |-> d.ok, create |-> d.create],
         NEW c \in folders \cup {Invalid}
  PROVE  IsDialog(Chooser!Selecting(d, c))
<1> DEFINE b == Chooser!Buttons(c, d.mayCreate)
           e == Chooser!Selecting(d, c)
<1>1. b.ok => c # Invalid /\ (d.mayCreate => c \in MayHold)
  BY DEF Chooser!Buttons
<1>2. e = [d EXCEPT !.selected = c, !.ok = b.ok, !.create = b.create]
  BY DEF Chooser!Selecting
<1> HIDE DEF b, e
<1>3. /\ e = [forRequester |-> e.forRequester, mayCreate |-> e.mayCreate, selected |-> e.selected,
              ok |-> e.ok, create |-> e.create]
      /\ e.selected = c /\ e.mayCreate = d.mayCreate /\ e.ok = b.ok
  BY <1>2
<1>4. IsDialog(e)
  BY <1>1, <1>3 DEF IsDialog
<1>5. QED
  BY <1>4 DEF e

(* The dialog opens with a folder that can be selected, or with none.      *)
LEMMA OpenedSoundly ==
  ASSUME NEW forRequester, NEW mayCreate, NEW c
  PROVE  IsDialog(Chooser!Open(forRequester, mayCreate, Chooser!Present(forRequester, c)))
<1> DEFINE d == [forRequester |-> forRequester, mayCreate |-> mayCreate, selected |-> Invalid,
                 ok |-> FALSE, create |-> FALSE]
<1>1. Chooser!Present(forRequester, c) \in folders \cup {Invalid}
  BY DEF Chooser!Present
<1>2. d = [forRequester |-> d.forRequester, mayCreate |-> d.mayCreate, selected |-> d.selected,
           ok |-> d.ok, create |-> d.create]
  OBVIOUS
<1> HIDE DEF d
<1>3. IsDialog(Chooser!Selecting(d, Chooser!Present(forRequester, c)))
  BY <1>1, <1>2, SelectingSetsButtons
<1>4. QED
  BY <1>3 DEF Chooser!Open, d

(* The dialog closes, and the requester may take what was selected. *)
LEMMA ClosedSoundly ==
  ASSUME ChooserInv, dialog # << >>, NEW accepted, Chooser!Close(accepted)
  PROVE  ChooserInv'
<1>1. dialog' = << >> /\ folders' = folders
  BY DEF Chooser!Close
<1>2. dialog[1].selected \in AllFolders \cup {Invalid}
  BY DEF ChooserInv, ButtonsInv, IsDialog
<1>3. LineInv'
  <2>1. CASE accepted /\ dialog[1].forRequester
    <3>1. Chooser!SetCollectionTo(dialog[1].selected, FALSE)
      BY <2>1 DEF Chooser!Close
    <3>2. QED
      BY <1>2, <3>1, FolderTaken DEF ChooserInv
  <2>2. CASE ~(accepted /\ dialog[1].forRequester)
    BY <2>2 DEF Chooser!Close, ChooserInv, LineInv
  <2>3. QED
    BY <2>1, <2>2
<1>4. QED
  BY <1>1, <1>3 DEF ChooserInv, ButtonsInv

(* Every step of the chooser keeps its invariant.                          *)
LEMMA ChooserStep ==
  ASSUME ChooserInv, [Chooser!Next]_Chooser!vars
  PROVE  ChooserInv'
<1> USE DEF ChooserInv
<1>1. ASSUME NEW c \in folders \cup {Invalid}, Chooser!SetCollection(c) PROVE ChooserInv'
  <2>1. PICK fetch \in BOOLEAN : Chooser!SetCollectionTo(c, fetch)
    BY <1>1 DEF Chooser!SetCollection
  <2>2. c \in AllFolders \cup {Invalid}
    BY DEF ButtonsInv
  <2>3. LineInv'
    BY <2>1, <2>2, FolderTaken
  <2>4. UNCHANGED <<folders, dialog>>
    BY <1>1 DEF Chooser!SetCollection
  <2>5. QED
    BY <2>3, <2>4 DEF ButtonsInv, IsDialog
<1>2. CASE Chooser!SlotCollectionsReceived
  <2>1. LineInv'
    BY <1>2, FolderAnswered
  <2>2. UNCHANGED <<folders, dialog>>
    BY <1>2 DEF Chooser!SlotCollectionsReceived
  <2>3. QED
    BY <2>1, <2>2 DEF ButtonsInv, IsDialog
<1>3. CASE Chooser!SlotOpenDialog \/ Chooser!OpenDialog
  <2>1. PICK forRequester, mayCreate, c :
          dialog' = <<Chooser!Open(forRequester, mayCreate, Chooser!Present(forRequester, c))>>
    BY <1>3 DEF Chooser!SlotOpenDialog, Chooser!OpenDialog
  <2>2. UNCHANGED <<folders, collection, text, pending>>
    BY <1>3 DEF Chooser!SlotOpenDialog, Chooser!OpenDialog
  <2> DEFINE d == Chooser!Open(forRequester, mayCreate, Chooser!Present(forRequester, c))
  <2>3. IsDialog(d)
    BY OpenedSoundly
  <2> HIDE DEF d
  <2>4. QED
    BY <2>1, <2>2, <2>3 DEF d, ButtonsInv, LineInv, IsDialog
<1>4. ASSUME NEW c \in folders \cup {Invalid}, Chooser!SlotSelectionChanged(c) PROVE ChooserInv'
  <2>1. /\ dialog # << >> /\ dialog' = <<Chooser!Selecting(dialog[1], c)>>
        /\ UNCHANGED <<folders, collection, text, pending>>
    BY <1>4 DEF Chooser!SlotSelectionChanged
  <2>2. IsDialog(Chooser!Selecting(dialog[1], c))
    BY <2>1, SelectingSetsButtons DEF ButtonsInv, IsDialog
  <2>3. QED
    BY <2>1, <2>2 DEF ButtonsInv, LineInv, IsDialog
<1>5. CASE Chooser!Accept \/ Chooser!Reject \/ Chooser!SlotDoubleClick
  <2>1. dialog # << >> /\ \E accepted : Chooser!Close(accepted)
    BY <1>5 DEF Chooser!Accept, Chooser!Reject, Chooser!SlotDoubleClick
  <2>2. QED
    BY <2>1, ClosedSoundly
<1>6. ASSUME NEW c \in AllFolders, Chooser!FolderRemoved(c) PROVE ChooserInv'
  <2>1. folders' = folders \ {c} /\ UNCHANGED <<collection, text, pending>>
    BY <1>6 DEF Chooser!FolderRemoved
  <2>2. LineInv'
    BY <2>1 DEF LineInv
  <2>3. CASE dialog # << >> /\ dialog[1].selected = c
    <3>1. dialog' = <<Chooser!Selecting(dialog[1], Invalid)>>
      BY <1>6, <2>3 DEF Chooser!FolderRemoved
    <3> DEFINE d == Chooser!Selecting(dialog[1], Invalid)
    <3>2. IsDialog(d) /\ d.selected = Invalid
      <4>1. IsDialog(dialog[1])
        BY <2>3 DEF ButtonsInv
      <4>2. IsDialog(d)
        BY <4>1, SelectingSetsButtons DEF IsDialog
      <4>3. d.selected = Invalid
        BY <4>1 DEF IsDialog, Chooser!Selecting
      <4>4. QED
        BY <4>2, <4>3
    <3> HIDE DEF d
    <3>3. QED
      BY <2>1, <2>2, <3>1, <3>2 DEF d, ButtonsInv, IsDialog
  <2>4. CASE ~(dialog # << >> /\ dialog[1].selected = c)
    <3>1. dialog' = dialog
      BY <1>6, <2>4 DEF Chooser!FolderRemoved
    <3>2. QED
      BY <2>1, <2>2, <2>4, <3>1 DEF ButtonsInv, IsDialog
  <2>5. QED
    BY <2>3, <2>4
<1>7. ASSUME NEW c \in AllFolders, Chooser!SlotAddChildFolder(c) PROVE ChooserInv'
  BY <1>7 DEF Chooser!SlotAddChildFolder, ButtonsInv, LineInv, IsDialog
<1>8. CASE UNCHANGED Chooser!vars
  BY <1>8 DEF Chooser!vars, ButtonsInv, LineInv, IsDialog
<1>9. QED
  BY <1>1, <1>2, <1>3, <1>4, <1>5, <1>6, <1>7, <1>8 DEF Chooser!Next

(* Once its questions are answered the line shows the folder that is       *)
(* stored, and the dialog accepts no folder that is gone, whatever folders *)
(* there are (FolderRequester, FolderSelectionDialog).                     *)
THEOREM ChooserAlwaysShowsChoice == Spec => []ChooserShowsChoice
<1>1. Chooser!Init => ChooserInv
  <2> SUFFICES ASSUME Chooser!Init PROVE ChooserInv
    OBVIOUS
  <2>1. text \notin AllFolders
    BY Zenon, ChooserAssumption DEF Chooser!Init, OtherTexts
  <2>2. collection = Invalid /\ pending = << >> /\ dialog = << >> /\ folders = AllFolders
    BY Zenon DEF Chooser!Init
  <2>3. QED
    BY <2>1, <2>2 DEF ChooserInv, LineInv, ButtonsInv
<1>2. ChooserInv /\ [Chooser!Next]_Chooser!vars => ChooserInv'
  BY ChooserStep
<1>3. ChooserInv => Chooser!ChooserShowsChoice
  BY DEF ChooserInv, LineInv, ButtonsInv, IsDialog, Chooser!ChooserShowsChoice
<1>4. Init => (part = "chooser" => ChooserInv)
  BY <1>1, OneBegins
<1>5. (part = "chooser" => ChooserInv) /\ [Next]_vars => (part = "chooser" => ChooserInv)'
  <2> SUFFICES ASSUME part = "chooser" => ChooserInv, [Next]_vars, part' = "chooser" PROVE ChooserInv'
    OBVIOUS
  <2>1. part = "chooser" /\ [Chooser!Next]_Chooser!vars
    BY OneMoves
  <2>2. QED
    BY <1>2, <2>1
<1>6. QED
  BY <1>4, <1>5, <1>3, PTL DEF Spec, ChooserShowsChoice

-----------------------------------------------------------------------------
(* Receipts.  What is stored is what the last answer calls for, or is      *)
(* about to be, unless the server has refused one.                         *)
States == {"MDNIgnore", "MDNDenied", "MDNDisplayed"}
Wrong == message.folder # None /\ Receipt!WrongCollection(box, message.folder)
LastAnswer == answers[Len(answers)]

AnswersInv ==
  /\ storing \in Seq(States) /\ answers \in Seq(Receipt!Responses \ {"Unknown"})
  /\ answers # << >> => ~Wrong
  /\ sent # << >> => ~message.isReceipt /\ \E i \in 1..Len(answers) : answers[i] \in {"Denied", "Send"}
  /\ answers = << >> => storing = << >>
  /\ storing # << >> => storing[Len(storing)] = Receipt!StateFor(message, LastAnswer)
  /\ answers # << >> /\ storing = << >> /\ ~failed => state = Receipt!StateFor(message, LastAnswer)

LEMMA WrongStays == UNCHANGED <<message, box>> => Wrong' = Wrong
BY DEF Wrong, Receipt!WrongCollection, Receipt!FolderIsSentMailFolder, Receipt!FolderIsTrash,
   Receipt!FolderIsDraftOrOutbox, Receipt!FolderIsDrafts, Receipt!FolderIsTemplates

(* A job stores its answer, and sends the receipt. *)
LEMMA AnswerGiven ==
  ASSUME AnswersInv, NEW response \in Receipt!Responses, NEW sends, Receipt!StartJob(response, sends)
  PROVE  AnswersInv'
<1>1. UNCHANGED <<message, box, state, failed>> /\ Wrong' = Wrong
  BY WrongStays DEF Receipt!StartJob
<1>2. CASE UNCHANGED <<storing, sent, answers>>
  BY <1>1, <1>2 DEF AnswersInv, LastAnswer, Receipt!StateFor
<1>3. CASE ~UNCHANGED <<storing, sent, answers>>
  <2> DEFINE s == Receipt!StateFor(message, response)
  <2>1. /\ ~Wrong /\ response # "Unknown"
        /\ storing' = Append(storing, s) /\ answers' = Append(answers, response)
        /\ sent' # sent => ~message.isReceipt /\ response \in {"Denied", "Send"}
    BY <1>3 DEF Receipt!StartJob, Receipt!DoSend, Receipt!CanStart, Wrong
  <2>2. s \in States
    BY DEF Receipt!StateFor, States
  <2>3. s = Receipt!StateFor(message, response)'
    BY <1>1 DEF Receipt!StateFor
  <2> HIDE DEF s
  <2>4. /\ storing' \in Seq(States) /\ storing' # << >> /\ storing'[Len(storing')] = s
        /\ answers' \in Seq(Receipt!Responses \ {"Unknown"}) /\ answers' # << >> /\ LastAnswer' = response
        /\ Len(answers') = Len(answers) + 1 /\ Len(answers) \in Nat
        /\ \A i \in 1..Len(answers) : answers'[i] = answers[i]
    BY <2>1, <2>2 DEF AnswersInv, LastAnswer
  <2>5. ASSUME sent' # << >>
        PROVE  ~message.isReceipt /\ \E i \in 1..Len(answers') : answers'[i] \in {"Denied", "Send"}
    <3>1. CASE sent' # sent
      BY <2>1, <2>4, <3>1 DEF LastAnswer
    <3>2. CASE sent' = sent
      BY <2>4, <2>5, <3>2 DEF AnswersInv
    <3>3. QED
      BY <3>1, <3>2
  <2>6. storing'[Len(storing')] = Receipt!StateFor(message, LastAnswer)'
    BY <1>1, <2>3, <2>4 DEF Receipt!StateFor
  <2>7. QED
    BY <1>1, <2>1, <2>4, <2>5, <2>6 DEF AnswersInv
<1>4. QED
  BY <1>2, <1>3

(* What is left of a queue ends as the queue did. *)
LEMMA TailEndsAlike ==
  ASSUME NEW S, NEW q \in Seq(S), q # << >>
  PROVE  /\ Tail(q) \in Seq(S)
         /\ Tail(q) # << >> => Tail(q)[Len(Tail(q))] = q[Len(q)]
         /\ Tail(q) = << >> => Head(q) = q[Len(q)]
<1>1. Len(q) \in Nat \ {0} /\ Len(Tail(q)) = Len(q) - 1 /\ Tail(q) \in Seq(S) /\ Head(q) = q[1]
  OBVIOUS
<1>2. \A i \in 1..(Len(q) - 1) : Tail(q)[i] = q[i + 1]
  OBVIOUS
<1>3. Tail(q) = << >> => Len(q) = 1
  <2>1. Len(<< >>) = 0
    OBVIOUS
  <2>2. ASSUME Tail(q) = << >> PROVE Len(Tail(q)) = 0
    BY Zenon, <2>1, <2>2
  <2>3. QED
    BY <1>1, <2>2
<1>4. ASSUME Tail(q) # << >> PROVE Len(q) - 1 \in 1..(Len(q) - 1)
  <2>1. Len(Tail(q)) # 0
    BY <1>1, <1>4
  <2>2. QED
    BY <1>1, <2>1
<1>5. QED
  BY <1>1, <1>2, <1>3, <1>4

(* The server stores it, or does not. *)
LEMMA AnswerStored ==
  ASSUME AnswersInv, NEW ok, Receipt!ModifyAnswered(ok)
  PROVE  AnswersInv'
<1>1. /\ storing # << >> /\ storing' = Tail(storing) /\ UNCHANGED <<message, box, sent, answers>>
      /\ (state' = Head(storing) /\ failed' = failed) \/ (state' = state /\ failed' = TRUE)
  BY DEF Receipt!ModifyAnswered
<1>2. /\ storing' \in Seq(States)
      /\ storing' # << >> => storing'[Len(storing')] = storing[Len(storing)]
      /\ storing' = << >> => Head(storing) = storing[Len(storing)]
  <2>1. storing \in Seq(States) /\ storing # << >>
    BY <1>1 DEF AnswersInv
  <2>2. QED
    BY <1>1, <2>1, TailEndsAlike
<1>3. Wrong' = Wrong /\ LastAnswer' = LastAnswer /\ Receipt!StateFor(message, LastAnswer)' = Receipt!StateFor(message, LastAnswer)
  BY <1>1, WrongStays DEF LastAnswer, Receipt!StateFor
<1>4. QED
  BY <1>1, <1>2, <1>3 DEF AnswersInv

(* An answer is acted upon only for mail that came in from others, a       *)
(* receipt is sent only if one asked for it and never for another receipt, *)
(* and when all answers have arrived the server keeps the last one, unless *)
(* it has refused one (MDNWarningJob).                                     *)
THEOREM AnswersAreAlwaysKept == Spec => [](part = "receipts" => Receipt!AnswersAreKept)
<1>1. Receipt!Init => AnswersInv
  BY DEF Receipt!Init, AnswersInv
<1>2. AnswersInv /\ [Receipt!Next]_Receipt!vars => AnswersInv'
  <2> SUFFICES ASSUME AnswersInv, [Receipt!Next]_Receipt!vars PROVE AnswersInv'
    OBVIOUS
  <2>1. CASE UNCHANGED Receipt!vars
    BY <2>1, WrongStays DEF Receipt!vars, AnswersInv, LastAnswer, Receipt!StateFor
  <2>2. QED
    BY <2>1, AnswerGiven, AnswerStored DEF Receipt!Next
<1>3. AnswersInv => Receipt!AnswersAreKept
  <2> SUFFICES ASSUME AnswersInv PROVE Receipt!AnswersAreKept
    OBVIOUS
  <2>1. answers # << >> /\ message.folder # None =>
          /\ \A t \in {"Outbox", "SentMail", "Drafts", "Trash", "Templates"} : box.special[t] # message.folder
          /\ \A i \in box.identities : message.folder \notin {i.drafts, i.fcc, i.templates}
    BY DEF AnswersInv, Wrong, Receipt!WrongCollection, Receipt!FolderIsSentMailFolder, Receipt!FolderIsTrash,
       Receipt!FolderIsDraftOrOutbox, Receipt!FolderIsDrafts, Receipt!FolderIsTemplates
  <2>2. answers # << >> => LastAnswer \in {"MDNIgnore", "Denied", "Send"}
    <3>1. answers # << >> => LastAnswer \in Receipt!Responses \ {"Unknown"}
      BY DEF AnswersInv, LastAnswer
    <3>2. QED
      BY <3>1 DEF Receipt!Responses
  <2>3. QED
    BY <2>1, <2>2 DEF AnswersInv, Receipt!AnswersAreKept, Receipt!StateFor, LastAnswer
<1>4. Init => (part = "receipts" => AnswersInv)
  BY <1>1, OneBegins
<1>5. (part = "receipts" => AnswersInv) /\ [Next]_vars => (part = "receipts" => AnswersInv)'
  <2> SUFFICES ASSUME part = "receipts" => AnswersInv, [Next]_vars, part' = "receipts" PROVE AnswersInv'
    OBVIOUS
  <2>1. part = "receipts" /\ [Receipt!Next]_Receipt!vars
    BY OneMoves
  <2>2. QED
    BY <1>2, <2>1
<1>6. QED
  BY <1>4, <1>5, <1>3, PTL DEF Spec

-----------------------------------------------------------------------------
(* The expiry of a folder.  Ages are entered as numbers of days, and there *)
(* are folders to move to.                                                 *)

IsAttribute(a) ==
  /\ a = [autoExpire |-> a.autoExpire, unreadAge |-> a.unreadAge, readAge |-> a.readAge,
          unreadUnits |-> a.unreadUnits, readUnits |-> a.readUnits, action |-> a.action,
          toFolder |-> a.toFolder, validDate |-> a.validDate]
  /\ a.readAge \in Int /\ a.unreadAge \in Int /\ a.validDate \in BOOLEAN
  /\ a.toFolder \in Targets \cup {None}

IsForm(f) ==
  /\ f = [read |-> f.read, unread |-> f.unread, move |-> f.move, folder |-> f.folder, undated |-> f.undated]
  /\ f.read \in Nat /\ f.unread \in Nat /\ f.move \in BOOLEAN /\ f.undated \in BOOLEAN
  /\ f.folder \in Targets \cup {Self, None}

Base(attribute) == IF attribute = None THEN Expiry!Attribute ELSE attribute

(* A form without a folder is one of an attribute that has none.           *)
IsPage(p) ==
  /\ p = [attribute |-> p.attribute, changed |-> p.changed, form |-> p.form]
  /\ IsForm(p.form) /\ IsAttribute(Base(p.attribute))
  /\ p.form.folder = None => Base(p.attribute).toFolder = None

(* What is about to be stored is what its form says.                       *)
IsJob(j) ==
  /\ IsAttribute(j.attribute)
  /\ ~Expiry!Wrong(j.form) => Expiry!Meaning(j.attribute) = Expiry!Meant(j.form)
  /\ j.now => ~Expiry!Wrong(j.form)

(* A task does what the request that made it meant, the only one unless    *)
(* another has been merged into it.                                        *)
TaskFits(t) ==
  /\ t = [attribute |-> t.attribute, first |-> t.first, meant |-> t.meant, merged |-> t.merged]
  /\ Expiry!Meaning(t.attribute) = t.first /\ (t.merged # TRUE => t.meant = t.first /\ t.merged = FALSE)

AreJobs(q) == \E J : q \in Seq(J) /\ \A j \in J : IsJob(j)

ExpiryInv ==
  /\ stored # None => IsAttribute(stored)
  /\ page # None => IsPage(page)
  /\ AreJobs(modify)
  /\ task # None => TaskFits(task)
  /\ entered # None /\ ~Expiry!Wrong(entered) => Expiry!Meaning(stored) = Expiry!Meant(entered)

(* What the form makes of an attribute, field by field.                    *)
LEMMA AssignedFields ==
  ASSUME NEW f, IsForm(f), NEW attribute, IsAttribute(Base(attribute)), NEW a, a = Expiry!Assigned(f, attribute)
  PROVE  /\ a = [autoExpire |-> a.autoExpire, unreadAge |-> a.unreadAge, readAge |-> a.readAge,
                 unreadUnits |-> a.unreadUnits, readUnits |-> a.readUnits, action |-> a.action,
                 toFolder |-> a.toFolder, validDate |-> a.validDate]
         /\ a.readAge = f.read /\ a.unreadAge = f.unread
         /\ a.readUnits = IF f.read # 0 THEN 1 ELSE 0
         /\ a.unreadUnits = IF f.unread # 0 THEN 1 ELSE 0
         /\ a.action = IF f.move THEN "move" ELSE "delete"
         /\ a.toFolder = IF f.move /\ f.folder \in Targets THEN f.folder ELSE Base(attribute).toFolder
         /\ a.validDate = (~f.undated)
<1> DEFINE base == Base(attribute)
           target == IF f.move /\ f.folder \in Targets THEN [base EXCEPT !.toFolder = f.folder] ELSE base
           units(age) == IF age # 0 THEN 1 ELSE 0
           Same(x) == [autoExpire |-> x.autoExpire, unreadAge |-> x.unreadAge, readAge |-> x.readAge,
                       unreadUnits |-> x.unreadUnits, readUnits |-> x.readUnits, action |-> x.action,
                       toFolder |-> x.toFolder, validDate |-> x.validDate]
           aged == [target EXCEPT !.readAge = f.read]
           ages == [aged EXCEPT !.unreadAge = f.unread]
           once == [ages EXCEPT !.readUnits = units(f.read)]
           both == [once EXCEPT !.unreadUnits = units(f.unread)]
<1>1. base = Same(base)
  BY DEF IsAttribute
<1>2. target = Same(target) /\ target.toFolder = IF f.move /\ f.folder \in Targets THEN f.folder ELSE base.toFolder
  <2> HIDE DEF base
  <2>1. QED
    BY <1>1
<1>3. Expiry!SetUnreadAge(Expiry!SetReadAge(target, f.read), f.unread) = ages
  <2> HIDE DEF target
  <2>1. QED
    BY DEF Expiry!SetUnreadAge, Expiry!SetReadAge, IsForm
<1>4. Expiry!SetUnreadUnits(Expiry!SetReadUnits(ages, units(f.read)), units(f.unread)) = both
  <2> HIDE DEF ages
  <2>1. QED
    BY DEF Expiry!SetUnreadUnits, Expiry!SetReadUnits, Expiry!ExpireNever, Expiry!ExpireMaxUnits
<1>5. a = [both EXCEPT !.autoExpire = Expiry!On(f), !.action = IF f.move THEN "move" ELSE "delete",
                       !.validDate = ~f.undated]
  <2>1. a = [Expiry!SetUnreadUnits(Expiry!SetReadUnits(
               Expiry!SetUnreadAge(Expiry!SetReadAge(target, f.read), f.unread), units(f.read)), units(f.unread))
             EXCEPT !.autoExpire = Expiry!On(f), !.action = IF f.move THEN "move" ELSE "delete",
                    !.validDate = ~f.undated]
    BY DEF Expiry!Assigned, Base, Expiry!ExpireDays, Expiry!ExpireNever
  <2> HIDE DEF target, aged, ages, once, both, units
  <2>2. QED
    BY <2>1, <1>3, <1>4
<1>6. /\ ages = Same(ages) /\ ages.readAge = f.read /\ ages.unreadAge = f.unread /\ ages.toFolder = target.toFolder
  <2> HIDE DEF target
  <2>1. aged = Same(aged) /\ aged.readAge = f.read /\ aged.toFolder = target.toFolder
    BY <1>2
  <2> HIDE DEF aged
  <2>2. QED
    BY <2>1
<1>7. /\ both = Same(both) /\ both.readAge = f.read /\ both.unreadAge = f.unread
      /\ both.toFolder = target.toFolder
      /\ both.readUnits = units(f.read) /\ both.unreadUnits = units(f.unread)
  <2> HIDE DEF ages, units
  <2>1. /\ once = Same(once) /\ once.readAge = f.read /\ once.unreadAge = f.unread
        /\ once.toFolder = target.toFolder /\ once.readUnits = units(f.read)
    BY <1>6
  <2> HIDE DEF once
  <2>2. QED
    BY <2>1
<1> HIDE DEF both, target
<1>8. /\ a = Same(a) /\ a.readAge = f.read /\ a.unreadAge = f.unread /\ a.toFolder = target.toFolder
      /\ a.readUnits = units(f.read) /\ a.unreadUnits = units(f.unread)
      /\ a.action = IF f.move THEN "move" ELSE "delete"
      /\ a.validDate = (~f.undated)
  <2> HIDE DEF units
  <2>1. QED
    BY <1>5, <1>7
<1>9. QED
  BY <1>2, <1>8

(* A form that need not be corrected is stored as it is meant.             *)
LEMMA AssignedAsMeant ==
  ASSUME NEW f, IsForm(f), NEW attribute, IsAttribute(Base(attribute)),
         f.folder = None => Base(attribute).toFolder = None,
         NEW a, a = Expiry!Assigned(f, attribute)
  PROVE  /\ IsAttribute(a)
         /\ f.folder = None => a.toFolder = None
         /\ ~Expiry!Wrong(f) => Expiry!Meaning(a) = Expiry!Meant(f)
<1>1. /\ a = [autoExpire |-> a.autoExpire, unreadAge |-> a.unreadAge, readAge |-> a.readAge,
              unreadUnits |-> a.unreadUnits, readUnits |-> a.readUnits, action |-> a.action,
              toFolder |-> a.toFolder, validDate |-> a.validDate]
      /\ a.readAge = f.read /\ a.unreadAge = f.unread
      /\ a.readUnits = IF f.read # 0 THEN 1 ELSE 0
      /\ a.unreadUnits = IF f.unread # 0 THEN 1 ELSE 0
      /\ a.action = IF f.move THEN "move" ELSE "delete"
      /\ a.toFolder = IF f.move /\ f.folder \in Targets THEN f.folder ELSE Base(attribute).toFolder
      /\ a.validDate = (~f.undated)
  BY AssignedFields
<1>2. IsAttribute(a)
  BY <1>1 DEF IsAttribute, IsForm
<1>3. f.folder = None => a.toFolder = None
  BY <1>1
<1>4. ASSUME ~Expiry!Wrong(f) PROVE Expiry!Meaning(a) = Expiry!Meant(f)
  <2> DEFINE days(number, units) ==
               IF Expiry!DaysToExpire(number, units) > 0 THEN Expiry!DaysToExpire(number, units) ELSE 0
  <2>1. ASSUME NEW n \in Nat PROVE days(n, IF n # 0 THEN 1 ELSE 0) = n
    <3>1. CASE n = 0
      BY <3>1 DEF Expiry!DaysToExpire, Expiry!ExpireDays, Expiry!ExpireWeeks, Expiry!ExpireMonths
    <3>2. CASE n # 0
      BY <3>2 DEF Expiry!DaysToExpire, Expiry!ExpireDays, Expiry!ExpireWeeks, Expiry!ExpireMonths
    <3>3. QED
      BY <3>1, <3>2
  <2>2. days(a.readAge, a.readUnits) = f.read /\ days(a.unreadAge, a.unreadUnits) = f.unread
    <3> HIDE DEF days
    <3>1. QED
      BY <1>1, <2>1 DEF IsForm
  <2>3. (IF a.action = "move" THEN a.toFolder ELSE None) = IF f.move THEN f.folder ELSE None
    <3>1. CASE f.move
      <4>1. f.folder # Self
        BY <1>4, <3>1 DEF Expiry!Wrong, Expiry!WrongFolderSelected
      <4>2. f.folder \in Targets \/ f.folder = None
        BY <4>1 DEF IsForm
      <4>3. QED
        BY <1>1, <1>3, <3>1, <4>2
    <3>2. CASE ~f.move
      BY <1>1, <3>2
    <3>3. QED
      BY <3>1, <3>2
  <2>4. (~a.validDate) = f.undated
    BY <1>1 DEF IsForm
  <2>5. Expiry!Meaning(a) = [read |-> days(a.readAge, a.readUnits), unread |-> days(a.unreadAge, a.unreadUnits),
                             action |-> a.action, toFolder |-> IF a.action = "move" THEN a.toFolder ELSE None,
                             undated |-> ~a.validDate]
    BY DEF Expiry!Meaning
  <2> HIDE DEF days
  <2>6. QED
    BY <1>1, <2>2, <2>3, <2>4, <2>5 DEF Expiry!Meant
<1>5. QED
  BY <1>2, <1>3, <1>4

(* A folder that has never expired.                                        *)
LEMMA BlankForm ==
  /\ IsAttribute(Expiry!Attribute) /\ Expiry!Attribute.toFolder = None
  /\ IsForm(Expiry!Blank)
BY DEF IsAttribute, Expiry!Attribute, Expiry!ExpireNever, IsForm, Expiry!Blank

(* The page shows what is stored.                                          *)
LEMMA LoadedForm ==
  ASSUME NEW a, IsAttribute(a), NEW f, f = Expiry!Load(Expiry!ConvertFromAttribute(a))
  PROVE  IsForm(f) /\ (f.folder = None => a.toFolder = None)
<1> DEFINE s == Expiry!ConvertFromAttribute(a)
           spin(days, units) == IF s.on /\ units # Expiry!ExpireNever /\ days >= 0 THEN days ELSE 0
<1>1. /\ s.read = Expiry!DaysToExpire(a.readAge, a.readUnits)
      /\ s.unread = Expiry!DaysToExpire(a.unreadAge, a.unreadUnits)
      /\ s.undated = (~a.validDate) /\ s.toFolder = a.toFolder
  BY DEF Expiry!ConvertFromAttribute
<1>2. s.read \in Int /\ s.unread \in Int
  <2>1. \A n \in Int : \A u : Expiry!DaysToExpire(n, u) \in Int
    BY DEF Expiry!DaysToExpire
  <2>2. QED
    BY <1>1, <2>1 DEF IsAttribute
<1>3. s.undated \in BOOLEAN /\ s.toFolder \in Targets \cup {None}
  BY <1>1 DEF IsAttribute
<1>4. f = Expiry!Load(s)
  OBVIOUS
<1> HIDE DEF s
<1>5. CASE ~Expiry!IsValid(s)
  <2>1. f = Expiry!Blank
    BY <1>4, <1>5 DEF Expiry!Load
  <2>2. s.toFolder = None
    BY <1>5 DEF Expiry!IsValid
  <2>3. QED
    BY <1>1, <2>1, <2>2, BlankForm
<1>6. CASE Expiry!IsValid(s)
  <2>1. f = [read |-> spin(s.read, s.readUnits), unread |-> spin(s.unread, s.unreadUnits),
             move |-> s.action # "delete",
             folder |-> IF s.toFolder \in Targets \cup {Self} THEN s.toFolder ELSE None,
             undated |-> s.undated]
    BY <1>4, <1>6 DEF Expiry!Load
  <2>2. spin(s.read, s.readUnits) \in Nat /\ spin(s.unread, s.unreadUnits) \in Nat
    BY <1>2
  <2> HIDE DEF spin
  <2>3. QED
    BY <1>1, <1>3, <2>1, <2>2 DEF IsForm
<1>7. QED
  BY <1>5, <1>6

(* Jobs come and go.                                                       *)
LEMMA JobAdded ==
  ASSUME NEW q, AreJobs(q), NEW j, IsJob(j)
  PROVE  AreJobs(Append(q, j))
<1>1. PICK J : q \in Seq(J) /\ \A i \in J : IsJob(i)
  BY DEF AreJobs
<1> DEFINE K == J \cup {j}
<1>2. \A i \in K : IsJob(i)
  BY <1>1
<1>3. Append(q, j) \in Seq(K)
  BY <1>1
<1> HIDE DEF K
<1>4. QED
  BY <1>2, <1>3 DEF AreJobs

(* Taking the first job from a queue leaves a queue of jobs.               *)
LEMMA JobDone ==
  ASSUME NEW q, AreJobs(q), q # << >>
  PROVE  IsJob(Head(q)) /\ AreJobs(Tail(q))
<1>1. PICK J : q \in Seq(J) /\ \A i \in J : IsJob(i)
  BY DEF AreJobs
<1>2. Head(q) \in J /\ Tail(q) \in Seq(J)
  BY <1>1
<1>3. QED
  BY <1>1, <1>2 DEF AreJobs

(* The job that a page asks for.                                           *)
LEMMA JobOfPage ==
  ASSUME NEW p, IsPage(p), NEW a, a = Expiry!Assigned(p.form, p.attribute), NEW now,
         now => ~Expiry!Wrong(p.form)
  PROVE  IsJob([attribute |-> a, form |-> p.form, now |-> now])
<1>1. IsAttribute(a) /\ (~Expiry!Wrong(p.form) => Expiry!Meaning(a) = Expiry!Meant(p.form))
  BY AssignedAsMeant DEF IsPage
<1>2. QED
  BY <1>1 DEF IsJob

(* A task has the attribute that it is meant to have.                      *)
LEMMA TaskMade ==
  ASSUME task # None => TaskFits(task),
         NEW a, NEW meant, Expiry!Meaning(a) = meant, Expiry!ExpireOldMessages(a, meant)
  PROVE  task' # None => TaskFits(task')
<1>1. CASE task = None
  <2>1. task' = [attribute |-> a, first |-> meant, meant |-> meant, merged |-> FALSE]
    BY <1>1 DEF Expiry!ExpireOldMessages
  <2>2. QED
    BY <2>1 DEF TaskFits
<1>2. CASE task # None /\ task' # None
  <2>1. task' = [task EXCEPT !.meant = meant, !.merged = TRUE]
    BY <1>2 DEF Expiry!ExpireOldMessages
  <2>2. task' = [attribute |-> task.attribute, first |-> task.first, meant |-> meant, merged |-> TRUE]
    BY <1>2, <2>1 DEF TaskFits
  <2>3. QED
    BY <1>2, <2>2 DEF TaskFits
<1>3. QED
  BY <1>1, <1>2

(* What the user does to the form leaves it one.                           *)
LEMMA FormEdited ==
  ASSUME page # None, IsPage(page), NEW form, Expiry!EditPage(form)
  PROVE  IsPage(page')
<1> DEFINE f == page.form
<1>1. IsForm(f)
  BY DEF IsPage
<1>2. IsForm(form) /\ (form.folder = None => f.folder = None)
  <2>1. \/ \E age \in Nat : form = [f EXCEPT !.read = age]
        \/ \E age \in Nat : form = [f EXCEPT !.unread = age]
        \/ form = [f EXCEPT !.undated = ~@]
        \/ form = [f EXCEPT !.move = ~@]
        \/ \E t \in Targets \cup {Self} : form = [f EXCEPT !.folder = t]
    BY FormsAssumption DEF Expiry!EditPage
  <2> HIDE DEF f
  <2>2. ASSUME NEW age \in Nat, form = [f EXCEPT !.read = age]
        PROVE  IsForm(form) /\ (form.folder = None => f.folder = None)
    BY <1>1, <2>2 DEF IsForm
  <2>3. ASSUME NEW age \in Nat, form = [f EXCEPT !.unread = age]
        PROVE  IsForm(form) /\ (form.folder = None => f.folder = None)
    BY <1>1, <2>3 DEF IsForm
  <2>4. CASE form = [f EXCEPT !.undated = ~@]
    BY <1>1, <2>4 DEF IsForm
  <2>5. CASE form = [f EXCEPT !.move = ~@]
    BY <1>1, <2>5 DEF IsForm
  <2>6. ASSUME NEW t \in Targets \cup {Self}, form = [f EXCEPT !.folder = t]
        PROVE  IsForm(form) /\ (form.folder = None => f.folder = None)
    BY <1>1, <2>6, FormsAssumption DEF IsForm
  <2>7. QED
    BY <2>1, <2>2, <2>3, <2>4, <2>5, <2>6
<1>3. page' = [page EXCEPT !.form = form, !.changed = TRUE]
  BY DEF Expiry!EditPage
<1>4. page' = [attribute |-> page.attribute, changed |-> TRUE, form |-> form]
  BY <1>3 DEF IsPage
<1>5. QED
  BY <1>2, <1>4 DEF IsPage

(* Every step of the page, its jobs and its tasks keeps the invariant.     *)
LEMMA ExpiryStep ==
  ASSUME ExpiryInv, [Expiry!Next]_Expiry!vars
  PROVE  ExpiryInv'
<1> USE DEF ExpiryInv
<1> DEFINE NewTask == task' # None => TaskFits(task')
           NewPage == page' # None => IsPage(page')
<1>0. /\ UNCHANGED task => NewTask
      /\ UNCHANGED page => NewPage
      /\ UNCHANGED modify => AreJobs(modify')
      /\ UNCHANGED <<stored, entered>> =>
           /\ stored' # None => IsAttribute(stored')
           /\ entered' # None /\ ~Expiry!Wrong(entered') => Expiry!Meaning(stored') = Expiry!Meant(entered')
  OBVIOUS
<1>A. ASSUME UNCHANGED <<stored, entered>>, NewTask, NewPage, AreJobs(modify')
      PROVE  ExpiryInv'
  BY <1>0, <1>A
<1>1. CASE Expiry!OpenPage
  <2> DEFINE f == IF stored = None THEN Expiry!Blank ELSE Expiry!Load(Expiry!ConvertFromAttribute(stored))
  <2>1. page' = [attribute |-> stored, changed |-> FALSE, form |-> f] /\ UNCHANGED <<stored, modify, task, entered>>
    BY <1>1 DEF Expiry!OpenPage
  <2>2. IsForm(f) /\ IsAttribute(Base(stored)) /\ (f.folder = None => Base(stored).toFolder = None)
    <3>1. CASE stored = None
      BY <3>1, BlankForm DEF Base
    <3>2. CASE stored # None
      BY <3>2, LoadedForm DEF Base
    <3>3. QED
      BY <3>1, <3>2
  <2> HIDE DEF f
  <2>3. IsPage(page')
    BY <2>1, <2>2 DEF IsPage
  <2>4. QED
    BY <1>0, <1>A, <2>1, <2>3
<1>2. ASSUME page # None, NEW form, Expiry!EditPage(form) PROVE ExpiryInv'
  <2>1. IsPage(page')
    BY <1>2, FormEdited
  <2>2. UNCHANGED <<stored, modify, task, entered>>
    BY <1>2 DEF Expiry!EditPage
  <2>3. QED
    BY <1>0, <1>A, <2>1, <2>2
<1>3. CASE Expiry!SlotSaveAndExpire
  <2> DEFINE a == Expiry!Assigned(page.form, page.attribute)
             j == [attribute |-> a, form |-> page.form, now |-> ~Expiry!Wrong(page.form)]
  <2>1. /\ page # None /\ modify' = Append(modify, j) /\ UNCHANGED <<stored, task, entered>>
        /\ page' = [attribute |-> a, changed |-> FALSE, form |-> Expiry!Corrected(page.form)]
    BY <1>3 DEF Expiry!SlotSaveAndExpire
  <2>2. IsPage(page) /\ IsForm(page.form)
    BY <2>1 DEF IsPage
  <2>3. IsJob(j)
    BY <2>2, JobOfPage
  <2>4. AreJobs(modify')
    <3> HIDE DEF j
    <3>1. QED
      BY <2>1, <2>3, JobAdded
  <2>5. IsAttribute(a) /\ (page.form.folder = None => a.toFolder = None)
    BY <2>2, AssignedAsMeant DEF IsPage
  <2> DEFINE f == Expiry!Corrected(page.form)
  <2>6. IsForm(f) /\ f.folder = page.form.folder
    <3> HIDE DEF a
    <3>1. QED
      BY <2>2 DEF Expiry!Corrected, IsForm
  <2>7. IsAttribute(Base(a)) /\ (f.folder = None => Base(a).toFolder = None)
    <3> HIDE DEF a, f
    <3>1. QED
      BY <2>5, <2>6, BlankForm DEF Base
  <2>8. IsPage(page')
    <3> HIDE DEF a, f
    <3>1. QED
      BY <2>1, <2>6, <2>7 DEF IsPage, f
  <2>9. QED
    BY <1>0, <1>A, <2>1, <2>4, <2>8
<1>4. CASE Expiry!SavePage
  <2> DEFINE a == Expiry!Assigned(page.form, page.attribute)
             j == [attribute |-> a, form |-> page.form, now |-> FALSE]
  <2>1. page # None /\ page' = None /\ UNCHANGED <<stored, entered>>
    BY <1>4 DEF Expiry!SavePage
  <2>2. IsPage(page) /\ IsForm(page.form)
    BY <2>1 DEF IsPage
  <2>3. IsJob(j)
    BY <2>2, JobOfPage
  <2>4. AreJobs(modify')
    <3>1. modify' = modify \/ modify' = Append(modify, j)
      BY <1>4 DEF Expiry!SavePage
    <3> HIDE DEF j
    <3>2. QED
      BY <2>3, <3>1, JobAdded
  <2>5. NewTask
    <3>1. \/ UNCHANGED task
          \/ ~Expiry!Wrong(page.form) /\ Expiry!ExpireOldMessages(a, Expiry!Meant(page.form))
      BY <1>4 DEF Expiry!SavePage
    <3>2. ~Expiry!Wrong(page.form) => Expiry!Meaning(a) = Expiry!Meant(page.form)
      BY <2>2, AssignedAsMeant DEF IsPage
    <3> HIDE DEF a
    <3>3. QED
      BY <1>0, <3>1, <3>2, TaskMade
  <2>6. QED
    BY <1>A, <2>1, <2>4, <2>5
<1>5. CASE Expiry!ClosePage
  BY <1>0, <1>A, <1>5 DEF Expiry!ClosePage
<1>6. ASSUME NEW ok, Expiry!SlotCollectionModified(ok) PROVE ExpiryInv'
  <2> DEFINE job == Head(modify)
  <2>1. modify # << >> /\ modify' = Tail(modify) /\ UNCHANGED page
    BY <1>6 DEF Expiry!SlotCollectionModified
  <2>2. IsJob(job) /\ AreJobs(modify')
    BY <2>1, JobDone
  <2>3. \/ UNCHANGED <<stored, entered>>
        \/ stored' = Expiry!Deserialize(Expiry!Serialized(job.attribute)) /\ entered' = job.form
    BY <1>6 DEF Expiry!SlotCollectionModified
  <2>4. UNCHANGED task \/ (job.now /\ Expiry!ExpireOldMessages(job.attribute, Expiry!Meant(job.form)))
    BY <1>6 DEF Expiry!SlotCollectionModified
  <2> HIDE DEF job
  <2>5. Expiry!Deserialize(Expiry!Serialized(job.attribute)) = job.attribute
    BY <2>2 DEF IsJob, IsAttribute, Expiry!Deserialize, Expiry!Serialized
  <2>6. NewTask
    BY <1>0, <2>2, <2>4, TaskMade DEF IsJob
  <2>7. /\ stored' # None => IsAttribute(stored')
        /\ entered' # None /\ ~Expiry!Wrong(entered') => Expiry!Meaning(stored') = Expiry!Meant(entered')
    BY <1>0, <2>2, <2>3, <2>5 DEF IsJob
  <2>8. QED
    BY <1>0, <2>1, <2>2, <2>6, <2>7
<1>7. CASE Expiry!ExpireAllFolders
  <2>1. /\ UNCHANGED <<stored, page, modify, entered>>
        /\ Expiry!ExpireOldMessages(stored, Expiry!Meaning(stored))
    BY <1>7 DEF Expiry!ExpireAllFolders
  <2>2. NewTask
    BY <2>1, TaskMade
  <2>3. QED
    BY <1>0, <1>A, <2>1, <2>2
<1>8. CASE Expiry!TaskRuns
  BY <1>0, <1>A, <1>8 DEF Expiry!TaskRuns
<1>9. CASE UNCHANGED Expiry!vars
  BY <1>0, <1>A, <1>9 DEF Expiry!vars
<1>10. QED
  BY <1>1, <1>2, <1>3, <1>4, <1>5, <1>6, <1>7, <1>8, <1>9 DEF Expiry!Next

(* What is stored is what the form said when it was saved, whatever units  *)
(* the folder had before and whatever is under way; and a task expires     *)
(* what was meant by the request for it, or, when it had been waiting      *)
(* already, by the first one (CollectionExpiryWidget, CollectionExpiryJob). *)
THEOREM ExpiryAlwaysAsEntered == Spec => [](part = "expiry" => Expiry!ExpiryAsEntered)
<1>1. Expiry!Init => ExpiryInv
  <2> SUFFICES ASSUME Expiry!Init PROVE ExpiryInv
    OBVIOUS
  <2>1. page = None /\ modify = << >> /\ task = None /\ entered = None
    BY DEF Expiry!Init
  <2>2. AreJobs(<< >>)
    <3> DEFINE J == {}
    <3>1. << >> \in Seq(J) /\ \A j \in J : IsJob(j)
      OBVIOUS
    <3> HIDE DEF J
    <3>2. QED
      BY <3>1 DEF AreJobs
  <2>3. ASSUME stored # None PROVE IsAttribute(stored)
    <3>1. PICK u \in Expiry!ExpireDays..Expiry!ExpireMonths, a \in {"delete", "move"} :
            stored = Expiry!Expiring(u, a)
      BY <2>3 DEF Expiry!Init
    <3> DEFINE folder == IF a = "move" THEN CHOOSE t \in Targets : TRUE ELSE None
    <3>2. folder \in Targets \cup {None}
      BY FormsAssumption
    <3>3. stored = [autoExpire |-> TRUE, unreadAge |-> 28, readAge |-> 2, unreadUnits |-> 0, readUnits |-> u,
                    action |-> a, toFolder |-> folder, validDate |-> FALSE]
      BY <3>1 DEF Expiry!Expiring, Expiry!ExpireNever
    <3> HIDE DEF folder
    <3>4. QED
      BY <3>2, <3>3 DEF IsAttribute
  <2>4. QED
    BY <2>1, <2>2, <2>3 DEF ExpiryInv
<1>2. ExpiryInv /\ [Expiry!Next]_Expiry!vars => ExpiryInv'
  BY ExpiryStep
<1>3. ExpiryInv => Expiry!ExpiryAsEntered
  BY DEF ExpiryInv, TaskFits, Expiry!ExpiryAsEntered
<1>4. Init => (part = "expiry" => ExpiryInv)
  BY <1>1, OneBegins
<1>5. (part = "expiry" => ExpiryInv) /\ [Next]_vars => (part = "expiry" => ExpiryInv)'
  <2> SUFFICES ASSUME part = "expiry" => ExpiryInv, [Next]_vars, part' = "expiry" PROVE ExpiryInv'
    OBVIOUS
  <2>1. part = "expiry" /\ [Expiry!Next]_Expiry!vars
    BY OneMoves
  <2>2. QED
    BY <1>2, <2>1
<1>6. QED
  BY <1>4, <1>5, <1>3, PTL DEF Spec

(* StoredAsAnswered: what a form said when it was saved is what is stored, *)
(* and what a task does unless it was already waiting for the folder; and  *)
(* what the server keeps of a receipt is the last answer that was given,   *)
(* unless it refused to store one (CollectionExpiryWidget, MDNWarningJob). *)
THEOREM AlwaysStoredAsAnswered == Spec => []StoredAsAnswered
BY ExpiryAlwaysAsEntered, AnswersAreAlwaysKept, PTL DEF StoredAsAnswered

-----------------------------------------------------------------------------
(* The filter log.  F has the sums of the first entries.                   *)
Sums(s, F) ==
  /\ F = [i \in 0..Len(s) |-> F[i]] /\ F[0] = 0
  /\ \A i \in 1..Len(s) : F[i] = F[i - 1] + s[i]
  /\ \A i \in 0..Len(s) : F[i] \in Int

(* There are such sums, and the last one is the size.                      *)
LEMMA SizeIsSum ==
  ASSUME NEW s \in Seq(Int)
  PROVE  \E F : Sums(s, F) /\ Log!Size(s) = F[Len(s)]
<1> DEFINE n == Len(s)
           Good == [i \in 0..n |-> Int]
           G == [i \in 1..n |-> [x \in Int |-> x + s[i]]]
<1>1. n \in Nat /\ \A i \in 1..n : s[i] \in Int
  OBVIOUS
<1>2. 0 \in Good[0] /\ \A i \in 1..n : \A x \in Good[i - 1] : G[i][x] \in Good[i]
  BY <1>1
<1>3. PICK F : F = [i \in 0..n |-> F[i]] /\ Follows(F, 0, n, G) /\ \A i \in 0..n : F[i] \in Good[i]
  <2> HIDE DEF n, Good, G
  <2>1. QED
    BY <1>1, <1>2, RecursionExists
<1>4. Sums(s, F)
  <2>1. \A i \in 0..n : F[i] \in Int
    BY <1>3
  <2>2. \A i \in 1..n : F[i] = F[i - 1] + s[i]
    <3>1. ASSUME NEW i \in 1..n PROVE F[i] = F[i - 1] + s[i]
      <4>1. i - 1 \in 0..n /\ F[i - 1] \in Int
        BY <1>1, <2>1
      <4>2. F[i] = G[i][F[i - 1]]
        BY <1>3 DEF Follows
      <4>3. QED
        BY <4>1, <4>2
    <3>2. QED
      BY <3>1
  <2>3. QED
    BY <1>3, <2>1, <2>2 DEF Sums, Follows
<1> DEFINE Right(u) == u = [i \in 0..n |-> IF i = 0 THEN 0 ELSE u[i - 1] + s[i]]
           upto == CHOOSE u : Right(u)
<1>5. Log!Size(s) = upto[n]
  BY DEF Log!Size
<1>6. Right(F)
  <2>1. ASSUME NEW i \in 0..n PROVE F[i] = IF i = 0 THEN 0 ELSE F[i - 1] + s[i]
    <3>1. CASE i = 0
      BY <1>4, <3>1 DEF Sums
    <3>2. CASE i \in 1..n
      BY <1>4, <3>2 DEF Sums
    <3>3. i = 0 \/ i \in 1..n
      BY <1>1
    <3>4. QED
      BY <3>1, <3>2, <3>3
  <2>2. F = [i \in 0..n |-> F[i]]
    BY <1>4 DEF Sums
  <2> HIDE DEF n
  <2>3. QED
    BY <2>1, <2>2
<1>7. Right(upto)
  <2> HIDE DEF Right
  <2>1. QED
    BY <1>6
<1>8. \A i \in 0..n : upto[i] = F[i]
  <2> DEFINE T == {i \in 0..n : upto[i] = F[i]}
  <2> HIDE DEF upto
  <2>1. 0 \in T
    BY <1>1, <1>4, <1>7 DEF Sums
  <2>2. ASSUME NEW i \in 0..(n - 1), i \in T PROVE i + 1 \in T
    <3>1. i + 1 \in 1..n /\ i + 1 \in 0..n /\ (i + 1) - 1 = i /\ i + 1 # 0
      BY <1>1
    <3>2. upto[i + 1] = upto[i] + s[i + 1]
      BY <1>7, <3>1
    <3>3. F[i + 1] = F[i] + s[i + 1]
      BY <1>4, <3>1 DEF Sums
    <3>4. QED
      BY <2>2, <3>1, <3>2, <3>3
  <2>3. \A i \in 0..n : i \in T
    <3> HIDE DEF T, n
    <3>1. QED
      BY <1>1, <2>1, <2>2, Upwards
  <2>4. QED
    BY <2>3
<1>9. QED
  <2> HIDE DEF upto
  <2>1. Log!Size(s) = F[Len(s)]
    BY <1>1, <1>5, <1>8
  <2>2. QED
    BY <1>4, <2>1

(* Sequences that begin alike have the same first sums.                    *)
LEMMA SumsAgree ==
  ASSUME NEW s \in Seq(Int), NEW t \in Seq(Int), NEW F, Sums(s, F), NEW G, Sums(t, G),
         NEW k \in Nat, k <= Len(s), k <= Len(t), \A i \in 1..k : s[i] = t[i]
  PROVE  F[k] = G[k]
<1> DEFINE T == {i \in 0..k : F[i] = G[i]}
<1>0. Len(s) \in Nat /\ Len(t) \in Nat
  OBVIOUS
<1>1. 0 \in T
  BY DEF Sums
<1>2. ASSUME NEW i \in 0..(k - 1), i \in T PROVE i + 1 \in T
  <2>1. /\ i + 1 \in 1..k /\ i + 1 \in 0..k /\ i + 1 \in 1..Len(s) /\ i + 1 \in 1..Len(t)
        /\ (i + 1) - 1 = i
    BY <1>0
  <2>2. F[i + 1] = F[i] + s[i + 1] /\ G[i + 1] = G[i] + t[i + 1]
    BY <2>1 DEF Sums
  <2>3. QED
    BY <1>2, <2>1, <2>2
<1>3. \A i \in 0..k : i \in T
  <2> HIDE DEF T
  <2>1. QED
    BY <1>1, <1>2, Upwards
<1>4. QED
  BY <1>3

(* A sum adds up from those of its parts.                                  *)
LEMMA SizeOfParts ==
  ASSUME NEW s \in Seq(Int), NEW k \in 0..Len(s)
  PROVE  /\ Log!Size(SubSeq(s, 1, k)) \in Int /\ Log!Size(s) \in Int
         /\ Log!Size(SubSeq(s, k + 1, Len(s))) = Log!Size(s) - Log!Size(SubSeq(s, 1, k))
<1> DEFINE n == Len(s)
           a == SubSeq(s, 1, k)
           b == SubSeq(s, k + 1, n)
<1>0. n = Len(s) /\ n \in Nat /\ k \in Nat /\ k <= n
  OBVIOUS
<1>1. a \in Seq(Int) /\ Len(a) = k /\ \A i \in 1..k : a[i] = s[i]
  OBVIOUS
<1>2. b \in Seq(Int) /\ Len(b) = n - k /\ \A i \in 1..(n - k) : b[i] = s[k + i]
  OBVIOUS
<1>3. PICK F : Sums(s, F) /\ Log!Size(s) = F[n]
  BY SizeIsSum
<1> HIDE DEF a, b, n
<1>4. PICK G : Sums(a, G) /\ Log!Size(a) = G[k]
  BY <1>1, SizeIsSum
<1>5. PICK H : Sums(b, H) /\ Log!Size(b) = H[n - k]
  BY <1>2, SizeIsSum
<1>6. G[k] = F[k]
  BY <1>0, <1>1, <1>3, <1>4, SumsAgree
<1> DEFINE E == [i \in 0..(n - k) |-> F[k + i] - F[k]]
<1>7. Sums(b, E)
  <2>1. \A i \in 0..(n - k) : k + i \in 0..n
    BY <1>0
  <2>2. F[k] \in Int /\ \A i \in 0..(n - k) : F[k + i] \in Int
    BY <1>0, <1>3, <2>1 DEF Sums
  <2>3. \A i \in 0..(n - k) : E[i] = F[k + i] - F[k] /\ E[i] \in Int
    BY <2>2
  <2>4. E[0] = 0
    BY <1>0, <2>2
  <2>5. ASSUME NEW i \in 1..(n - k) PROVE E[i] = E[i - 1] + b[i]
    <3>1. /\ i \in 0..(n - k) /\ i - 1 \in 0..(n - k) /\ k + i \in 1..n
          /\ (k + i) - 1 = k + (i - 1)
      BY <1>0
    <3>2. F[k + i] = F[k + (i - 1)] + s[k + i]
      BY <1>0, <1>3, <3>1 DEF Sums
    <3>3. s[k + i] \in Int /\ b[i] = s[k + i]
      BY <1>2, <3>1
    <3>4. E[i] = F[k + i] - F[k] /\ E[i - 1] = F[k + (i - 1)] - F[k]
      BY <2>3, <3>1
    <3>5. F[k + (i - 1)] \in Int /\ F[k] \in Int
      BY <2>2, <3>1
    <3> HIDE DEF E
    <3>6. QED
      BY <3>2, <3>3, <3>4, <3>5
  <2>6. E = [i \in 0..(n - k) |-> E[i]]
    OBVIOUS
  <2> HIDE DEF E
  <2>7. QED
    BY <1>2, <2>3, <2>4, <2>5, <2>6 DEF Sums
<1>8. H[n - k] = E[n - k]
  <2>1. n - k \in Nat /\ n - k <= Len(b)
    BY <1>0, <1>2
  <2> HIDE DEF E
  <2>2. QED
    BY <1>2, <1>5, <1>7, <2>1, SumsAgree
<1>9. F[k] \in Int /\ F[n] \in Int
  BY <1>0, <1>3 DEF Sums
<1>10. E[n - k] = F[n] - F[k]
  <2>1. n - k \in 0..(n - k) /\ k + (n - k) = n
    BY <1>0
  <2>2. QED
    BY <2>1
<1>11. QED
  <2> HIDE DEF E
  <2>1. Log!Size(b) = Log!Size(s) - Log!Size(a) /\ Log!Size(a) \in Int /\ Log!Size(s) \in Int
    BY <1>3, <1>4, <1>5, <1>6, <1>8, <1>9, <1>10
  <2>2. QED
    BY <2>1 DEF a, b, n

(* What an entry adds to the size. *)
LEMMA SizeOfAppended ==
  ASSUME NEW s \in Seq(Int), NEW x \in Int
  PROVE  Append(s, x) \in Seq(Int) /\ Log!Size(Append(s, x)) = Log!Size(s) + x /\ Log!Size(s) \in Int
<1> DEFINE n == Len(s)
           t == Append(s, x)
<1>0. n = Len(s) /\ n \in Nat
  OBVIOUS
<1>1. t \in Seq(Int) /\ Len(t) = n + 1 /\ t[n + 1] = x /\ \A i \in 1..n : s[i] = t[i]
  OBVIOUS
<1>2. PICK F : Sums(s, F) /\ Log!Size(s) = F[n]
  BY SizeIsSum
<1> HIDE DEF n, t
<1>3. PICK G : Sums(t, G) /\ Log!Size(t) = G[n + 1]
  BY <1>1, SizeIsSum
<1>4. F[n] = G[n]
  <2>1. n \in Nat /\ n <= Len(s) /\ n <= Len(t)
    BY <1>0, <1>1
  <2>2. t \in Seq(Int) /\ \A i \in 1..n : s[i] = t[i]
    BY <1>1
  <2>3. Sums(s, F) /\ Sums(t, G)
    BY <1>2, <1>3
  <2>4. QED
    BY <2>1, <2>2, <2>3, SumsAgree
<1>5. G[n + 1] = G[n] + x
  <2>1. n + 1 \in 1..Len(t) /\ (n + 1) - 1 = n
    BY <1>0, <1>1
  <2>2. QED
    BY <1>1, <1>3, <2>1 DEF Sums
<1>6. F[n] \in Int
  BY <1>0, <1>2 DEF Sums
<1>7. QED
  <2>1. Log!Size(t) = Log!Size(s) + x /\ Log!Size(s) \in Int /\ t \in Seq(Int)
    BY <1>1, <1>2, <1>3, <1>4, <1>5, <1>6
  <2>2. QED
    BY <2>1 DEF t

(* An empty log has no size. *)
LEMMA SizeOfNothing == Log!Size(<< >>) = 0
<1>1. << >> \in Seq(Int) /\ Len(<< >>) = 0
  OBVIOUS
<1>2. PICK F : Sums(<< >>, F) /\ Log!Size(<< >>) = F[0]
  BY <1>1, SizeIsSum
<1>3. QED
  BY <1>2 DEF Sums


(* A limit is a size or none, and the size of the entries is counted.      *)
LogInv ==
  /\ mLogEntries \in Seq(Int)
  /\ mMaxLogSize \in Int /\ mMaxLogSize >= -1
  /\ mCurrentLogSize = Log!Size(mLogEntries)
  /\ mMaxLogSize # -1 => mCurrentLogSize <= mMaxLogSize

(* Dropping the oldest entries leaves a log that is counted and fits: with *)
(* all of them dropped it does, so there is a least number that will do.   *)
LEMMA LogTrimmed ==
  ASSUME NEW e \in Seq(Int), NEW max \in Int, max >= -1, NEW size, size = Log!Size(e),
         Log!CheckLogSize(e, size, max)
  PROVE  /\ mLogEntries' \in Seq(Int)
         /\ mCurrentLogSize' = Log!Size(mLogEntries')
         /\ max # -1 => mCurrentLogSize' <= max
<1> DEFINE n == Len(e)
           left(k) == size - Log!Size(SubSeq(e, 1, k))
           T == {k \in 0..n : 10 * left(k) <= 9 * max}
           dropped == CHOOSE k \in 0..n : 10 * left(k) <= 9 * max /\ \A m \in 0..(k - 1) : ~(10 * left(m) <= 9 * max)
<1>0. n = Len(e) /\ n \in Nat
  OBVIOUS
<1>1. size \in Int
  <2>1. n \in 0..Len(e)
    OBVIOUS
  <2>2. QED
    BY <2>1, SizeOfParts
<1>2. CASE ~(size > max /\ max > -1)
  <2>1. mLogEntries' = e /\ mCurrentLogSize' = size
    BY <1>2 DEF Log!CheckLogSize, Log!Unlimited
  <2>2. max # -1 => size <= max
    BY <1>1, <1>2
  <2>3. QED
    BY <2>1, <2>2
<1>3. CASE size > max /\ max > -1
  <2>1. n \in T
    <3>1. SubSeq(e, 1, n) = e
      OBVIOUS
    <3>2. left(n) = 0
      <4>1. left(n) = size - Log!Size(e)
        BY <3>1
      <4>2. QED
        BY <4>1, <1>1
    <3> HIDE DEF n, left
    <3>3. QED
      BY <1>0, <1>3, <3>2
  <2>2. PICK k \in T : \A m \in T : k <= m
    <3>1. T \in SUBSET Nat /\ T # {}
      BY <2>1
    <3> HIDE DEF T
    <3>2. QED
      BY <3>1, LeastExists
  <2>3. k \in 0..n /\ 10 * left(k) <= 9 * max
    BY <2>2
  <2>4. \A m \in 0..(k - 1) : ~(10 * left(m) <= 9 * max)
    <3>1. ASSUME NEW m \in 0..(k - 1), 10 * left(m) <= 9 * max PROVE FALSE
      <4> HIDE DEF left, n
      <4>1. m \in 0..n /\ m < k
        BY <1>0, <2>3
      <4>2. m \in T
        BY <3>1, <4>1
      <4> HIDE DEF T
      <4>3. QED
        BY <1>0, <2>2, <2>3, <4>1, <4>2
    <3> HIDE DEF left
    <3>2. QED
      BY <3>1
  <2>5. dropped \in 0..n /\ 10 * left(dropped) <= 9 * max
    <3> HIDE DEF left, n
    <3>1. QED
      BY <2>3, <2>4
  <2>6. mLogEntries' = SubSeq(e, dropped + 1, n) /\ mCurrentLogSize' = left(dropped)
    BY <1>3, <2>3 DEF Log!CheckLogSize, Log!Unlimited
  <2> HIDE DEF dropped
  <2>7. /\ left(dropped) = Log!Size(SubSeq(e, dropped + 1, n))
        /\ left(dropped) \in Int
    <3>1. /\ Log!Size(SubSeq(e, 1, dropped)) \in Int
          /\ Log!Size(SubSeq(e, dropped + 1, n)) = Log!Size(e) - Log!Size(SubSeq(e, 1, dropped))
      BY <1>0, <2>5, SizeOfParts
    <3>2. QED
      BY <1>1, <3>1
  <2>8. SubSeq(e, dropped + 1, n) \in Seq(Int)
    BY <1>0, <2>5
  <2>9. left(dropped) <= max
    <3> HIDE DEF left
    <3>1. QED
      BY <1>3, <2>5, <2>7
  <2>10. QED
    BY <2>6, <2>7, <2>8, <2>9
<1>4. QED
  BY <1>2, <1>3

(* Every step keeps the log counted. *)
LEMMA LogStep ==
  ASSUME LogInv, [Log!Next]_Log!vars
  PROVE  LogInv'
<1>0. LogInv /\ Log!Unlimited = -1
  BY DEF Log!Unlimited
<1>1. ASSUME NEW active \in BOOLEAN, Log!SetLogging(active) PROVE LogInv'
  BY <1>0, <1>1 DEF LogInv, Log!SetLogging
<1>2. ASSUME NEW size \in Limits, Log!SetMaxLogSize(size) PROVE LogInv'
  <2> DEFINE max == IF size < -1 THEN -1 ELSE IF size >= 0 /\ size < Unit THEN Unit ELSE size
  <2>1. size \in Int /\ Unit \in Nat
    BY LogAssumption
  <2>2. max \in Int /\ max >= -1
    BY <2>1
  <2>3. mMaxLogSize' = max /\ Log!CheckLogSize(mLogEntries, mCurrentLogSize, max)
    BY <1>0, <1>2 DEF Log!SetMaxLogSize
  <2> HIDE DEF max
  <2>4. /\ mLogEntries' \in Seq(Int)
        /\ mCurrentLogSize' = Log!Size(mLogEntries')
        /\ max # -1 => mCurrentLogSize' <= max
    BY <1>0, <2>2, <2>3, LogTrimmed DEF LogInv
  <2>5. QED
    BY <2>2, <2>3, <2>4 DEF LogInv
<1>3. ASSUME NEW type \in ContentTypes, NEW enable \in BOOLEAN, Log!SetContentTypeEnabled(type, enable)
      PROVE  LogInv'
  BY <1>0, <1>3 DEF LogInv, Log!SetContentTypeEnabled
<1>4. ASSUME NEW length \in Lengths, NEW type \in ContentTypes, Log!Add(length, type) PROVE LogInv'
  <2> DEFINE timed == IF type = "Meta" THEN length ELSE length + TimeStamp
  <2>1. timed \in Int
    BY LogAssumption
  <2>2. mMaxLogSize' = mMaxLogSize
    BY <1>4 DEF Log!Add
  <2>3. CASE mLogging /\ type \in mAllowedTypes
    <3>1. Log!CheckLogSize(Append(mLogEntries, timed), mCurrentLogSize + timed, mMaxLogSize)
      BY <1>4, <2>3 DEF Log!Add
    <3> HIDE DEF timed
    <3>2. Append(mLogEntries, timed) \in Seq(Int) /\ Log!Size(Append(mLogEntries, timed)) = mCurrentLogSize + timed
      BY <1>0, <2>1, SizeOfAppended DEF LogInv
    <3>3. mMaxLogSize \in Int /\ mMaxLogSize >= -1
      BY <1>0 DEF LogInv
    <3>4. /\ mLogEntries' \in Seq(Int)
          /\ mCurrentLogSize' = Log!Size(mLogEntries')
          /\ mMaxLogSize # -1 => mCurrentLogSize' <= mMaxLogSize
      BY <3>1, <3>2, <3>3, LogTrimmed
    <3>5. QED
      BY <2>2, <3>3, <3>4 DEF LogInv
  <2>4. CASE ~(mLogging /\ type \in mAllowedTypes)
    <3>1. mLogEntries' = mLogEntries /\ mCurrentLogSize' = mCurrentLogSize
      BY <1>4, <2>4 DEF Log!Add
    <3>2. QED
      BY <1>0, <2>2, <3>1 DEF LogInv
  <2>5. QED
    BY <2>3, <2>4
<1>5. CASE Log!Clear
  <2>1. mLogEntries' = << >> /\ mCurrentLogSize' = 0 /\ mMaxLogSize' = mMaxLogSize
    BY <1>5 DEF Log!Clear
  <2>2. mMaxLogSize \in Int /\ mMaxLogSize >= -1
    BY <1>0 DEF LogInv
  <2>3. << >> \in Seq(Int)
    OBVIOUS
  <2>4. QED
    BY <2>1, <2>2, <2>3, SizeOfNothing DEF LogInv
<1>6. CASE UNCHANGED Log!vars
  BY <1>0, <1>6 DEF LogInv, Log!vars
<1>7. QED
  BY <1>1, <1>2, <1>3, <1>4, <1>5, <1>6 DEF Log!Next

(* The size that the filter log counts is the size of what is in it, and   *)
(* within the limit, through every way of adding, limiting and clearing    *)
(* (FilterLog::checkLogSize).                                              *)
THEOREM SizeIsAlwaysExact == Spec => []SizeIsExact
<1>1. Log!Init => LogInv
  <2>1. << >> \in Seq(Int)
    OBVIOUS
  <2>2. QED
    BY <2>1, SizeOfNothing, LogAssumption DEF Log!Init, LogInv
<1>2. LogInv /\ [Log!Next]_Log!vars => LogInv'
  BY LogStep
<1>3. LogInv => Log!SizeIsExact
  BY DEF LogInv, Log!SizeIsExact, Log!Unlimited
<1>4. Init => (part = "log" => LogInv)
  BY <1>1, OneBegins
<1>5. (part = "log" => LogInv) /\ [Next]_vars => (part = "log" => LogInv)'
  <2> SUFFICES ASSUME part = "log" => LogInv, [Next]_vars, part' = "log" PROVE LogInv'
    OBVIOUS
  <2>1. part = "log" /\ [Log!Next]_Log!vars
    BY OneMoves
  <2>2. QED
    BY <1>2, <2>1
<1>6. QED
  BY <1>4, <1>5, <1>3, PTL DEF Spec, SizeIsExact

-----------------------------------------------------------------------------
(* The editor of a rule.                                                   *)
(* The handlers in their order: each field has at most one of its own. *)
LEMMA HandlersInOrder ==
  /\ Rule!Names = {"tag", "date", "numeric", "status", "message", "numericDouble", "headers",
                   "encryption", "attachment", "invitation", "text"}
  /\ Rule!First({"text"}) = "text"
  /\ \A h \in Rule!Names : Rule!First({h, "text"}) = h
<1>1. /\ Len(Rule!HandlerNames) = 11
      /\ Rule!HandlerNames[1] = "tag" /\ Rule!HandlerNames[2] = "date" /\ Rule!HandlerNames[3] = "numeric"
      /\ Rule!HandlerNames[4] = "status" /\ Rule!HandlerNames[5] = "message"
      /\ Rule!HandlerNames[6] = "numericDouble" /\ Rule!HandlerNames[7] = "headers"
      /\ Rule!HandlerNames[8] = "encryption" /\ Rule!HandlerNames[9] = "attachment"
      /\ Rule!HandlerNames[10] = "invitation" /\ Rule!HandlerNames[11] = "text"
  BY DEF Rule!HandlerNames
<1>2. Rule!Names = {"tag", "date", "numeric", "status", "message", "numericDouble", "headers",
                   "encryption", "attachment", "invitation", "text"}
  <2>1. \A i \in 1..11 : i = 1 \/ i = 2 \/ i = 3 \/ i = 4 \/ i = 5 \/ i = 6 \/ i = 7 \/ i = 8 \/ i = 9 \/ i = 10 \/ i = 11
    OBVIOUS
  <2>2. QED
    BY <1>1, <2>1 DEF Rule!Names
<1>3. \A h \in Rule!Names : Rule!First({h, "text"}) = h
  <2>1. ASSUME NEW k \in 1..11 PROVE Rule!First({Rule!HandlerNames[k], "text"}) = Rule!HandlerNames[k]
    <3> DEFINE P(i) == /\ Rule!HandlerNames[i] \in {Rule!HandlerNames[k], "text"}
                       /\ \A j \in 1..(i - 1) : Rule!HandlerNames[j] \notin {Rule!HandlerNames[k], "text"}
    <3>1. P(k)
      BY <1>1
    <3>2. \A i \in 1..11 : P(i) => i = k
      BY <1>1
    <3>3. QED
      BY <1>1, <3>1, <3>2 DEF Rule!First
  <2>2. QED
    BY <1>1, <2>1 DEF Rule!Names
<1>4. Rule!First({"text"}) = "text"
  <2>1. {"text", "text"} = {"text"}
    OBVIOUS
  <2>2. QED
    BY <1>2, <1>3, <2>1
<1>5. QED
  BY <1>2, <1>3, <1>4

(* The fields of the editor, and who handles them.                         *)
Handles(field) ==
  CASE field = "<tag>" -> "tag"
    [] field = "<date>" -> "date"
    [] field = "<age in days>" -> "numeric"
    [] field = "<status>" -> "status"
    [] field = "<message>" -> "message"
    [] field = "<size>" -> "numericDouble"
    [] field = "To" -> "headers"
    [] field = "<attachment>" -> "attachment"
    [] OTHER -> "text"

(* Besides the handler of text, which takes every field.                   *)
LEMMA EveryHandler ==
  ASSUME NEW field \in Rule!Fields \cup {""}
  PROVE  /\ {h \in Rule!Names : Rule!HandlesField(h, field)} = {Handles(field), "text"}
         /\ Handles(field) \in Rule!Names
<1>1. Rule!Fields = {"<tag>", "<date>", "<age in days>", "<status>", "<message>", "<size>", "To",
                     "<attachment>", "Subject"}
  BY DEF Rule!Fields
<1>2. /\ Rule!Handler("tag").fields = {"<tag>"}
      /\ Rule!Handler("date").fields = {"<date>"}
      /\ Rule!Handler("numeric").fields = {"<age in days>"}
      /\ Rule!Handler("status").fields = {"<status>"}
      /\ Rule!Handler("message").fields = {"<message>"}
      /\ Rule!Handler("numericDouble").fields = {"<size>"}
      /\ Rule!Handler("headers").fields = {"To", "From", "CC", "<recipients>"}
      /\ Rule!Handler("encryption").fields = {"<encryption>"}
      /\ Rule!Handler("attachment").fields = {"<attachment>"}
      /\ Rule!Handler("invitation").fields = {"<invitation>"}
  BY DEF Rule!Handler, Rule!TagHandler, Rule!DateHandler, Rule!NumericHandler, Rule!StatusHandler,
     Rule!MessageHandler, Rule!NumericDoubleHandler, Rule!HeadersHandler, Rule!EncryptionHandler,
     Rule!AttachmentHandler, Rule!InvitationHandler
<1>3. ASSUME NEW h \in Rule!Names
      PROVE  Rule!HandlesField(h, field) <=> h = Handles(field) \/ h = "text"
  <2> DEFINE own == Rule!Handler(h).fields
  <2>1. CASE h = "tag"
    <3>1. field \in own <=> Handles(field) = "tag"
      BY <1>1, <1>2, <2>1 DEF Handles
    <3>2. QED
      BY <2>1, <3>1 DEF Rule!HandlesField
  <2>2. CASE h = "date"
    <3>1. field \in own <=> Handles(field) = "date"
      BY <1>1, <1>2, <2>2 DEF Handles
    <3>2. QED
      BY <2>2, <3>1 DEF Rule!HandlesField
  <2>3. CASE h = "numeric"
    <3>1. field \in own <=> Handles(field) = "numeric"
      BY <1>1, <1>2, <2>3 DEF Handles
    <3>2. QED
      BY <2>3, <3>1 DEF Rule!HandlesField
  <2>4. CASE h = "status"
    <3>1. field \in own <=> Handles(field) = "status"
      BY <1>1, <1>2, <2>4 DEF Handles
    <3>2. QED
      BY <2>4, <3>1 DEF Rule!HandlesField
  <2>5. CASE h = "message"
    <3>1. field \in own <=> Handles(field) = "message"
      BY <1>1, <1>2, <2>5 DEF Handles
    <3>2. QED
      BY <2>5, <3>1 DEF Rule!HandlesField
  <2>6. CASE h = "numericDouble"
    <3>1. field \in own <=> Handles(field) = "numericDouble"
      BY <1>1, <1>2, <2>6 DEF Handles
    <3>2. QED
      BY <2>6, <3>1 DEF Rule!HandlesField
  <2>7. CASE h = "headers"
    <3>1. field \in own <=> Handles(field) = "headers"
      BY <1>1, <1>2, <2>7 DEF Handles
    <3>2. QED
      BY <2>7, <3>1 DEF Rule!HandlesField
  <2>8. CASE h = "encryption"
    <3>1. field \in own <=> Handles(field) = "encryption"
      BY <1>1, <1>2, <2>8 DEF Handles
    <3>2. QED
      BY <2>8, <3>1 DEF Rule!HandlesField
  <2>9. CASE h = "attachment"
    <3>1. field \in own <=> Handles(field) = "attachment"
      BY <1>1, <1>2, <2>9 DEF Handles
    <3>2. QED
      BY <2>9, <3>1 DEF Rule!HandlesField
  <2>10. CASE h = "invitation"
    <3>1. field \in own <=> Handles(field) = "invitation"
      BY <1>1, <1>2, <2>10 DEF Handles
    <3>2. QED
      BY <2>10, <3>1 DEF Rule!HandlesField
  <2>11. CASE h = "text"
    BY <2>11 DEF Rule!HandlesField
  <2>12. QED
    BY HandlersInOrder, <2>1, <2>2, <2>3, <2>4, <2>5, <2>6, <2>7, <2>8, <2>9, <2>10, <2>11
<1>4. Handles(field) \in Rule!Names /\ "text" \in Rule!Names
  BY <1>1, HandlersInOrder DEF Handles
<1>5. QED
  BY <1>3, <1>4

(* The handler the manager finds for a field is the one named above.       *)
LEMMA WhoHandles ==
  ASSUME NEW field \in Rule!Fields \cup {""}
  PROVE  Rule!HandlerOf(field) = Handles(field) /\ Handles(field) \in Rule!Names
BY EveryHandler, HandlersInOrder DEF Rule!HandlerOf

(* A handler that refuses leaves the rule to the one of text, which does not. *)
LEMMA WhoTakes ==
  ASSUME NEW field \in Rule!Fields, NEW baloo, NEW func
  PROVE  LET h == Rule!First({x \in Rule!Names : Rule!HandlesField(x, field) /\ ~Rule!Refuses(x, baloo, func)})
         IN  IF Rule!Refuses(Handles(field), baloo, func) THEN h = "text" /\ h # Handles(field)
             ELSE h = Handles(field)
<1> DEFINE S == {x \in Rule!Names : Rule!HandlesField(x, field) /\ ~Rule!Refuses(x, baloo, func)}
<1>1. ~Rule!Refuses("text", baloo, func)
  <2>1. Rule!Handler("text").unsearchable = {}
    BY DEF Rule!Handler, Rule!TextHandler
  <2>2. QED
    BY <2>1 DEF Rule!Refuses
<1>2. CASE Rule!Refuses(Handles(field), baloo, func)
  <2>1. S = {"text"}
    BY <1>1, <1>2, EveryHandler
  <2>2. QED
    BY <1>1, <1>2, <2>1, HandlersInOrder
<1>3. CASE ~Rule!Refuses(Handles(field), baloo, func)
  <2>1. S = {Handles(field), "text"}
    BY <1>1, <1>3, EveryHandler
  <2>2. Rule!First(S) = Handles(field)
    BY <2>1, EveryHandler, HandlersInOrder
  <2>3. QED
    BY <1>3, <2>2
<1>4. QED
  BY <1>2, <1>3

(* Only rules on messages and addresses may have nothing to enter.         *)
LEMMA WhatHides ==
  ASSUME NEW h \in Rule!Names \ {"message", "headers"}, NEW func, Rule!Known(h, func)
  PROVE  ~Rule!Hides(func)
<1> DEFINE C == {"equals", "not-equal", "greater", "less-or-equal", "less", "greater-or-equal"}
<1>1. \A i \in 1..6 : Rule!Comparisons[i] \in C
  BY DEF Rule!Comparisons
<1>2. Len(Rule!Comparisons) = 6
  BY DEF Rule!Comparisons
<1>3. PICK i \in 1..Len(Rule!Handler(h).functions) : Rule!Handler(h).functions[i] = func
  BY DEF Rule!Known
<1>4. CASE h \in {"date", "numeric", "numericDouble"}
  <2>1. Rule!Handler(h).functions = Rule!Comparisons
    BY <1>4 DEF Rule!Handler, Rule!DateHandler, Rule!NumericHandler, Rule!NumericDoubleHandler
  <2>2. func \in C
    BY <1>1, <1>2, <1>3, <2>1
  <2>3. QED
    BY <2>2 DEF Rule!Hides
<1>5. CASE h = "tag"
  <2>1. Rule!Handler(h).functions = <<"contains", "contains-not", "equals", "not-equal", "regexp", "not-regexp">>
    BY <1>5 DEF Rule!Handler, Rule!TagHandler
  <2>2. func \in {"contains", "contains-not", "equals", "not-equal", "regexp", "not-regexp"}
    BY <1>3, <2>1
  <2>3. QED
    BY <2>2 DEF Rule!Hides
<1>6. CASE h = "status"
  <2>1. Rule!Handler(h).functions = <<"contains", "contains-not">>
    BY <1>6 DEF Rule!Handler, Rule!StatusHandler
  <2>2. func \in {"contains", "contains-not"}
    BY <1>3, <2>1
  <2>3. QED
    BY <2>2 DEF Rule!Hides
<1>7. CASE h \in Rule!Labels
  <2>1. Rule!Handler(h).functions = <<"equals", "not-equal">>
    BY <1>7 DEF Rule!Handler, Rule!EncryptionHandler, Rule!AttachmentHandler, Rule!InvitationHandler, Rule!Labels
  <2>2. func \in {"equals", "not-equal"}
    BY <1>3, <2>1
  <2>3. QED
    BY <2>2 DEF Rule!Hides
<1>8. CASE h = "text"
  <2>1. Rule!Handler(h).functions = <<"contains", "contains-not", "equals", "not-equal", "start-with",
           "not-start-with", "end-with", "not-end-with", "regexp", "not-regexp">>
    BY <1>8 DEF Rule!Handler, Rule!TextHandler
  <2>2. func \in {"contains", "contains-not", "equals", "not-equal", "start-with",
           "not-start-with", "end-with", "not-end-with", "regexp", "not-regexp"}
    BY <1>3, <2>1
  <2>3. QED
    BY <2>2 DEF Rule!Hides
<1>9. QED
  BY <1>4, <1>5, <1>6, <1>7, <1>8, HandlersInOrder DEF Rule!Labels

(* Two decimals of a kilobyte: what is shown of a size is read as one that *)
(* is at most six bytes less or five bytes more.                           *)
LEMMA SizeRounded ==
  ASSUME NEW n \in Nat
  PROVE  Rule!Bytes(Rule!Kilobytes(n)) \in Int /\ Rule!Bytes(Rule!Kilobytes(n)) - n \in -6..5
<1> DEFINE k == (200 * n + 1024) \div 2048
           b == (k * 1024) \div 100
<1>1. k \in Nat /\ 2048 * k <= 200 * n + 1024 /\ 200 * n + 1024 < 2048 * k + 2048
  OBVIOUS
<1> HIDE DEF k
<1>2. b \in Int /\ 100 * b <= k * 1024 /\ k * 1024 < 100 * b + 100
  BY <1>1
<1> HIDE DEF b
<1>3. b - n \in -6..5
  BY <1>1, <1>2
<1>4. Rule!Kilobytes(n) = k
  BY <1>1 DEF k, Rule!Kilobytes
<1>5. QED
  BY <1>2, <1>3, <1>4 DEF b, Rule!Bytes

(* Numbers are not negative, for the user and in the rules that there are. *)

Begun == [h \in Rule!Names |-> Rule!Handler(h).functions[1]]

(* What stands in the line of the tag combo is what is chosen, if anything *)
(* is.                                                                     *)
Widgets == {"field", "function", "line", "tagLine", "tagChosen", "tagText", "status", "number", "size",
            "date", "raised", "shown"}
Shape(e) == e = [w \in Widgets |-> e[w]]
IsEditor(e) ==
  /\ Shape(e)
  /\ e.function = [h \in Rule!Names |-> e.function[h]]
  /\ e.field \in Rule!Fields \cup {""}
  /\ e.raised \in Rule!Names
  /\ e.tagChosen # Rule!Empty => e.tagChosen = e.tagText

(* The handler of the field has raised what its function wants.            *)
Raised(e) ==
  e.raised = Handles(e.field) => e.shown = Rule!ValueWidget(e.raised, e.function[e.raised])

(* Raising the widgets of a handler changes nothing else.                  *)
Raising(e, h, s) == [e EXCEPT !.raised = h, !.shown = s]
(* Raised widgets hold what they held before: only the two stacks change.  *)
LEMMA RaiseShows ==
  ASSUME NEW e, IsEditor(e), NEW h \in Rule!Names, NEW s, NEW u, u = Raising(e, h, s)
  PROVE  /\ IsEditor(u) /\ u.raised = h /\ u.shown = s
         /\ u.field = e.field /\ u.function = e.function /\ u.line = e.line
         /\ u.tagLine = e.tagLine /\ u.tagChosen = e.tagChosen /\ u.tagText = e.tagText
         /\ u.status = e.status /\ u.number = e.number /\ u.size = e.size /\ u.date = e.date
<1>1. /\ Shape(u) /\ u.raised = h /\ u.shown = s
      /\ u.field = e.field /\ u.function = e.function /\ u.line = e.line
      /\ u.tagLine = e.tagLine /\ u.tagChosen = e.tagChosen /\ u.tagText = e.tagText
      /\ u.status = e.status /\ u.number = e.number /\ u.size = e.size /\ u.date = e.date
  BY DEF IsEditor, Shape, Widgets, Raising
<1>2. IsEditor(u)
  BY <1>1 DEF IsEditor
<1>3. QED
  BY <1>1, <1>2

(* An update for its field leaves an editor that shows what it should.     *)
LEMMA UpdateRaises ==
  ASSUME NEW e, IsEditor(e)
  PROVE  LET u == Rule!ManagerUpdate(e, e.field) IN IsEditor(u) /\ Raised(u)
<1> DEFINE h == Handles(e.field)
           s == Rule!ValueWidget(h, e.function[h])
           u == Raising(e, h, s)
<1>1. e.field \in Rule!Fields \cup {""}
  BY DEF IsEditor
<1>2. Rule!HandlerOf(e.field) = h /\ h \in Rule!Names
  BY <1>1, WhoHandles
<1>3. Rule!ManagerUpdate(e, e.field) = u
  BY <1>2 DEF Rule!ManagerUpdate, Rule!Raise, Raising
<1>4. IsEditor(u) /\ u.raised = h /\ u.shown = s /\ u.field = e.field /\ u.function = e.function
  <2>1. u = Raising(e, h, s)
    OBVIOUS
  <2> HIDE DEF s, h, u
  <2>2. QED
    BY <1>2, <2>1, RaiseShows
<1> HIDE DEF u
<1>5. Raised(u)
  BY <1>4 DEF Raised
<1>6. QED
  BY <1>3, <1>4, <1>5

(* Clearing leaves no value of any handler.                                *)
LEMMA ResetClears ==
  ASSUME NEW e, IsEditor(e)
  PROVE  LET r == Rule!ManagerReset(e)
         IN  /\ IsEditor(r) /\ r.field = e.field /\ r.raised = "text"
             /\ r.shown = Rule!ValueWidget("text", Begun["text"])
             /\ r.function = Begun /\ r.tagChosen = Rule!Empty
<1> DEFINE S1 == StatusValues[1]
           x == [e EXCEPT !.function = Begun, !.line = Rule!Empty, !.tagLine = Rule!Empty,
                          !.tagChosen = Rule!Empty, !.tagText = Rule!Empty, !.status = S1,
                          !.number = 0, !.size = 0, !.date = <<"date", "today">>]
           s == Rule!ValueWidget("text", Begun["text"])
           r == Raising(x, "text", s)
<1>1. Rule!HandlerOf("") = "text" /\ "text" \in Rule!Names
  <2>1. Handles("") = "text"
    BY DEF Handles
  <2>2. QED
    BY <2>1, WhoHandles
<1>2. Rule!ManagerReset(e) = Rule!ManagerUpdate(x, "")
  BY DEF Rule!ManagerReset, Begun
<1> HIDE DEF S1
<1>3. /\ Shape(x) /\ x.function = Begun /\ x.field = e.field /\ x.tagChosen = Rule!Empty
      /\ x.raised = e.raised
  BY DEF IsEditor, Shape, Widgets
<1> HIDE DEF x
<1>4. IsEditor(x)
  <2>1. Begun = [h \in Rule!Names |-> Begun[h]]
    BY DEF Begun
  <2> HIDE DEF Begun
  <2>2. QED
    BY <1>3, <2>1 DEF IsEditor
<1>5. Rule!ManagerUpdate(x, "") = r
  BY <1>1, <1>3 DEF Rule!ManagerUpdate, Rule!Raise, Raising
<1>6. IsEditor(r) /\ r.field = e.field /\ r.raised = "text" /\ r.shown = s /\ r.function = Begun
      /\ r.tagChosen = Rule!Empty
  <2>1. r = Raising(x, "text", s)
    OBVIOUS
  <2> HIDE DEF s, r
  <2>2. "text" \in Rule!Names
    BY <1>1
  <2>3. /\ IsEditor(r) /\ r.raised = "text" /\ r.shown = s
        /\ r.field = x.field /\ r.function = x.function /\ r.tagChosen = x.tagChosen
    BY <1>4, <2>1, <2>2, RaiseShows
  <2>4. QED
    BY <1>3, <2>3
<1> HIDE DEF r
<1>7. QED
  BY <1>2, <1>5, <1>6

(* Only its own value is changed where a rule is shown.                    *)
ValueOf(h, e, rule) ==
  /\ h = "tag" => IF Rule!IsRegExp(rule.function) THEN e.tagLine = rule.contents
                  ELSE e.tagChosen \in {rule.contents, Rule!Empty}
  /\ h = "date" => e.date = IF rule.contents[1] = "date" THEN rule.contents ELSE Rule!Empty
  /\ h = "numeric" => e.number = Rule!Clip(Rule!ToInt(rule.contents), -10000, MaxAge)
  /\ h = "numericDouble" => e.size = Rule!Kilobytes(Rule!ToInt(rule.contents))
  /\ h = "status" /\ (\E i \in 1..Len(StatusValues) : rule.contents = <<"status", StatusValues[i]>>)
       => e.status = rule.contents[2]
  /\ h \in {"message", "headers"} /\ ~Rule!Hides(rule.function) => e.line = rule.contents
  /\ h = "text" => e.line = rule.contents

(* A handler shows the value of a rule in its own widget, as ValueOf says. *)
LEMMA ValueShown ==
  ASSUME NEW c, IsEditor(c), c.tagChosen = Rule!Empty, NEW rule, NEW tags, NEW h \in Rule!Names,
         NEW v, v = Rule!ShowValue(h, c, rule, tags)
  PROVE  IsEditor(v) /\ v.field = c.field /\ v.function = c.function /\ ValueOf(h, v, rule)
<1> DEFINE Goal == /\ Shape(v) /\ v.field = c.field /\ v.function = c.function /\ v.raised = c.raised
                   /\ v.tagChosen # Rule!Empty => v.tagChosen = v.tagText
                   /\ ValueOf(h, v, rule)
<1> SUFFICES Goal
  BY DEF IsEditor
<1>0. Shape(c)
  BY DEF IsEditor
<1>1. CASE h = "tag"
  <2>1. v = Rule!ShowTag(c, rule, tags)
    BY <1>1 DEF Rule!ShowValue, Rule!Labels
  <2>2. CASE Rule!IsRegExp(rule.function)
    <3>1. v = [c EXCEPT !.tagLine = rule.contents]
      BY <2>1, <2>2 DEF Rule!ShowTag
    <3>2. Shape(v) /\ v.field = c.field /\ v.function = c.function /\ v.raised = c.raised
          /\ v.tagChosen = c.tagChosen /\ v.tagLine = rule.contents
      BY <1>0, <3>1 DEF Shape, Widgets
    <3>3. QED
      BY <1>1, <2>2, <3>2 DEF ValueOf
  <2>3. CASE ~Rule!IsRegExp(rule.function)
    <3> DEFINE t == IF rule.contents \in tags THEN rule.contents ELSE Rule!Empty
    <3>1. v = [c EXCEPT !.tagText = rule.contents, !.tagChosen = t]
      BY <2>1, <2>3 DEF Rule!ShowTag
    <3>2. t \in {rule.contents, Rule!Empty}
      OBVIOUS
    <3> HIDE DEF t
    <3>3. Shape(v) /\ v.field = c.field /\ v.function = c.function /\ v.raised = c.raised
          /\ v.tagChosen = t /\ v.tagText = rule.contents
      BY <1>0, <3>1 DEF Shape, Widgets
    <3>4. QED
      BY <1>1, <2>3, <3>2, <3>3 DEF ValueOf
  <2>4. QED
    BY <2>2, <2>3
<1>2. CASE h = "date"
  <2> DEFINE d == IF rule.contents[1] = "date" THEN rule.contents ELSE Rule!Empty
  <2>1. v = [c EXCEPT !.date = d]
    <3>1. v = Rule!ShowDate(c, rule)
      BY <1>2 DEF Rule!ShowValue, Rule!Labels
    <3>2. QED
      BY <3>1 DEF Rule!ShowDate
  <2> HIDE DEF d
  <2>2. Shape(v) /\ v.field = c.field /\ v.function = c.function /\ v.raised = c.raised
        /\ v.tagChosen = c.tagChosen /\ v.date = d
    BY <1>0, <2>1 DEF Shape, Widgets
  <2>3. QED
    BY <1>2, <2>2 DEF ValueOf, d
<1>3. CASE h = "numeric"
  <2> DEFINE d == Rule!Clip(Rule!ToInt(rule.contents), -10000, MaxAge)
  <2>1. v = [c EXCEPT !.number = d]
    <3>1. v = Rule!ShowNumeric(c, rule)
      BY <1>3 DEF Rule!ShowValue, Rule!Labels
    <3>2. QED
      BY <3>1 DEF Rule!ShowNumeric
  <2> HIDE DEF d
  <2>2. Shape(v) /\ v.field = c.field /\ v.function = c.function /\ v.raised = c.raised
        /\ v.tagChosen = c.tagChosen /\ v.number = d
    BY <1>0, <2>1 DEF Shape, Widgets
  <2>3. QED
    BY <1>3, <2>2 DEF ValueOf, d
<1>4. CASE h = "numericDouble"
  <2> DEFINE d == Rule!Kilobytes(Rule!ToInt(rule.contents))
  <2>1. v = [c EXCEPT !.size = d]
    <3>1. v = Rule!ShowNumericDouble(c, rule)
      BY <1>4 DEF Rule!ShowValue, Rule!Labels
    <3>2. QED
      BY <3>1 DEF Rule!ShowNumericDouble
  <2> HIDE DEF d
  <2>2. Shape(v) /\ v.field = c.field /\ v.function = c.function /\ v.raised = c.raised
        /\ v.tagChosen = c.tagChosen /\ v.size = d
    BY <1>0, <2>1 DEF Shape, Widgets
  <2>3. QED
    BY <1>4, <2>2 DEF ValueOf, d
<1>5. CASE h = "status"
  <2> DEFINE offered == \E i \in 1..Len(StatusValues) : rule.contents = <<"status", StatusValues[i]>>
             d == IF offered THEN rule.contents[2] ELSE StatusValues[1]
  <2>1. v = [c EXCEPT !.status = d]
    <3>1. v = Rule!ShowStatus(c, rule)
      BY <1>5 DEF Rule!ShowValue, Rule!Labels
    <3>2. QED
      BY <3>1 DEF Rule!ShowStatus
  <2>2. offered => d = rule.contents[2]
    OBVIOUS
  <2> HIDE DEF d
  <2>3. Shape(v) /\ v.field = c.field /\ v.function = c.function /\ v.raised = c.raised
        /\ v.tagChosen = c.tagChosen /\ v.status = d
    BY <1>0, <2>1 DEF Shape, Widgets
  <2>4. QED
    BY <1>5, <2>2, <2>3 DEF ValueOf
<1>6. CASE h \in {"message", "headers"} /\ Rule!Hides(rule.function)
  <2>1. v = c
    BY <1>6 DEF Rule!ShowValue, Rule!ShowMessage, Rule!ShowHeaders, Rule!Labels
  <2>2. QED
    BY <1>0, <1>6, <2>1 DEF ValueOf
<1>7. CASE h = "text" \/ (h \in {"message", "headers"} /\ ~Rule!Hides(rule.function))
  <2>1. v = [c EXCEPT !.line = rule.contents]
    BY <1>7 DEF Rule!ShowValue, Rule!ShowMessage, Rule!ShowHeaders, Rule!ShowText, Rule!Labels
  <2>2. Shape(v) /\ v.field = c.field /\ v.function = c.function /\ v.raised = c.raised
        /\ v.tagChosen = c.tagChosen /\ v.line = rule.contents
    BY <1>0, <2>1 DEF Shape, Widgets
  <2>3. QED
    BY <1>7, <2>2 DEF ValueOf
<1>8. CASE h \in Rule!Labels
  <2>1. v = c
    BY <1>8 DEF Rule!ShowValue, Rule!Labels
  <2>2. QED
    BY <1>0, <1>8, <2>1 DEF ValueOf, Rule!Labels
<1>9. QED
  <2> HIDE DEF Goal
  <2>1. QED
    BY <1>1, <1>2, <1>3, <1>4, <1>5, <1>6, <1>7, <1>8, HandlersInOrder DEF Rule!Labels

(* What there is in a rule.                                                *)
LEMMA RuleGiven ==
  ASSUME NEW rule \in Rule!Rules
  PROVE  /\ rule.field \in Rule!Fields
         /\ Rule!Known(Handles(rule.field), rule.function)
         /\ \E c \in Rule!Contents(rule.field) :
               rule.contents = IF Rule!Hides(rule.function) THEN Rule!Dummy(rule.function) ELSE c
<1>1. PICK f \in Rule!Fields : rule \in Rule!RulesOn(f)
  BY DEF Rule!Rules
<1>2. PICK func \in Rule!Offered(Rule!HandlerOf(f), FALSE) :
        \E c \in Rule!Contents(f) : rule = Rule!RuleWith(f, func, c)
  BY <1>1 DEF Rule!RulesOn
<1>3. PICK c \in Rule!Contents(f) : rule = Rule!RuleWith(f, func, c)
  BY <1>2
<1>4. Rule!HandlerOf(f) = Handles(f)
  BY WhoHandles
<1>5. Rule!Known(Handles(f), func)
  BY <1>4 DEF Rule!Offered, Rule!Known
<1>6. rule.field = f /\ rule.function = func
      /\ rule.contents = IF Rule!Hides(func) THEN Rule!Dummy(func) ELSE c
  BY <1>3 DEF Rule!RuleWith
<1>7. QED
  BY <1>5, <1>6

(* How a value may differ from the one of the rule.                        *)
ReadAs(rule, e, contents) ==
  \/ contents = rule.contents
  \/ rule.field = "<tag>" /\ ~Rule!IsRegExp(rule.function) /\ e.tagChosen = Rule!Empty
  \/ rule.field = "<age in days>" /\ rule.contents[2] > MaxAge /\ contents[2] = MaxAge
  \/ rule.field = "<size>" /\ (contents[2] - rule.contents[2]) \in -6..5

(* What its handler shows of a rule is read as it was set.                 *)
LEMMA ReadBack ==
  ASSUME NEW rule \in Rule!Rules, NEW e, e.function[Handles(rule.field)] = rule.function,
         ValueOf(Handles(rule.field), e, rule)
  PROVE  ReadAs(rule, e, Rule!ManagerValue(rule.field, e))
<1> DEFINE h == Handles(rule.field)
           value == Rule!HandlerValue(h, e)
<1>1. rule.field \in Rule!Fields /\ Rule!Known(h, rule.function)
  BY RuleGiven
<1>2. PICK c \in Rule!Contents(rule.field) :
        rule.contents = IF Rule!Hides(rule.function) THEN Rule!Dummy(rule.function) ELSE c
  BY RuleGiven
<1>3. h \in Rule!Names /\ Rule!HandlerOf(rule.field) = h
  BY <1>1, WhoHandles
<1>4. h \notin {"message", "headers"} => rule.contents = c
  BY <1>1, <1>2, <1>3, WhatHides
<1>5. Rule!ManagerValue(rule.field, e) = IF value = Rule!Empty THEN Rule!TextValue(e) ELSE value
  BY <1>3 DEF Rule!ManagerValue
<1>6. SUFFICES \/ value # Rule!Empty /\ ReadAs(rule, e, value)
               \/ rule.field = "<tag>" /\ ~Rule!IsRegExp(rule.function) /\ e.tagChosen = Rule!Empty
  BY <1>5 DEF ReadAs
<1> HIDE DEF value
<1>7. CASE rule.field = "<tag>"
  <2>1. h = "tag"
    BY <1>7 DEF Handles
  <2>2. value = IF Rule!IsRegExp(rule.function) THEN e.tagLine ELSE e.tagChosen
    <3>1. value = Rule!TagValue(e)
      BY <2>1 DEF value, Rule!HandlerValue, Rule!Labels
    <3>2. e.function["tag"] = rule.function
      BY <2>1
    <3>3. QED
      BY <3>1, <3>2 DEF Rule!TagValue
  <2>3. PICK x : c = <<"tag", x>>
    BY <1>7 DEF Rule!Contents
  <2>4. c # Rule!Empty
    BY <2>3 DEF Rule!Empty
  <2>5. rule.contents = c
    BY <1>4, <2>1
  <2>6. IF Rule!IsRegExp(rule.function) THEN e.tagLine = rule.contents
        ELSE e.tagChosen \in {rule.contents, Rule!Empty}
    BY <2>1 DEF ValueOf
  <2>7. QED
    BY <1>7, <2>2, <2>4, <2>5, <2>6 DEF ReadAs
<1>8. CASE rule.field = "<date>"
  <2>1. h = "date"
    BY <1>8 DEF Handles
  <2>2. value = e.date
    BY <2>1 DEF value, Rule!HandlerValue, Rule!DateValue, Rule!Labels
  <2>3. PICK x : c = <<"date", x>>
    BY <1>8 DEF Rule!Contents
  <2>4. c # Rule!Empty /\ c[1] = "date"
    BY <2>3 DEF Rule!Empty
  <2>5. rule.contents = c
    BY <1>4, <2>1
  <2>6. e.date = rule.contents
    BY <2>1, <2>4, <2>5 DEF ValueOf
  <2>7. QED
    BY <2>2, <2>4, <2>5, <2>6 DEF ReadAs
<1>9. CASE rule.field = "<age in days>"
  <2>1. h = "numeric"
    BY <1>9 DEF Handles
  <2>2. value = <<"number", e.number>>
    BY <2>1 DEF value, Rule!HandlerValue, Rule!NumericValue, Rule!Labels
  <2>3. PICK n \in Numbers : c = <<"number", n>>
    BY <1>9 DEF Rule!Contents
  <2>4. rule.contents = <<"number", n>> /\ n \in Nat /\ MaxAge \in Nat
    BY <1>4, <2>1, <2>3, RulesAssumption
  <2>5. e.number = Rule!Clip(n, -10000, MaxAge)
    <3>1. Rule!ToInt(rule.contents) = n
      BY <2>4 DEF Rule!ToInt
    <3>2. QED
      BY <2>1, <3>1 DEF ValueOf
  <2>6. e.number = n \/ (n > MaxAge /\ e.number = MaxAge)
    BY <2>4, <2>5 DEF Rule!Clip
  <2>7. value # Rule!Empty
    BY <2>2 DEF Rule!Empty
  <2>8. value[2] = e.number /\ rule.contents[2] = n
    BY <2>2, <2>4
  <2>9. e.number = n => value = rule.contents
    BY <2>2, <2>4
  <2>10. QED
    BY <1>9, <2>6, <2>7, <2>8, <2>9 DEF ReadAs
<1>10. CASE rule.field = "<size>"
  <2>1. h = "numericDouble"
    BY <1>10 DEF Handles
  <2>2. value = <<"number", Rule!Bytes(e.size)>>
    BY <2>1 DEF value, Rule!HandlerValue, Rule!NumericDoubleValue, Rule!Labels
  <2>3. PICK n \in Numbers : c = <<"number", n>>
    BY <1>10 DEF Rule!Contents
  <2>4. rule.contents = <<"number", n>> /\ n \in Nat
    BY <1>4, <2>1, <2>3, RulesAssumption
  <2>5. e.size = Rule!Kilobytes(n)
    <3>1. Rule!ToInt(rule.contents) = n
      BY <2>4 DEF Rule!ToInt
    <3>2. QED
      BY <2>1, <3>1 DEF ValueOf
  <2>6. Rule!Bytes(e.size) - n \in -6..5
    BY <2>4, <2>5, SizeRounded
  <2>7. value # Rule!Empty
    BY <2>2 DEF Rule!Empty
  <2>8. value[2] = Rule!Bytes(e.size) /\ rule.contents[2] = n
    BY <2>2, <2>4
  <2>9. QED
    BY <1>10, <2>6, <2>7, <2>8 DEF ReadAs
<1>11. CASE rule.field = "<status>"
  <2>1. h = "status"
    BY <1>11 DEF Handles
  <2>2. value = <<"status", e.status>>
    BY <2>1 DEF value, Rule!HandlerValue, Rule!StatusValue, Rule!Labels
  <2>3. PICK i \in 1..Len(StatusValues) : c = <<"status", StatusValues[i]>>
    BY <1>11 DEF Rule!Contents
  <2>4. rule.contents = <<"status", StatusValues[i]>>
    BY <1>4, <2>1, <2>3
  <2>5. e.status = StatusValues[i]
    BY <2>1, <2>4 DEF ValueOf
  <2>6. value # Rule!Empty
    BY <2>2 DEF Rule!Empty
  <2>7. QED
    BY <2>2, <2>4, <2>5, <2>6 DEF ReadAs
<1>12. CASE rule.field \in {"<message>", "To"} /\ Rule!Hides(rule.function)
  <2>1. h \in {"message", "headers"}
    BY <1>12 DEF Handles
  <2>2. value = Rule!Dummy(rule.function)
    BY <1>12, <2>1 DEF value, Rule!HandlerValue, Rule!MessageValue, Rule!HeadersValue, Rule!Labels
  <2>3. value # Rule!Empty
    BY <2>2 DEF Rule!Empty, Rule!Dummy
  <2>4. QED
    BY <1>2, <1>12, <2>2, <2>3 DEF ReadAs
<1>13. CASE rule.field = "Subject" \/ (rule.field \in {"<message>", "To"} /\ ~Rule!Hides(rule.function))
  <2>1. h \in {"message", "headers", "text"} /\ (h = "text" \/ ~Rule!Hides(rule.function))
    BY <1>13 DEF Handles
  <2>2. value = e.line
    BY <2>1 DEF value, Rule!HandlerValue, Rule!MessageValue, Rule!HeadersValue, Rule!TextValue, Rule!Labels
  <2>3. PICK x : c = <<"text", x>>
    BY <1>13 DEF Rule!Contents
  <2>4. c # Rule!Empty
    BY <2>3 DEF Rule!Empty
  <2>5. rule.contents = c
    BY <1>2, <1>4, <2>1
  <2>6. e.line = rule.contents
    <3>1. CASE h = "text"
      BY <3>1 DEF ValueOf
    <3>2. CASE h \in {"message", "headers"} /\ ~Rule!Hides(rule.function)
      BY <3>2 DEF ValueOf
    <3>3. QED
      BY <2>1, <3>1, <3>2
  <2>7. QED
    BY <2>2, <2>4, <2>5, <2>6 DEF ReadAs
<1>14. CASE rule.field = "<attachment>"
  <2>1. h = "attachment"
    BY <1>14 DEF Handles
  <2>2. value = Rule!Dummy("attachment")
    BY <2>1 DEF value, Rule!HandlerValue, Rule!Labels
  <2>3. c = Rule!Dummy("attachment")
    BY <1>14 DEF Rule!Contents
  <2>4. value # Rule!Empty
    BY <2>2 DEF Rule!Empty, Rule!Dummy
  <2>5. rule.contents = c
    BY <1>4, <2>1
  <2>6. QED
    BY <2>2, <2>3, <2>4, <2>5 DEF ReadAs
<1>15. QED
  BY <1>1, <1>7, <1>8, <1>9, <1>10, <1>11, <1>12, <1>13, <1>14 DEF Rule!Fields

(* A rule is set, whatever the editor has shown before.                    *)
LEMMA RuleIsSet ==
  ASSUME NEW rule \in Rule!Rules, NEW e, IsEditor(e), NEW baloo, NEW tags,
         NEW s, s = Rule!ManagerSetRule(e, rule, baloo, tags)
  PROVE  /\ IsEditor(s) /\ Raised(s) /\ s.field = rule.field
         /\ ~Rule!Refuses(Handles(rule.field), baloo, rule.function) =>
              /\ s.function[Handles(rule.field)] = rule.function
              /\ ReadAs(rule, s, Rule!ManagerValue(rule.field, s))
<1> DEFINE h == Rule!First({x \in Rule!Names : Rule!HandlesField(x, rule.field)
                                              /\ ~Rule!Refuses(x, baloo, rule.function)})
           func == IF Rule!Known(h, rule.function) THEN rule.function ELSE Rule!Handler(h).functions[1]
           r == Rule!ManagerReset(e)
           c == [r EXCEPT !.field = rule.field, !.function[h] = func]
           v == Rule!ShowValue(h, c, rule, tags)
           w == Rule!ValueWidget(h, rule.function)
<1>1. s = Raising(v, h, w)
  BY DEF Rule!ManagerSetRule, Raising
<1>2. rule.field \in Rule!Fields /\ Rule!Known(Handles(rule.field), rule.function)
  BY RuleGiven
<1>3. /\ Rule!Refuses(Handles(rule.field), baloo, rule.function) => h = "text" /\ h # Handles(rule.field)
      /\ ~Rule!Refuses(Handles(rule.field), baloo, rule.function) => h = Handles(rule.field)
  BY <1>2, WhoTakes
<1>4. h \in Rule!Names
  <2> HIDE DEF h
  <2>1. QED
    BY <1>2, <1>3, WhoHandles, HandlersInOrder
<1> HIDE DEF h
<1>5. h = Handles(rule.field) => func = rule.function
  BY <1>2
<1> HIDE DEF func, w
<1>6. IsEditor(r) /\ r.function = Begun /\ r.tagChosen = Rule!Empty
  BY ResetClears
<1> HIDE DEF r
<1>7. IsEditor(c) /\ c.field = rule.field /\ c.function[h] = func /\ c.tagChosen = Rule!Empty
  <2>1. /\ Shape(c) /\ c.field = rule.field /\ c.function = [r.function EXCEPT ![h] = func]
        /\ c.raised = r.raised /\ c.tagChosen = r.tagChosen
    BY <1>6 DEF IsEditor, Shape, Widgets
  <2>2. r.function = [x \in Rule!Names |-> r.function[x]]
    BY <1>6 DEF IsEditor
  <2> HIDE DEF c
  <2>3. c.function = [x \in Rule!Names |-> c.function[x]] /\ c.function[h] = func
    BY <1>4, <2>1, <2>2
  <2>4. QED
    BY <1>2, <1>6, <2>1, <2>3 DEF IsEditor
<1> HIDE DEF c
<1>8. IsEditor(v) /\ v.field = c.field /\ v.function = c.function /\ ValueOf(h, v, rule)
  <2>1. v = Rule!ShowValue(h, c, rule, tags)
    OBVIOUS
  <2> HIDE DEF v
  <2>2. QED
    BY <1>4, <1>7, <2>1, ValueShown
<1> HIDE DEF v
<1>9. /\ IsEditor(s) /\ s.raised = h /\ s.shown = w /\ s.field = v.field /\ s.function = v.function
      /\ s.line = v.line /\ s.tagLine = v.tagLine /\ s.tagChosen = v.tagChosen
      /\ s.status = v.status /\ s.number = v.number /\ s.size = v.size /\ s.date = v.date
  BY <1>1, <1>4, <1>8, RaiseShows
<1>10. ValueOf(h, s, rule)
  BY <1>8, <1>9 DEF ValueOf
<1>11. s.field = rule.field /\ s.function[h] = func
  BY <1>7, <1>8, <1>9
<1>12. Raised(s)
  BY <1>5, <1>9, <1>11 DEF Raised, w
<1>13. ASSUME ~Rule!Refuses(Handles(rule.field), baloo, rule.function)
       PROVE  /\ s.function[Handles(rule.field)] = rule.function
              /\ ReadAs(rule, s, Rule!ManagerValue(rule.field, s))
  <2>1. h = Handles(rule.field)
    BY <1>3, <1>13
  <2>2. s.function[Handles(rule.field)] = rule.function
    BY <1>5, <1>11, <2>1
  <2>3. ValueOf(Handles(rule.field), s, rule)
    BY <1>10, <2>1
  <2>4. QED
    BY <2>2, <2>3, ReadBack
<1>14. QED
  BY <1>9, <1>11, <1>12, <1>13

(* What the visible widgets show is the rule.                              *)
LEMMA ShownIsRead ==
  ASSUME IsEditor(editor), Raised(editor)
  PROVE  Rule!RuleIsShown
<1> DEFINE h == Handles(editor.field)
           func == editor.function[h]
           value == Rule!HandlerValue(h, editor)
           contents == Rule!ManagerValue(editor.field, editor)
<1>1. h \in Rule!Names /\ Rule!HandlerOf(editor.field) = h
  BY WhoHandles DEF IsEditor
<1>2. SUFFICES ASSUME editor.raised = h
      PROVE  /\ editor.shown = Rule!ValueWidget(h, func)
             /\ editor.shown = "line" => contents = editor.line
             /\ editor.shown = "tagCombo" /\ editor.tagChosen # Rule!Empty => contents = editor.tagText
             /\ editor.shown = "status" => contents = <<"status", editor.status>>
  <2> HIDE DEF h, func, contents
  <2>1. Rule!ManagerFunction(editor.field, editor) = func
    BY <1>1 DEF func, Rule!ManagerFunction
  <2>2. Rule!RuleOf(editor).function = func /\ Rule!RuleOf(editor).contents = contents
    BY <2>1 DEF contents, Rule!RuleOf
  <2>3. ASSUME editor.raised = h PROVE editor.function[editor.raised] = func
    BY <2>3 DEF func
  <2>4. QED
    BY <1>1, <2>2, <2>3 DEF Rule!RuleIsShown
<1>3. contents = IF value = Rule!Empty THEN editor.line ELSE value
  BY <1>1 DEF Rule!ManagerValue, Rule!TextValue
<1>4. editor.shown = Rule!ValueWidget(h, func)
  BY <1>2 DEF Raised
<1> HIDE DEF contents, value
<1>5. CASE h \in {"message", "headers", "text"}
  <2>1. editor.shown = IF Rule!Hides(func) THEN "none" ELSE "line"
    BY <1>4, <1>5 DEF Rule!ValueWidget, Rule!Labels
  <2>2. ~Rule!Hides(func) => value = editor.line
    BY <1>5 DEF value, Rule!HandlerValue, Rule!MessageValue, Rule!HeadersValue, Rule!TextValue, Rule!Labels
  <2>3. QED
    BY <1>3, <1>4, <2>1, <2>2
<1>6. CASE h = "tag"
  <2>1. editor.shown = IF Rule!IsRegExp(func) THEN "tagLine" ELSE "tagCombo"
    BY <1>4, <1>6 DEF Rule!ValueWidget, Rule!Labels
  <2>2. value = Rule!TagValue(editor)
    BY <1>6 DEF value, Rule!HandlerValue, Rule!Labels
  <2>3. ~Rule!IsRegExp(func) => value = editor.tagChosen
    BY <1>6, <2>2 DEF Rule!TagValue
  <2>4. editor.tagChosen # Rule!Empty => editor.tagChosen = editor.tagText
    BY DEF IsEditor
  <2>5. QED
    BY <1>3, <1>4, <2>1, <2>3, <2>4
<1>7. CASE h = "status"
  <2>1. editor.shown = "status"
    BY <1>4, <1>7 DEF Rule!ValueWidget, Rule!Labels
  <2>2. value = <<"status", editor.status>>
    BY <1>7 DEF value, Rule!HandlerValue, Rule!StatusValue, Rule!Labels
  <2>3. value # Rule!Empty
    BY <2>2 DEF Rule!Empty
  <2>4. QED
    BY <1>3, <1>4, <2>1, <2>2, <2>3
<1>8. CASE h \in {"date", "numeric", "numericDouble"} \cup Rule!Labels
  <2>1. editor.shown \in {"date", "numeric", "numericDouble", "none"}
    BY <1>4, <1>8 DEF Rule!ValueWidget, Rule!Labels
  <2>2. QED
    BY <1>4, <2>1
<1>9. QED
  BY <1>1, <1>5, <1>6, <1>7, <1>8, HandlersInOrder DEF Rule!Labels

(* A rule that was set and not changed since is still shown.               *)
StillShown(rule) ==
  /\ editor.field = rule.field /\ rule.field \in Rule!Fields
  /\ ~Rule!Refuses(Handles(rule.field), isBalooSearch, rule.function) =>
       /\ editor.function[Handles(rule.field)] = rule.function
       /\ ReadAs(rule, editor, Rule!ManagerValue(rule.field, editor))

EditorInv ==
  /\ IsEditor(editor) /\ Raised(editor)
  /\ given # << >> => StillShown(given[1])

(* Other fields are kept when one that is looked at is not.                *)
LEMMA FieldSet ==
  ASSUME NEW e, IsEditor(e), NEW field \in Rule!Fields \cup {""}
  PROVE  LET u == [e EXCEPT !.field = field]
         IN  /\ IsEditor(u) /\ u.field = field /\ u.raised = e.raised /\ u.shown = e.shown
             /\ u.function = e.function
<1> DEFINE u == [e EXCEPT !.field = field]
<1>1. /\ Shape(u) /\ u.field = field /\ u.raised = e.raised /\ u.shown = e.shown
      /\ u.function = e.function /\ u.tagChosen = e.tagChosen /\ u.tagText = e.tagText
  BY DEF IsEditor, Shape, Widgets
<1> HIDE DEF u
<1>2. IsEditor(u)
  BY <1>1 DEF IsEditor
<1>3. QED
  BY <1>1, <1>2 DEF u

(* A function is chosen for the handler that is raised.                    *)
LEMMA FunctionSet ==
  ASSUME NEW e, IsEditor(e), NEW func
  PROVE  LET u == [e EXCEPT !.function[e.raised] = func] IN IsEditor(u) /\ u.field = e.field
<1> DEFINE u == [e EXCEPT !.function[e.raised] = func]
<1>1. /\ Shape(u) /\ u.field = e.field /\ u.raised = e.raised /\ u.shown = e.shown
      /\ u.function = [e.function EXCEPT ![e.raised] = func]
      /\ u.tagChosen = e.tagChosen /\ u.tagText = e.tagText
  BY DEF IsEditor, Shape, Widgets
<1>2. e.function = [h \in Rule!Names |-> e.function[h]]
  BY DEF IsEditor
<1> HIDE DEF u
<1>3. u.function = [h \in Rule!Names |-> u.function[h]]
  BY <1>1, <1>2
<1>4. IsEditor(u)
  BY <1>1, <1>3 DEF IsEditor
<1>5. QED
  BY <1>1, <1>4 DEF u

(* What is entered changes neither field nor function.                     *)
LEMMA ValueSet ==
  ASSUME IsEditor(editor), Raised(editor), Rule!SlotValueChanged
  PROVE  IsEditor(editor') /\ Raised(editor')
<1> DEFINE Kept == /\ Shape(editor') /\ editor'.field = editor.field /\ editor'.raised = editor.raised
                   /\ editor'.shown = editor.shown /\ editor'.function = editor.function
                   /\ editor'.tagChosen # Rule!Empty => editor'.tagChosen = editor'.tagText
<1>1. Shape(editor) /\ (editor.tagChosen # Rule!Empty => editor.tagChosen = editor.tagText)
  BY DEF IsEditor
<1>2. \A w \in {"line", "tagLine", "status", "number", "size", "date"} : \A x : Rule!Enter(w, x) => Kept
  BY <1>1 DEF Rule!Enter, Shape, Widgets
<1>3. \A t : Rule!ChooseTag(t) => Kept
  BY <1>1 DEF Rule!ChooseTag, Shape, Widgets
<1>4. Kept
  <2> HIDE DEF Kept
  <2>1. \A x : Rule!Enter("line", x) => Kept
    BY <1>2
  <2>2. \A x : Rule!Enter("tagLine", x) => Kept
    BY <1>2
  <2>3. \A x : Rule!Enter("status", x) => Kept
    BY <1>2
  <2>4. \A x : Rule!Enter("number", x) => Kept
    BY <1>2
  <2>5. \A x : Rule!Enter("size", x) => Kept
    BY <1>2
  <2>6. \A x : Rule!Enter("date", x) => Kept
    BY <1>2
  <2>7. (\E t \in LineTexts : Rule!Enter("line", <<"text", t>>)) => Kept
    BY <2>1
  <2>8. (\E t \in LineTexts : Rule!Enter("tagLine", <<"text", t>>)) => Kept
    BY <2>2
  <2>9. (\E t \in Rule!TagEntries : Rule!ChooseTag(t)) => Kept
    BY <1>3
  <2>10. (\E i \in 1..Len(StatusValues) : Rule!Enter("status", StatusValues[i])) => Kept
    BY <2>3
  <2>11. (\E n \in Numbers : Rule!Enter("number", Rule!Clip(n, -10000, MaxAge))) => Kept
    BY <2>4
  <2>12. (\E n \in Numbers : Rule!Enter("size", Rule!Kilobytes(n))) => Kept
    BY <2>5
  <2>13. (\E d \in Dates : Rule!Enter("date", <<"date", d>>)) => Kept
    BY <2>6
  <2>14. QED
    BY <2>7, <2>8, <2>9, <2>10, <2>11, <2>12, <2>13 DEF Rule!SlotValueChanged
<1>5. QED
  BY <1>4 DEF IsEditor, Raised

(* Every step keeps what is shown what is read.                            *)
LEMMA EditorStep ==
  ASSUME EditorInv, [Rule!Next]_Rule!vars
  PROVE  EditorInv'
<1>0. IsEditor(editor) /\ Raised(editor)
  BY DEF EditorInv
<1>A. ASSUME IsEditor(editor'), Raised(editor'), given' = << >> PROVE EditorInv'
  BY <1>A DEF EditorInv, IsEditor, Raised, Shape
<1>1. ASSUME NEW rule \in Rule!Rules, Rule!SetRule(rule) PROVE EditorInv'
  <2> DEFINE tags == IF fetched THEN Rule!TagEntries ELSE {}
  <2>1. /\ editor' = Rule!ManagerSetRule(editor, rule, isBalooSearch, tags)
        /\ given' = <<rule>> /\ isBalooSearch' = isBalooSearch
    BY <1>1 DEF Rule!SetRule
  <2>2. /\ IsEditor(editor') /\ Raised(editor') /\ editor'.field = rule.field
        /\ ~Rule!Refuses(Handles(rule.field), isBalooSearch, rule.function) =>
             /\ editor'.function[Handles(rule.field)] = rule.function
             /\ ReadAs(rule, editor', Rule!ManagerValue(rule.field, editor'))
    <3> HIDE DEF tags
    <3>1. QED
      BY <1>0, <2>1, RuleIsSet
  <2>3. rule.field \in Rule!Fields
    BY RuleGiven
  <2>4. StillShown(rule)'
    BY <2>1, <2>2, <2>3 DEF StillShown
  <2>5. given'[1] = rule
    BY <2>1
  <2>6. QED
    BY <2>2, <2>4, <2>5 DEF EditorInv
<1>2. CASE Rule!Clear
  <2> DEFINE r == Rule!ManagerReset(editor)
  <2>1. /\ IsEditor(r) /\ r.raised = "text" /\ r.shown = Rule!ValueWidget("text", Begun["text"])
        /\ r.function = Begun
    BY <1>0, ResetClears
  <2> HIDE DEF r
  <2>2. editor' = [r EXCEPT !.field = ""] /\ given' = << >>
    BY <1>2 DEF r, Rule!Clear
  <2>3. /\ IsEditor(editor') /\ editor'.field = "" /\ editor'.raised = "text"
        /\ editor'.shown = r.shown /\ editor'.function = Begun
    BY <2>1, <2>2, FieldSet
  <2>4. Raised(editor')
    BY <2>1, <2>3 DEF Raised
  <2>5. QED
    BY <1>A, <2>2, <2>3, <2>4
<1>B. ASSUME NEW field \in Rule!Fields \cup {""}, given' = << >>,
             editor' = Rule!ManagerUpdate([editor EXCEPT !.field = field], field)
      PROVE  EditorInv'
  <2> DEFINE u == [editor EXCEPT !.field = field]
  <2>1. IsEditor(u) /\ u.field = field
    BY <1>0, FieldSet
  <2>2. editor' = Rule!ManagerUpdate(u, u.field)
    BY <1>B, <2>1
  <2> HIDE DEF u
  <2>3. QED
    BY <1>A, <1>B, <2>1, <2>2, UpdateRaises
<1>3. ASSUME NEW field \in Rule!Fields, Rule!SlotRuleFieldChanged(field) PROVE EditorInv'
  BY <1>3, <1>B DEF Rule!SlotRuleFieldChanged
<1>4. ASSUME NEW func, Rule!SlotFunctionChanged(func) PROVE EditorInv'
  <2> DEFINE u == [editor EXCEPT !.function[editor.raised] = func]
  <2>1. editor' = Rule!ManagerUpdate(u, editor.field) /\ given' = << >>
    BY <1>4 DEF Rule!SlotFunctionChanged
  <2>2. IsEditor(u) /\ u.field = editor.field
    BY <1>0, FunctionSet
  <2> HIDE DEF u
  <2>3. QED
    BY <1>A, <2>1, <2>2, UpdateRaises
<1>5. CASE Rule!SlotValueChanged
  <2>1. IsEditor(editor') /\ Raised(editor')
    BY <1>0, <1>5, ValueSet
  <2>2. given' = << >>
    BY <1>5 DEF Rule!SlotValueChanged
  <2>3. QED
    BY <1>A, <2>1, <2>2
<1>6. ASSUME NEW notShowTags \in BOOLEAN, Rule!SetPatternEditOptions(notShowTags) PROVE EditorInv'
  <2> DEFINE field == IF notShowTags /\ editor.field # "<tag>" THEN editor.field ELSE ""
  <2>1. field \in Rule!Fields \cup {""}
    BY <1>0 DEF IsEditor
  <2>2. editor' = Rule!ManagerUpdate([editor EXCEPT !.field = field], field) /\ given' = << >>
    BY <1>6 DEF Rule!SetPatternEditOptions
  <2> HIDE DEF field
  <2>3. QED
    BY <1>B, <2>1, <2>2
<1>7. CASE UNCHANGED <<isBalooSearch, editor, given>>
  BY <1>7 DEF EditorInv, IsEditor, Raised, Shape, StillShown, ReadAs
<1>8. Rule!OnTagsFetched \/ UNCHANGED Rule!vars => UNCHANGED <<isBalooSearch, editor, given>>
  BY DEF Rule!OnTagsFetched, Rule!vars
<1>9. QED
  BY <1>1, <1>2, <1>3, <1>4, <1>5, <1>6, <1>7, <1>8 DEF Rule!Next

(* A rule that is only looked at is read back as it was, whatever the      *)
(* editor showed before, and one that is edited is what the visible        *)
(* widgets show (SearchRuleWidget, RuleWidgetHandlerManager).              *)
THEOREM RuleAlwaysStays == Spec => []RuleStays
<1>1. Rule!Init => EditorInv
  <2> SUFFICES ASSUME Rule!Init PROVE EditorInv
    OBVIOUS
  <2>1. editor = Rule!Blank /\ given = << >>
    BY DEF Rule!Init
  <2>2. /\ Shape(editor) /\ editor.field = "" /\ editor.function = Begun /\ editor.raised = "text"
        /\ editor.shown = "line" /\ editor.tagChosen = Rule!Empty
    BY <2>1 DEF Rule!Blank, Begun, Shape, Widgets
  <2>3. Begun = [h \in Rule!Names |-> Begun[h]] /\ Begun["text"] = "contains" /\ "text" \in Rule!Names
    BY HandlersInOrder DEF Begun, Rule!Handler, Rule!TextHandler
  <2>4. IsEditor(editor)
    BY <2>2, <2>3 DEF IsEditor
  <2>5. Rule!ValueWidget("text", "contains") = "line"
    BY DEF Rule!ValueWidget, Rule!Hides, Rule!Labels
  <2>6. Raised(editor)
    BY <2>2, <2>3, <2>5 DEF Raised
  <2>7. QED
    BY <2>1, <2>4, <2>6 DEF EditorInv
<1>2. EditorInv /\ [Rule!Next]_Rule!vars => EditorInv'
  BY EditorStep
<1>3. EditorInv => Rule!RuleStays /\ Rule!RuleIsShown
  <2> SUFFICES ASSUME EditorInv PROVE Rule!RuleStays /\ Rule!RuleIsShown
    OBVIOUS
  <2>1. Rule!RuleIsShown
    BY ShownIsRead DEF EditorInv
  <2>2. ASSUME given # << >>
        PROVE  LET was == given[1]
                   is == Rule!RuleOf(editor)
               IN  /\ is.field = was.field
                   /\ Rule!RefusedBy(was) \/ is.function = was.function
                   /\ \/ Rule!RefusedBy(was)
                      \/ ReadAs(was, editor, is.contents)
    <3> DEFINE was == given[1]
    <3>1. StillShown(was)
      BY <2>2 DEF EditorInv
    <3> HIDE DEF was
    <3>2. Rule!HandlerOf(was.field) = Handles(was.field)
      BY <3>1, WhoHandles DEF StillShown
    <3>3. /\ Rule!RuleOf(editor).field = editor.field
          /\ Rule!RuleOf(editor).function = Rule!ManagerFunction(editor.field, editor)
          /\ Rule!RuleOf(editor).contents = Rule!ManagerValue(editor.field, editor)
      BY DEF Rule!RuleOf
    <3>4. QED
      BY <3>1, <3>2, <3>3 DEF was, StillShown, Rule!RefusedBy, Rule!ManagerFunction
  <2>3. Rule!RuleStays
    BY <2>2 DEF Rule!RuleStays, Rule!Missing, ReadAs, Rule!IsRegExp
  <2>4. QED
    BY <2>1, <2>3
<1>4. Init => (part = "rule" => EditorInv)
  BY <1>1, OneBegins
<1>5. (part = "rule" => EditorInv) /\ [Next]_vars => (part = "rule" => EditorInv)'
  <2> SUFFICES ASSUME part = "rule" => EditorInv, [Next]_vars, part' = "rule" PROVE EditorInv'
    OBVIOUS
  <2>1. part = "rule" /\ [Rule!Next]_Rule!vars
    BY OneMoves
  <2>2. QED
    BY <1>2, <2>1
<1>6. QED
  BY <1>4, <1>5, <1>3, PTL DEF Spec, RuleStays

-----------------------------------------------------------------------------
(* Sieve scripts.  Every filter has become a block that has the extensions *)
(* it needs.                                                               *)
SieveInv ==
  /\ filters \in FilterLists
  /\ blocks \in Seq({Sieve!BlockOf(filters[i]) : i \in DOMAIN filters}) /\ Len(blocks) <= Len(filters)
  /\ \A i \in DOMAIN blocks : /\ blocks[i] = Sieve!BlockOf(filters[i])
                              /\ Sieve!RequiredBy(filters[i]) \subseteq required

LEMMA ListHasLength ==
  ASSUME NEW s, Sieve!IsList(s)
  PROVE  Len(s) \in Nat /\ DOMAIN s = 1..Len(s)
<1>1. s \in Seq({s[i] : i \in DOMAIN s})
  BY DEF Sieve!IsList
<1>2. QED
  BY <1>1

LEMMA FewerRules ==
  ASSUME NEW a \in Nat, NEW b \in Nat
  PROVE  Sieve!Min({a, b}) = IF a <= b THEN a ELSE b
<1>1. CASE a <= b
  BY <1>1 DEF Sieve!Min
<1>2. CASE ~(a <= b)
  BY <1>2 DEF Sieve!Min
<1>3. QED
  BY <1>1, <1>2

(* A test needs no extension but those its rule requires. *)
LEMMA TestsRequired ==
  ASSUME NEW r, r.func \in Sieve!Functions
  PROVE  /\ Sieve!ExtensionOf(Sieve!TestOf(r).kind) \in Sieve!RequiredByTest(r) \cup {"none"}
         /\ Sieve!TestOf(r).kind # "remark" =>
              Sieve!ExtensionOf(Sieve!TestOf(r).comparison) \in Sieve!RequiredByTest(r) \cup {"none"}
<1> DEFINE t == r.func.test
<1>1. CASE r.field = "<size>"
  BY <1>1 DEF Sieve!TestOf, Sieve!SizeTest, Sieve!Remark, Sieve!ExtensionOf, Sieve!RequiredByTest, Sieve!Functions
<1>2. CASE r.field \in Sieve!NotSupported
  BY <1>2 DEF Sieve!TestOf, Sieve!Remark, Sieve!ExtensionOf, Sieve!RequiredByTest, Sieve!NotSupported
<1>3. CASE r.field \notin Sieve!NotSupported \cup {"<size>"} /\ t \notin DOMAIN Sieve!Comparison
  BY <1>3 DEF Sieve!TestOf, Sieve!TextTest, Sieve!Remark, Sieve!ExtensionOf
<1>4. CASE r.field \notin Sieve!NotSupported \cup {"<size>"} /\ t \in DOMAIN Sieve!Comparison
  <2> DEFINE c == Sieve!Comparison[t]
  <2>1. c \in {":contains", ":is", ":regex", ""} /\ (c = ":regex" => t \in {"regexp", "start-with", "end-with"})
    BY <1>4 DEF Sieve!Comparison
  <2>2. Sieve!ExtensionOf(c) = IF c = ":regex" THEN "regex" ELSE "none"
    BY <2>1 DEF Sieve!ExtensionOf
  <2> HIDE DEF c
  <2>3. /\ Sieve!TestOf(r).comparison = c
        /\ Sieve!TestOf(r).kind = IF r.field = "<body>" THEN "body" ELSE "header"
    BY <1>4 DEF Sieve!TestOf, Sieve!TextTest, c
  <2>4. Sieve!ExtensionOf("body") = "body" /\ Sieve!ExtensionOf("header") = "none"
    BY DEF Sieve!ExtensionOf
  <2>5. QED
    BY <1>4, <2>1, <2>2, <2>3, <2>4 DEF Sieve!RequiredByTest
<1>5. QED
  BY <1>1, <1>2, <1>3, <1>4

(* ... and a command none but those its action requires. *)
LEMMA CommandsRequired ==
  ASSUME NEW name, NEW j \in DOMAIN Sieve!Command(name)
  PROVE  Sieve!ExtensionOf(Sieve!Command(name)[j]) \in Sieve!Requires(name) \cup {"none"}
<1> DEFINE c == Sieve!Command(name)
<1>1. /\ name = "transfer" => c = <<"fileinto">>
      /\ name = "copy" => c = <<"fileinto", ":copy">>
      /\ name = "set status" => c = <<"setflag">>
      /\ name = "unset status" => c = <<"removeflag">>
      /\ name = "add header" => c = <<"addheader">>
      /\ name = "remove header" => c = <<"deleteheader">>
  BY DEF Sieve!Command
<1>2. name \notin {"transfer", "copy", "set status", "unset status", "add header", "remove header"} =>
        \E word \in {"discard", "redirect", "remark"} : c = <<word>>
  <2>1. name = "delete" \/ name = "redirect" \/ name \notin {"delete", "redirect"}
    OBVIOUS
  <2>2. name = "delete" => c = <<"discard">>
    BY DEF Sieve!Command
  <2>3. name = "redirect" => c = <<"redirect">>
    BY DEF Sieve!Command
  <2>4. name \notin {"transfer", "copy", "set status", "unset status", "add header", "remove header", "delete", "redirect"} =>
          c = <<"remark">>
    BY DEF Sieve!Command
  <2> HIDE DEF c
  <2>5. QED
    BY <2>1, <2>2, <2>3, <2>4
<1>3. j \in DOMAIN c
  OBVIOUS
<1> HIDE DEF c
<1>4. CASE name = "transfer"
  <2>1. c[j] = "fileinto"
    BY <1>1, <1>3, <1>4
  <2>2. QED
    BY <1>4, <2>1 DEF Sieve!ExtensionOf, Sieve!Requires, c
<1>5. CASE name = "copy"
  <2>1. c[j] \in {"fileinto", ":copy"}
    BY <1>1, <1>3, <1>5
  <2>2. QED
    BY <1>5, <2>1 DEF Sieve!ExtensionOf, Sieve!Requires, c
<1>6. CASE name \in {"set status", "unset status"}
  <2>1. c[j] \in {"setflag", "removeflag"}
    <3>1. CASE name = "set status"
      <4>1. c = <<"setflag">>
        BY <1>1, <3>1
      <4>2. QED
        BY <1>3, <4>1
    <3>2. CASE name = "unset status"
      <4>1. c = <<"removeflag">>
        BY <1>1, <3>2
      <4>2. QED
        BY <1>3, <4>1
    <3>3. QED
      BY <1>6, <3>1, <3>2
  <2>2. QED
    BY <1>6, <2>1 DEF Sieve!ExtensionOf, Sieve!Requires, c
<1>7. CASE name \in {"add header", "remove header"}
  <2>1. c[j] \in {"addheader", "deleteheader"}
    <3>1. CASE name = "add header"
      <4>1. c = <<"addheader">>
        BY <1>1, <3>1
      <4>2. QED
        BY <1>3, <4>1
    <3>2. CASE name = "remove header"
      <4>1. c = <<"deleteheader">>
        BY <1>1, <3>2
      <4>2. QED
        BY <1>3, <4>1
    <3>3. QED
      BY <1>7, <3>1, <3>2
  <2>2. QED
    BY <1>7, <2>1 DEF Sieve!ExtensionOf, Sieve!Requires, c
<1>8. CASE name \notin {"transfer", "copy", "set status", "unset status", "add header", "remove header"}
  <2>1. c[j] \in {"discard", "redirect", "remark"}
    <3>1. PICK word \in {"discard", "redirect", "remark"} : c = <<word>>
      BY <1>2, <1>8
    <3>2. QED
      BY <1>3, <3>1
  <2>2. QED
    BY <2>1 DEF Sieve!ExtensionOf, c
<1>9. QED
  BY <1>4, <1>5, <1>6, <1>7, <1>8

LEMMA WordsRequired ==
  ASSUME NEW f, Sieve!IsFilter(f)
  PROVE  {Sieve!ExtensionOf(w) : w \in Sieve!WordsOf(Sieve!BlockOf(f))} \ {"none"} \subseteq Sieve!RequiredBy(f)
<1> DEFINE p == f.pattern
           n == Sieve!Min({MaxRules, Len(p.rules)})
           b == Sieve!BlockOf(f)
<1>1. Len(p.rules) \in Nat /\ DOMAIN p.rules = 1..Len(p.rules) /\ n \in 0..Len(p.rules)
  <2>1. Len(p.rules) \in Nat /\ DOMAIN p.rules = 1..Len(p.rules)
    BY ListHasLength DEF Sieve!IsFilter
  <2>2. MaxRules \in Nat
    BY ScriptsAssumption
  <2>3. n \in 0..Len(p.rules)
    BY <2>1, <2>2, FewerRules
  <2>4. QED
    BY <2>1, <2>3
<1> HIDE DEF n
<1>2. SUFFICES ASSUME NEW w \in Sieve!WordsOf(b) PROVE Sieve!ExtensionOf(w) \in Sieve!RequiredBy(f) \cup {"none"}
  OBVIOUS
<1>3. /\ b.commands = [i \in DOMAIN f.actions |-> Sieve!Command(f.actions[i])]
      /\ b.asks.tests = IF p.op = "all" THEN << >> ELSE [i \in 1..n |-> Sieve!TestOf(p.rules[i])]
  BY DEF Sieve!BlockOf, Sieve!JointTest, n
<1> HIDE DEF b
<1>4. CASE \E i \in DOMAIN b.commands : w \in {b.commands[i][j] : j \in DOMAIN b.commands[i]}
  <2>1. PICK i \in DOMAIN b.commands : w \in {b.commands[i][j] : j \in DOMAIN b.commands[i]}
    BY <1>4
  <2> i \in DOMAIN f.actions /\ b.commands[i] = Sieve!Command(f.actions[i])
    BY <1>3
  <2>2. Sieve!ExtensionOf(w) \in Sieve!Requires(f.actions[i]) \cup {"none"}
    BY <2>1, CommandsRequired
  <2>3. QED
    BY <2>2 DEF Sieve!RequiredBy
<1>5. ASSUME NEW i \in DOMAIN b.asks.tests,
             w = b.asks.tests[i].kind \/ (b.asks.tests[i].kind # "remark" /\ w = b.asks.tests[i].comparison)
      PROVE  Sieve!ExtensionOf(w) \in Sieve!RequiredBy(f) \cup {"none"}
  <2>1. p.op # "all" /\ i \in 1..n /\ b.asks.tests[i] = Sieve!TestOf(p.rules[i])
    BY <1>3
  <2>2. p.rules[i].func \in Sieve!Functions
    BY <1>1, <2>1 DEF Sieve!IsFilter
  <2>3. Sieve!ExtensionOf(w) \in Sieve!RequiredByTest(p.rules[i]) \cup {"none"}
    BY <1>5, <2>1, <2>2, TestsRequired
  <2>4. Sieve!RequiredByTest(p.rules[i]) \subseteq Sieve!RequiredByPattern(p)
    BY <2>1 DEF Sieve!RequiredByPattern, n
  <2>5. QED
    BY <2>3, <2>4 DEF Sieve!RequiredBy
<1>6. QED
  BY <1>2, <1>4, <1>5 DEF Sieve!WordsOf

(* A test that is no remark asks what the rule asks. *)
LEMMA TestAsksAlike ==
  ASSUME NEW r, r.func \in Sieve!Functions, Sieve!Convertible(r),
         NEW m, Sieve!HasHeaders(m), m.size \in Int
  PROVE  Sieve!TestHolds(Sieve!TestOf(r), m) <=> Sieve!RuleMatches(r, m)
<1> DEFINE f == r.func
           t == Sieve!TestOf(r)
<1>1. f = [test |-> f.test, neg |-> f.neg] /\ f.test \in Sieve!Tests /\ f.neg \in BOOLEAN
  BY DEF Sieve!Functions
<1>2. CASE r.field = "<size>"
  <2>1. f.test \in {"greater", "less"}
    BY <1>2 DEF Sieve!Convertible, Sieve!Fields
  <2>2. /\ t.kind = "size"
        /\ t.comparison = IF (f.test = "greater") = f.neg THEN ":under" ELSE ":over"
        /\ t.offset = IF f.test = "greater" THEN IF f.neg THEN 1 ELSE 0 ELSE IF f.neg THEN -1 ELSE 0
    <3>1. t = Sieve!SizeTest(f)
      BY <1>2 DEF Sieve!TestOf, Sieve!NotSupported
    <3> HIDE DEF f
    <3>2. CASE f.test = "greater"
      BY <1>1, <3>1, <3>2 DEF Sieve!SizeTest
    <3>3. CASE f.test = "less"
      BY <1>1, <3>1, <3>3 DEF Sieve!SizeTest
    <3>4. QED
      BY <2>1, <3>2, <3>3
  <2> HIDE DEF t
  <2>3. Sieve!TestHolds(t, m) <=> IF t.comparison = ":over" THEN m.size > t.offset ELSE m.size < t.offset
    BY <2>2 DEF Sieve!TestHolds
  <2>4. Sieve!RuleMatches(r, m) <=> (f.neg # (IF f.test = "greater" THEN m.size > 0 ELSE m.size < 0))
    BY <1>2, <2>1 DEF Sieve!RuleMatches, Sieve!NumberMatches
  <2>5. QED
    BY <1>1, <2>1, <2>2, <2>3, <2>4 DEF t
<1>3. CASE r.field # "<size>"
  <2> DEFINE field == IF r.field = "<body>" THEN "body" ELSE r.field
             content == m.text[field]
             sought == CASE f.test \in {"contains", "regexp"} -> "contains"
                         [] f.test = "equals"     -> "same"
                         [] f.test = "start-with" -> "starts"
                         [] f.test = "end-with"   -> "ends"
  <2>1. /\ r.field \in (Sieve!Fields \ {"body"}) \cup {"<body>"} /\ f.test \in DOMAIN Sieve!Comparison \ {"none"}
        /\ r.contents # ""
    BY <1>3 DEF Sieve!Convertible, Sieve!RuleIsEmpty, Sieve!Fields
  <2>2. f.test \in {"contains", "equals", "regexp", "start-with", "end-with"}
    BY <2>1 DEF Sieve!Comparison
  <2>3. r.field \notin Sieve!NotSupported
    BY <2>1 DEF Sieve!Fields, Sieve!NotSupported
  <2>4. field \in Sieve!Fields /\ content # Sieve!NoText /\ "angled" \notin content
    BY <2>1 DEF Sieve!HasHeaders, Sieve!Fields
  <2>5. /\ t.kind \in {"body", "header"} /\ t.field = field /\ t.not = f.neg
        /\ t.comparison = Sieve!Comparison[f.test] /\ t.anchor = Sieve!Anchor(f.test)
    BY <1>1, <1>3, <2>1, <2>2, <2>3 DEF Sieve!TestOf, Sieve!TextTest
  <2> HIDE DEF t
  <2>6. Sieve!Finds(t, content) = (sought \in content)
    <3>1. /\ f.test = "contains" => t.comparison = ":contains"
          /\ f.test = "equals" => t.comparison = ":is"
          /\ f.test \in {"regexp", "start-with", "end-with"} => t.comparison = ":regex"
      BY <2>2, <2>5 DEF Sieve!Comparison
    <3>2. t.anchor = IF f.test = "start-with" THEN "^" ELSE IF f.test = "end-with" THEN "$" ELSE ""
      BY <2>2, <2>5 DEF Sieve!Anchor
    <3> HIDE DEF content
    <3>3. QED
      BY <2>2, <3>1, <3>2 DEF Sieve!Finds
  <2>7. Sieve!TestHolds(t, m) <=> ((sought \in content) # f.neg)
    BY <1>1, <2>5, <2>6 DEF Sieve!TestHolds
  <2>8. Sieve!TextMatches(f, content) <=> ((sought \in content) # f.neg)
    <3> HIDE DEF content
    <3>1. QED
      BY <2>2, <2>4 DEF Sieve!TextMatches
  <2>9. Sieve!Text(m, field) = content
    BY <2>4 DEF Sieve!Text, Sieve!Covers, Sieve!HasHeaders, Sieve!Complete, Sieve!Header, Sieve!Fields
  <2>10. Sieve!StringMatches(r, m) <=> Sieve!TextMatches(f, content)
    <3>1. r.field \notin {"<message>", "<any header>", "<recipients>", "<tag>"}
      BY <2>1 DEF Sieve!Fields
    <3> HIDE DEF content
    <3>2. QED
      BY <2>2, <2>4, <2>9, <3>1 DEF Sieve!StringMatches
  <2>11. Sieve!RuleMatches(r, m) <=> Sieve!StringMatches(r, m)
    BY <2>1 DEF Sieve!RuleMatches, Sieve!Fields
  <2>12. QED
    BY <2>7, <2>8, <2>10, <2>11 DEF t
<1>4. QED
  BY <1>2, <1>3

(* A filter that can be converted acts on the messages its block acts on. *)
LEMMA BlockActsAlike ==
  ASSUME NEW f, Sieve!IsFilter(f), Sieve!PatternConvertible(f.pattern),
         NEW m, Sieve!HasHeaders(m), m.size \in Int
  PROVE  Sieve!BlockHolds(Sieve!BlockOf(f), m) <=> Sieve!PatternMatches(f.pattern, m)
<1> DEFINE p == f.pattern
           n == Sieve!Min({MaxRules, Len(p.rules)})
           b == Sieve!BlockOf(f)
<1>1. Len(p.rules) \in Nat /\ DOMAIN p.rules = 1..Len(p.rules) /\ p.rules # << >>
  BY ListHasLength DEF Sieve!IsFilter, Sieve!PatternConvertible
<1>2. p.op \in {"or", "and"} /\ n = Len(p.rules)
  <2>1. p.op \in {"or", "and"} /\ Len(p.rules) <= MaxRules
    BY DEF Sieve!IsFilter, Sieve!PatternConvertible, Sieve!Joints
  <2>2. QED
    BY <1>1, <2>1, FewerRules, ScriptsAssumption
<1> HIDE DEF n
<1>3. /\ b.asks.tests = [i \in 1..n |-> Sieve!TestOf(p.rules[i])]
      /\ b.asks.joint = IF p.op = "or" THEN "anyof" ELSE "allof"
  <2>1. b.asks = Sieve!JointTest(p)
    BY DEF Sieve!BlockOf
  <2>2. Sieve!JointTest(p).tests = [i \in 1..n |-> Sieve!TestOf(p.rules[i])]
    BY <1>2 DEF Sieve!JointTest, n
  <2>3. Sieve!JointTest(p).joint = IF p.op = "or" THEN "anyof" ELSE "allof"
    BY <1>2 DEF Sieve!JointTest, Sieve!Joints
  <2> HIDE DEF b
  <2>4. QED
    BY <2>1, <2>2, <2>3
<1> HIDE DEF b
<1>4. ASSUME NEW i \in 1..n
      PROVE  Sieve!TestHolds(b.asks.tests[i], m) <=> Sieve!RuleMatches(p.rules[i], m)
  <2>1. p.rules[i].func \in Sieve!Functions /\ Sieve!Convertible(p.rules[i])
    BY <1>1, <1>2 DEF Sieve!IsFilter, Sieve!PatternConvertible
  <2>2. Sieve!TestHolds(Sieve!TestOf(p.rules[i]), m) <=> Sieve!RuleMatches(p.rules[i], m)
    BY <2>1, TestAsksAlike
  <2>3. QED
    BY <1>3, <2>2
<1>5. DOMAIN b.asks.tests = 1..n /\ DOMAIN p.rules = 1..n
  BY <1>1, <1>2, <1>3
<1>6. CASE p.op = "or"
  BY <1>1, <1>3, <1>4, <1>5, <1>6 DEF Sieve!BlockHolds, Sieve!PatternMatches, b
<1>7. CASE p.op = "and"
  BY <1>1, <1>3, <1>4, <1>5, <1>7 DEF Sieve!BlockHolds, Sieve!PatternMatches, b
<1>8. QED
  BY <1>2, <1>6, <1>7

LEMMA SieveStep ==
  ASSUME SieveInv, [Sieve!Next]_Sieve!vars
  PROVE  SieveInv'
<1>1. CASE UNCHANGED Sieve!vars
  BY <1>1 DEF Sieve!vars, SieveInv
<1>2. CASE Sieve!Next
  <2> DEFINE n == Len(blocks)
             f == filters[n + 1]
             B == {Sieve!BlockOf(filters[i]) : i \in DOMAIN filters}
  <2>1. /\ n < Len(filters) /\ filters' = filters
        /\ blocks' = Append(blocks, Sieve!BlockOf(f)) /\ required' = required \cup Sieve!RequiredBy(f)
    BY <1>2 DEF Sieve!Next, Sieve!Convert
  <2>2. Len(filters) \in Nat /\ DOMAIN filters = 1..Len(filters)
    BY ScriptsAssumption, ListHasLength DEF SieveInv, Sieve!IsFilterList
  <2>3. n \in Nat /\ n + 1 \in DOMAIN filters /\ Sieve!BlockOf(f) \in B
    BY <2>1, <2>2 DEF SieveInv
  <2>4. /\ blocks' \in Seq(B) /\ Len(blocks') = n + 1 /\ blocks'[n + 1] = Sieve!BlockOf(f)
        /\ DOMAIN blocks = 1..n /\ DOMAIN blocks' = 1..(n + 1) /\ \A i \in 1..n : blocks'[i] = blocks[i]
    <3>1. blocks \in Seq(B)
      BY DEF SieveInv
    <3> HIDE DEF B
    <3>2. QED
      BY <2>1, <2>3, <3>1
  <2>5. ASSUME NEW i \in 1..(n + 1)
        PROVE  blocks'[i] = Sieve!BlockOf(filters[i]) /\ Sieve!RequiredBy(filters[i]) \subseteq required'
    <3>1. CASE i = n + 1
      BY <2>1, <2>4, <3>1
    <3>2. CASE i \in 1..n
      BY <2>1, <2>4, <3>2 DEF SieveInv
    <3>3. QED
      BY <2>3, <3>1, <3>2
  <2>6. SieveInv'
    <3>1. filters' \in FilterLists /\ Len(blocks') <= Len(filters')
      BY <2>1, <2>2, <2>3, <2>4 DEF SieveInv
    <3> HIDE DEF n, f
    <3>2. QED
      BY <2>1, <2>4, <2>5, <3>1 DEF SieveInv
  <2>7. QED
    BY <2>6
<1>3. QED
  BY <1>1, <1>2

(* A script requires every extension it uses, and the block of a filter    *)
(* that Sieve can express acts on just the messages the filter matches,    *)
(* whatever filters are converted (FilterConvertToSieve).                  *)
THEOREM ScriptsAlwaysAct == Spec => []ConvertedAlike
<1>1. Sieve!Init => SieveInv
  <2> SUFFICES ASSUME Sieve!Init PROVE SieveInv
    OBVIOUS
  <2>1. Len(filters) \in Nat
    BY ScriptsAssumption, ListHasLength DEF Sieve!Init, Sieve!IsFilterList
  <2>2. QED
    BY <2>1 DEF Sieve!Init, SieveInv
<1>2. SieveInv => Sieve!ConvertedAlike /\ Sieve!ExtensionsRequired
  <2> SUFFICES ASSUME SieveInv PROVE Sieve!ConvertedAlike /\ Sieve!ExtensionsRequired
    OBVIOUS
  <2>1. ASSUME NEW i \in DOMAIN blocks PROVE Sieve!IsFilter(filters[i])
    <3>1. Sieve!IsFilterList(filters)
      BY ScriptsAssumption DEF SieveInv
    <3>2. i \in DOMAIN filters
      BY <3>1, ListHasLength DEF SieveInv, Sieve!IsFilterList
    <3>3. QED
      BY <3>1, <3>2 DEF Sieve!IsFilterList
  <2>2. Sieve!ConvertedAlike
    <3> SUFFICES ASSUME NEW i \in DOMAIN blocks, Sieve!PatternConvertible(filters[i].pattern),
                        NEW m \in Mails, Sieve!HasHeaders(m)
                 PROVE  Sieve!BlockHolds(blocks[i], m) <=> Sieve!PatternMatches(filters[i].pattern, m)
      BY DEF Sieve!ConvertedAlike
    <3>1. Sieve!IsFilter(filters[i]) /\ m.size \in Int
      BY <2>1, ScriptsAssumption
    <3>2. Sieve!BlockHolds(Sieve!BlockOf(filters[i]), m) <=> Sieve!PatternMatches(filters[i].pattern, m)
      BY <3>1, BlockActsAlike
    <3>3. QED
      BY <3>2 DEF SieveInv
  <2>3. Sieve!ExtensionsRequired
    <3> SUFFICES ASSUME NEW i \in DOMAIN blocks
                 PROVE  {Sieve!ExtensionOf(w) : w \in Sieve!WordsOf(blocks[i])} \ {"none"} \subseteq required
      BY DEF Sieve!ExtensionsRequired
    <3>1. {Sieve!ExtensionOf(w) : w \in Sieve!WordsOf(Sieve!BlockOf(filters[i]))} \ {"none"}
            \subseteq Sieve!RequiredBy(filters[i])
      BY <2>1, WordsRequired
    <3>2. QED
      BY <3>1 DEF SieveInv
  <2>4. QED
    BY <2>2, <2>3
<1>3. Init => (part = "sieve" => SieveInv)
  BY <1>1, OneBegins
<1>4. (part = "sieve" => SieveInv) /\ [Next]_vars => (part = "sieve" => SieveInv)'
  BY OneMoves, SieveStep
<1>5. (part = "sieve" => SieveInv) => ConvertedAlike
  BY <1>2 DEF ConvertedAlike
<1>6. QED
  BY <1>3, <1>4, <1>5, PTL DEF Spec

-----------------------------------------------------------------------------
LEMMA OfItsElements ==
  ASSUME NEW A, NEW s \in Seq(A)
  PROVE  s \in Seq(Range(s))
<1>1. Len(s) \in Nat /\ s = [i \in 1..Len(s) |-> s[i]]
  OBVIOUS
<1>2. \A i \in 1..Len(s) : s[i] \in Range(s)
  BY DEF Range
<1>3. QED
  BY <1>1, <1>2

(* Tags.  What Akonadi stores of a tag says what is shown of it. *)
IsTagAttribute(a) == a.font \in BOOLEAN \X BOOLEAN /\ a.toolbar \in BOOLEAN
Says(a, name, look) ==
  IsTagAttribute(a) /\ Tag!FromAkonadi(a).name = name /\ Tag!Look(Tag!SetTag(Tag!FromAkonadi(a))) = look

IsCreateJob(job) ==
  /\ Says(job.tag, job.name, job.look) /\ job.mine \in BOOLEAN
  /\ job = [tag |-> job.tag, mine |-> job.mine, name |-> job.name, look |-> job.look]

(* A job the dialog waits for was asked for by it, under the name its      *)
(* label shows unless it has asked for more than one.                      *)
Awaited(job) ==
  job.mine => /\ tagDialog # << >> /\ tagDialog[1].pressed > 0
              /\ tagDialog[1].label = job.tag.name \/ tagDialog[1].pressed > 1

IsTagDialog(d) ==
  /\ d = [tags |-> d.tags, name |-> d.name, form |-> d.form, ok |-> d.ok, label |-> d.label, pressed |-> d.pressed]
  /\ Tag!IsForm(d.form) /\ d.pressed \in Nat

TagInv ==
  /\ DOMAIN tagServer = 1..Len(tagServer) /\ Len(tagServer) \in Nat
  /\ tagServer \in Seq(Range(tagServer)) /\ tagMeant \in Seq(Range(tagMeant)) /\ Len(tagMeant) = Len(tagServer)
  /\ \A i \in DOMAIN tagServer : /\ Says(tagServer[i], tagMeant[i].name, tagMeant[i].look)
                                 /\ tagMeant[i] = [name |-> tagMeant[i].name, look |-> tagMeant[i].look]
  /\ creating \in Seq(Range(creating))
  /\ \A i \in DOMAIN creating : IsCreateJob(creating[i]) /\ Awaited(creating[i])
  /\ tagDialog # << >> => tagDialog = <<tagDialog[1]>> /\ IsTagDialog(tagDialog[1])
  /\ tagGiven # << >> => tagGiven[1].label = tagGiven[1].tag.name \/ tagGiven[1].pressed > 1

IsTag(t) ==
  t = [name |-> t.name, textColor |-> t.textColor, backgroundColor |-> t.backgroundColor,
       bold |-> t.bold, italic |-> t.italic, toolbar |-> t.toolbar, priority |-> t.priority]

(* What a form records in a tag. *)
LEMMA TagRecorded ==
  ASSUME NEW t, IsTag(t), NEW form
  PROVE  LET r == Tag!RecordTagSettings(t, form) IN
         /\ IsTag(r) /\ r.name = t.name
         /\ r.textColor = IF form.textOn THEN form.text ELSE Invalid
         /\ r.backgroundColor = IF form.backOn THEN form.back ELSE Invalid
         /\ r.bold = (form.fontOn /\ form.bold) /\ r.italic = (form.fontOn /\ form.italic)
         /\ r.toolbar = form.toolbar
<1> DEFINE ink == IF form.textOn THEN form.text ELSE Invalid
           back == IF form.backOn THEN form.back ELSE Invalid
           bold == form.fontOn /\ form.bold
           italic == form.fontOn /\ form.italic
           r == [t EXCEPT !.textColor = ink, !.backgroundColor = back, !.bold = bold, !.italic = italic,
                          !.toolbar = form.toolbar]
<1>1. Tag!RecordTagSettings(t, form) = r
  BY DEF Tag!RecordTagSettings
<1>2. DOMAIN t = {"name", "textColor", "backgroundColor", "bold", "italic", "toolbar", "priority"}
  BY DEF IsTag
<1> HIDE DEF ink, back, bold, italic
<1>3. DOMAIN r = {"name", "textColor", "backgroundColor", "bold", "italic", "toolbar", "priority"}
  BY <1>2
<1>4. r.name = t.name /\ r.textColor = ink /\ r.backgroundColor = back
  BY <1>2
<1>5. r.bold = bold
  BY <1>2
<1>6. r.italic = italic
  BY <1>2
<1>7. r.toolbar = form.toolbar
  BY <1>2
<1>8. IsTag(r)
  <2>1. r = [x \in DOMAIN r |-> r[x]]
    OBVIOUS
  <2> HIDE DEF r
  <2>2. QED
    BY <1>3, <2>1 DEF IsTag
<1>9. QED
  BY <1>1, <1>4, <1>5, <1>6, <1>7, <1>8 DEF ink, back, bold, italic

(* Two forms that tick the same look alike. *)
LEMMA LooksAlike ==
  ASSUME NEW f, NEW g, f.textOn <=> g.textOn, f.textOn => f.text = g.text,
         f.backOn <=> g.backOn, f.backOn => f.back = g.back,
         (f.fontOn /\ f.bold) <=> (g.fontOn /\ g.bold), (f.fontOn /\ f.italic) <=> (g.fontOn /\ g.italic),
         f.toolbar <=> g.toolbar
  PROVE  Tag!Look(f) = Tag!Look(g)
<1>1. {h \in {"bold", "italic"} : f.fontOn /\ f[h]} = {h \in {"bold", "italic"} : g.fontOn /\ g[h]}
  OBVIOUS
<1>2. QED
  BY <1>1 DEF Tag!Look

(* A form is what is shown of the tag that was recorded with it. *)
LEMMA TagShown ==
  ASSUME NEW t, IsTag(t), NEW form, Tag!IsForm(form)
  PROVE  LET a == Tag!SaveToAkonadi(Tag!RecordTagSettings(t, form)) IN
         Says(a, t.name, Tag!Look(form)) /\ a.name = t.name
<1> DEFINE r == Tag!RecordTagSettings(t, form)
           a == Tag!SaveToAkonadi(r)
           b == Tag!FromAkonadi(a)
           s == Tag!SetTag(b)
<1>1. /\ r.name = t.name
      /\ r.textColor = IF form.textOn THEN form.text ELSE Invalid
      /\ r.backgroundColor = IF form.backOn THEN form.back ELSE Invalid
      /\ r.bold = (form.fontOn /\ form.bold) /\ r.italic = (form.fontOn /\ form.italic)
      /\ r.toolbar = form.toolbar
  BY TagRecorded
<1>2. /\ form.textOn \in BOOLEAN /\ form.backOn \in BOOLEAN /\ form.fontOn \in BOOLEAN /\ form.bold \in BOOLEAN
      /\ form.italic \in BOOLEAN /\ form.toolbar \in BOOLEAN /\ form.text # Invalid /\ form.back # Invalid
  BY DEF Tag!IsForm
<1> HIDE DEF r
<1>3. r.bold \in BOOLEAN /\ r.italic \in BOOLEAN
  BY <1>1, <1>2
<1>4. /\ a.name = r.name /\ a.font = <<r.bold, r.italic>> /\ a.toolbar = r.toolbar
      /\ a.textColor = r.textColor /\ a.backgroundColor = r.backgroundColor
  BY DEF Tag!SaveToAkonadi
<1>5. a.font \in BOOLEAN \X BOOLEAN /\ a.font # Invalid
  BY <1>3, <1>4, TagsAssumption
<1>6. IsTagAttribute(a)
  BY <1>1, <1>2, <1>4, <1>5 DEF IsTagAttribute
<1> HIDE DEF a
<1>7. /\ b.name = r.name /\ b.bold = r.bold /\ b.italic = r.italic /\ b.toolbar = r.toolbar
      /\ b.textColor = r.textColor /\ b.backgroundColor = r.backgroundColor
  BY <1>3, <1>4, <1>5 DEF Tag!FromAkonadi
<1> HIDE DEF b
<1>8. /\ s.textOn = (r.textColor # Invalid) /\ s.backOn = (r.backgroundColor # Invalid)
      /\ s.textOn => s.text = r.textColor
      /\ s.backOn => s.back = r.backgroundColor
      /\ s.fontOn = (r.bold \/ r.italic) /\ s.bold = r.bold /\ s.italic = r.italic /\ s.toolbar = r.toolbar
  BY <1>7 DEF Tag!SetTag, Tag!ColorShown
<1> HIDE DEF s
<1>9. /\ s.textOn <=> form.textOn
      /\ s.textOn => s.text = form.text
      /\ s.backOn <=> form.backOn
      /\ s.backOn => s.back = form.back
      /\ (s.fontOn /\ s.bold) <=> (form.fontOn /\ form.bold)
      /\ (s.fontOn /\ s.italic) <=> (form.fontOn /\ form.italic)
      /\ s.toolbar <=> form.toolbar
  BY <1>1, <1>2, <1>8
<1>10. Tag!Look(s) = Tag!Look(form)
  BY <1>9, LooksAlike
<1>11. QED
  BY <1>1, <1>4, <1>6, <1>7, <1>10 DEF Says, a, b, s, r

(* What is shown of a stored tag is a form. *)
LEMMA ShownIsForm ==
  ASSUME NEW a, IsTagAttribute(a)
  PROVE  Tag!IsForm(Tag!SetTag(Tag!FromAkonadi(a))) /\ IsTag(Tag!FromAkonadi(a))
<1> DEFINE b == Tag!FromAkonadi(a)
           s == Tag!SetTag(b)
<1>1. IsTag(b)
  BY DEF Tag!FromAkonadi, IsTag
<1>2. b.bold \in BOOLEAN /\ b.italic \in BOOLEAN /\ b.toolbar \in BOOLEAN
  BY DEF IsTagAttribute, Tag!FromAkonadi
<1> HIDE DEF b
<1>3. /\ s.textOn \in BOOLEAN /\ s.backOn \in BOOLEAN /\ s.fontOn \in BOOLEAN /\ s.bold \in BOOLEAN
      /\ s.italic \in BOOLEAN /\ s.toolbar \in BOOLEAN
  BY <1>2 DEF Tag!SetTag
<1>4. s.text # Invalid /\ s.back # Invalid
  BY TagsAssumption DEF Tag!SetTag, Tag!ColorShown
<1> HIDE DEF s
<1>5. Tag!IsForm(s)
  BY <1>3, <1>4 DEF Tag!IsForm
<1>6. QED
  BY <1>1, <1>5 DEF s, b

(* The dialog of an ordinary step: only a field of it changes. *)
LEMMA DialogChanged ==
  ASSUME TagInv, tagDialog # << >>, UNCHANGED <<tagServer, tagMeant, creating, tagGiven>>,
         NEW d, tagDialog' = <<d>>, IsTagDialog(d), d.label = tagDialog[1].label, d.pressed = tagDialog[1].pressed
  PROVE  TagInv'
<1>1. tagDialog' # << >> /\ tagDialog'[1] = d
  OBVIOUS
<1>2. ASSUME NEW i \in DOMAIN creating PROVE Awaited(creating[i])'
  BY <1>1 DEF TagInv, Awaited
<1>3. QED
  BY <1>1, <1>2 DEF TagInv, IsCreateJob

LEMMA TagSaved ==
  ASSUME TagInv, Tag!SlotSave
  PROVE  TagInv'
<1> DEFINE d == tagDialog[1]
           new == Tag!CreateDefaultTag(d.name)
           tag == Tag!SaveToAkonadi(Tag!RecordTagSettings(new, d.form))
           job == [tag |-> tag, mine |-> TRUE, name |-> d.name, look |-> Tag!Look(d.form)]
           e == [d EXCEPT !.label = d.name, !.pressed = @ + 1]
           n == Len(creating)
<1>1. /\ tagDialog # << >> /\ creating' = Append(creating, job) /\ tagDialog' = <<e>>
      /\ UNCHANGED <<tagServer, tagMeant, tagGiven>>
  BY DEF Tag!SlotSave
<1>2. IsTagDialog(d)
  BY <1>1 DEF TagInv
<1>3. IsTag(new) /\ new.name = d.name
  BY DEF Tag!CreateDefaultTag, IsTag
<1>4. Says(tag, d.name, Tag!Look(d.form)) /\ tag.name = d.name
  <2> HIDE DEF new
  <2>1. QED
    BY <1>2, <1>3, TagShown DEF IsTagDialog
<1>5. /\ IsTagDialog(e) /\ e.label = d.name /\ e.pressed = d.pressed + 1
  <2>1. d.pressed + 1 \in Nat
    BY <1>2 DEF IsTagDialog
  <2>2. DOMAIN d = {"tags", "name", "form", "ok", "label", "pressed"}
    BY <1>2 DEF IsTagDialog
  <2> DEFINE up == d.pressed + 1
             x == [d EXCEPT !.label = d.name, !.pressed = up]
  <2>3. e = x
    OBVIOUS
  <2> HIDE DEF d, up, e
  <2>4. DOMAIN x = {"tags", "name", "form", "ok", "label", "pressed"}
    BY <2>2
  <2>5. x.tags = d.tags /\ x.name = d.name /\ x.form = d.form /\ x.ok = d.ok
    BY <2>2
  <2>6. x.label = d.name
    BY <2>2
  <2>7. x.pressed = up
    BY <2>2
  <2>8. x = [f \in DOMAIN x |-> x[f]]
    OBVIOUS
  <2> HIDE DEF x
  <2>9. x = [tags |-> x.tags, name |-> x.name, form |-> x.form, ok |-> x.ok, label |-> x.label, pressed |-> x.pressed]
    BY <2>4, <2>8
  <2>10. QED
    BY <1>2, <2>1, <2>3, <2>5, <2>6, <2>7, <2>9 DEF IsTagDialog, up
<1>6. IsCreateJob(job) /\ job.mine /\ job.tag.name = d.name
  <2> HIDE DEF tag
  <2>1. QED
    BY <1>4 DEF IsCreateJob
<1>7. tagDialog' # << >> /\ tagDialog'[1] = e
  BY <1>1
<1> HIDE DEF job, e, tag, new
<1>8. /\ creating' \in Seq(Range(creating')) /\ DOMAIN creating = 1..n /\ n \in Nat /\ DOMAIN creating' = 1..(n + 1)
      /\ creating'[n + 1] = job /\ \A i \in 1..n : creating'[i] = creating[i]
  <2>1. creating \in Seq(Range(creating) \cup {job})
    BY DEF TagInv
  <2>2. /\ creating' \in Seq(Range(creating) \cup {job}) /\ DOMAIN creating = 1..n /\ n \in Nat /\ Len(creating') = n + 1
        /\ DOMAIN creating' = 1..(n + 1)
        /\ creating'[n + 1] = job /\ \A i \in 1..n : creating'[i] = creating[i]
    BY <1>1, <2>1
  <2>3. creating' \in Seq(Range(creating'))
    BY <2>2 DEF Range
  <2>4. QED
    BY <2>2, <2>3
<1>9. ASSUME NEW i \in DOMAIN creating' PROVE (IsCreateJob(creating[i]) /\ Awaited(creating[i]))'
  <2>1. CASE i = n + 1
    <3>1. d.pressed + 1 > 0
      BY <1>2 DEF IsTagDialog
    <3>2. QED
      BY <1>5, <1>6, <1>7, <1>8, <2>1, <3>1 DEF Awaited
  <2>2. CASE i \in 1..n
    <3>1. creating'[i] = creating[i] /\ i \in DOMAIN creating
      BY <1>8, <2>2
    <3>2. IsCreateJob(creating[i]) /\ Awaited(creating[i])
      BY <3>1 DEF TagInv
    <3>3. creating[i].mine => d.pressed > 0 /\ e.pressed > 1
      BY <1>2, <1>5, <3>2 DEF Awaited, IsTagDialog
    <3>4. e.pressed > 1 => e.pressed > 0
      BY <1>2, <1>5 DEF IsTagDialog
    <3>5. Awaited(creating[i])'
      BY <1>7, <3>1, <3>3, <3>4 DEF Awaited
    <3>6. QED
      BY <3>1, <3>2, <3>5
  <2>3. QED
    BY <1>8, <2>1, <2>2
<1>10. QED
  BY <1>1, <1>5, <1>7, <1>8, <1>9 DEF TagInv

(* Jobs that nobody waits for. *)
LEMMA JobsForsaken ==
  ASSUME NEW list, list \in Seq(Range(list)), \A i \in DOMAIN list : IsCreateJob(list[i])
  PROVE  /\ Tag!Forsaken(list) \in Seq(Range(Tag!Forsaken(list)))
         /\ \A i \in DOMAIN Tag!Forsaken(list) : IsCreateJob(Tag!Forsaken(list)[i]) /\ ~Tag!Forsaken(list)[i].mine
<1> DEFINE s == Tag!Forsaken(list)
<1>1. s = [i \in 1..Len(list) |-> [list[i] EXCEPT !.mine = FALSE]] /\ Len(list) \in Nat
  BY DEF Tag!Forsaken
<1>2. DOMAIN s = 1..Len(list) /\ \A i \in 1..Len(list) : s[i] = [list[i] EXCEPT !.mine = FALSE]
  BY <1>1
<1>3. ASSUME NEW i \in 1..Len(list) PROVE IsCreateJob([list[i] EXCEPT !.mine = FALSE]) /\ ~[list[i] EXCEPT !.mine = FALSE].mine
  <2>1. IsCreateJob(list[i])
    OBVIOUS
  <2> DEFINE j == list[i]
             x == [j EXCEPT !.mine = FALSE]
  <2> HIDE DEF j
  <2>2. DOMAIN j = {"tag", "mine", "name", "look"}
    BY <2>1 DEF IsCreateJob, j
  <2>3. DOMAIN x = {"tag", "mine", "name", "look"} /\ x.tag = j.tag /\ x.name = j.name /\ x.look = j.look /\ x.mine = FALSE
    BY <2>2
  <2>4. x = [f \in DOMAIN x |-> x[f]]
    OBVIOUS
  <2> HIDE DEF x
  <2>5. x = [tag |-> x.tag, mine |-> x.mine, name |-> x.name, look |-> x.look]
    BY <2>3, <2>4
  <2>6. IsCreateJob(x) /\ ~x.mine
    BY <2>1, <2>3, <2>5 DEF IsCreateJob, j
  <2>7. QED
    BY <2>6 DEF x, j
<1>4. s \in Seq(Range(s))
  <2> HIDE DEF s
  <2>1. \A i \in 1..Len(list) : s[i] \in Range(s)
    BY <1>2 DEF Range
  <2>2. s = [i \in 1..Len(list) |-> s[i]]
    BY <1>1 DEF s
  <2>3. QED
    BY <1>1, <2>1, <2>2
<1>5. QED
  BY <1>2, <1>3, <1>4

LEMMA TagAnswered ==
  ASSUME TagInv, NEW success \in BOOLEAN, Tag!OnTagCreated(success)
  PROVE  TagInv'
<1> DEFINE job == Head(creating)
           rest == Tail(creating)
           said == [name |-> job.name, look |-> job.look]
           n == Len(creating)
           k == Len(tagServer)
<1>1. /\ creating # << >>
      /\ tagServer' = IF success THEN Append(tagServer, job.tag) ELSE tagServer
      /\ tagMeant' = IF success THEN Append(tagMeant, said) ELSE tagMeant
  BY DEF Tag!OnTagCreated
<1>2. /\ job.mine => /\ tagDialog' = << >> /\ creating' = Tag!Forsaken(rest)
                     /\ tagGiven' = IF success THEN <<[label |-> tagDialog[1].label, tag |-> job.tag,
                                                    pressed |-> tagDialog[1].pressed]>> ELSE << >>
      /\ ~job.mine => creating' = rest /\ UNCHANGED <<tagDialog, tagGiven>>
  BY DEF Tag!OnTagCreated
<1>3. /\ creating \in Seq(Range(creating)) /\ n \in Nat \ {0} /\ DOMAIN creating = 1..n /\ job = creating[1]
      /\ 1 \in DOMAIN creating
      /\ rest \in Seq(Range(creating)) /\ DOMAIN rest = 1..(n - 1) /\ \A i \in 1..(n - 1) : rest[i] = creating[i + 1]
  <2>1. creating \in Seq(Range(creating)) /\ creating # << >>
    BY <1>1 DEF TagInv
  <2>2. n \in Nat \ {0} /\ DOMAIN creating = 1..n
    BY <2>1
  <2>3. QED
    BY <2>1, <2>2
<1>4. IsCreateJob(job) /\ Awaited(job)
  BY <1>3 DEF TagInv
<1> HIDE DEF job, rest, n, k
<1>5. rest \in Seq(Range(rest))
  <2>1. \A i \in 1..(n - 1) : rest[i] \in Range(rest)
    BY <1>3 DEF Range
  <2>2. Len(rest) = n - 1 /\ rest = [i \in 1..(n - 1) |-> rest[i]] /\ n - 1 \in Nat
    BY <1>3
  <2>3. QED
    BY <2>1, <2>2
<1>6. ASSUME NEW i \in DOMAIN rest PROVE IsCreateJob(rest[i]) /\ Awaited(rest[i])
  <2>1. rest[i] = creating[i + 1] /\ i + 1 \in DOMAIN creating
    BY <1>3
  <2>2. QED
    BY <2>1 DEF TagInv
<1>7. /\ DOMAIN tagServer' = 1..Len(tagServer') /\ Len(tagServer') \in Nat
      /\ tagServer' \in Seq(Range(tagServer')) /\ tagMeant' \in Seq(Range(tagMeant')) /\ Len(tagMeant') = Len(tagServer')
      /\ \A i \in DOMAIN tagServer' : /\ Says(tagServer'[i], tagMeant'[i].name, tagMeant'[i].look)
                                      /\ tagMeant'[i] = [name |-> tagMeant'[i].name, look |-> tagMeant'[i].look]
  <2>1. CASE ~success
    BY <1>1, <2>1 DEF TagInv
  <2>2. CASE success
    <3>1. k \in Nat /\ DOMAIN tagServer = 1..k /\ Len(tagMeant) = k /\ tagServer \in Seq(Range(tagServer))
          /\ tagMeant \in Seq(Range(tagMeant))
      BY DEF TagInv, k
    <3>2. /\ tagServer' = Append(tagServer, job.tag) /\ tagServer' \in Seq(Range(tagServer) \cup {job.tag})
          /\ Len(tagServer') = k + 1 /\ DOMAIN tagServer' = 1..(k + 1)
          /\ tagServer'[k + 1] = job.tag /\ \A i \in 1..k : tagServer'[i] = tagServer[i]
      <4>1. tagServer \in Seq(Range(tagServer) \cup {job.tag}) /\ Len(tagServer) = k
        BY <3>1 DEF k
      <4>2. QED
        BY <1>1, <2>2, <3>1, <4>1
    <3>3. /\ tagMeant' = Append(tagMeant, said) /\ tagMeant' \in Seq(Range(tagMeant) \cup {said})
          /\ Len(tagMeant') = k + 1 /\ DOMAIN tagMeant' = 1..(k + 1)
          /\ tagMeant'[k + 1] = said /\ \A i \in 1..k : tagMeant'[i] = tagMeant[i]
      <4>1. tagMeant \in Seq(Range(tagMeant) \cup {said})
        BY <3>1
      <4> HIDE DEF said
      <4>2. QED
        BY <1>1, <2>2, <3>1, <4>1
    <3>4. tagServer' \in Seq(Range(tagServer')) /\ tagMeant' \in Seq(Range(tagMeant'))
      BY <3>2, <3>3, OfItsElements
    <3>5. ASSUME NEW i \in DOMAIN tagServer'
          PROVE  /\ Says(tagServer'[i], tagMeant'[i].name, tagMeant'[i].look)
                 /\ tagMeant'[i] = [name |-> tagMeant'[i].name, look |-> tagMeant'[i].look]
      <4>1. CASE i = k + 1
        <5>1. said.name = job.name /\ said.look = job.look /\ said = [name |-> said.name, look |-> said.look]
          OBVIOUS
        <5> HIDE DEF said
        <5>2. QED
          BY <1>4, <3>2, <3>3, <4>1, <5>1 DEF IsCreateJob
      <4>2. CASE i \in 1..k
        BY <3>1, <3>2, <3>3, <4>2 DEF TagInv
      <4>3. QED
        BY <3>1, <3>2, <4>1, <4>2
    <3>6. QED
      BY <3>1, <3>2, <3>3, <3>4, <3>5
  <2>3. QED
    BY <2>1, <2>2
<1>8. CASE job.mine
  <2>1. /\ creating' \in Seq(Range(creating'))
        /\ \A i \in DOMAIN creating' : (IsCreateJob(creating[i]) /\ Awaited(creating[i]))'
    BY <1>2, <1>5, <1>6, <1>8, JobsForsaken DEF Awaited, IsCreateJob
  <2>2. tagGiven' # << >> => tagGiven'[1].label = tagGiven'[1].tag.name \/ tagGiven'[1].pressed > 1
    <3>1. CASE ~success
      BY <1>2, <1>8, <3>1
    <3>2. CASE success
      <4>1. /\ tagGiven'[1].label = tagDialog[1].label /\ tagGiven'[1].tag = job.tag
            /\ tagGiven'[1].pressed = tagDialog[1].pressed
        BY <1>2, <1>8, <3>2
      <4>2. QED
        BY <1>4, <1>8, <4>1 DEF Awaited
    <3>3. QED
      BY <3>1, <3>2
  <2>3. QED
    BY <1>2, <1>7, <1>8, <2>1, <2>2 DEF TagInv
<1>9. CASE ~job.mine
  <2>1. \A i \in DOMAIN creating' : (IsCreateJob(creating[i]) /\ Awaited(creating[i]))'
    BY <1>2, <1>6, <1>9 DEF Awaited, IsCreateJob
  <2>2. /\ tagDialog' # << >> => tagDialog' = <<tagDialog'[1]>> /\ IsTagDialog(tagDialog'[1])
        /\ tagGiven' # << >> => tagGiven'[1].label = tagGiven'[1].tag.name \/ tagGiven'[1].pressed > 1
    BY <1>2, <1>9 DEF TagInv
  <2>3. QED
    BY <1>2, <1>5, <1>7, <1>9, <2>1, <2>2 DEF TagInv
<1>10. QED
  BY <1>4, <1>8, <1>9 DEF IsCreateJob

LEMMA TagEdited ==
  ASSUME TagInv, NEW i \in DOMAIN tagServer, NEW form \in TagForms, NEW changed \in BOOLEAN,
         Tag!Edit(i, changed, form)
  PROVE  TagInv'
<1> DEFINE tag == Tag!FromAkonadi(tagServer[i])
           left == IF changed THEN form ELSE Tag!SetTag(tag)
           new == Tag!SaveToAkonadi(Tag!RecordTagSettings(tag, left))
           look == Tag!Look(form)
           k == Len(tagServer)
<1>1. /\ tagServer' = [tagServer EXCEPT ![i] = new]
      /\ tagMeant' = IF changed THEN [tagMeant EXCEPT ![i].look = look] ELSE tagMeant
      /\ UNCHANGED <<creating, tagDialog, tagGiven>>
  BY DEF Tag!Edit
<1>2. Says(tagServer[i], tagMeant[i].name, tagMeant[i].look)
      /\ tagMeant[i] = [name |-> tagMeant[i].name, look |-> tagMeant[i].look]
  BY DEF TagInv
<1>3. IsTag(tag) /\ Tag!IsForm(left)
  <2>1. Tag!IsForm(Tag!SetTag(tag)) /\ IsTag(tag)
    BY <1>2, ShownIsForm DEF Says
  <2>2. QED
    BY <2>1, TagsAssumption
<1> HIDE DEF tag, left
<1>4. Says(new, tag.name, Tag!Look(left))
  BY <1>3, TagShown
<1>5. tag.name = tagMeant[i].name /\ (~changed => Tag!Look(left) = tagMeant[i].look)
  BY <1>2 DEF Says, tag, left
<1>6. changed => Tag!Look(left) = look
  BY DEF left
<1> HIDE DEF new, look
<1>7. /\ k \in Nat /\ DOMAIN tagServer = 1..k /\ tagServer \in Seq(Range(tagServer)) /\ i \in 1..k
      /\ tagMeant \in Seq(Range(tagMeant)) /\ Len(tagMeant) = k /\ DOMAIN tagMeant = 1..k
  BY DEF TagInv
<1>8. /\ DOMAIN tagServer' = 1..k /\ Len(tagServer') = k /\ tagServer'[i] = new
      /\ \A j \in 1..k : j # i => tagServer'[j] = tagServer[j]
      /\ tagServer' \in Seq(Range(tagServer'))
  <2>1. DOMAIN tagServer' = 1..k /\ tagServer'[i] = new /\ \A j \in 1..k : j # i => tagServer'[j] = tagServer[j]
    BY <1>1, <1>7
  <2>2. tagServer' \in Seq(Range(tagServer) \cup {new})
    <3>1. tagServer \in Seq(Range(tagServer) \cup {new})
      BY <1>7
    <3>2. QED
      BY <1>1, <1>7, <3>1
  <2>3. Len(tagServer') = k /\ tagServer' \in Seq(Range(tagServer'))
    <3>1. Len(tagServer') = k
      BY <1>7, <2>1, <2>2
    <3>2. \A j \in 1..k : tagServer'[j] \in Range(tagServer')
      BY <2>1 DEF Range
    <3>3. tagServer' = [j \in 1..k |-> tagServer'[j]]
      BY <2>1, <2>2, <3>1
    <3>4. QED
      BY <1>7, <3>1, <3>2, <3>3
  <2>4. QED
    BY <2>1, <2>3
<1> DEFINE m == tagMeant[i]
           said == IF changed THEN [m EXCEPT !.look = look] ELSE m
<1>9. /\ said = [name |-> said.name, look |-> said.look] /\ said.name = tag.name /\ said.look = Tag!Look(left)
  <2>1. m = [name |-> m.name, look |-> m.look]
    BY <1>2
  <2>2. m.name = tag.name
    BY <1>5
  <2>3. ~changed => m.look = Tag!Look(left)
    BY <1>5
  <2> HIDE DEF m
  <2>4. CASE ~changed
    BY <2>1, <2>2, <2>3, <2>4
  <2>5. CASE changed
    <3> DEFINE x == [m EXCEPT !.look = look]
    <3>1. DOMAIN m = {"name", "look"}
      BY <2>1
    <3>2. DOMAIN x = {"name", "look"} /\ x.name = m.name /\ x.look = look /\ x = [f \in DOMAIN x |-> x[f]]
      BY <3>1
    <3> HIDE DEF x
    <3>3. x = [name |-> x.name, look |-> x.look]
      BY <3>2
    <3>4. said = x
      BY <2>5 DEF x
    <3>5. QED
      BY <1>6, <2>2, <2>5, <3>2, <3>3, <3>4
  <2>6. QED
    BY <2>4, <2>5
<1>10. /\ DOMAIN tagMeant' = 1..k /\ Len(tagMeant') = k /\ tagMeant'[i] = said
       /\ \A j \in 1..k : j # i => tagMeant'[j] = tagMeant[j]
       /\ tagMeant' \in Seq(Range(tagMeant'))
  <2>1. CASE ~changed
    BY <1>1, <1>7, <2>1
  <2>2. CASE changed
    <3>1. tagMeant' = [tagMeant EXCEPT ![i] = said]
      BY <1>1, <1>7, <2>2
    <3> HIDE DEF said
    <3>2. DOMAIN tagMeant' = 1..k /\ tagMeant'[i] = said /\ \A j \in 1..k : j # i => tagMeant'[j] = tagMeant[j]
      BY <1>7, <3>1
    <3>3. tagMeant \in Seq(Range(tagMeant) \cup {said})
      BY <1>7
    <3>4. tagMeant' \in Seq(Range(tagMeant) \cup {said})
      BY <1>7, <3>1, <3>3
    <3>5. Len(tagMeant') = k /\ tagMeant' \in Seq(Range(tagMeant'))
      <4>1. Len(tagMeant') = k
        BY <1>7, <3>2, <3>4
      <4>2. \A j \in 1..k : tagMeant'[j] \in Range(tagMeant')
        BY <3>2 DEF Range
      <4>3. tagMeant' = [j \in 1..k |-> tagMeant'[j]]
        BY <3>2, <3>4, <4>1
      <4>4. QED
        BY <1>7, <4>1, <4>2, <4>3
    <3>6. QED
      BY <3>2, <3>5
  <2>3. QED
    BY <2>1, <2>2
<1> HIDE DEF m, said
<1>11. ASSUME NEW j \in DOMAIN tagServer'
       PROVE  /\ Says(tagServer'[j], tagMeant'[j].name, tagMeant'[j].look)
              /\ tagMeant'[j] = [name |-> tagMeant'[j].name, look |-> tagMeant'[j].look]
  <2>1. CASE j = i
    BY <1>4, <1>7, <1>8, <1>9, <1>10, <2>1
  <2>2. CASE j # i
    BY <1>7, <1>8, <1>10, <2>2 DEF TagInv
  <2>3. QED
    BY <2>1, <2>2
<1>12. \A j \in DOMAIN creating' : (IsCreateJob(creating[j]) /\ Awaited(creating[j]))'
  BY <1>1 DEF TagInv, Awaited, IsCreateJob
<1>13. creating' \in Seq(Range(creating'))
  BY <1>1 DEF TagInv
<1>14. /\ tagDialog' # << >> => tagDialog' = <<tagDialog'[1]>> /\ IsTagDialog(tagDialog'[1])
       /\ tagGiven' # << >> => tagGiven'[1].label = tagGiven'[1].tag.name \/ tagGiven'[1].pressed > 1
  BY <1>1 DEF TagInv
<1>15. QED
  BY <1>7, <1>8, <1>10, <1>11, <1>12, <1>13, <1>14 DEF TagInv

LEMMA TagStep ==
  ASSUME TagInv, [Tag!Next]_Tag!vars
  PROVE  TagInv'
<1>1. CASE UNCHANGED Tag!vars
  BY <1>1 DEF Tag!vars, TagInv, Awaited, IsCreateJob, IsTagDialog
<1>2. CASE Tag!Open
  <2>1. PICK tags \in {<< >>, tagServer} :
          tagDialog' = <<[tags |-> tags, name |-> "", form |-> Tag!EmptyForm, ok |-> FALSE, label |-> "", pressed |-> 0]>>
    BY <1>2 DEF Tag!Open
  <2>2. Tag!IsForm(Tag!EmptyForm)
    BY TagsAssumption DEF Tag!IsForm, Tag!EmptyForm
  <2>3. tagDialog' = <<tagDialog'[1]>> /\ IsTagDialog(tagDialog'[1])
    BY <2>1, <2>2 DEF IsTagDialog
  <2>4. tagDialog = << >> /\ tagGiven' = << >> /\ UNCHANGED <<tagServer, creating, tagMeant>>
    BY <1>2 DEF Tag!Open
  <2>5. \A i \in DOMAIN creating' : (IsCreateJob(creating[i]) /\ Awaited(creating[i]))'
    BY <2>4 DEF TagInv, Awaited, IsCreateJob
  <2>6. QED
    BY <2>3, <2>4, <2>5 DEF TagInv
<1>3. CASE Tag!SlotSave
  BY <1>3, TagSaved
<1>4. CASE Tag!Reject
  <2>1. tagDialog' = << >> /\ creating' = Tag!Forsaken(creating) /\ UNCHANGED <<tagServer, tagGiven, tagMeant>>
    BY <1>4 DEF Tag!Reject
  <2>2. /\ creating' \in Seq(Range(creating'))
        /\ \A i \in DOMAIN creating' : (IsCreateJob(creating[i]) /\ Awaited(creating[i]))'
    BY <2>1, JobsForsaken DEF Awaited, IsCreateJob, TagInv
  <2>3. QED
    BY <2>1, <2>2 DEF TagInv
<1>5. ASSUME NEW t \in TagNames, Tag!SlotTagNameChanged(t) PROVE TagInv'
  <2> DEFINE d == tagDialog[1]
             ok == t \notin BlankNames
             e == [tags |-> d.tags, name |-> t, form |-> d.form, ok |-> ok, label |-> d.label, pressed |-> d.pressed]
  <2>1. /\ tagDialog # << >> /\ tagDialog' = [tagDialog EXCEPT ![1].name = t, ![1].ok = ok]
        /\ UNCHANGED <<tagServer, tagMeant, creating, tagGiven>>
    BY <1>5 DEF Tag!SlotTagNameChanged
  <2>2. tagDialog = <<d>> /\ IsTagDialog(d)
    BY <2>1 DEF TagInv
  <2>3. [d EXCEPT !.name = t, !.ok = ok] = e
    <3> DEFINE x == [d EXCEPT !.name = t, !.ok = ok]
    <3> HIDE DEF d, ok, e
    <3>1. DOMAIN d = {"tags", "name", "form", "ok", "label", "pressed"}
      BY <2>2 DEF IsTagDialog
    <3>2. DOMAIN x = {"tags", "name", "form", "ok", "label", "pressed"}
      BY <3>1
    <3>3. x.tags = d.tags /\ x.form = d.form /\ x.label = d.label /\ x.pressed = d.pressed
      BY <3>1
    <3>4. x.name = t
      BY <3>1
    <3>5. x.ok = ok
      BY <3>1
    <3>6. x = [f \in DOMAIN x |-> x[f]]
      OBVIOUS
    <3> HIDE DEF x
    <3>7. x = e
      BY <3>2, <3>3, <3>4, <3>5, <3>6 DEF e
    <3>8. QED
      BY <3>7 DEF x
  <2>4. tagDialog' = <<[d EXCEPT !.name = t, !.ok = ok]>>
    <3> HIDE DEF d, ok
    <3>1. QED
      BY <2>1, <2>2
  <2>5. IsTagDialog(e)
    <3> HIDE DEF d, ok
    <3>1. QED
      BY <2>2 DEF IsTagDialog
  <2> HIDE DEF ok
  <2>6. tagDialog' = <<e>> /\ e.label = tagDialog[1].label /\ e.pressed = tagDialog[1].pressed
    BY <2>3, <2>4
  <2> HIDE DEF e
  <2>7. QED
    BY <2>1, <2>5, <2>6, DialogChanged
<1>6. ASSUME NEW f \in TagForms, Tag!ChangeForm(f) PROVE TagInv'
  <2> DEFINE d == tagDialog[1]
             e == [tags |-> d.tags, name |-> d.name, form |-> f, ok |-> d.ok, label |-> d.label, pressed |-> d.pressed]
  <2>1. /\ tagDialog # << >> /\ tagDialog' = [tagDialog EXCEPT ![1].form = f]
        /\ UNCHANGED <<tagServer, tagMeant, creating, tagGiven>>
    BY <1>6 DEF Tag!ChangeForm
  <2>2. tagDialog = <<d>> /\ IsTagDialog(d)
    BY <2>1 DEF TagInv
  <2>3. [d EXCEPT !.form = f] = e
    <3> HIDE DEF d
    <3>1. d = [tags |-> d.tags, name |-> d.name, form |-> d.form, ok |-> d.ok, label |-> d.label, pressed |-> d.pressed]
      BY <2>2 DEF IsTagDialog
    <3>2. QED
      BY <3>1
  <2>4. tagDialog' = <<[d EXCEPT !.form = f]>>
    <3> HIDE DEF d
    <3>1. QED
      BY <2>1, <2>2
  <2>5. IsTagDialog(e)
    <3>1. Tag!IsForm(f)
      BY TagsAssumption
    <3> HIDE DEF d
    <3>2. QED
      BY <2>2, <3>1 DEF IsTagDialog
  <2>6. tagDialog' = <<e>> /\ e.label = tagDialog[1].label /\ e.pressed = tagDialog[1].pressed
    BY <2>3, <2>4
  <2> HIDE DEF e
  <2>7. QED
    BY <2>1, <2>5, <2>6, DialogChanged
<1>7. ASSUME NEW success \in BOOLEAN, Tag!OnTagCreated(success) PROVE TagInv'
  BY <1>7, TagAnswered
<1>8. ASSUME NEW i \in DOMAIN tagServer, NEW f \in TagForms, NEW changed \in BOOLEAN, Tag!Edit(i, changed, f)
      PROVE  TagInv'
  BY <1>8, TagEdited
<1>9. QED
  BY <1>1, <1>2, <1>3, <1>4, <1>5, <1>6, <1>7, <1>8 DEF Tag!Next

(* Whatever is entered for a tag is what is shown of it when it is read    *)
(* again, however often the dialog asks Akonadi for one (Tag, TagWidget,   *)
(* AddTagDialog).                                                          *)
THEOREM TagAlwaysAsEntered == Spec => [](part = "tags" => Tag!TagAsEntered)
<1>1. Tag!Init => TagInv
  <2> SUFFICES ASSUME Tag!Init PROVE TagInv
    OBVIOUS
  <2>1. Range(<< >>) = {} /\ << >> \in Seq({}) /\ Len(<< >>) = 0 /\ DOMAIN << >> = 1..0
    BY DEF Range
  <2>2. QED
    BY <2>1 DEF Tag!Init, TagInv
<1>2. TagInv => Tag!TagAsEntered
  <2> SUFFICES ASSUME TagInv PROVE Tag!TagAsEntered
    OBVIOUS
  <2>1. ASSUME NEW i \in DOMAIN tagServer
        PROVE  [name |-> Tag!FromAkonadi(tagServer[i]).name,
                look |-> Tag!Look(Tag!SetTag(Tag!FromAkonadi(tagServer[i])))] = tagMeant[i]
    BY DEF TagInv, Says
  <2>2. QED
    BY <2>1 DEF TagInv, Tag!TagAsEntered
<1>3. Init => (part = "tags" => TagInv)
  BY <1>1, OneBegins
<1>4. (part = "tags" => TagInv) /\ [Next]_vars => (part = "tags" => TagInv)'
  BY OneMoves, TagStep
<1>5. (part = "tags" => TagInv) => (part = "tags" => Tag!TagAsEntered)
  BY <1>2
<1>6. QED
  BY <1>3, <1>4, <1>5, PTL DEF Spec

-----------------------------------------------------------------------------
(* The filter manager's tags.  A set of tags is one of those there are.    *)
AllOfThem == Act!ToSet(AllTags)

(* What the manager does not know of a tag of the server it has yet to be  *)
(* told: the tag is in the answer, or the last report about it adds it.    *)
Heard(t) == t \in tagList \/ (snapshot # Nothing /\ t \in snapshot)
LastAdds(t, i) == events[i].tag = t /\ events[i].added /\ \A j \in DOMAIN events : j > i => events[j].tag # t
Known(t) ==
  \/ \E i \in DOMAIN events : LastAdds(t, i)
  \/ (\A i \in DOMAIN events : events[i].tag # t) /\ Heard(t)

ListInv ==
  /\ server \subseteq AllOfThem /\ tagList \subseteq AllOfThem
  /\ snapshot # Nothing => snapshot \subseteq AllOfThem
  /\ events \in Seq([added : BOOLEAN, tag : AllOfThem])
  /\ \A t \in server : Known(t)

LEMMA ServerChanged ==
  ASSUME ListInv, Act!ServerChanges
  PROVE  ListInv'
<1>1. PICK t \in AllOfThem :
        /\ server' = IF t \in server THEN server \ {t} ELSE server \cup {t}
        /\ events' = Append(events, [added |-> t \notin server, tag |-> t])
        /\ snapshot' \in IF Act!Pending THEN {snapshot, server'} ELSE {snapshot}
  BY DEF Act!ServerChanges, AllOfThem
<1>2. tagList' = tagList
  BY DEF Act!ServerChanges, Act!editVars
<1>0. PICK n \in Nat : n = Len(events)
  <2>1. events \in Seq([added : BOOLEAN, tag : AllOfThem])
    BY DEF ListInv
  <2>2. Len(events) \in Nat
    BY <2>1
  <2>3. QED
    BY <2>2
<1> DEFINE new == [added |-> t \notin server, tag |-> t]
<1>3. new \in [added : BOOLEAN, tag : AllOfThem] /\ new.tag = t /\ (t \notin server => new.added)
  OBVIOUS
<1>4. /\ events' \in Seq([added : BOOLEAN, tag : AllOfThem]) /\ n \in Nat /\ DOMAIN events = 1..n
      /\ DOMAIN events' = 1..(n + 1) /\ events'[n + 1] = new /\ \A i \in 1..n : events'[i] = events[i]
  <2> HIDE DEF new
  <2>1. events \in Seq([added : BOOLEAN, tag : AllOfThem])
    BY DEF ListInv
  <2>2. events' = Append(events, new)
    BY <1>1 DEF new
  <2>3. QED
    BY <1>0, <1>3, <2>1, <2>2
<1>5. server' \subseteq AllOfThem
  BY <1>1 DEF ListInv
<1>6. /\ server' # Nothing
      /\ snapshot' # Nothing => snapshot' \subseteq AllOfThem
      /\ snapshot' = snapshot \/ (snapshot # Nothing /\ snapshot' = server')
  BY <1>1, <1>5, ActionsAssumption DEF ListInv, AllOfThem, Act!Pending
<1> HIDE DEF new
<1>7. ASSUME NEW u \in server' PROVE Known(u)'
  <2>1. CASE u = t
    <3>1. t \notin server
      BY <1>1, <2>1
    <3>2. n + 1 \in DOMAIN events' /\ \A j \in DOMAIN events' : ~(j > n + 1)
      BY <1>4
    <3>3. events'[n + 1].tag = u /\ events'[n + 1].added
      BY <1>3, <1>4, <2>1, <3>1
    <3>4. LastAdds(u, n + 1)'
      BY <3>2, <3>3 DEF LastAdds
    <3>5. QED
      BY <3>2, <3>4 DEF Known
  <2>2. CASE u # t
    <3>1. Known(u)
      BY <1>1, <2>2 DEF ListInv
    <3>2. CASE \E i \in DOMAIN events : LastAdds(u, i)
      <4>1. PICK i \in 1..n : LastAdds(u, i)
        BY <1>4, <3>2
      <4>2. LastAdds(u, i)' /\ i \in DOMAIN events'
        BY <1>3, <1>4, <2>2, <4>1 DEF LastAdds
      <4>3. QED
        BY <4>2 DEF Known
    <3>3. CASE (\A i \in DOMAIN events : events[i].tag # u) /\ Heard(u)
      <4>1. \A i \in DOMAIN events' : events'[i].tag # u
        BY <1>3, <1>4, <2>2, <3>3
      <4>2. Heard(u)'
        BY <1>2, <1>6, <3>3 DEF Heard
      <4>3. QED
        BY <4>1, <4>2 DEF Known
    <3>4. QED
      BY <3>1, <3>2, <3>3 DEF Known
  <2>3. QED
    BY <2>1, <2>2
<1>8. QED
  BY <1>2, <1>4, <1>5, <1>6, <1>7 DEF ListInv

LEMMA TagsListed ==
  ASSUME ListInv, Act!TagsAnswered
  PROVE  ListInv'
<1>1. /\ snapshot # Nothing /\ snapshot' = Nothing /\ tagList' = tagList \cup snapshot
      /\ server' = server /\ events' = events
  BY DEF Act!TagsAnswered, Act!Pending, Act!Merged
<1>2. ASSUME NEW t \in server PROVE Known(t)'
  <2>1. Known(t)
    BY DEF ListInv
  <2>2. CASE \E i \in DOMAIN events : LastAdds(t, i)
    BY <1>1, <2>2 DEF Known, LastAdds
  <2>3. CASE (\A i \in DOMAIN events : events[i].tag # t) /\ Heard(t)
    BY <1>1, <2>3 DEF Known, Heard
  <2>4. QED
    BY <2>1, <2>2, <2>3 DEF Known
<1>3. QED
  BY <1>1, <1>2 DEF ListInv

LEMMA TagHeard ==
  ASSUME ListInv, Act!TagReported
  PROVE  ListInv'
<1> DEFINE n == Len(events)
           e == Head(events)
<1>1. /\ events # << >> /\ events' = Tail(events) /\ server' = server /\ snapshot' = snapshot
      /\ tagList' = IF e.added THEN tagList \cup {e.tag} ELSE tagList \ {e.tag}
  BY DEF Act!TagReported
<1>2. /\ events' \in Seq([added : BOOLEAN, tag : AllOfThem]) /\ n \in Nat \ {0} /\ DOMAIN events = 1..n
      /\ e = events[1] /\ e \in [added : BOOLEAN, tag : AllOfThem]
      /\ DOMAIN events' = 1..(n - 1) /\ \A i \in 1..(n - 1) : events'[i] = events[i + 1]
  <2> DEFINE Reports == [added : BOOLEAN, tag : AllOfThem]
  <2>1. events \in Seq(Reports)
    BY DEF ListInv
  <2> HIDE DEF Reports
  <2>2. n \in Nat \ {0} /\ DOMAIN events = 1..n
    BY <1>1, <2>1
  <2>3. events' \in Seq(Reports) /\ Len(events') = n - 1 /\ \A i \in 1..(n - 1) : events'[i] = events[i + 1]
    BY <1>1, <2>1, <2>2
  <2>4. DOMAIN events' = 1..(n - 1)
    BY <2>3
  <2>5. e = events[1] /\ e \in Reports
    BY <2>1, <2>2
  <2>6. QED
    BY <2>2, <2>3, <2>4, <2>5 DEF Reports
<1> HIDE DEF e, n
<1>3. ASSUME NEW t \in server PROVE Known(t)'
  <2>1. Known(t)
    BY DEF ListInv
  <2>2. CASE \E i \in DOMAIN events : LastAdds(t, i)
    <3>1. PICK i \in 1..n : LastAdds(t, i)
      BY <1>2, <2>2
    <3>2. CASE i = 1
      <4>1. e.tag = t /\ e.added /\ \A j \in 1..n : j > 1 => events[j].tag # t
        BY <1>2, <3>1, <3>2 DEF LastAdds
      <4>2. \A j \in 1..(n - 1) : events'[j].tag # t
        <5>1. ASSUME NEW j \in 1..(n - 1) PROVE events'[j].tag # t
          <6>1. j + 1 \in 1..n /\ j + 1 > 1
            BY <1>2
          <6>2. QED
            BY <1>2, <4>1, <6>1
        <5>2. QED
          BY <5>1
      <4>3. t \in tagList'
        BY <1>1, <4>1
      <4>4. QED
        BY <1>2, <4>2, <4>3 DEF Known, Heard
    <3>3. CASE i # 1
      <4>1. i - 1 \in 1..(n - 1) /\ (i - 1) + 1 = i
        BY <1>2, <3>3
      <4>2. events'[i - 1] = events[i]
        BY <1>2, <4>1
      <4>3. ASSUME NEW j \in 1..(n - 1), j > i - 1 PROVE events'[j].tag # t
        <5>1. j + 1 \in 1..n /\ j + 1 > i
          BY <1>2, <4>3
        <5>2. QED
          BY <1>2, <3>1, <5>1 DEF LastAdds
      <4>4. LastAdds(t, i - 1)'
        BY <1>2, <3>1, <4>2, <4>3 DEF LastAdds
      <4>5. QED
        BY <1>2, <4>1, <4>4 DEF Known
    <3>4. QED
      BY <3>2, <3>3
  <2>3. CASE (\A i \in DOMAIN events : events[i].tag # t) /\ Heard(t)
    <3>1. e.tag # t /\ \A j \in 1..(n - 1) : events'[j].tag # t
      <4>1. \A j \in 1..(n - 1) : j + 1 \in 1..n
        BY <1>2
      <4>2. QED
        BY <1>2, <2>3, <4>1
    <3>2. Heard(t)'
      BY <1>1, <2>3, <3>1 DEF Heard
    <3>3. QED
      BY <1>2, <3>1, <3>2 DEF Known
  <2>4. QED
    BY <2>1, <2>2, <2>3 DEF Known
<1>4. tagList' \subseteq AllOfThem
  BY <1>1, <1>2 DEF ListInv
<1>5. QED
  BY <1>1, <1>2, <1>3, <1>4 DEF ListInv

LEMMA ListStep ==
  ASSUME ListInv, [Act!Next]_Act!vars
  PROVE  ListInv'
<1>1. CASE UNCHANGED Act!tagVars
  BY <1>1 DEF Act!tagVars, ListInv, Known, LastAdds, Heard
<1>2. CASE Act!ServerChanges \/ Act!TagsAnswered \/ Act!TagReported
  BY <1>2, ServerChanged, TagsListed, TagHeard
<1>3. QED
  BY <1>1, <1>2 DEF Act!Next, Act!vars, Act!Edit, Act!Choose

LEMMA ListBegins ==
  ASSUME Act!Init
  PROVE  ListInv
<1>1. server \subseteq AllOfThem /\ snapshot = server /\ events = << >> /\ tagList = {}
  BY DEF Act!Init, AllOfThem
<1>2. server # Nothing
  BY <1>1, ActionsAssumption DEF AllOfThem
<1>3. \A t \in server : Known(t)
  BY <1>1, <1>2 DEF Known, Heard
<1>4. QED
  BY <1>1, <1>3 DEF ListInv

(* When nothing is under way the filter manager knows every tag of the     *)
(* server, whatever was reported before the answer came (FilterManager).   *)
THEOREM NoTagIsEverMissed == Spec => [](part = "action" => Act!NoTagIsMissed)
<1>1. Act!Init => ListInv
  BY ListBegins
<1>2. ListInv => Act!NoTagIsMissed
  BY DEF ListInv, Known, Heard, Act!NoTagIsMissed, Act!Pending
<1>3. Init => (part = "action" => ListInv)
  BY <1>1, OneBegins
<1>4. (part = "action" => ListInv) /\ [Next]_vars => (part = "action" => ListInv)'
  BY OneMoves, ListStep
<1>5. (part = "action" => ListInv) => (part = "action" => Act!NoTagIsMissed)
  BY <1>2
<1>6. QED
  BY <1>3, <1>4, <1>5, PTL DEF Spec

-----------------------------------------------------------------------------
(* One action of a filter.  Texts that are joined.                         *)
LEMMA OneWordMore ==
  /\ \A v, w : <<v>> \o <<w>> = <<v, w>>
  /\ \A v, w, x : <<v, w>> \o <<x>> = <<v, w, x>>
<1>1. ASSUME NEW v, NEW w PROVE <<v>> \o <<w>> = <<v, w>>
  <2> DEFINE s == <<v>>
             t == <<w>>
             j == s \o t
             W == {v, w}
  <2>1. s \in Seq(W) /\ t \in Seq(W) /\ Len(s) = 1 /\ Len(t) = 1 /\ s[1] = v /\ t[1] = w
    OBVIOUS
  <2> HIDE DEF s, t, W
  <2>2. j \in Seq(W) /\ Len(j) = 2 /\ j[1] = v /\ j[2] = w
    <3>1. j \in Seq(W) /\ Len(j) = 2 /\ \A i \in 1..2 : j[i] = IF i <= 1 THEN s[i] ELSE t[i - 1]
      BY <2>1, ConcatProperties
    <3> HIDE DEF j
    <3>2. j[1] = s[1] /\ j[2] = t[1]
      BY <3>1
    <3>3. QED
      BY <2>1, <3>1, <3>2
  <2> HIDE DEF j
  <2>3. j = <<v, w>>
    BY <2>2
  <2>4. QED
    BY <2>3 DEF j, s, t
<1>2. ASSUME NEW v, NEW w, NEW x PROVE <<v, w>> \o <<x>> = <<v, w, x>>
  <2> DEFINE s == <<v, w>>
             t == <<x>>
             j == s \o t
             W == {v, w, x}
  <2>1. s \in Seq(W) /\ t \in Seq(W) /\ Len(s) = 2 /\ Len(t) = 1
    OBVIOUS
  <2>2. s[1] = v /\ s[2] = w /\ t[1] = x
    OBVIOUS
  <2> HIDE DEF s, t, W
  <2>3. j \in Seq(W) /\ Len(j) = 3 /\ \A i \in 1..3 : j[i] = IF i <= 2 THEN s[i] ELSE t[i - 2]
    BY <2>1, ConcatProperties
  <2> HIDE DEF j
  <2>4. j[1] = v /\ j[2] = w /\ j[3] = x
    <3>1. 1 \in 1..3 /\ 2 \in 1..3 /\ 3 \in 1..3 /\ 1 <= 2 /\ 2 <= 2 /\ ~(3 <= 2) /\ 3 - 2 = 1
      OBVIOUS
    <3>2. j[1] = s[1] /\ j[2] = s[2] /\ j[3] = t[1]
      BY <2>3, <3>1
    <3>3. QED
      BY <2>2, <3>2
  <2>5. j = <<v, w, x>>
    BY <2>3, <2>4
  <2>6. QED
    BY <2>5 DEF j, s, t
<1>3. QED
  BY <1>1, <1>2

LEMMA OneText ==
  ASSUME NEW t
  PROVE  Act!FlattenSeq(<<t>>) = t
<1> DEFINE s == <<t>>
           Right(f) == f = [i \in 1..Len(s) |-> IF i = 1 THEN s[i] ELSE f[i - 1] \o s[i]]
           f == CHOOSE g : Right(g)
<1>1. Len(s) = 1 /\ s[1] = t
  OBVIOUS
<1>2. Act!FlattenSeq(s) = f[1]
  BY <1>1 DEF Act!FlattenSeq
<1>3. Right([i \in 1..1 |-> t])
  BY <1>1
<1>4. Right(f)
  <2> HIDE DEF Right
  <2>1. QED
    BY <1>3
<1>5. f[1] = t
  <2> HIDE DEF f
  <2>1. QED
    BY <1>1, <1>4
<1>6. QED
  BY <1>2, <1>5

LEMMA TwoWords ==
  ASSUME NEW v, NEW w
  PROVE  Act!FlattenSeq(<<<<v>>, <<w>>>>) = <<v, w>>
<1> DEFINE s == <<<<v>>, <<w>>>>
           Right(f) == f = [i \in 1..Len(s) |-> IF i = 1 THEN s[i] ELSE f[i - 1] \o s[i]]
           f == CHOOSE g : Right(g)
           u == [i \in 1..2 |-> IF i = 1 THEN <<v>> ELSE <<v, w>>]
<1>1. Len(s) = 2 /\ s[1] = <<v>> /\ s[2] = <<w>>
  OBVIOUS
<1>2. Act!FlattenSeq(s) = f[2]
  BY <1>1 DEF Act!FlattenSeq
<1>3. <<v>> \o <<w>> = <<v, w>>
  BY OneWordMore
<1> HIDE DEF s
<1>4. Right(u)
  <2>1. u[1] = <<v>> /\ u[2] = <<v, w>>
    OBVIOUS
  <2>3. u = [i \in 1..2 |-> u[i]]
    OBVIOUS
  <2> HIDE DEF u
  <2>2. \A i \in 1..2 : u[i] = IF i = 1 THEN s[i] ELSE u[i - 1] \o s[i]
    <3>1. u[1] = s[1] /\ u[2] = u[1] \o s[2]
      BY <1>1, <1>3, <2>1
    <3>2. 2 - 1 = 1 /\ \A i \in 1..2 : i = 1 \/ i = 2
      OBVIOUS
    <3>3. QED
      BY <3>1, <3>2
  <2>4. QED
    BY <1>1, <2>2, <2>3
<1>5. Right(f)
  <2> HIDE DEF Right
  <2>1. QED
    BY <1>4
<1>6. f[1] = <<v>> /\ f[2] = f[1] \o <<w>>
  <2> HIDE DEF f
  <2>1. QED
    BY <1>1, <1>5
<1>7. QED
  BY <1>2, <1>3, <1>6 DEF s

LEMMA ThreeWords ==
  ASSUME NEW v, NEW w, NEW x
  PROVE  Act!FlattenSeq(<<<<v>>, <<w>>, <<x>>>>) = <<v, w, x>>
<1> DEFINE s == <<<<v>>, <<w>>, <<x>>>>
           Right(f) == f = [i \in 1..Len(s) |-> IF i = 1 THEN s[i] ELSE f[i - 1] \o s[i]]
           f == CHOOSE g : Right(g)
           u == [i \in 1..3 |-> IF i = 1 THEN <<v>> ELSE IF i = 2 THEN <<v, w>> ELSE <<v, w, x>>]
<1>1. Len(s) = 3 /\ s[1] = <<v>> /\ s[2] = <<w>> /\ s[3] = <<x>>
  OBVIOUS
<1>2. Act!FlattenSeq(s) = f[3]
  BY <1>1 DEF Act!FlattenSeq
<1>3. <<v>> \o <<w>> = <<v, w>> /\ <<v, w>> \o <<x>> = <<v, w, x>>
  BY OneWordMore
<1> HIDE DEF s
<1>4. Right(u)
  <2>1. u[1] = <<v>> /\ u[2] = <<v, w>> /\ u[3] = <<v, w, x>>
    OBVIOUS
  <2>3. u = [i \in 1..3 |-> u[i]]
    OBVIOUS
  <2> HIDE DEF u
  <2>2. \A i \in 1..3 : u[i] = IF i = 1 THEN s[i] ELSE u[i - 1] \o s[i]
    <3>1. u[1] = s[1] /\ u[2] = u[1] \o s[2] /\ u[3] = u[2] \o s[3]
      BY <1>1, <1>3, <2>1
    <3>2. 2 - 1 = 1 /\ 3 - 1 = 2 /\ \A i \in 1..3 : i = 1 \/ i = 2 \/ i = 3
      OBVIOUS
    <3>3. QED
      BY <3>1, <3>2
  <2>4. QED
    BY <1>1, <2>2, <2>3
<1>5. Right(f)
  <2> HIDE DEF Right
  <2>1. QED
    BY <1>4
<1>6. f[1] = <<v>> /\ f[2] = f[1] \o <<w>> /\ f[3] = f[2] \o <<x>>
  <2> HIDE DEF f
  <2>1. \A i \in 1..3 : f[i] = IF i = 1 THEN s[i] ELSE f[i - 1] \o s[i]
    BY <1>1, <1>5
  <2>2. f[1] = s[1] /\ f[2] = f[1] \o s[2] /\ f[3] = f[2] \o s[3]
    <3>1. 2 - 1 = 1 /\ 3 - 1 = 2 /\ 1 \in 1..3 /\ 2 \in 1..3 /\ 3 \in 1..3 /\ 2 # 1 /\ 3 # 1
      OBVIOUS
    <3>2. f[1] = s[1]
      BY <2>1, <3>1
    <3>3. f[2] = f[2 - 1] \o s[2]
      BY <2>1, <3>1
    <3>4. f[3] = f[3 - 1] \o s[3]
      BY <2>1, <3>1
    <3>5. QED
      BY <3>1, <3>2, <3>3, <3>4
  <2>3. QED
    BY <1>1, <2>2
<1>7. QED
  BY <1>2, <1>3, <1>6 DEF s

(* The world as the filter manager sees it.                                *)
Sees(w) == w.keys = Existing.keys /\ w.books = Existing.books /\ w.identities = Existing.identities
           /\ w.transports = Existing.transports

LEMMA WorldNow ==
  /\ Sees(Act!Now) /\ Act!Now.tags = Act!Ordered(tagList)
  /\ Sees(Act!Here) /\ Act!Here.tags = listed
BY ActionsAssumption DEF Act!Now, Act!Here, Sees

(* A list of nothing is empty.                                             *)
LEMMA NoneKept ==
  ASSUME NEW S, NEW k \in Seq(S), \A i \in DOMAIN k : FALSE
  PROVE  k = << >>
<1>1. PICK n \in Nat : n = Len(k)
  OBVIOUS
<1>2. DOMAIN k = 1..n
  BY <1>1
<1>3. n = 0
  <2>1. CASE n # 0
    <3>1. 1 \in 1..n
      BY <2>1
    <3>2. QED
      BY <1>2, <3>1
  <2>2. QED
    BY <2>1
<1>4. k # << >> => Len(k) \in Nat \ {0}
  OBVIOUS
<1>5. QED
  BY <1>1, <1>3, <1>4

LEMMA TagsInOrder ==
  ASSUME NEW S, S \subseteq AllOfThem
  PROVE  /\ Act!Ordered(S) \in Seq(AllOfThem)
         /\ S = {} => Act!Ordered(S) = << >>
<1>1. Act!Ordered(S) = Keep(AllTags, S)
  BY DEF Act!Ordered, Act!Keep, Keep
<1>2. AllTags \in Seq(AllOfThem) /\ Range(AllTags) = AllOfThem
  BY ActionsAssumption DEF AllOfThem, Act!ToSet, Range
<1>3. Keep(AllTags, S) \in Seq(AllOfThem) /\ Range(Keep(AllTags, S)) = AllOfThem \cap S
  BY <1>2, RangeOfKeep
<1> DEFINE k == Keep(AllTags, S)
<1>4. ASSUME S = {} PROVE k = << >>
  <2>1. k \in Seq(AllOfThem) /\ \A i \in DOMAIN k : FALSE
    BY <1>3, <1>4 DEF Range
  <2> HIDE DEF k
  <2>2. QED
    BY <2>1, NoneKept
<1>5. QED
  BY <1>1, <1>3, <1>4

(* A tag is understood if it is among those an action knows, or none is.   *)
Understood(n, p, known) == Act!KindOf[n] = "tag" => known = << >> \/ \E i \in DOMAIN known : known[i].url = p[1]

Kinds == {"folder", "text", "sound", "status", "mdn", "tag", "identity", "transport", "pair", "triple", "book",
          "key", "none"}

LEMMA KindIsOne ==
  ASSUME NEW n \in ActionTypes
  PROVE  Act!KindOf[n] \in Kinds /\ (n = "remove header" => Act!KindOf[n] = "text")
<1>1. n \in Act!ActionNames
  BY ActionsAssumption
<1>2. QED
  BY <1>1 DEF Act!KindOf, Act!ActionNames, Kinds

(* A new action of some name.                                              *)
IsNew(b, n) == b = [name |-> n, param |-> Act!FirstParam[Act!KindOf[n]], known |-> b.known]

(* A parameter that was chosen is understood when its text is read.        *)
LEMMA ParameterRead ==
  ASSUME NEW n \in ActionTypes, NEW p, Act!IsChoice(n, p, Existing), NEW a, a.name = n, a.param = p,
         NEW w, Sees(w), NEW b, IsNew(b, n), Understood(n, p, b.known)
  PROVE  Act!ParamFromString(b, Act!ArgsAsString(a), w) = p
<1> DEFINE kind == Act!KindOf[n]
           args == Act!ArgsAsString(a)
           read == Act!ParamFromString(b, args, w)
<1> SUFFICES read = p
  OBVIOUS
<1>1. kind \in Kinds
  BY KindIsOne
<1>2. b.name = n /\ b.param = Act!FirstParam[kind]
  BY DEF IsNew
<1>3. Act!ParamKind(a) = kind /\ Act!ParamKind(b) = kind
  BY <1>2 DEF Act!ParamKind
<1>4. args = IF p = << >> \/ (kind = "key" /\ p[1] = Act!NoText) THEN Act!NoText ELSE Act!FlattenSeq(p)
  BY <1>3 DEF Act!ArgsAsString
<1>5. Act!NoText = <<"">>
  BY DEF Act!NoText
<1> HIDE DEF kind, args
<1>6. ASSUME NEW t, p = <<t>>, kind # "key" PROVE args = t
  BY <1>4, <1>6, OneText
<1>7. ASSUME NEW t, NEW u, p = <<<<t>>, <<u>>>>, p[1] # Act!NoText \/ kind # "key" PROVE args = <<t, u>>
  BY <1>4, <1>7, TwoWords
<1>8. ASSUME NEW t, NEW u, NEW v, p = <<<<t>>, <<u>>, <<v>>>>, kind # "key" PROVE args = <<t, u, v>>
  BY <1>4, <1>8, ThreeWords
<1>9. CASE kind = "folder"
  <2>1. PICK t : p = <<t>> /\ (t = Act!NoText \/ Act!IsNumber(t))
    <3>1. p = <<Act!NoText>> \/ \E m \in NumberWords : p = <<<<m>>>>
      BY <1>9 DEF Act!IsChoice, kind
    <3>2. \A m \in NumberWords : Act!IsNumber(<<m>>)
      BY DEF Act!IsNumber
    <3>3. QED
      BY <3>1, <3>2
  <2>2. read = <<Act!FolderFromString(args)>> /\ args = t
    BY <1>3, <1>6, <1>9, <2>1 DEF Act!ParamFromString
  <2>3. QED
    BY <2>1, <2>2 DEF Act!FolderFromString
<1>10. CASE kind \in {"text", "sound"}
  <2>1. p = <<p[1]>>
    BY <1>10 DEF Act!IsChoice, kind
  <2>2. read = <<args>>
    BY <1>3, <1>10 DEF Act!ParamFromString
  <2>3. args = p[1]
    BY <1>6, <1>10, <2>1
  <2>4. QED
    BY <2>1, <2>2, <2>3
<1>11. CASE kind = "status"
  <2>1. PICK t : p = <<t>> /\ (t = Act!NoText \/ \E c \in StatusCodes : t = <<c>>)
    BY <1>11 DEF Act!IsChoice, kind
  <2>2. read = <<Act!StatusFromString(args)>> /\ args = t
    BY <1>3, <1>6, <1>11, <2>1 DEF Act!ParamFromString
  <2>3. ASSUME NEW c \in StatusCodes, t = <<c>> PROVE Len(t) = 1 /\ Act!Words(t) \subseteq StatusCodes
    BY <2>3 DEF Act!Words, Act!ToSet
  <2>4. Act!StatusFromString(t) = t
    BY <2>1, <2>3 DEF Act!StatusFromString
  <2>5. QED
    BY <2>1, <2>2, <2>4
<1>12. CASE kind = "mdn"
  <2>1. PICK t : p = <<t>> /\ (t = Act!NoText \/ \E c \in MdnCodes : t = <<c>>)
    BY <1>12 DEF Act!IsChoice, kind
  <2>2. read = <<Act!DispositionFromString(args)>> /\ args = t
    BY <1>3, <1>6, <1>12, <2>1 DEF Act!ParamFromString
  <2>3. ASSUME NEW c \in MdnCodes, t = <<c>> PROVE Len(t) = 1 /\ Act!Words(t) \subseteq MdnCodes
    BY <2>3 DEF Act!Words, Act!ToSet
  <2>4. Act!DispositionFromString(t) = t
    BY <2>1, <2>3 DEF Act!DispositionFromString
  <2>5. QED
    BY <2>1, <2>2, <2>4
<1>13. CASE kind \in {"identity", "transport"}
  <2>1. PICK m \in NumberWords : p = <<<<m>>>>
    BY <1>13 DEF Act!IsChoice, kind
  <2>2. Act!IsNumber(<<m>>)
    BY DEF Act!IsNumber
  <2>3. args = <<m>>
    BY <1>6, <1>13, <2>1
  <2>4. /\ kind = "identity" => read = <<Act!IdentityFromString(args)>>
        /\ kind = "transport" => read = <<Act!TransportFromString(args)>>
    BY <1>3 DEF Act!ParamFromString
  <2>5. QED
    BY <1>13, <2>1, <2>2, <2>3, <2>4 DEF Act!IdentityFromString, Act!TransportFromString
<1>14. CASE kind = "tag"
  <2>1. PICK t \in AllOfThem : p = <<t.url>>
    BY <1>14 DEF Act!IsChoice, kind, AllOfThem
  <2>2. read = <<Act!TagFromString(b, args)>> /\ args = t.url
    BY <1>3, <1>6, <1>14, <2>1 DEF Act!ParamFromString
  <2>3. b.known = << >> \/ \E i \in DOMAIN b.known : b.known[i].url = t.url
    BY <1>14, <2>1 DEF Understood, kind
  <2>4. QED
    BY <2>1, <2>2, <2>3 DEF Act!TagFromString
<1>15. CASE kind = "pair"
  <2>1. PICK t, u : p = <<<<t>>, <<u>>>>
    BY <1>15 DEF Act!IsChoice, kind
  <2>2. read = Act!HeaderFromString(args) /\ args = <<t, u>>
    BY <1>3, <1>7, <1>15, <2>1 DEF Act!ParamFromString
  <2>3. QED
    BY <2>1, <2>2 DEF Act!HeaderFromString, Act!Part
<1>16. CASE kind = "triple"
  <2>1. PICK t, u, v : p = <<<<t>>, <<u>>, <<v>>>>
    BY <1>16 DEF Act!IsChoice, kind
  <2>2. read = Act!RewriteFromString(b, args) /\ args = <<t, u, v>>
    BY <1>3, <1>8, <1>16, <2>1 DEF Act!ParamFromString
  <2>3. QED
    BY <2>1, <2>2 DEF Act!RewriteFromString, Act!Part
<1>17. CASE kind = "book"
  <2>1. PICK t, u, v : p = <<<<t>>, <<u>>, <<v>>>> /\ t \in {"", "From", "To", "CC", "BCC"} /\ u \in NumberWords
    BY <1>17 DEF Act!IsChoice, kind
  <2>2. read = Act!BookFromString(b, args) /\ args = <<t, u, v>>
    BY <1>3, <1>8, <1>17, <2>1 DEF Act!ParamFromString
  <2>3. Len(args) = 3 /\ args[1] = t /\ args[2] = u /\ args[3] = v
    BY <2>2
  <2>4. Act!BookFromString(b, args) = <<<<t>>, <<u>>, <<v>>>>
    <3>1. (IF t \in {"From", "To", "CC", "BCC"} THEN <<t>> ELSE Act!NoText) = <<t>>
      BY <1>5, <2>1
    <3>2. u \in NumberWords \cup {"-1"}
      BY <2>1
    <3> HIDE DEF args
    <3>3. QED
      BY <2>3, <3>1, <3>2 DEF Act!BookFromString, Act!Part
  <2>5. QED
    BY <2>1, <2>2, <2>4
<1>18. CASE kind = "key"
  <2>1. PICK t, u : p = <<<<t>>, <<u>>>> /\ p[1] # Act!NoText /\ <<t>> \in w.keys
    BY <1>18 DEF Act!IsChoice, kind, Sees
  <2>2. read = Act!KeyFromString(b, args, w) /\ args = <<t, u>>
    BY <1>3, <1>7, <1>18, <2>1 DEF Act!ParamFromString
  <2>3. Len(args) = 2 /\ args[1] = t /\ args[2] = u
    BY <2>2
  <2>4. Act!KeyFromString(b, args, w) = <<<<t>>, <<u>>>>
    BY <2>1, <2>3 DEF Act!KeyFromString, Act!Part
  <2>5. QED
    BY <2>1, <2>2, <2>4
<1>19. CASE kind = "none"
  <2>1. p = << >>
    BY <1>19 DEF Act!IsChoice, kind
  <2>2. read = b.param /\ b.param = << >>
    BY <1>2, <1>3, <1>19 DEF Act!ParamFromString, Act!FirstParam
  <2>3. QED
    BY <2>1, <2>2
<1>20. QED
  <2> HIDE DEF read
  <2>1. QED
    BY <1>1, <1>9, <1>10, <1>11, <1>12, <1>13, <1>14, <1>15, <1>16, <1>17, <1>18, <1>19 DEF Kinds

(* What is typed into a list is shown, be it in the list or not.           *)
LEMMA TypedIsShown ==
  ASSUME NEW x
  PROVE  Act!Typed(Headers, x) = x
<1> DEFINE shows == IF x \in Act!ToSet(Headers) THEN Headers ELSE Append(Headers, x)
<1>1. \E i \in DOMAIN shows : shows[i] = x
  <2>1. CASE x \in Act!ToSet(Headers)
    BY <2>1 DEF Act!ToSet
  <2>2. CASE x \notin Act!ToSet(Headers)
    <3> DEFINE H == Act!ToSet(Headers) \cup {x}
    <3>1. Headers \in Seq(H) /\ x \in H
      BY ActionsAssumption
    <3> HIDE DEF H
    <3>2. Len(Headers) + 1 \in DOMAIN Append(Headers, x) /\ Append(Headers, x)[Len(Headers) + 1] = x
      BY <3>1
    <3>3. QED
      BY <2>2, <3>2
  <2>3. QED
    BY <2>1, <2>2
<1>2. Act!Typed(Headers, x) = shows[CHOOSE i \in DOMAIN shows : shows[i] = x]
  BY DEF Act!Typed
<1> HIDE DEF shows
<1>3. QED
  BY <1>1, <1>2

(* An editor shows the parameter it is set to; of tags, one it has heard   *)
(* of.                                                                     *)
Listed(n, p, known) == Act!KindOf[n] = "tag" => \E i \in DOMAIN known : known[i].url = p[1]

LEMMA ParameterShown ==
  ASSUME NEW n \in ActionTypes, NEW p, Act!IsChoice(n, p, Existing), NEW a, a.name = n, a.param = p,
         NEW w, Sees(w), NEW b, Listed(n, p, b.known)
  PROVE  Act!Shown(a, b, w) = p
<1> DEFINE kind == Act!KindOf[n]
           shows == Act!Shown(a, b, w)
<1> SUFFICES shows = p
  OBVIOUS
<1>1. kind \in Kinds /\ (n = "remove header" => kind = "text")
  BY KindIsOne
<1>2. Act!ParamKind(a) = kind
  BY DEF Act!ParamKind
<1> HIDE DEF kind
<1>3. CASE kind \in {"status", "mdn"}
  <2>1. p = <<Act!NoText>> \/ (kind = "status" /\ \E c \in StatusCodes : p = <<<<c>>>>)
        \/ (kind = "mdn" /\ \E c \in MdnCodes : p = <<<<c>>>>)
    BY <1>3 DEF Act!IsChoice, kind
  <2>2. /\ kind = "status" => shows = Act!ListShown(StatusCodes, p)
        /\ kind = "mdn" => shows = Act!ListShown(MdnCodes, p)
    BY <1>1, <1>2 DEF Act!Shown
  <2>3. QED
    BY <1>3, <2>1, <2>2 DEF Act!ListShown
<1>4. CASE kind = "pair"
  <2>1. PICK t, u : p = <<<<t>>, <<u>>>>
    BY <1>4 DEF Act!IsChoice, kind
  <2>2. shows = Act!AddHeaderShown(p)
    BY <1>1, <1>2, <1>4 DEF Act!Shown
  <2>3. QED
    BY <2>1, <2>2, TypedIsShown DEF Act!AddHeaderShown
<1>5. CASE kind = "triple"
  <2>1. PICK t, u, v : p = <<<<t>>, <<u>>, <<v>>>>
    BY <1>5 DEF Act!IsChoice, kind
  <2>2. shows = Act!RewriteHeaderShown(p)
    BY <1>1, <1>2, <1>5 DEF Act!Shown
  <2>3. QED
    BY <2>1, <2>2, TypedIsShown DEF Act!RewriteHeaderShown
<1>6. CASE n = "remove header"
  <2>1. p = <<p[1]>> /\ kind = "text"
    BY <1>1, <1>6 DEF Act!IsChoice, kind
  <2>2. shows = Act!RemoveHeaderShown(p)
    BY <1>2, <1>6, <2>1 DEF Act!Shown
  <2>3. QED
    BY <2>1, <2>2, TypedIsShown DEF Act!RemoveHeaderShown
<1>7. CASE kind = "tag"
  <2>1. PICK t \in AllOfThem : p = <<t.url>>
    BY <1>7 DEF Act!IsChoice, kind, AllOfThem
  <2>2. shows = Act!TagShown(b, p)
    BY <1>1, <1>2, <1>7 DEF Act!Shown
  <2> DEFINE urls == [i \in DOMAIN b.known |-> b.known[i].url]
  <2>3. t.url \in Act!ToSet(urls)
    <3>1. PICK i \in DOMAIN b.known : b.known[i].url = t.url
      BY <1>7, <2>1 DEF Listed, kind
    <3>2. i \in DOMAIN urls /\ urls[i] = t.url
      BY <3>1
    <3> HIDE DEF urls
    <3>3. QED
      BY <3>2 DEF Act!ToSet
  <2>4. urls # << >>
    <3> HIDE DEF urls
    <3>1. DOMAIN urls # {} /\ DOMAIN << >> = {}
      BY <2>3 DEF Act!ToSet
    <3>2. QED
      BY <3>1
  <2>5. Act!TagShown(b, p) = <<Act!InList(urls, t.url)>>
    BY <2>1 DEF Act!TagShown
  <2> HIDE DEF urls
  <2>6. QED
    BY <2>1, <2>2, <2>3, <2>4, <2>5 DEF Act!InList
<1>8. CASE kind \in {"identity", "transport"}
  <2>1. PICK m \in NumberWords : p = <<<<m>>>> /\ (kind = "identity" => <<m>> \in w.identities)
                                 /\ (kind = "transport" => <<m>> \in w.transports)
    BY <1>8 DEF Act!IsChoice, kind, Sees
  <2>2. /\ kind = "identity" => shows = Act!IdentityShown(p, w)
        /\ kind = "transport" => shows = Act!TransportShown(p, w)
    BY <1>1, <1>2 DEF Act!Shown
  <2>3. QED
    BY <1>8, <2>1, <2>2 DEF Act!IdentityShown, Act!TransportShown, Act!InSet
<1>9. CASE kind \notin {"status", "mdn", "pair", "triple", "tag", "identity", "transport"} /\ n # "remove header"
  BY <1>2, <1>9 DEF Act!Shown
<1>10. QED
  BY <1>1, <1>3, <1>4, <1>5, <1>6, <1>7, <1>8, <1>9 DEF Kinds

(* Nothing else comes to be shown when what can be chosen has been listed, *)
(* nor when the editor is asked early.                                     *)
LEMMA ListedStays ==
  ASSUME NEW n \in ActionTypes, NEW p, Act!IsChoice(n, p, Existing), NEW w, Sees(w)
  PROVE  /\ Act!KindOf[n] = "book" => Act!BookListed(p, w) = p
         /\ Act!KindOf[n] = "key" => Act!KeyListed(p, w) = p
<1>1. ASSUME Act!KindOf[n] = "book" PROVE Act!BookListed(p, w) = p
  <2>1. PICK t, u, v : p = <<<<t>>, <<u>>, <<v>>>> /\ <<u>> \in w.books
    <3>1. p = <<<<p[1][1]>>, <<p[2][1]>>, <<p[3][1]>>>> /\ p[2] \in w.books
      BY <1>1 DEF Act!IsChoice, Sees
    <3>2. p[2] = <<p[2][1]>>
      BY <3>1
    <3>3. QED
      BY <3>1, <3>2
  <2>2. Act!BookListed(p, w) = [p EXCEPT ![2] = <<u>>]
    BY <2>1 DEF Act!BookListed, Act!InSet
  <2>3. QED
    BY <2>1, <2>2
<1>2. ASSUME Act!KindOf[n] = "key" PROVE Act!KeyListed(p, w) = p
  <2>1. PICK t, u : p = <<<<t>>, <<u>>>> /\ <<t>> \in w.keys
    BY <1>2 DEF Act!IsChoice, Sees
  <2>2. Act!KeyListed(p, w) = [p EXCEPT ![1] = <<t>>]
    BY <2>1 DEF Act!KeyListed, Act!InSet
  <2>3. QED
    BY <2>1, <2>2
<1>3. QED
  BY <1>1, <1>2

-----------------------------------------------------------------------------
(* An editor of a choice shows it.                                         *)
NewActions ==
  [name : ActionTypes, param : {Act!FirstParam[Act!KindOf[n]] : n \in ActionTypes}, known : Seq(AllOfThem)]
IsEditorOf(e, c) ==
  /\ e.owner \in NewActions
  /\ e = [owner |-> e.owner, shows |-> c.param, loaded |-> e.loaded] /\ e.owner.name = c.name
  /\ e.loaded \in BOOLEAN /\ (~e.loaded => Act!KindOf[c.name] \in {"book", "key"})

(* What is stored is what was chosen when it was, and what the filter or   *)
(* the editor has is what was chosen last.                                 *)
Faithful ==
  /\ storedAction # Nothing => storedAction = Act!Text(saved) /\ ~Act!ParamIsEmpty(saved)
  /\ storedAction = Nothing => Act!ParamIsEmpty(saved)
  /\ action # Nothing /\ actionEditor = Nothing => action.name = chosen.name /\ action.param = chosen.param
  /\ actionEditor # Nothing => action # Nothing /\ IsEditorOf(actionEditor, chosen)

ActionInv ==
  /\ chosen \in Act!Choosable /\ saved \in Act!Choosable
  /\ ListInv /\ listed \in Seq(AllOfThem)
  /\ ~shaken => Faithful

LEMMA EditorIsOne ==
  ASSUME NEW e, NEW c \in Act!Choosable, IsEditorOf(e, c)
  PROVE  e # Nothing
<1>1. c.param \in UNION {Offers[n] : n \in ActionTypes}
  BY DEF Act!Choosable
<1>2. e \in [owner : NewActions, shows : UNION {Offers[n] : n \in ActionTypes}, loaded : BOOLEAN]
  BY <1>1 DEF IsEditorOf
<1>3. QED
  BY <1>2, ActionsAssumption DEF NewActions, AllOfThem

LEMMA NewIsOne ==
  ASSUME NEW n \in ActionTypes, listed \in Seq(AllOfThem)
  PROVE  Act!NewAction(n, Act!Here) \in NewActions
<1>1. Act!Here.tags \in Seq(AllOfThem)
  BY WorldNow
<1>2. QED
  BY <1>1 DEF Act!NewAction, NewActions

LEMMA Choosable ==
  ASSUME NEW c \in Act!Choosable
  PROVE  /\ c.name \in ActionTypes /\ c.param \in Offers[c.name] /\ Act!IsChoice(c.name, c.param, Existing)
BY ActionsAssumption DEF Act!Choosable

(* A new action, as it is read.                                            *)
LEMMA NewIsNew ==
  ASSUME NEW n, NEW w
  PROVE  IsNew(Act!NewAction(n, w), n) /\ Act!NewAction(n, w).name = n /\ Act!NewAction(n, w).known = w.tags
BY DEF Act!NewAction, IsNew

LEMMA ActionIsRead ==
  ASSUME NEW c \in Act!Choosable, tagList = {} \/ Act!Lists(Act!Now.tags, c),
         NEW a, a.name = c.name, a.param = c.param
  PROVE  LET b == Act!NewAction(c.name, Act!Now) IN
         Act!ArgsFromString(b, Act!ArgsAsString(a), Act!Now) = [name |-> c.name, param |-> c.param, known |-> Act!Now.tags]
<1> DEFINE n == c.name
           p == c.param
           w == Act!Now
           b == Act!NewAction(n, w)
           read == Act!ParamFromString(b, Act!ArgsAsString(a), w)
<1>1. n \in ActionTypes /\ Act!IsChoice(n, p, Existing)
  BY Choosable
<1>2. Sees(w) /\ Understood(n, p, w.tags)
  BY WorldNow, TagsInOrder DEF Understood, Act!Lists
<1> HIDE DEF w
<1>3. IsNew(b, n) /\ b.name = n /\ b.known = w.tags /\ Understood(n, p, b.known)
  BY <1>2, NewIsNew
<1>4. read = p
  <2> HIDE DEF b, n, p
  <2>1. a.name = n /\ a.param = p
    BY DEF n, p
  <2>2. QED
    BY <1>1, <1>2, <1>3, <2>1, ParameterRead
<1>5. Act!ArgsFromString(b, Act!ArgsAsString(a), w) = [b EXCEPT !.param = read]
  BY DEF Act!ArgsFromString
<1>6. b = [name |-> n, param |-> b.param, known |-> w.tags]
  BY DEF Act!NewAction
<1> HIDE DEF b, read, n, p
<1>7. [b EXCEPT !.param = read] = [name |-> n, param |-> read, known |-> w.tags]
  BY <1>6
<1>8. QED
  BY <1>4, <1>5, <1>7 DEF b, n, p, w

(* Whether an action is empty, and its text, depend on its parameter.      *)
LEMMA SameParameter ==
  ASSUME NEW a, NEW c, a.name = c.name, a.param = c.param
  PROVE  Act!ParamIsEmpty(a) = Act!ParamIsEmpty(c) /\ Act!ArgsAsString(a) = Act!ArgsAsString(c) /\ Act!Text(a) = Act!Text(c)
BY DEF Act!ParamIsEmpty, Act!ArgsAsString, Act!ParamKind, Act!Text

(* What a widget lists are tags there are.                                 *)
LEMMA ListedAreTags ==
  ASSUME ActionInv, ListInv', [Act!Next]_Act!vars
  PROVE  listed' \in Seq(AllOfThem)
<1>1. Act!Ordered(tagList) \in Seq(AllOfThem) /\ Act!Ordered(tagList') \in Seq(AllOfThem)
  BY TagsInOrder DEF ListInv, ActionInv
<1>2. listed' \in {listed, Act!Ordered(tagList), Act!Ordered(tagList')}
  BY DEF Act!Next, Act!vars, Act!editVars, Act!ServerChanges, Act!TagsAnswered, Act!TagReported, Act!TellActions,
     Act!Edit, Act!Choose, Act!NewWidget, Act!Read, Act!Open, Act!Load, Act!Pick, Act!Regenerate, Act!Save, Act!Cancel
<1>3. QED
  BY <1>1, <1>2 DEF ActionInv

LEMMA Told ==
  ASSUME ActionInv, Act!TellActions, ~shaken', UNCHANGED <<storedAction, action, chosen, saved>>
  PROVE  Faithful'
<1>1. actionEditor' = actionEditor /\ ~shaken
  BY DEF Act!TellActions
<1>2. QED
  BY <1>1 DEF ActionInv, Faithful, Act!Text, Act!ParamIsEmpty, Act!ArgsAsString, Act!ParamKind, IsEditorOf

LEMMA ActionRead ==
  ASSUME ActionInv, Act!Read, UNCHANGED Act!tagVars, ~shaken'
  PROVE  Faithful'
<1> DEFINE n == saved.name
           b == Act!NewAction(storedAction.name, Act!Now)
           a == Act!ArgsFromString(b, storedAction.args, Act!Now)
           known == Act!Now.tags
<1>1. /\ action = Nothing /\ storedAction # Nothing /\ ~shaken /\ (tagList = {} \/ Act!Lists(Act!Now.tags, saved))
      /\ action' = IF Act!ParamIsEmpty(a) THEN Nothing ELSE Act!CopyOf(a, Act!Now)
      /\ storedAction' = IF action' = Nothing THEN Nothing ELSE storedAction
      /\ chosen' = saved /\ actionEditor' = actionEditor /\ saved' = saved
  BY DEF Act!Read
<1>2. saved \in Act!Choosable /\ tagList \subseteq AllOfThem /\ Faithful
  BY <1>1 DEF ActionInv, ListInv
<1>3. storedAction.name = n /\ storedAction.args = Act!ArgsAsString(saved) /\ ~Act!ParamIsEmpty(saved)
  BY <1>1, <1>2 DEF Faithful, Act!Text
<1>4. a = [name |-> n, param |-> saved.param, known |-> known]
  BY <1>1, <1>2, <1>3, ActionIsRead
<1>5. a.name = n /\ a.param = saved.param
  BY <1>4
<1> HIDE DEF a
<1>6. ~Act!ParamIsEmpty(a)
  BY <1>3, <1>5, SameParameter
<1>7. Act!CopyOf(a, Act!Now) = [name |-> n, param |-> saved.param, known |-> known]
  <2>1. Act!ArgsFromString(Act!NewAction(n, Act!Now), Act!ArgsAsString(a), Act!Now)
          = [name |-> n, param |-> saved.param, known |-> known]
    BY <1>1, <1>2, <1>5, ActionIsRead
  <2>2. QED
    BY <1>5, <2>1 DEF Act!CopyOf
<1>8. action' = [name |-> n, param |-> saved.param, known |-> known]
  BY <1>1, <1>6, <1>7
<1>9. action' # Nothing
  <2>1. n \in ActionTypes /\ saved.param \in Offers[n]
    BY <1>2, Choosable
  <2>2. known \in Seq(AllOfThem)
    BY <1>2, WorldNow, TagsInOrder
  <2> HIDE DEF n, known
  <2>3. action' \in [name : ActionTypes, param : UNION {Offers[m] : m \in ActionTypes}, known : Seq(AllOfThem)]
    BY <1>8, <2>1, <2>2
  <2>4. QED
    BY <2>3, ActionsAssumption DEF AllOfThem
<1>10. QED
  <2>1. action'.name = chosen'.name /\ action'.param = chosen'.param
    BY <1>1, <1>8
  <2>2. storedAction' = storedAction
    BY <1>1, <1>9
  <2>3. actionEditor' = Nothing
    BY <1>1, <1>2 DEF Faithful
  <2>4. storedAction' = Act!Text(saved') /\ ~Act!ParamIsEmpty(saved')
    BY <1>1, <1>2, <2>2 DEF Faithful
  <2>5. QED
    BY <1>1, <2>1, <2>2, <2>3, <2>4 DEF Faithful

LEMMA EditorOpened ==
  ASSUME ActionInv, Act!Open, ~shaken'
  PROVE  Faithful'
<1> DEFINE n == chosen.name
           b == Act!NewAction(action.name, Act!Here)
<1>1. /\ action # Nothing /\ actionEditor = Nothing /\ ~shaken /\ Act!Lists(listed, chosen)
      /\ actionEditor' = Act!EditorOf(action, b, Act!Now)
      /\ UNCHANGED <<storedAction, action, chosen, saved>>
  BY DEF Act!Open
<1>2. chosen \in Act!Choosable /\ Faithful
  BY <1>1 DEF ActionInv
<1>3. action.name = n /\ action.param = chosen.param
  BY <1>1, <1>2 DEF Faithful
<1>4. n \in ActionTypes /\ Act!IsChoice(n, chosen.param, Existing)
  BY <1>2, Choosable
<1>5. Sees(Act!Now) /\ Listed(n, chosen.param, listed)
  BY <1>1, WorldNow DEF Listed, Act!Lists
<1>6. b.name = n /\ b.known = listed /\ b \in NewActions
  BY <1>3, <1>4, WorldNow, NewIsNew, NewIsOne DEF ActionInv
<1> HIDE DEF b
<1>7. Act!Shown(action, b, Act!Now) = chosen.param
  BY <1>3, <1>4, <1>5, <1>6, ParameterShown
<1>8. actionEditor' = [owner |-> b, shows |-> chosen.param, loaded |-> Act!KindOf[n] \notin {"book", "key"}]
  BY <1>1, <1>3, <1>7 DEF Act!EditorOf, Act!ParamKind
<1>9. IsEditorOf(actionEditor, chosen)'
  <2> DEFINE e == actionEditor'
             l == Act!KindOf[n] \notin {"book", "key"}
  <2>1. l \in BOOLEAN /\ (~l => Act!KindOf[n] \in {"book", "key"})
    OBVIOUS
  <2>2. e = [owner |-> b, shows |-> chosen.param, loaded |-> l]
    BY <1>8
  <2> HIDE DEF e, l
  <2>3. e.owner = b /\ e.loaded = l /\ e = [owner |-> e.owner, shows |-> chosen.param, loaded |-> e.loaded]
    BY <2>2
  <2>4. QED
    BY <1>1, <1>6, <2>1, <2>3 DEF IsEditorOf, e
<1>10. QED
  BY <1>1, <1>2, <1>9 DEF Faithful

LEMMA EditorLoaded ==
  ASSUME ActionInv, Act!Load, ~shaken'
  PROVE  Faithful'
<1> DEFINE e == actionEditor
           shows == IF Act!ParamKind(e.owner) = "book" THEN Act!BookListed(e.shows, Act!Now)
                    ELSE Act!KeyListed(e.shows, Act!Now)
<1>1. /\ e # Nothing /\ ~e.loaded /\ e' = [e EXCEPT !.loaded = TRUE, !.shows = shows]
      /\ UNCHANGED <<storedAction, action, chosen, saved, shaken>>
  BY DEF Act!Load, Act!Loaded
<1>2. chosen \in Act!Choosable /\ Faithful
  BY <1>1 DEF ActionInv
<1>3. IsEditorOf(e, chosen) /\ action # Nothing
  BY <1>1, <1>2 DEF Faithful
<1>4. shows = chosen.param
  <2>1. Act!ParamKind(e.owner) = Act!KindOf[chosen.name] /\ e.shows = chosen.param
        /\ Act!KindOf[chosen.name] \in {"book", "key"}
    BY <1>1, <1>3 DEF IsEditorOf, Act!ParamKind
  <2>2. QED
    BY <1>2, <2>1, Choosable, WorldNow, ListedStays
<1> HIDE DEF shows
<1>5. e' = [owner |-> e.owner, shows |-> chosen.param, loaded |-> TRUE]
  <2>1. e = [owner |-> e.owner, shows |-> e.shows, loaded |-> e.loaded]
    BY <1>3 DEF IsEditorOf
  <2>2. QED
    BY <1>1, <1>4, <2>1
<1>6. IsEditorOf(e, chosen)'
  BY <1>1, <1>3, <1>5 DEF IsEditorOf
<1>7. e' # Nothing
  BY <1>1, <1>2, <1>6, EditorIsOne
<1>8. QED
  BY <1>1, <1>2, <1>3, <1>6, <1>7 DEF Faithful

LEMMA ActionPicked ==
  ASSUME ActionInv, Act!Pick, ~shaken'
  PROVE  Faithful' /\ chosen' \in Act!Choosable
<1>1. PICK c \in Act!Choosable, b \in {Act!NewAction(n, Act!Here) : n \in ActionTypes} :
        /\ b.name = c.name /\ chosen' = c
        /\ actionEditor' = [Act!EditorOf(b, b, Act!Now) EXCEPT !.shows = c.param, !.loaded = TRUE]
  BY DEF Act!Pick
<1>2. actionEditor # Nothing /\ ~shaken /\ UNCHANGED <<storedAction, action, saved>>
  BY DEF Act!Pick
<1>3. actionEditor' = [owner |-> b, shows |-> c.param, loaded |-> TRUE]
  BY <1>1 DEF Act!EditorOf
<1>4. IsEditorOf(actionEditor, chosen)'
  <2> DEFINE e == actionEditor'
  <2>1. e = [owner |-> b, shows |-> c.param, loaded |-> TRUE] /\ b.name = c.name /\ chosen' = c
    BY <1>1, <1>3
  <2>0. b \in NewActions
    BY NewIsOne DEF ActionInv
  <2> HIDE DEF e
  <2>2. e.owner = b /\ e.loaded = TRUE /\ e = [owner |-> e.owner, shows |-> c.param, loaded |-> e.loaded]
    BY <2>1
  <2>3. QED
    BY <2>0, <2>1, <2>2 DEF IsEditorOf, e
<1>5. Faithful
  BY <1>2 DEF ActionInv
<1>6. action # Nothing /\ (storedAction # Nothing => storedAction = Act!Text(saved) /\ ~Act!ParamIsEmpty(saved))
      /\ (storedAction = Nothing => Act!ParamIsEmpty(saved))
  BY <1>2, <1>5 DEF Faithful
<1>7. chosen' \in Act!Choosable
  BY <1>1
<1>8. actionEditor' # Nothing
  BY <1>4, <1>7, EditorIsOne
<1>9. QED
  BY <1>2, <1>4, <1>6, <1>7, <1>8 DEF Faithful

LEMMA ActionTakenBack ==
  ASSUME ActionInv, Act!Regenerate, ~shaken'
  PROVE  Faithful'
<1> DEFINE e == actionEditor
           b == Act!NewAction(e.owner.name, Act!Now)
           param == CASE Act!ParamKind(e.owner) = "key"  -> Act!KeyApplied(e, Act!Now)
                      [] Act!ParamKind(e.owner) = "book" -> Act!BookApplied(e)
                      [] OTHER                           -> e.shows
<1>1. /\ e # Nothing /\ ~shaken /\ action' = [b EXCEPT !.param = param] /\ e' = Nothing
      /\ UNCHANGED <<storedAction, chosen, saved>>
  BY DEF Act!Regenerate, Act!Applied
<1>2. chosen \in Act!Choosable /\ Faithful
  BY <1>1 DEF ActionInv
<1>3. e.owner.name = chosen.name /\ e.shows = chosen.param /\ Act!ParamKind(e.owner) = Act!KindOf[chosen.name]
  BY <1>1, <1>2 DEF Faithful, IsEditorOf, Act!ParamKind
<1>4. param = chosen.param
  <2>1. Act!KindOf[chosen.name] = "key" => Act!KeyListed(chosen.param, Act!Now) = chosen.param
    BY <1>2, Choosable, WorldNow, ListedStays
  <2>2. QED
    BY <1>3, <2>1 DEF Act!KeyApplied, Act!BookApplied
<1> HIDE DEF param
<1>5. b = [name |-> chosen.name, param |-> b.param, known |-> b.known]
  BY <1>3 DEF Act!NewAction
<1> HIDE DEF b
<1>6. action'.name = chosen.name /\ action'.param = chosen.param
  BY <1>1, <1>4, <1>5
<1>7. QED
  BY <1>1, <1>2, <1>6 DEF Faithful

LEMMA ActionSaved ==
  ASSUME ActionInv, Act!Save, ~shaken'
  PROVE  Faithful'
<1>1. /\ action # Nothing /\ actionEditor = Nothing /\ actionEditor' = Nothing /\ action' = Nothing /\ ~shaken
      /\ storedAction' = IF Act!ParamIsEmpty(action) THEN Nothing ELSE Act!Text(action)
      /\ saved' = chosen /\ chosen' = chosen
  BY DEF Act!Save
<1>2. chosen \in Act!Choosable /\ Faithful
  BY <1>1 DEF ActionInv
<1>3. action.name = chosen.name /\ action.param = chosen.param
  BY <1>1, <1>2 DEF Faithful
<1>4. Act!ParamIsEmpty(action) = Act!ParamIsEmpty(chosen) /\ Act!Text(action) = Act!Text(chosen)
  BY <1>3, SameParameter
<1>5. Act!Text(chosen) # Nothing
  BY <1>2, ActionsAssumption
<1>6. storedAction' = IF Act!ParamIsEmpty(saved') THEN Nothing ELSE Act!Text(saved')
  BY <1>1, <1>4
<1>7. Act!Text(saved') # Nothing
  BY <1>1, <1>5
<1>8. QED
  BY <1>1, <1>6, <1>7 DEF Faithful

LEMMA ActionStep ==
  ASSUME ActionInv, [Act!Next]_Act!vars
  PROVE  ActionInv'
<1>1. ListInv'
  BY ListStep DEF ActionInv
<1>2. chosen' \in Act!Choosable /\ saved' \in Act!Choosable
  BY DEF ActionInv, Act!Next, Act!vars, Act!editVars, Act!ServerChanges, Act!TagsAnswered, Act!TagReported, Act!Edit,
     Act!Choose, Act!NewWidget, Act!Read, Act!Open, Act!Load, Act!Pick, Act!Regenerate, Act!Save, Act!Cancel, Act!Choosable
<1>0. listed' \in Seq(AllOfThem)
  BY <1>1, ListedAreTags
<1>3. CASE UNCHANGED <<Act!editVars>> \/ (Act!Edit /\ Act!NewWidget)
  <2>1. UNCHANGED <<storedAction, action, actionEditor, chosen, saved, shaken>>
    BY <1>3 DEF Act!editVars, Act!NewWidget
  <2>2. Faithful => Faithful'
    BY <2>1 DEF Faithful, IsEditorOf, Act!Text, Act!ParamIsEmpty, Act!ArgsAsString, Act!ParamKind
  <2>3. QED
    BY <1>0, <1>1, <1>2, <2>1, <2>2 DEF ActionInv
<1>4. CASE (Act!TagsAnswered \/ Act!TagReported) /\ ~shaken'
  <2>1. Act!TellActions /\ UNCHANGED <<storedAction, action, chosen, saved>>
    BY <1>4 DEF Act!TagsAnswered, Act!TagReported
  <2>2. QED
    BY <1>0, <1>1, <1>2, <1>4, <2>1, Told DEF ActionInv
<1>5. CASE Act!Edit /\ ~shaken'
  <2>1. UNCHANGED Act!tagVars
    BY <1>5 DEF Act!Edit
  <2>2. CASE Act!Cancel
    <3>1. /\ action # Nothing /\ actionEditor = Nothing /\ actionEditor' = Nothing /\ action' = Nothing /\ ~shaken
          /\ UNCHANGED <<storedAction, saved>>
      BY <1>5, <2>2 DEF Act!Cancel
    <3>2. Faithful
      BY <3>1 DEF ActionInv
    <3>3. Faithful'
      BY <3>1, <3>2 DEF Faithful
    <3>4. QED
      BY <1>0, <1>1, <1>2, <3>3 DEF ActionInv
  <2>3. CASE ~Act!NewWidget /\ ~Act!Cancel
    <3>1. Faithful'
      BY <1>5, <2>1, <2>3, ActionRead, EditorOpened, EditorLoaded, ActionTakenBack, ActionSaved DEF Act!Edit
    <3>2. QED
      BY <1>0, <1>1, <1>2, <3>1 DEF ActionInv
  <2>4. QED
    BY <1>3, <1>5, <2>2, <2>3
<1>6. CASE Act!Choose /\ ~shaken'
  BY <1>0, <1>1, <1>2, <1>6, ActionPicked DEF Act!Choose, ActionInv
<1>7. CASE shaken'
  BY <1>0, <1>1, <1>2, <1>7 DEF ActionInv
<1>8. QED
  BY <1>3, <1>4, <1>5, <1>6, <1>7 DEF Act!Next, Act!vars, Act!ServerChanges

(* However often an action is read, copied, shown, taken back and saved,   *)
(* it stays as it was last chosen, and is dropped only if what was chosen  *)
(* is empty (MailFilter, FilterActionWidget, the actions' editors).        *)
THEOREM ActionAlwaysStays == Spec => [](part = "action" => Act!ChoiceStays)
<1>1. Act!Init => ActionInv
  <2> SUFFICES ASSUME Act!Init PROVE ActionInv
    OBVIOUS
  <2>1. chosen \in Act!Choosable /\ saved = chosen /\ ~Act!ParamIsEmpty(chosen) /\ storedAction = Act!Text(chosen)
        /\ action = Nothing /\ actionEditor = Nothing
    BY DEF Act!Init
  <2>2. ListInv
    BY ListBegins
  <2>3. Act!Text(saved) # Nothing
    BY <2>1, ActionsAssumption
  <2>4. listed \in Seq(AllOfThem)
    BY DEF Act!Init
  <2>5. QED
    BY <2>1, <2>2, <2>3, <2>4 DEF ActionInv, Faithful
<1>2. ActionInv => Act!ChoiceStays
  BY DEF ActionInv, Faithful, IsEditorOf, Act!ChoiceStays
<1>3. Init => (part = "action" => ActionInv)
  BY <1>1, OneBegins
<1>4. (part = "action" => ActionInv) /\ [Next]_vars => (part = "action" => ActionInv)'
  BY OneMoves, ActionStep
<1>5. (part = "action" => ActionInv) => (part = "action" => Act!ChoiceStays)
  BY <1>2
<1>6. QED
  BY <1>3, <1>4, <1>5, PTL DEF Spec

(* What was chosen for a filter's action and entered for a tag stays, and  *)
(* no tag is missed.                                                       *)
THEOREM ChoiceAlwaysStays == Spec => []ChoiceStays
<1>1. (part = "action" => Act!ChoiceStays) /\ (part = "action" => Act!NoTagIsMissed)
        /\ (part = "tags" => Tag!TagAsEntered)
      => ChoiceStays
  BY DEF ChoiceStays
<1>2. QED
  BY <1>1, ActionAlwaysStays, NoTagIsEverMissed, TagAlwaysAsEntered, PTL
==============================================================================
