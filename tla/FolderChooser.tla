----------------------------- MODULE FolderChooser -----------------------------
(***************************************************************************)
(* Choosing a folder: FolderRequester (folder/folderrequester.cpp), a line *)
(* that shows a folder with a button beside it, and the dialog that the    *)
(* button opens, FolderSelectionDialog (folder/folderselectiondialog.cpp). *)
(* The requester asks Akonadi about the folders it is given; the answers   *)
(* come in the order of the questions, and later.                          *)
(***************************************************************************)
EXTENDS Integers, Sequences

CONSTANTS Folders,       \* folders of Akonadi
          Invalid,       \* no folder
          MayHold,       \* folders that messages can be put into
          MayGrow,       \* folders that folders can be put into
          Virtual, Outbox, HideInSelectionDialog, Broken,  \* folders that are searches, the outbox,
                         \* not to be offered, or of an account that is broken
          MustBeReadWrite, \* the requester is not meant for the root of the local folders
          MaxQuestions   \* how many questions may be open

VARIABLES folders,     \* the folders there are
          collection,  \* mCollection of the requester
          text,        \* what its line shows: a folder, "local", "select" or nothing
          pending,     \* folders it has asked about
          dialog,      \* the dialog, <<>> when there is none
          lastSelected \* the setting lastSelectedFolder

vars == <<folders, collection, text, pending, dialog, lastSelected>>

-----------------------------------------------------------------------------
(* FolderSelectionDialog *)

\* slotSelectionChanged(), for what is selected.
Buttons(selected, mayCreate) ==
    [ok |-> /\ selected # Invalid
            /\ mayCreate => selected \in MayHold,
     create |-> mayCreate /\ selected \in MayGrow]

SelectingEnabling(d, selected) == \* faulty: what has been enabled stays so
    LET b == Buttons(selected, d.mayCreate)
    IN  [d EXCEPT !.selected = selected, !.ok = @ \/ b.ok, !.create = @ \/ b.create]

Selecting(d, selected) ==
    LET b == Buttons(selected, d.mayCreate)
    IN  [d EXCEPT !.selected = selected, !.ok = b.ok, !.create = b.create]

Open(forRequester, mayCreate, selected) ==
    Selecting([forRequester |-> forRequester, mayCreate |-> mayCreate, selected |-> Invalid,
               ok |-> FALSE, create |-> FALSE], selected)

\* FolderTreeWidgetProxyModel: no dialog shows folders that are not to be offered, and
\* what else is left out depends on who opens it.
FilterAcceptsRow(forRequester, c) ==
    /\ c \notin HideInSelectionDialog
    /\ forRequester => c \notin Virtual \cup Outbox

\* flags(): a folder has to take messages or folders, one of the rights is enough to
\* Akonadi, and its account to work.
Selectable(forRequester, c) ==
    /\ FilterAcceptsRow(forRequester, c)
    /\ forRequester => c \in MayHold \cup MayGrow /\ c \notin Broken

Present(forRequester, c) ==
    IF c \in folders /\ Selectable(forRequester, c) THEN c ELSE Invalid

Init ==
    /\ folders = Folders
    /\ collection = Invalid
    /\ text = ""
    /\ pending = <<>>
    /\ dialog = <<>>
    /\ lastSelected = Invalid

-----------------------------------------------------------------------------
(* FolderRequester *)

\* setCollection(): the text waits for the answer when the folder has to be fetched.
SetCollectionTo(c, fetch) ==
    /\ collection' = c
    /\ text' = IF c # Invalid THEN IF fetch THEN text ELSE c
               ELSE IF MustBeReadWrite THEN text ELSE "local"
    /\ pending' = IF c # Invalid /\ fetch THEN Append(pending, c) ELSE pending

SetCollection(c) ==
    /\ dialog = <<>>
    /\ Len(pending) < MaxQuestions
    /\ \E fetch \in BOOLEAN : SetCollectionTo(c, fetch)
    /\ UNCHANGED <<folders, dialog, lastSelected>>

\* slotCollectionsReceived(): an answer without the folder, or with an error, is taken
\* for one about the folder the requester shows now.
AnswerTo(c) ==
    IF c \notin folders THEN collection' = Invalid /\ text' = "select"
    ELSE IF c = collection THEN collection' = c /\ text' = c
    ELSE UNCHANGED <<collection, text>>

SlotCollectionsReceived ==
    /\ pending # <<>>
    /\ AnswerTo(Head(pending))
    /\ pending' = Tail(pending)
    /\ UNCHANGED <<folders, dialog, lastSelected>>

SlotOpenDialog ==
    /\ dialog = <<>>
    /\ \E mayCreate \in BOOLEAN : dialog' = <<Open(TRUE, mayCreate, Present(TRUE, collection))>>
    /\ UNCHANGED <<folders, collection, text, pending, lastSelected>>

-----------------------------------------------------------------------------

\* Other parts of the program open the dialog with the folder that was selected last.
OpenDialog ==
    /\ dialog = <<>>
    /\ \E mayCreate \in BOOLEAN : dialog' = <<Open(FALSE, mayCreate, Present(FALSE, lastSelected))>>
    /\ UNCHANGED <<folders, collection, text, pending, lastSelected>>

SlotSelectionChanged(c) ==
    /\ dialog # <<>>
    /\ c # Invalid => Selectable(dialog[1].forRequester, c)
    /\ dialog' = <<Selecting(dialog[1], c)>>
    /\ UNCHANGED <<folders, collection, text, pending, lastSelected>>

\* hideEvent(): the dialog remembers what is selected, however it is closed; then the
\* requester takes what was accepted.
Close(accepted) ==
    LET d == dialog[1]
    IN  /\ dialog' = <<>>
        /\ lastSelected' = IF ~d.forRequester /\ d.selected # Invalid THEN d.selected ELSE lastSelected
        /\ IF accepted /\ d.forRequester THEN SetCollectionTo(d.selected, FALSE)
           ELSE UNCHANGED <<collection, text, pending>>
        /\ UNCHANGED folders

Accept == dialog # <<>> /\ dialog[1].ok /\ Close(TRUE)
Reject == dialog # <<>> /\ Close(FALSE)

\* A double click accepts what is selected, also where the button is disabled.
SlotDoubleClick == dialog # <<>> /\ dialog[1].selected # Invalid /\ Close(TRUE)

\* Akonadi loses a folder; the view of the dialog gives it up.
FolderRemoved(c) ==
    /\ c \in folders
    /\ folders' = folders \ {c}
    /\ dialog' = IF dialog # <<>> /\ dialog[1].selected = c THEN <<Selecting(dialog[1], Invalid)>> ELSE dialog
    /\ UNCHANGED <<collection, text, pending, lastSelected>>

\* slotAddChildFolder(): the new folder is made by Akonadi.
SlotAddChildFolder(c) ==
    /\ dialog # <<>>
    /\ dialog[1].create
    /\ c \in Folders \ folders
    /\ folders' = folders \cup {c}
    /\ UNCHANGED <<collection, text, pending, dialog, lastSelected>>

Next ==
    \/ \E c \in folders \cup {Invalid} : SetCollection(c)
    \/ SlotCollectionsReceived
    \/ SlotOpenDialog
    \/ OpenDialog
    \/ \E c \in folders \cup {Invalid} : SlotSelectionChanged(c)
    \/ Accept
    \/ Reject
    \/ SlotDoubleClick
    \/ \E c \in Folders : FolderRemoved(c) \/ SlotAddChildFolder(c)

Spec == Init /\ [][Next]_vars

-----------------------------------------------------------------------------
(* Properties *)

\* When no answer is outstanding the line shows the folder that the requester holds and
\* that its users store, and no folder when it holds none; and the button of the dialog is
\* enabled only for a folder that is still there, and that takes messages where the
\* dialog looks at that.
ChooserShowsChoice ==
    /\ pending = <<>> /\ collection # Invalid => text = collection
    /\ collection = Invalid => MustBeReadWrite \/ text \notin Folders
    /\ dialog # <<>> /\ dialog[1].ok =>
           /\ dialog[1].selected \in folders
           /\ dialog[1].mayCreate => dialog[1].selected \in MayHold
=============================================================================
