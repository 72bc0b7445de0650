------------------------------ MODULE FolderOrder ------------------------------
(***************************************************************************)
(* The order of the folders: EntityCollectionOrderProxyModel               *)
(* (folder/entitycollectionorderproxymodel.cpp), which caches the rank of  *)
(* every folder, the dialog that orders the accounts                       *)
(* (folder/accountconfigorderdialog.cpp), and the settings of the view     *)
(* (folder/foldertreeview.cpp), which the main window and the dialogs      *)
(* share.                                                                  *)
(* Every folder here is the top folder of the account of the same name.    *)
(***************************************************************************)
EXTENDS Integers, Sequences, SequencesExt, Lists

CONSTANTS Accounts,     \* accounts, in alphabetical order
          Roles,        \* what folders may be to Kernel by themselves
          IdentityUses, \* what identities may use folders for: "drafts", "sent", "templates"
          Pop3,         \* those of them that only fetch mail
          Unranked,     \* the rank of a folder that is not in the cache
          MaxChanges    \* how often something is changed

VARIABLES agents,        \* accounts there are
          special,       \* what each folder is by itself: a default folder, say
          uses,          \* what identities use each folder for
          order, enabled,\* the settings order and enableAccountOrder
          dialog,        \* the dialog for the order, <<>> when it is closed
          topLevelOrder, manual, ranks,   \* the proxy model
          stale,         \* history: folders ranked before an identity changed its use of them
          main,          \* the settings the main view shows
          config,        \* the settings in the group MainFolderView
          changes

dialogVars == <<order, enabled, dialog>>
roles == <<special, uses>>
proxyVars == <<topLevelOrder, manual, ranks, stale>>
viewVars == <<main, config>>
vars == <<agents, roles, dialogVars, proxyVars, viewVars, changes>>

Folders == Range(Accounts)
IndexIn(s, e) == IF Contains(s, e) THEN CHOOSE i \in 1..Len(s) : s[i] = e ELSE 0

-----------------------------------------------------------------------------
(* EntityCollectionOrderProxyModel *)

\* The predicates of Kernel: a default folder, or one that an identity uses like one.
FolderIs(kind, c) == special[c] = kind \/ kind \in uses[c]

\* collectionRank() without its cache.  The top folder of an account in the order comes
\* by its place there.
Rank(c, top) ==
    IF FolderIs("inbox", c) THEN 1
    ELSE IF FolderIs("drafts", c) THEN 5
    ELSE IF FolderIs("outbox", c) THEN 2
    ELSE IF FolderIs("sent", c) THEN 3
    ELSE IF FolderIs("trash", c) THEN 4
    ELSE IF FolderIs("templates", c) THEN 6
    ELSE IF FolderIs("virtual", c) THEN 200
    ELSE IF FolderIs("unified", c) THEN 0
    ELSE IF Contains(top, c) THEN IndexIn(top, c) ELSE 100

CollectionRank(c) == IF ranks[c] # Unranked THEN ranks[c] ELSE Rank(c, topLevelOrder)

ClearRanks == ranks' = [c \in Folders |-> Unranked] /\ stale' = {}

\* lessThan() when the order is not made by hand; the rest is the order of the names.
LessThan(l, r) ==
    \/ CollectionRank(l) < CollectionRank(r)
    \/ CollectionRank(l) = CollectionRank(r) /\ IndexIn(Accounts, l) < IndexIn(Accounts, r)

\* The view compares two folders while it sorts.
Compare(l, r) ==
    /\ ~manual
    /\ ranks' = [c \in Folders |-> IF c \in {l, r} THEN CollectionRank(c) ELSE ranks[c]]
    /\ UNCHANGED <<agents, roles, dialogVars, topLevelOrder, manual, stale, viewVars, changes>>

Changes == changes < MaxChanges /\ changes' = changes + 1

\* A folder becomes a special one, or no longer is; slotSpecialCollectionsChanged()
\* clears the ranks unless they are not in use.
SpecialCollectionsChanged(c, s) ==
    /\ s # special[c]
    /\ special' = [special EXCEPT ![c] = s]
    /\ IF manual THEN UNCHANGED <<ranks, stale>> ELSE ClearRanks
    /\ Changes
    /\ UNCHANGED <<agents, uses, dialogVars, topLevelOrder, manual, viewVars>>

\* An identity begins or ceases to use a folder, of which the proxy model hears nothing.
IdentityChanged(c, use) ==
    /\ uses' = [uses EXCEPT ![c] = IF use \in @ THEN @ \ {use} ELSE @ \cup {use}]
    /\ stale' = IF ranks[c] = Unranked THEN stale ELSE stale \cup {c}
    /\ Changes
    /\ UNCHANGED <<agents, special, dialogVars, topLevelOrder, manual, ranks, viewVars>>

SetManualSortingActive(active) ==
    /\ manual' = active
    /\ IF active = manual THEN UNCHANGED <<ranks, stale>> ELSE ClearRanks

-----------------------------------------------------------------------------
(* The settings of the view.  A dialog reads them, and then sets a policy of
   its own for the tool tips, which it does not store. *)

IconSizes == {16, 22, 32}
Sortings == {"column", "dragAndDrop"}

Reading(stored) == [stored EXCEPT !.icon = IF stored.icon \in 16..32 THEN stored.icon ELSE 22]
WriteConfig(disabled, shown) == config' = IF disabled THEN config ELSE shown

\* The user changes a setting in the menu of the header of the main view.
ChangeIconSize(size) ==
    /\ size # main.icon
    /\ main' = [main EXCEPT !.icon = size]
    /\ WriteConfig(FALSE, main')
    /\ UNCHANGED proxyVars

SetTooltipsPolicy(policy) ==
    /\ policy # main.tips
    /\ main' = [main EXCEPT !.tips = policy]
    /\ WriteConfig(FALSE, main')
    /\ UNCHANGED proxyVars

SetSortingPolicy(policy) ==
    /\ policy # main.sorting
    /\ main' = [main EXCEPT !.sorting = policy]
    /\ SetManualSortingActive(policy = "dragAndDrop")
    /\ WriteConfig(FALSE, main')
    /\ UNCHANGED topLevelOrder

ChangeView ==
    /\ \/ \E size \in IconSizes : ChangeIconSize(size)
       \/ \E tips \in BOOLEAN : SetTooltipsPolicy(tips)
       \/ \E policy \in Sortings : SetSortingPolicy(policy)
    /\ Changes
    /\ UNCHANGED <<agents, roles, dialogVars>>

\* FolderSelectionDialog: what it shows is its own.
OpenSelectionDialog ==
    LET shown == [Reading(config) EXCEPT !.tips = FALSE]
    IN  /\ WriteConfig(TRUE, shown)
        /\ UNCHANGED <<agents, roles, dialogVars, proxyVars, main, changes>>

\* FolderTreeWidget::readConfig() in the main window.
ReadConfig ==
    /\ main' = Reading(config)
    /\ topLevelOrder' = IF enabled THEN order ELSE <<>>
    /\ manual' = (main'.sorting = "dragAndDrop")
    /\ ClearRanks
    /\ UNCHANGED <<agents, roles, dialogVars, config, changes>>

-----------------------------------------------------------------------------
(* AccountConfigOrderDialog *)

MailAccounts == Keep(Accounts, agents \ Pop3)

\* init(): the accounts of the stored order, then the others.
Listed ==
    LET others == Keep(MailAccounts, Folders \ Range(order))
    IN  Keep(order \o others, Range(MailAccounts))

\* slotEnableControls(); no button is enabled without the order.
Controls(d) ==
    [d EXCEPT !.up = d.enabled /\ d.row > 1, !.down = d.enabled /\ d.row \in 1..(Len(d.list) - 1)]

OpenOrderDialog ==
    /\ dialog = <<>>
    /\ dialog' = <<[list |-> Listed, row |-> 0, enabled |-> enabled, up |-> FALSE, down |-> FALSE,
                    accounts |-> Range(MailAccounts)]>>
    /\ UNCHANGED <<agents, roles, order, enabled, proxyVars, viewVars, changes>>

SlotEnableAccountOrder(d) == Controls([d EXCEPT !.enabled = ~d.enabled])
SelectRow(d, row) == Controls([d EXCEPT !.row = row])

\* The current item is taken out and put in again one row above or below.
MoveItem(d, to) ==
    LET item == d.list[d.row]
    IN  Controls([d EXCEPT !.list = InsertAt(RemoveAt(d.list, d.row), to, item), !.row = to])
SlotMoveUp(d) == MoveItem(d, d.row - 1)
SlotMoveDown(d) == MoveItem(d, d.row + 1)

EditOrder ==
    /\ dialog # <<>>
    /\ LET d == dialog[1]
       IN  \/ dialog' = <<SlotEnableAccountOrder(d)>>
           \/ d.enabled /\ \E row \in 1..Len(d.list) : dialog' = <<SelectRow(d, row)>>
           \/ d.up /\ dialog' = <<SlotMoveUp(d)>>
           \/ d.down /\ dialog' = <<SlotMoveDown(d)>>
           \/ d.enabled /\ d.row # 0 /\ \E to \in 1..Len(d.list) : dialog' = <<MoveItem(d, to)>>   \* dragged
    /\ UNCHANGED <<agents, roles, order, enabled, proxyVars, viewVars, changes>>

SlotOk ==
    /\ dialog # <<>>
    /\ order' = dialog[1].list
    /\ enabled' = dialog[1].enabled
    /\ dialog' = <<>>
    /\ UNCHANGED <<agents, roles, proxyVars, viewVars, changes>>

Reject ==
    /\ dialog # <<>>
    /\ dialog' = <<>>
    /\ UNCHANGED <<agents, roles, order, enabled, proxyVars, viewVars, changes>>

AccountChanged(a) ==
    /\ agents' = IF a \in agents THEN agents \ {a} ELSE agents \cup {a}
    /\ Changes
    /\ UNCHANGED <<roles, dialogVars, proxyVars, viewVars>>

-----------------------------------------------------------------------------

Init ==
    /\ agents \in SUBSET Folders
    /\ special = [c \in Folders |-> "plain"]
    /\ uses = [c \in Folders |-> {}]
    /\ order = <<>>
    /\ enabled \in BOOLEAN
    /\ dialog = <<>>
    /\ topLevelOrder = <<>>
    /\ manual = FALSE
    /\ ranks = [c \in Folders |-> Unranked]
    /\ stale = {}
    /\ config = [icon |-> 64, tips |-> TRUE, sorting |-> "column"]
    /\ main = Reading(config)
    /\ changes = 0

Next ==
    \/ \E l, r \in Folders : Compare(l, r)
    \/ \E c \in Folders, s \in Roles : SpecialCollectionsChanged(c, s)
    \/ \E c \in Folders, use \in IdentityUses : IdentityChanged(c, use)
    \/ ChangeView
    \/ OpenSelectionDialog
    \/ ReadConfig
    \/ OpenOrderDialog
    \/ EditOrder
    \/ SlotOk
    \/ Reject
    \/ \E a \in Folders : AccountChanged(a)

Spec == Init /\ [][Next]_vars

-----------------------------------------------------------------------------
(* Properties *)

\* However the user moves accounts, and whatever accounts come and go, the dialog
\* neither loses nor doubles one that was there when it opened.  What the view has
\* cached is the rank each folder has now, but for folders that were ranked before an
\* identity changed its use of them, and it sorts by hand exactly when that is the
\* setting it shows; and a restart of the program would show the settings that the main
\* view shows, whatever dialogs have been opened.
OrderIsKept ==
    /\ dialog # <<>> =>
           /\ Range(dialog[1].list) = dialog[1].accounts
           /\ Len(dialog[1].list) = Cardinality(dialog[1].accounts)
    /\ ~manual => \A c \in Folders \ stale : ranks[c] \in {Unranked, Rank(c, topLevelOrder)}
    /\ manual <=> main.sorting = "dragAndDrop"
    /\ Reading(config) = main
=============================================================================
