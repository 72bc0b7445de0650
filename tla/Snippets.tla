------------------------------ MODULE Snippets ------------------------------
(***************************************************************************)
(* Text snippets (src/src/snippets/): a tree of groups and snippets, shown *)
(* by a view, changed by its manager, and the actions (shortcuts) made of  *)
(* the snippets.  The dialogs that add and edit a snippet do not block:    *)
(* they keep indexes into the tree until they are accepted, while the user *)
(* goes on adding, removing and dragging.  Other dialogs do block, so what *)
(* they do is one step.                                                    *)
(***************************************************************************)
EXTENDS Integers, Sequences, SequencesExt, FiniteSets

CONSTANTS
  Names,       \* names of snippets; a name is never blank
  ActionOf,    \* the name of a name's action, in which blanks are underscores
  Texts,       \* text, subject and recipients of a snippet
  Variables,   \* variables in such texts
  Stored,      \* the groups in the file when the program starts
  NoDialog,    \* an empty slot for a dialog
  NoAction,    \* there is no action of that name
  MaxDialogs,  \* bound: dialogs open at a time
  MaxMade,     \* bound: items there are or have been
  MaxChanges   \* bound: changes of the tree

VARIABLES
  groups,     \* mRootItem: groups in order, each with its snippets in order
  variables,  \* mSavedVariables
  config,     \* the file
  dirty,      \* mDirty
  actions,    \* mActionCollection: what each action inserts
  selected,   \* the selected item, 0 for none
  dialogs,    \* the dialogs that are open
  made,       \* history: items allocated; an item's address
  broken,     \* history: freed memory has been used, anything may happen
  unmarked,   \* history: something has changed that nobody noted
  worn,       \* history: actions that one snippet took from another, or whose snippet got a text by dropping
  changes     \* history: changes of the tree

treeVars == <<groups, variables, made>>
vars == <<treeVars, config, dirty, actions, selected, dialogs, broken, unmarked, worn, changes>>

ActionNames == {ActionOf[n] : n \in Names}

GroupRow(gs, g)  == SelectInSeq(gs, LAMBDA group : group.id = g)
SnippetsIn(gs)   == UNION {ToSet(gs[i].items) : i \in DOMAIN gs}
GroupIds(gs)     == {gs[i].id : i \in DOMAIN gs}
SnippetIds(gs)   == {s.id : s \in SnippetsIn(gs)}
GroupOf(gs, s)   == CHOOSE i \in DOMAIN gs : \E j \in DOMAIN gs[i].items : gs[i].items[j].id = s
RowIn(gs, s)     == SelectInSeq(gs[GroupOf(gs, s)].items, LAMBDA t : t.id = s)
SnippetOf(gs, s) == CHOOSE t \in SnippetsIn(gs) : t.id = s

WithItems(gs, i, items) == [gs EXCEPT ![i].items = items]

(* removeRows(), with a row that the parent need not have.                 *)
RowRemoved(gs, i, row) ==
  IF row \in DOMAIN gs[i].items THEN WithItems(gs, i, RemoveAt(gs[i].items, row)) ELSE gs

SnippetRemoved(gs, s) == RowRemoved(gs, GroupOf(gs, s), RowIn(gs, s))

(* insertRow() and the calls of setData() after it.                        *)
RowInserted(gs, i, row, s) == WithItems(gs, i, InsertAt(gs[i].items, row, s))
RowAppended(gs, i, s)      == WithItems(gs, i, Append(gs[i].items, s))

Changed(gs, t) == [gs EXCEPT ![GroupOf(gs, t.id)].items[RowIn(gs, t.id)] = t]

Item(id, name, text) == [id |-> id, name |-> name, text |-> text]
Content(s) == [name |-> s.name, text |-> s.text]

(* save() writes all there is, load() reads it back.                       *)
Written(gs, vs) == [groups |-> gs, variables |-> vs]

(* initializeActionCollection(): of the snippets for one action the last   *)
(* in the tree has it.                                                     *)
AllActions(gs) ==
  LET all   == FlattenSeq([i \in DOMAIN gs |-> gs[i].items])
      of(a) == SelectSeq(all, LAMBDA s : ActionOf[s.name] = a)
  IN  [a \in ActionNames |-> IF of(a) = << >> THEN NoAction ELSE Content(Last(of(a)))]

AddedThenRemoved(acts, old, new) == \* faulty: a snippet that keeps its name loses its action
  [a \in ActionNames |->
     IF a \in old THEN NoAction
     ELSE IF \E s \in new : ActionOf[s.name] = a THEN Content(CHOOSE s \in new : TRUE) ELSE acts[a]]

(* updateActionCollection(): the old actions go, then the new one is made. *)
ActionsUpdated(acts, old, new) ==
  [a \in ActionNames |->
     IF \E s \in new : ActionOf[s.name] = a THEN Content(CHOOSE s \in new : TRUE)
     ELSE IF a \in old THEN NoAction ELSE acts[a]]

(* What must be so for every action to be that of its snippet: no two      *)
(* snippets have the same.                                                 *)
Shared(gs) == {a \in ActionNames : Cardinality({s \in SnippetsIn(gs) : ActionOf[s.name] = a}) > 1}
-----------------------------------------------------------------------------
Init ==
  /\ groups = Stored /\ variables = {} /\ config = Written(Stored, {})
  /\ made = Cardinality(SnippetIds(Stored) \cup GroupIds(Stored))
  /\ dirty = FALSE /\ actions = AllActions(Stored) /\ selected = 0
  /\ dialogs = [d \in 1..MaxDialogs |-> NoDialog]
  /\ broken = FALSE /\ unmarked = FALSE /\ worn = Shared(Stored) /\ changes = 0

Saved == config' = Written(groups', variables) /\ dirty' = FALSE /\ unmarked' = FALSE

Live == ~broken
Change == Live /\ changes < MaxChanges /\ changes' = changes + 1
Wear(more) == worn' = worn \cup more \cup Shared(groups')

(* The view selects what it likes of what is left when the selected item   *)
(* is removed.                                                             *)
SelectionFollows ==
  LET ids == GroupIds(groups') \cup SnippetIds(groups') IN
  IF selected \in ids \cup {0} THEN selected' = selected ELSE selected' \in ids \cup {0}

(* The combo box of a dialog when the group in a row is removed: the       *)
(* previous group is taken for it, none if there is no previous one.       *)
BoxesAdjusted(gs, row) ==
  [d \in DOMAIN dialogs |->
     IF dialogs[d] = NoDialog \/ dialogs[d].box # gs[row].id THEN dialogs[d]
     ELSE [dialogs[d] EXCEPT !.box = IF row > 1 THEN gs[row - 1].id ELSE 0]]

(* ... and when a group becomes the only one.                              *)
BoxesFilled(g) ==
  [d \in DOMAIN dialogs |->
     IF dialogs[d] = NoDialog \/ dialogs[d].box # 0 \/ groups # << >> THEN dialogs[d]
     ELSE [dialogs[d] EXCEPT !.box = g]]

CurrentGroup(gs, s) ==
  IF s = 0 THEN 0 ELSE IF s \in GroupIds(gs) THEN s ELSE gs[GroupOf(gs, s)].id

Opened(ds, dialog) ==
  \E d \in DOMAIN ds : ds[d] = NoDialog /\ dialogs' = [ds EXCEPT ![d] = dialog]

Closed(d) == dialogs' = [dialogs EXCEPT ![d] = NoDialog]

Select(item) ==
  /\ Live /\ item \in GroupIds(groups) \cup SnippetIds(groups) /\ selected' = item
  /\ UNCHANGED <<treeVars, config, dirty, actions, dialogs, broken, unmarked, worn, changes>>

(* createSnippet(), from the action or for text that is dropped on no      *)
(* snippet.  Without a group one is made, and noted by nobody.             *)
CreateSnippet ==
  LET dialog(g) == [item |-> 0, row |-> 0, group |-> 0, groupRow |-> 0, name |-> "", box |-> g] IN
  /\ Live
  /\ \/ /\ groups # << >> /\ Opened(dialogs, dialog(CurrentGroup(groups, selected)))
        /\ UNCHANGED <<groups, made, selected, unmarked>>
     \/ /\ groups = << >> /\ made < MaxMade /\ made' = made + 1
        /\ groups' = <<[id |-> made', name |-> "General", items |-> << >>]>>
        /\ selected' = made' /\ unmarked' = TRUE
        /\ Opened(BoxesFilled(made'), dialog(made'))
  /\ UNCHANGED <<variables, config, dirty, actions, broken, worn, changes>>

(* editSnippet() *)
EditSnippet ==
  /\ Live /\ selected \in SnippetIds(groups)
  /\ LET i == GroupOf(groups, selected) IN
     Opened(dialogs, [item |-> selected, row |-> RowIn(groups, selected), group |-> groups[i].id, groupRow |-> i,
                      name |-> SnippetOf(groups, selected).name, box |-> groups[i].id])
  /\ UNCHANGED <<treeVars, config, dirty, actions, selected, broken, unmarked, worn, changes>>

(* The user chooses another group in the combo box of a dialog.            *)
ChooseGroup(d, g) ==
  /\ Live /\ dialogs[d] # NoDialog /\ dialogs[d].box # g
  /\ dialogs' = [dialogs EXCEPT ![d].box = g]
  /\ UNCHANGED <<treeVars, config, dirty, actions, selected, broken, unmarked, worn, changes>>

Reject(d) ==
  /\ Live /\ dialogs[d] # NoDialog /\ Closed(d)
  /\ UNCHANGED <<treeVars, config, dirty, actions, selected, broken, unmarked, worn, changes>>

(* SnippetWidget::snippetIsValid() keeps the button of a dialog without a  *)
(* group disabled.                                                         *)
Acceptable(d) == dialogs[d] # NoDialog /\ dialogs[d].box # 0

AcceptNew(d, s) ==
  /\ Change /\ Acceptable(d) /\ dialogs[d].item = 0 /\ made < MaxMade /\ made' = s.id
  /\ groups' = RowAppended(groups, GroupRow(groups, dialogs[d].box), s)
  /\ actions' = ActionsUpdated(actions, {}, {s})
  /\ Closed(d) /\ Saved /\ Wear({})
  /\ UNCHANGED <<variables, selected, broken>>

(* An index is as good as the row it was made with: what the dialog holds  *)
(* is no longer the snippet, its name, its row, or its group's row.        *)
Outdated(dialog) ==
  \/ dialog.item \notin SnippetIds(groups)
  \/ SnippetOf(groups, dialog.item).name # dialog.name
  \/ RowIn(groups, dialog.item) # dialog.row
  \/ GroupOf(groups, dialog.item) # dialog.groupRow

MovedWithinNewGroup(dialog, s) == \* faulty: the row is looked for in the new group
  RowAppended(RowRemoved(groups, GroupRow(groups, dialog.box), dialog.row), GroupRow(groups, dialog.box), s)

(* The row goes from the old group, then the new group gets one more.      *)
MovedTo(dialog, s) ==
  RowAppended(RowRemoved(groups, GroupRow(groups, dialog.group), dialog.row), GroupRow(groups, dialog.box), s)

(* The lambda of editSnippet().  The indexes of the groups are compared    *)
(* with their rows; if they differ only the row of the snippet counts,     *)
(* else only its address.                                                  *)
AcceptEdit(d, name, text) ==
  LET dialog == dialogs[d]
      moved  == <<dialog.group, dialog.groupRow>> # <<dialog.box, GroupRow(groups, dialog.box)>>
      sound  == IF moved THEN dialog.group \in GroupIds(groups) ELSE dialog.item \in SnippetIds(groups)
  IN
  /\ Change /\ Acceptable(d) /\ dialog.item # 0 /\ Closed(d)
  /\ \/ ~sound /\ broken' = TRUE /\ UNCHANGED <<treeVars, config, dirty, actions, selected, unmarked, worn>>
     \/ /\ sound
        /\ \/ moved /\ made < MaxMade /\ made' = made + 1 /\ groups' = MovedTo(dialog, Item(made', name, text))
           \/ ~moved /\ UNCHANGED made /\ groups' = Changed(groups, Item(dialog.item, name, text))
        /\ actions' = ActionsUpdated(actions, {ActionOf[dialog.name]}, {Item(0, name, text)})
        /\ SelectionFollows /\ Saved
        /\ Wear(IF Outdated(dialog) THEN {ActionOf[dialog.name]} ELSE {})
        /\ UNCHANGED <<variables, broken>>

(* deleteSnippet(), and the user has said yes.                             *)
DeleteSnippet ==
  /\ Change /\ selected \in SnippetIds(groups)
  /\ groups' = SnippetRemoved(groups, selected)
  /\ actions' = ActionsUpdated(actions, {ActionOf[SnippetOf(groups, selected).name]}, {})
  /\ SelectionFollows /\ Saved /\ Wear({})
  /\ UNCHANGED <<variables, made, dialogs, broken>>

AddGroup ==
  /\ Change /\ made < MaxMade /\ made' = made + 1
  /\ groups' = Append(groups, [id |-> made', name |-> "own", items |-> << >>])
  /\ dialogs' = BoxesFilled(made') /\ Saved
  /\ UNCHANGED <<variables, actions, selected, broken, worn>>

RenameGroup ==
  /\ Change /\ selected \in GroupIds(groups)
  /\ groups' = [groups EXCEPT ![GroupRow(groups, selected)].name = IF @ = "own" THEN "General" ELSE "own"]
  /\ Saved /\ UNCHANGED <<variables, made, actions, selected, dialogs, broken, worn>>

(* deleteSnippetGroup() leaves the actions of the group's snippets.        *)
DeleteGroup ==
  /\ Change /\ selected \in GroupIds(groups)
  /\ LET row == GroupRow(groups, selected) IN
     /\ groups' = RemoveAt(groups, row)
     /\ dialogs' = BoxesAdjusted(groups, row)
  /\ SelectionFollows /\ Saved
  /\ UNCHANGED <<variables, made, actions, broken, worn>>

DropUnnoted == dirty' = dirty \* faulty: dndDone() forgets it

(* dndDone() *)
DropNoted == dirty' = TRUE

(* dropMimeData() on a group or between its snippets: a copy is inserted,  *)
(* and what was dragged is removed by the view unless it is to be copied.  *)
DropInGroup(i, row, moving) ==
  /\ Change /\ selected \in SnippetIds(groups) /\ made < MaxMade /\ made' = made + 1
  /\ row \in 1..(Len(groups[i].items) + 1)
  /\ LET s   == SnippetOf(groups, selected)
         gs  == RowInserted(groups, i, row, [s EXCEPT !.id = made'])
     IN  groups' = IF moving THEN SnippetRemoved(gs, s.id) ELSE gs
  /\ DropNoted /\ SelectionFollows /\ Wear({})
  /\ UNCHANGED <<variables, config, actions, dialogs, broken, unmarked>>

(* ... and on a snippet, which takes the texts if the user agrees; the one *)
(* that was dragged is removed as if it had been moved.                    *)
DropOnSnippet(t, moving) ==
  /\ Change /\ selected \in SnippetIds(groups) \ {t.id}
  /\ LET s  == SnippetOf(groups, selected)
         gs == Changed(groups, [t EXCEPT !.text = s.text])
     IN  groups' = IF moving THEN SnippetRemoved(gs, s.id) ELSE gs
  /\ unmarked' = TRUE /\ SelectionFollows /\ Wear({ActionOf[t.name]})
  /\ UNCHANGED <<variables, made, config, dirty, actions, dialogs, broken>>

(* Text from elsewhere that is dropped on a snippet.                       *)
DropText(t, text) ==
  /\ Change /\ groups' = Changed(groups, [t EXCEPT !.text = text])
  /\ unmarked' = TRUE /\ Wear({ActionOf[t.name]})
  /\ UNCHANGED <<variables, made, config, dirty, actions, selected, dialogs, broken>>

(* replaceVariables(): the user is asked for the variables that are not    *)
(* known, and may have them kept; one who cancels keeps none.              *)
Insert ==
  /\ Live /\ \E asked \in SUBSET (Variables \ variables) :
       /\ dirty' = (dirty \/ asked # {})
       /\ variables' = variables \cup asked \/ (asked # {} /\ variables' = variables)
  /\ UNCHANGED <<groups, made, config, actions, selected, dialogs, broken, unmarked, worn, changes>>

(* The window is closed and another one opened, or the program started     *)
(* again: ~SnippetsManager() and SnippetsManager().                        *)
Reopen ==
  LET file == IF dirty THEN Written(groups, variables) ELSE config IN
  /\ Live /\ config' = file /\ dirty' = FALSE
  /\ \E kept \in {Written(groups, variables), file} :
       /\ groups' = kept.groups /\ variables' = kept.variables
       /\ unmarked' = (unmarked /\ kept # file)
       /\ actions' = AllActions(kept.groups) /\ worn' = Shared(kept.groups)
  /\ selected' = 0 /\ dialogs' = [d \in DOMAIN dialogs |-> NoDialog]
  /\ UNCHANGED <<made, broken, changes>>

Next ==
  \/ \E item \in 1..made : Select(item)
  \/ CreateSnippet \/ EditSnippet
  \/ \E d \in DOMAIN dialogs :
       \/ Reject(d) \/ \E g \in GroupIds(groups) : ChooseGroup(d, g)
       \/ \E name \in Names, text \in Texts : AcceptNew(d, Item(made + 1, name, text)) \/ AcceptEdit(d, name, text)
  \/ DeleteSnippet \/ AddGroup \/ RenameGroup \/ DeleteGroup
  \/ \E i \in DOMAIN groups, row \in 1..MaxMade, moving \in BOOLEAN : DropInGroup(i, row, moving)
  \/ \E t \in SnippetsIn(groups), moving \in BOOLEAN : DropOnSnippet(t, moving)
  \/ \E t \in SnippetsIn(groups), text \in Texts : DropText(t, text)
  \/ Insert \/ Reopen

Spec == Init /\ [][Next]_vars
-----------------------------------------------------------------------------
Snippet == [id : 1..MaxMade, name : Names, text : Texts]

(* Every variable has its type; what is selected is in the tree, and the   *)
(* combo box of a dialog shows a group that is there.                      *)
TypeOK ==
  /\ groups \in Seq([id : 1..MaxMade, name : {"General", "own"}, items : Seq(Snippet)])
  /\ variables \subseteq Variables /\ made \in 0..MaxMade
  /\ config.groups \in Seq([id : 1..MaxMade, name : {"General", "own"}, items : Seq(Snippet)])
  /\ dirty \in BOOLEAN /\ broken \in BOOLEAN /\ unmarked \in BOOLEAN /\ worn \subseteq ActionNames
  /\ DOMAIN actions = ActionNames
  /\ selected \in GroupIds(groups) \cup SnippetIds(groups) \cup {0}
  /\ \A d \in DOMAIN dialogs : dialogs[d] # NoDialog => dialogs[d].box \in GroupIds(groups) \cup {0}

(* The program can be closed without losing a snippet: what is not in the  *)
(* file is marked to be saved, whatever dialogs and drags have done.  Two  *)
(* changes are noted by nobody, see the README.                            *)
Remembered ==
  (Live /\ config # Written(groups, variables)) => dirty \/ unmarked

(* The shortcut of a snippet inserts that snippet as it is now, unless     *)
(* another snippet has been, or had been, entitled to the same action.     *)
ActionsServe ==
  Live => \A s \in SnippetsIn(groups) :
            ActionOf[s.name] \notin worn => actions[ActionOf[s.name]] = Content(s)

AcceptsEdit(d) ==
  dialogs[d] # NoDialog /\ dialogs'[d] = NoDialog /\ changes' # changes /\ dialogs[d].item # 0

Others(d, gs) == {s \in SnippetsIn(gs) : s.id # dialogs[d].item}

(* Accepting the dialog of a snippet changes this snippet and no other,    *)
(* and puts it into the group chosen, provided the rows are still those of *)
(* the time when the dialog was opened.                                    *)
EditAsMeant ==
  \A d \in DOMAIN dialogs : (AcceptsEdit(d) /\ ~Outdated(dialogs[d])) =>
    /\ ~broken' /\ Others(d, groups) \subseteq SnippetsIn(groups')
    /\ Cardinality(SnippetsIn(groups')) = Cardinality(SnippetsIn(groups))
    /\ \E s \in SnippetsIn(groups') \ Others(d, groups) :
         groups'[GroupOf(groups', s.id)].id = dialogs[d].box
EditsAsMeant == [][EditAsMeant]_vars

(* A snippet is removed only after the question "Do you really want to     *)
(* remove snippet".  Not so: a dialog that moves its snippet to another    *)
(* group removes whatever has come to be in the snippet's old row.         *)
EditLosesNone ==
  \A d \in DOMAIN dialogs : AcceptsEdit(d) =>
    broken' \/ Others(d, groups) \subseteq SnippetsIn(groups')
NoneLostByEditing == [][EditLosesNone]_vars
=============================================================================
