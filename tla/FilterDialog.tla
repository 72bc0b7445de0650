---------------------------- MODULE FilterDialog ----------------------------
(***************************************************************************)
(* The filter dialog (KMFilterDialog, KMFilterListBox, and the editors for *)
(* rules and actions, src/src/filter and src/src/search).  The dialog      *)
(* works on copies of the manager's filters.  The editors hold the rules   *)
(* and actions of one filter and write them back when they are told to     *)
(* show another one or none; the check boxes write at once.                *)
(***************************************************************************)
EXTENDS FilterManager, FiniteSets

CONSTANTS
  NoFilter,
  Imported,   \* filters a file may hold
  MaxFilters, \* bound: filters that ever are in the list
  MaxEdits    \* bound: changes the user makes

(* What a file holds are filters, and no item has the number NoFilter. *)
ASSUME DialogAssumption ==
  /\ \A f \in Imported : f \in FilterRecords /\ MenuFirst(f)
  /\ NoFilter \notin Nat /\ MaxFilters \in Nat /\ MaxEdits \in Nat

VARIABLES
  phase,      \* "closed", "open" or "gone"
  filter,     \* the filter of every item, by the item's number
  list,       \* the items, from top to bottom
  current,    \* the current item, or NoFilter
  selected,   \* the selected items
  text,       \* the displayed name of every item
  edited,     \* the item whose filter is in the editors (mFilter), or NoFilter
  form,       \* what the editors show: rules and actions
  checks,     \* what the two check boxes show: shortcut and toolbar
  apply,      \* the Apply button is enabled: there are unsaved changes
  mDoNotClose,
  want,       \* history: the rules, actions and check boxes the user wants for each item
  excused,    \* history: the user has refused to save, or other parts of the program have changed filters
  edits

listVars   == <<list, current, selected>>
dialogVars == <<phase, filter, list, current, selected, text, edited, form, checks, apply,
                mDoNotClose, want, excused, edits>>
vars == <<managerVars, dialogVars>>

Used    == DOMAIN filter
NewItem == Cardinality(Used) + 1
Marked(f) == [rules |-> f.rules, actions |-> f.actions, shortcut |-> f.shortcut, toolbar |-> f.toolbar]
Blank   == [rules |-> FALSE, actions |-> "none"]
NewFilter(i) ==
  [id |-> i, name |-> "unknown", auto |-> TRUE, enabled |-> TRUE, op |-> "and", rules |-> FALSE,
   actions |-> "none", inbound |-> TRUE, applicability |-> "all", accounts |-> {},
   shortcut |-> FALSE, toolbar |-> FALSE]
-----------------------------------------------------------------------------
(* The editors.                                                            *)

(* setConfigureShortcut() and setConfigureToolbar() *)
SetShortcut(f, b) == [f EXCEPT !.shortcut = b, !.toolbar = @ /\ b]
SetToolbar(f, b)  == [f EXCEPT !.toolbar = b /\ f.shortcut]

WriteBackNothing(fs) == fs \* faulty: what is in the editors is dropped

(* updateSearchPattern() and updateActionList() *)
WriteBack(fs) ==
  IF edited = NoFilter THEN fs
  ELSE [fs EXCEPT ![edited].rules = form.rules, ![edited].actions = form.actions]

(* slotFilterSelected().  Setting a check box to a new value writes the    *)
(* value into the filter.                                                  *)
Show(fs, i) ==
  LET f    == fs[i]
      boxS == IF checks.shortcut # f.shortcut THEN SetShortcut(f, f.shortcut) ELSE f
      boxT == IF checks.toolbar # f.toolbar THEN SetToolbar(boxS, f.toolbar) ELSE boxS
  IN  /\ edited' = i /\ form' = [rules |-> f.rules, actions |-> f.actions]
      /\ checks' = [shortcut |-> f.shortcut, toolbar |-> f.toolbar]
      /\ filter' = [fs EXCEPT ![i] = boxT]

(* slotReset() *)
Reset(fs) == edited' = NoFilter /\ form' = Blank /\ filter' = fs /\ UNCHANGED checks

(* What the editors are asked to show, if anything else than before. *)
Edit(i) ==
  \/ i = edited /\ UNCHANGED <<edited, form, checks, filter>>
  \/ i # edited /\ i = NoFilter /\ Reset(WriteBack(filter))
  \/ i # edited /\ i # NoFilter /\ Show(WriteBack(filter), i)

(* slotUpdateFilterName() *)
Named(f) ==
  LET auto == f.auto \/ f.name = "blank"
  IN  [f EXCEPT !.auto = auto,
                !.name = IF ~auto THEN @ ELSE IF f.rules THEN "field" ELSE "unnamed"]
-----------------------------------------------------------------------------
(* The list widget: taking an item out makes the one above it current, or  *)
(* the one below, and deselects it; when several items are left selected   *)
(* the editors are reset.                                                  *)
Taken(s, i) ==
  LET n == s.list[i]
      current2  == IF n # s.current THEN s.current
                   ELSE IF i > 1 THEN s.list[i - 1]
                   ELSE IF Len(s.list) > 1 THEN s.list[2] ELSE NoFilter
      selected2 == s.selected \ {n}
      edited2   == IF current2 = s.current THEN s.edited ELSE current2
  IN  [list |-> RemoveAt(s.list, i), current |-> current2, selected |-> selected2,
       edited |-> IF n \in s.selected /\ Cardinality(selected2) > 1 THEN NoFilter ELSE edited2]

Moved(s, from, to) ==
  LET t == Taken(s, from)
      i == IF to > Len(s.list) THEN Len(s.list) ELSE to
  IN  [t EXCEPT !.list = InsertAt(@, i, s.list[from])]

Here    == [list |-> list, current |-> current, selected |-> selected, edited |-> edited]
Picked  == Keep(list, selected)
Row(s, n) == CHOOSE i \in DOMAIN s.list : s.list[i] = n
Numbers(n) == [i \in 1..n |-> i]

UpBlindly(s, i) == \* faulty: a row that is in place already is not left alone
  LET row == Row(s, Picked[i])
  IN  IF row = 1 THEN s ELSE Moved(s, row - 1, row)

(* slotTop(), slotUp(), slotBottom() and slotDown(): the selected items    *)
(* are moved one by one, from the top or from the bottom of the list,      *)
(* those in place already excepted.                                        *)
ToTop(s, i) ==
  LET row == Row(s, Picked[i])
  IN  IF row = i THEN s ELSE Moved(s, row, i)
OneUp(s, i) ==
  LET row == Row(s, Picked[i])
  IN  IF row = i THEN s ELSE Moved(s, row - 1, row)
ToBottom(s, j) ==
  LET row  == Row(s, Picked[Len(Picked) - j + 1])
      last == Len(list) - j + 1
  IN  IF row = last THEN s ELSE Moved(s, row, last + 1)
OneDown(s, j) ==
  LET row  == Row(s, Picked[Len(Picked) - j + 1])
      last == Len(list) - j + 1
  IN  IF row = last THEN s ELSE Moved(s, row + 1, row)

(* slotDelete(): they are taken out one by one. *)
TakeOut(s, i) == Taken(s, Row(s, Picked[i]))

Step(how, s, i) ==
  CASE how = "top"    -> ToTop(s, i)
    [] how = "up"     -> OneUp(s, i)
    [] how = "bottom" -> ToBottom(s, i)
    [] how = "down"   -> OneDown(s, i)
    [] how = "delete" -> TakeOut(s, i)

(* What becomes of s in a step for every selected item. *)
OneByOne(how, s) ==
  LET done[i \in 0..Len(Picked)] == IF i = 0 THEN s ELSE Step(how, done[i - 1], i)
  IN  done[Len(Picked)]
-----------------------------------------------------------------------------
DialogInit ==
  /\ phase = "closed" /\ filter = << >> /\ list = << >> /\ current = NoFilter /\ selected = {}
  /\ text = << >> /\ edited = NoFilter /\ form = Blank
  /\ checks = [shortcut |-> FALSE, toolbar |-> FALSE]
  /\ apply = FALSE /\ mDoNotClose = FALSE
  /\ want = << >> /\ excused = FALSE /\ edits = 0

Init == ManagerInit /\ DialogInit

(* KMFilterDialog() and loadFilterList(); without any filter the list      *)
(* starts with a new one.                                                  *)
Open ==
  /\ phase = "closed" /\ loaded /\ phase' = "open"
  /\ LET fs == IF filters = << >> THEN <<NewFilter(1)>> ELSE filters
     IN  /\ list' = Numbers(Len(fs)) /\ text' = [i \in DOMAIN fs |-> fs[i].name]
         /\ want' = [i \in DOMAIN fs |-> Marked(fs[i])]
         /\ current' = 1 /\ selected' = {1} /\ Show(fs, 1)
  /\ apply' = FALSE /\ excused' = (filters = << >>)
  /\ UNCHANGED <<managerVars, mDoNotClose, edits>>

(* A click on an item; with Ctrl it adds the item to the selection or      *)
(* takes it out.                                                           *)
Click(i) ==
  /\ current' = i /\ selected' = {i}
  /\ IF i = current THEN UNCHANGED <<edited, form, checks, filter>> ELSE Edit(i)
  /\ UNCHANGED <<managerVars, phase, list, text, apply, mDoNotClose, want, excused, edits>>

Select(i) ==
  /\ current' = i /\ selected' = IF i \in selected THEN selected \ {i} ELSE selected \cup {i}
  /\ IF Cardinality(selected') > 1 THEN Edit(NoFilter) /\ apply' = TRUE
     ELSE IF i = current THEN UNCHANGED <<edited, form, checks, filter, apply>>
     ELSE Edit(i) /\ UNCHANGED apply
  /\ UNCHANGED <<managerVars, phase, list, text, mDoNotClose, want, excused, edits>>

ChangedQuietly == \* faulty: Apply stays disabled
  UNCHANGED <<managerVars, phase, edited, mDoNotClose, excused, apply>>

(* slotDialogUpdated() *)
Changed ==
  /\ apply' = TRUE
  /\ UNCHANGED <<managerVars, phase, edited, mDoNotClose, excused>>

(* Changes to the filter that is shown. *)
EditActions(v) ==
  /\ form' = [form EXCEPT !.actions = v] /\ want' = [want EXCEPT ![edited].actions = v]
  /\ Changed /\ UNCHANGED <<filter, listVars, text, checks>>

(* slotAutoNameHack(): a rule is edited, and written back at once.         *)
EditRules(v) ==
  /\ form' = [form EXCEPT !.rules = v] /\ want' = [want EXCEPT ![edited].rules = v]
  /\ LET f == Named([filter[edited] EXCEPT !.rules = v])
     IN  filter' = [filter EXCEPT ![edited] = f] /\ text' = [text EXCEPT ![edited] = f.name]
  /\ Changed /\ UNCHANGED <<listVars, checks>>

(* A row of the rule editor is removed, which is only noted in the form.   *)
RemoveRule ==
  /\ form.rules /\ form' = [form EXCEPT !.rules = FALSE] /\ want' = [want EXCEPT ![edited].rules = FALSE]
  /\ Changed /\ UNCHANGED <<filter, listVars, text, checks>>

Update(f) ==
  /\ filter' = [filter EXCEPT ![edited] = f] /\ Changed /\ UNCHANGED <<listVars, text, form>>

EditOperator(op) ==
  Update([filter[edited] EXCEPT !.op = op]) /\ UNCHANGED <<checks, want>>

(* slotApplicabilityChanged() and slotApplicableAccountsChanged() *)
EditApplicability(inbound, who) ==
  /\ inbound \/ filter[edited].applicability = who
  /\ Update([filter[edited] EXCEPT !.inbound = inbound, !.applicability = who,
                                   !.accounts = IF who = "all" THEN {} ELSE @])
  /\ UNCHANGED <<checks, want>>
EditAccount(a) ==
  /\ filter[edited].inbound /\ filter[edited].applicability = "checked"
  /\ Update([filter[edited] EXCEPT !.accounts = IF a \in @ THEN @ \ {a} ELSE @ \cup {a}])
  /\ UNCHANGED <<checks, want>>

Tick(f, boxes) ==
  /\ Update(f) /\ checks' = boxes
  /\ want' = [want EXCEPT ![edited].shortcut = f.shortcut, ![edited].toolbar = f.toolbar]
TickShortcut ==
  Tick(SetShortcut(filter[edited], ~checks.shortcut), [checks EXCEPT !.shortcut = ~@])
TickToolbar ==
  checks.shortcut /\ Tick(SetToolbar(filter[edited], ~checks.toolbar), [checks EXCEPT !.toolbar = ~@])

EditShown ==
  /\ edited # NoFilter /\ edits' = edits + 1
  /\ \/ \E v \in {"none", "unfit", "fit"} \ {form.actions} : EditActions(v)
     \/ filter[edited].op = "and" /\ (RemoveRule \/ \E v \in BOOLEAN : EditRules(v))
     \/ \E op \in {"and", "all"} \ {filter[edited].op} : EditOperator(op)
     \/ \E inbound \in BOOLEAN, who \in {"all", "checked"} : EditApplicability(inbound, who)
     \/ \E a \in Accounts : EditAccount(a)
     \/ TickShortcut \/ TickToolbar

(* slotFilterEnabledChanged() *)
Enable(i) ==
  /\ filter' = [filter EXCEPT ![i].enabled = ~@] /\ edits' = edits + 1
  /\ Changed /\ UNCHANGED <<listVars, text, form, checks, want>>

(* slotRename(); an empty name brings back the automatic one. *)
Rename(name) ==
  /\ current # NoFilter /\ Cardinality(selected) = 1 /\ edits' = edits + 1
  /\ LET f == Named([filter[current] EXCEPT !.name = name, !.auto = (name = "")])
     IN  filter' = [filter EXCEPT ![current] = f] /\ text' = [text EXCEPT ![current] = f.name]
  /\ Changed /\ UNCHANGED <<listVars, form, checks, want>>
-----------------------------------------------------------------------------
(* Changes to the list.                                                    *)

Room == NewItem <= MaxFilters /\ edits' = edits + 1

(* insertFilter(): above the current item, which the new one then is.      *)
Insert(f, fs) ==
  LET n == NewItem
      i == IF current = NoFilter THEN 1 ELSE Row(Here, current)
      k == IF current = NoFilter THEN Last(InsertAt(list, 1, n)) ELSE n
  IN  /\ Room
      /\ list' = InsertAt(list, i, n) /\ current' = k /\ selected' = {k}
      /\ text' = Append(text, f.name) /\ want' = Append(want, Marked(f))
      /\ Show(Append(fs, f), k) /\ apply' = TRUE
      /\ UNCHANGED <<managerVars, phase, mDoNotClose, excused>>

(* slotNew() and createFilter() *)
New ==
  \/ Insert(NewFilter(NewItem), WriteBack(filter))
  \/ Insert([NewFilter(NewItem) EXCEPT !.name = "field", !.rules = TRUE, !.actions = "unfit"], WriteBack(filter))

(* slotCopy() *)
Copy ==
  /\ current # NoFilter /\ Cardinality(selected) = 1
  /\ LET fs == WriteBack(filter) IN Insert([fs[current] EXCEPT !.id = NewItem], fs)

(* slotDelete(), after the user has agreed: the editors are reset, the     *)
(* selected items taken out, and the row of the current item or the last   *)
(* one becomes current.                                                    *)
Delete ==
  /\ current # NoFilter /\ edits' = edits + 1
  /\ LET row  == Row(Here, current)
         left == OneByOne("delete", [Here EXCEPT !.edited = NoFilter])
         n    == Len(left.list)
         k    == IF n = 0 THEN NoFilter ELSE left.list[IF n < row THEN n ELSE row]
     IN  /\ list' = left.list /\ current' = k /\ selected' = {k} \ {NoFilter}
         /\ IF k # left.current \/ row = 1 THEN Edit(k) ELSE Edit(left.edited)
  /\ apply' = TRUE
  /\ UNCHANGED <<managerVars, phase, text, mDoNotClose, want, excused>>

(* enableControls(): whether the items can be moved up, or down. *)
Movable(end) ==
  /\ current # NoFilter /\ selected # {} /\ Cardinality(selected) # Len(list)
  /\ Cardinality(selected) = 1 => list[end] # current

MoveTo(s) ==
  /\ s.list # list /\ edits' = edits + 1
  /\ list' = s.list /\ current' = s.current /\ selected' = s.selected /\ Edit(s.edited)
  /\ apply' = TRUE
  /\ UNCHANGED <<managerVars, phase, text, mDoNotClose, want, excused>>

Up     == Movable(1) /\ MoveTo(OneByOne("up", Here))
Top    == Movable(1) /\ MoveTo(OneByOne("top", Here))
Down   == Movable(Len(list)) /\ MoveTo(OneByOne("down", Here))
Bottom == Movable(Len(list)) /\ MoveTo(OneByOne("bottom", Here))

(* importFilters(): what the user chooses from a file is appended.         *)
Import ==
  /\ Room
  /\ \E f \in Imported :
       /\ list' = Append(list, NewItem) /\ filter' = Append(filter, f)
       /\ text' = Append(text, f.name) /\ want' = Append(want, Marked(f))
  /\ Changed /\ UNCHANGED <<current, selected, form, checks>>
-----------------------------------------------------------------------------
(* Saving.                                                                 *)
SoundFilters(fs) ==
  LET copies == [i \in DOMAIN list |-> fs[list[i]]]
      ok(f)  == NothingToSay(f) /\ ~IsEmpty(Purified(f))
      good   == Keep(copies, {f \in FilterRecords : ok(f)})
  IN  [i \in DOMAIN good |-> Purified(good[i])]

(* applyFilterChanged() and filtersForSaving(): if there are filters that  *)
(* are not valid, the user discards them or goes on editing.               *)
Save(accepted) ==
  LET fs == WriteBack(filter) IN
  /\ IF current = NoFilter THEN filter' = fs /\ UNCHANGED <<edited, form, checks>> ELSE Show(fs, current)
  /\ excused' = ~accepted
  /\ IF accepted THEN SetFilters(SoundFilters(fs))
     ELSE Len(SoundFilters(fs)) < Len(list) /\ UNCHANGED managerVars

(* slotApply() *)
Apply ==
  /\ apply /\ apply' = FALSE /\ \E accepted \in BOOLEAN : Save(accepted)
  /\ UNCHANGED <<phase, listVars, text, mDoNotClose, want, edits>>

(* A click on OK reaches accept() first and slotSaveSize() after it.       *)
Ok(accepted) ==
  /\ phase' = IF mDoNotClose THEN "open" ELSE "gone"
  /\ Save(accepted) /\ mDoNotClose' = ~accepted
  /\ UNCHANGED <<listVars, text, apply, want, edits>>

Cancel ==
  /\ phase' = "gone"
  /\ UNCHANGED <<managerVars, filter, listVars, text, edited, form, checks, apply, mDoNotClose, want, excused, edits>>

EditList ==
  \/ \E i \in Range(list) : Enable(i)
  \/ \E name \in {"", "own", "blank"} : Rename(name)
  \/ New \/ Copy \/ Delete \/ Import \/ Up \/ Top \/ Down \/ Bottom

(* Another part of the program changes the manager's filters meanwhile.    *)
Others ==
  /\ OthersChange /\ edits < MaxEdits /\ edits' = edits + 1 /\ excused' = TRUE
  /\ UNCHANGED <<phase, filter, listVars, text, edited, form, checks, apply, mDoNotClose, want>>

Next ==
  \/ ReadConfig /\ UNCHANGED dialogVars
  \/ Others
  \/ Open
  \/ /\ phase = "open"
     /\ \/ \E i \in Range(list) : Click(i) \/ Select(i)
        \/ edits < MaxEdits /\ (EditShown \/ EditList)
        \/ Apply \/ Cancel \/ \E accepted \in BOOLEAN : Ok(accepted)

Spec == Init /\ [][Next]_vars
-----------------------------------------------------------------------------
TypeOK ==
  /\ \A fs \in {filters, config, agent, filter} : fs \in Seq(FilterRecords)
  /\ phase \in {"closed", "open", "gone"} /\ list \in Seq(Used) /\ selected \subseteq Range(list)
  /\ current \in Range(list) \cup {NoFilter} /\ DOMAIN text = Used /\ DOMAIN want = Used
  /\ form \in [rules : BOOLEAN, actions : {"none", "unfit", "fit"}]
  /\ checks \in [shortcut : BOOLEAN, toolbar : BOOLEAN]

(* Whatever is clicked, moved, copied, deleted or saved in between, what   *)
(* the user enters reaches the filter it was entered for and no other: it  *)
(* is in the filter, or in the editors that will write it there.  The      *)
(* editors never hold a filter that is gone, nor one that the buttons of   *)
(* the list do not act on, and the list shows the name of each filter.     *)
Entered(i) ==
  IF i = edited THEN [rules |-> form.rules, actions |-> form.actions,
                      shortcut |-> filter[i].shortcut, toolbar |-> filter[i].toolbar]
  ELSE Marked(filter[i])
EditsReachTheirFilter ==
  /\ TypeOK
  /\ edited \in {current, NoFilter}
  /\ \A i \in Range(list) : Entered(i) = want[i] /\ text[i] = filter[i].name

(* With the Apply button disabled every valid filter of the list has been  *)
(* saved as it is shown, unless the user has refused to save or somebody   *)
(* else has changed filters.                                               *)
UnsavedIsMarked ==
  (phase = "open" /\ ~apply /\ ~excused) =>
    \A i \in Range(list) :
      LET f == IF i = edited THEN [filter[i] EXCEPT !.rules = form.rules, !.actions = form.actions]
               ELSE filter[i]
      IN  NothingToSay(f) /\ ~IsEmpty(Purified(f)) =>
            \E j \in DOMAIN filters : Purified(filters[j]) = Purified(f)

(* Except at the bottom, the buttons that move filters keep the order of   *)
(* the selected filters among themselves, and of the others.               *)
SameOrder(s, t, S) == Keep(s, S) = Keep(t, S)
MovesKeepOrder ==
  [][(Range(list') = Range(list) /\ ~Bottom) =>
       SameOrder(list, list', selected) /\ SameOrder(list, list', Range(list) \ selected)]_vars

(* What the dialog saves can be used: it has an action, every action is    *)
(* complete, and a filter for chosen accounts has one that exists.  What   *)
(* it has not saved comes from the file or from others.                    *)
SavesOnlyValid ==
  \A i \in DOMAIN filters :
    LET f == filters[i]
    IN  f \in Range(ReadFrom(Stored)) \/ (\E g \in Foreign : Purified(f) = Purified(g)) \/
        (f.actions = "fit" /\ (f.inbound /\ f.applicability = "checked" => f.accounts \cap Accounts # {}))

(* What is valid is saved as it is shown, and nothing else is.             *)
SavedSoundly == UnsavedIsMarked /\ SavesOnlyValid
=============================================================================
