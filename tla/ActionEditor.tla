----------------------------- MODULE ActionEditor -----------------------------
(***************************************************************************)
(* One action of a filter, on its way between the configuration, the       *)
(* filter and its editor (FilterActionWidget), and the tags, which the     *)
(* filter manager asks the server for when it starts                       *)
(* (src/src/filter/filtermanager.cpp) and then is told of.                 *)
(***************************************************************************)
EXTENDS ActionParameters, Lists

CONSTANTS
  Names,     \* the actions that are edited
  Nothing,   \* no action, editor or answer: a model value
  AllTags,   \* every tag there may be, in the order of their addresses
  Offers,    \* what may be chosen for each action: sets of parameters
  Existing,  \* the rest of the world
  MaxEdits,  \* bound on what the user does
  MaxChanges \* bound on tags added and removed

VARIABLES
  server,   \* the tags of the server
  snapshot, \* the tags in the answer that is under way; none if it has come
  events,   \* what the monitor has not yet reported
  tags,     \* mTagList
  listed,   \* the tags that the widget's own "add tag" knows (FilterActionAddTag::mList)
  stored,   \* the action in the configuration, by its name and text
  action,   \* the action of the filter in the dialog
  editor,   \* its editor
  chosen,   \* what the user has last chosen
  saved,    \* what had been chosen when the configuration was written
  shaken,   \* a tag chosen was not among those known where it was read or shown,
            \* or the list has changed under it
  edits, changes

tagVars  == <<server, snapshot, events, tags>>
editVars == <<listed, stored, action, editor, chosen, saved, shaken>>
vars     == <<tagVars, editVars, edits, changes>>

Ordered(S) == Keep(AllTags, S)
Now        == [Existing EXCEPT !.tags = Ordered(tags)]
Here       == [Existing EXCEPT !.tags = listed] \* as the widget's actions see it
Pending    == snapshot # Nothing
Choosable    == UNION {{[name |-> n, param |-> p, known |-> << >>] : p \in Offers[n]} : n \in Names}
Text(a)    == [name |-> a.name, args |-> ArgsAsString(a)]

(* What an editor gives: numbers and codes from its lists, of what there   *)
(* is, and words between which there is no tab.                            *)
IsChoice(name, p, w) ==
  LET kind == KindOf[name] IN
  CASE kind = "folder"    -> p = <<NoText>> \/ \E n \in Numbers : p = <<<<n>>>>
    [] kind \in {"text", "sound"} -> p = <<p[1]>>
    [] kind = "status"    -> p = <<NoText>> \/ \E c \in StatusCodes : p = <<<<c>>>>
    [] kind = "mdn"       -> p = <<NoText>> \/ \E c \in MdnCodes : p = <<<<c>>>>
    [] kind = "tag"       -> \E t \in ToSet(AllTags) : p = <<t.url>>
    [] kind = "identity"  -> \E n \in Numbers : p = <<<<n>>>> /\ <<n>> \in w.identities
    [] kind = "transport" -> \E n \in Numbers : p = <<<<n>>>> /\ <<n>> \in w.transports
    [] kind = "pair"      -> p = <<<<p[1][1]>>, <<p[2][1]>>>>
    [] kind = "triple"    -> p = <<<<p[1][1]>>, <<p[2][1]>>, <<p[3][1]>>>>
    [] kind = "book"      -> /\ p = <<<<p[1][1]>>, <<p[2][1]>>, <<p[3][1]>>>>
                             /\ p[1][1] \in {"", "From", "To", "CC", "BCC"}
                             /\ p[2][1] \in Numbers /\ p[2] \in w.books
    [] kind = "key"       -> p = <<<<p[1][1]>>, <<p[2][1]>>>> /\ p[1] # NoText /\ p[1] \in w.keys
    [] kind = "none"      -> p = << >>

Init ==
  /\ server \in SUBSET ToSet(AllTags) /\ snapshot = server /\ events = << >> /\ tags = {}
  /\ listed = << >>
  /\ chosen \in {c \in Choosable : ~ParamIsEmpty(c)} /\ saved = chosen /\ stored = Text(chosen)
  /\ action = Nothing /\ editor = Nothing /\ shaken = FALSE
  /\ edits = 0 /\ changes = 0
-----------------------------------------------------------------------------
(* The server: a tag is added or removed; it may answer with those it had  *)
(* at any time since it was asked.                                         *)
ServerChanges ==
  /\ changes < MaxChanges /\ changes' = changes + 1
  /\ \E t \in ToSet(AllTags) :
       /\ server' = IF t \in server THEN server \ {t} ELSE server \cup {t}
       /\ events' = Append(events, [added |-> t \notin server, tag |-> t])
       /\ snapshot' \in IF Pending THEN {snapshot, server'} ELSE {snapshot}
  /\ UNCHANGED <<tags, editVars, edits>>

(* tagListingFinished() reaches every "add tag" action, but only one whose *)
(* editor is there takes the new list.                                     *)
TellActions ==
  LET told == editor # Nothing /\ ParamKind(editor.owner) = "tag" IN
  /\ editor' = IF told THEN TagsListed(editor, Ordered(tags')) ELSE editor
  /\ listed' = IF told THEN Ordered(tags') ELSE listed
  /\ shaken' = (shaken \/ told)

(* slotFinishedTagListing(): the answer is added to what is known.         *)
Merged(known, answer) == known \cup answer

TagsAnswered ==
  /\ Pending /\ snapshot' = Nothing
  /\ tags' = Merged(tags, snapshot) /\ TellActions
  /\ UNCHANGED <<server, events, stored, action, chosen, saved, edits, changes>>

(* slotTagAdded(), slotTagRemoved() *)
TagReported ==
  /\ events # << >> /\ events' = Tail(events)
  /\ tags' = IF Head(events).added THEN tags \cup {Head(events).tag} ELSE tags \ {Head(events).tag}
  /\ TellActions
  /\ UNCHANGED <<server, snapshot, stored, action, chosen, saved, edits, changes>>
-----------------------------------------------------------------------------
Lists(known, c) == KindOf[c.name] = "tag" => \E i \in DOMAIN known : known[i].url = c.param[1]

(* FilterActionWidget(): a widget makes an action of each kind once, with  *)
(* the tags of that moment, and keeps it.  The widget that will show the   *)
(* action may be one made long before, or a new one.                       *)
NewWidget ==
  /\ editor = Nothing /\ listed' = Ordered(tags)
  /\ UNCHANGED <<stored, action, editor, chosen, saved, shaken>>

(* The filter is read from the configuration, its actions copied.  A tag   *)
(* is kept if it is known, or if none is.                                  *)
Read ==
  /\ action = Nothing /\ stored # Nothing
  /\ LET a == ArgsFromString(NewAction(stored.name, Now), stored.args, Now) IN
       action' = IF ParamIsEmpty(a) THEN Nothing ELSE CopyOf(a, Now)
  /\ stored' = IF action' = Nothing THEN Nothing ELSE stored
  /\ shaken' = (shaken \/ (tags # {} /\ ~Lists(Now.tags, saved))) /\ chosen' = saved
  /\ UNCHANGED <<listed, editor, saved>>

(* setAction(): the editor is made by the action of the widget, with the   *)
(* tags that one knows.                                                    *)
Open ==
  /\ action # Nothing /\ editor = Nothing
  /\ editor' = EditorOf(action, NewAction(action.name, Here), Now)
  /\ shaken' = (shaken \/ ~Lists(listed, chosen))
  /\ UNCHANGED <<listed, stored, action, chosen, saved>>

(* What the editor chooses from has been listed.                           *)
Load ==
  /\ editor # Nothing /\ ~editor.loaded
  /\ editor' = Loaded(editor, Now)
  /\ UNCHANGED <<listed, stored, action, chosen, saved, shaken>>

(* slotFilterTypeChanged(): another action of the widget, with what it     *)
(* begins with, and then a parameter of those it offers.                   *)
Pick ==
  /\ editor # Nothing /\ edits < MaxEdits
  /\ \E c \in Choosable, blank \in {NewAction(n, Here) : n \in Names} :
       /\ blank.name = c.name /\ Lists(listed, c)
       /\ editor' = [EditorOf(blank, blank, Now) EXCEPT !.shows = c.param, !.loaded = TRUE]
       /\ chosen' = c
  /\ UNCHANGED <<listed, stored, action, saved, shaken>>

(* regenerateActionListFromWidgets(), when another filter is shown or all  *)
(* are to be saved.                                                        *)
Regenerate ==
  /\ editor # Nothing
  /\ action' = Applied(editor, Now) /\ editor' = Nothing
  /\ UNCHANGED <<listed, stored, chosen, saved, shaken>>

(* The filter is written; an action that is empty is not.                  *)
Save ==
  /\ action # Nothing /\ editor = Nothing
  /\ stored' = IF ParamIsEmpty(action) THEN Nothing ELSE Text(action)
  /\ action' = Nothing /\ saved' = chosen
  /\ UNCHANGED <<listed, editor, chosen, shaken>>

(* The dialog is cancelled.                                                *)
Cancel ==
  /\ action # Nothing /\ editor = Nothing /\ action' = Nothing /\ chosen' = saved
  /\ UNCHANGED <<listed, stored, editor, saved, shaken>>

Edit ==
  /\ \/ NewWidget \/ Read \/ Open \/ Load \/ Regenerate \/ Save \/ Cancel
  /\ UNCHANGED <<tagVars, edits, changes>>

Choose == Pick /\ edits' = edits + 1 /\ UNCHANGED <<tagVars, changes>>

Next == ServerChanges \/ TagsAnswered \/ TagReported \/ Edit \/ Choose

Spec == Init /\ [][Next]_vars
-----------------------------------------------------------------------------
(* When nothing is under way the manager knows every tag of the server,    *)
(* whatever was reported before the answer came.  (It may know one that is *)
(* gone: filtermanager.cpp:163.)                                           *)
NoTagIsMissed == ~Pending /\ events = << >> => server \subseteq tags

(* Reading, copying, showing, taking back and writing an action leaves it  *)
(* as it was last chosen, and drops it only if what was chosen is empty.   *)
(* Only a tag the manager does not know when it is read (though it knows   *)
(* some), one the widget that shows it has never heard of, or a list of    *)
(* tags that changes under an open editor may put another in its place.    *)
ChoiceStays ==
  ~shaken =>
    /\ action # Nothing /\ editor = Nothing => action.name = chosen.name /\ action.param = chosen.param
    /\ editor # Nothing => editor.owner.name = chosen.name /\ editor.shows = chosen.param
    /\ stored = Nothing => ParamIsEmpty(saved)
=============================================================================
