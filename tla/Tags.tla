--------------------------------- MODULE Tags ---------------------------------
(***************************************************************************)
(* A tag between the widgets that show it, Tag and the attribute that      *)
(* Akonadi stores (tag/tag.cpp, tag/tagwidget.cpp), and the dialog that    *)
(* makes one (tag/addtagdialog.cpp).  The dialog stays open, with all of   *)
(* its widgets enabled, until Akonadi has answered.                        *)
(***************************************************************************)
EXTENDS Naturals, Sequences, SequencesExt

CONSTANTS Names,     \* names that may be typed, blank ones among them
          Blank,     \* those of them that are blank
          Forms,     \* what the widgets may be set to
          Invalid,   \* no colour, no font
          MaxTags,   \* how many tags are asked for
          MaxEdits   \* how often existing ones are edited

VARIABLES server,    \* the tags that Akonadi stores, in the order they came
          pending,   \* TagCreateJobs under way, in order: [tag, mine, name, look]
          dialog,    \* the dialog, <<>> when there is none
          given,     \* what the last dialog gave to who opened it: [label, tag]
          meant,     \* history: for each stored tag the name and look last entered
          asked, edits

vars == <<server, pending, dialog, given, meant, asked, edits>>

\* A form has two boxes with a colour each, one box for two boxes of the font, and
\* "toolbar" for the widgets that are copied as they are.
EmptyForm == [textOn |-> FALSE, text |-> "black", backOn |-> FALSE, back |-> "black",
              fontOn |-> FALSE, bold |-> FALSE, italic |-> FALSE, toolbar |-> FALSE]

\* Boxes are ticked or not, and a button for a colour has one.
IsForm(form) ==
    /\ \A box \in {"textOn", "backOn", "fontOn", "bold", "italic", "toolbar"} : form[box] \in BOOLEAN
    /\ form.text # Invalid /\ form.back # Invalid

-----------------------------------------------------------------------------
(* Tag and TagWidget *)

CreateDefaultTag(name) ==
    [name |-> name, textColor |-> Invalid, backgroundColor |-> Invalid,
     bold |-> FALSE, italic |-> FALSE, toolbar |-> FALSE, priority |-> 0]

FromAkonadi(attr) ==
    [name |-> attr.name, textColor |-> attr.textColor, backgroundColor |-> attr.backgroundColor,
     bold |-> attr.font # Invalid /\ attr.font[1], italic |-> attr.font # Invalid /\ attr.font[2],
     toolbar |-> attr.toolbar, priority |-> attr.priority]

\* With every flag, which is the default; an absent colour is stored as such.
SaveToAkonadi(tag) ==
    [name |-> tag.name, textColor |-> tag.textColor, backgroundColor |-> tag.backgroundColor,
     font |-> <<tag.bold, tag.italic>>, toolbar |-> tag.toolbar, priority |-> tag.priority]

ColorShown(c) == IF c = Invalid THEN "white" ELSE c
SetTag(tag) ==
    [textOn |-> tag.textColor # Invalid, text |-> ColorShown(tag.textColor),
     backOn |-> tag.backgroundColor # Invalid, back |-> ColorShown(tag.backgroundColor),
     fontOn |-> tag.bold \/ tag.italic, bold |-> tag.bold, italic |-> tag.italic,
     toolbar |-> tag.toolbar]

RecordTagSettings(tag, form) ==
    [tag EXCEPT !.textColor = IF form.textOn THEN form.text ELSE Invalid,
                !.backgroundColor = IF form.backOn THEN form.back ELSE Invalid,
                !.bold = form.fontOn /\ form.bold, !.italic = form.fontOn /\ form.italic,
                !.toolbar = form.toolbar]

-----------------------------------------------------------------------------
(* What a form says: the things that are ticked. *)
Look(form) ==
    (IF form.textOn THEN {<<"text", form.text>>} ELSE {})
    \cup (IF form.backOn THEN {<<"back", form.back>>} ELSE {})
    \cup {<<f, TRUE>> : f \in {g \in {"bold", "italic"} : form.fontOn /\ form[g]}}
    \cup (IF form.toolbar THEN {<<"toolbar", TRUE>>} ELSE {})

Init ==
    /\ server = <<>> /\ pending = <<>> /\ dialog = <<>> /\ given = <<>> /\ meant = <<>>
    /\ asked = 0 /\ edits = 0

\* The dialog is told of the tags there are, or is not (FilterActionMissingTagDialog
\* does not tell it).
Open ==
    /\ dialog = <<>> /\ asked < MaxTags
    /\ \E tags \in {<<>>, server} :
           dialog' = <<[tags |-> tags, name |-> "", form |-> EmptyForm, ok |-> FALSE, label |-> "", pressed |-> 0]>>
    /\ given' = <<>>
    /\ UNCHANGED <<server, pending, meant, asked, edits>>

SlotTagNameChanged(text) ==
    /\ dialog # <<>> /\ text # dialog[1].name
    /\ dialog' = [dialog EXCEPT ![1].name = text, ![1].ok = text \notin Blank]
    /\ UNCHANGED <<server, pending, given, meant, asked, edits>>

ChangeForm(form) ==
    /\ dialog # <<>>
    /\ dialog' = [dialog EXCEPT ![1].form = form]
    /\ UNCHANGED <<server, pending, given, meant, asked, edits>>

\* A tag of that name is only objected to.
SlotSave ==
    /\ dialog # <<>> /\ dialog[1].ok /\ asked < MaxTags
    /\ ~\E i \in DOMAIN dialog[1].tags : dialog[1].tags[i].name = dialog[1].name
    /\ LET d == dialog[1]
           tag == SaveToAkonadi(RecordTagSettings(CreateDefaultTag(d.name), d.form))
       IN  /\ pending' = Append(pending, [tag |-> tag, mine |-> TRUE, name |-> d.name, look |-> Look(d.form)])
           /\ dialog' = <<[d EXCEPT !.label = d.name, !.pressed = @ + 1]>>
    /\ asked' = asked + 1
    /\ UNCHANGED <<server, given, meant, edits>>

\* Jobs that a dialog leaves behind are answered to nobody.
Forsaken(jobs) == [i \in DOMAIN jobs |-> [jobs[i] EXCEPT !.mine = FALSE]]

\* The server makes the tag or refuses; the dialog that asked closes either way.
OnTagCreated(made) ==
    /\ pending # <<>>
    /\ LET job == Head(pending)
       IN  /\ server' = IF made THEN Append(server, job.tag) ELSE server
           /\ meant' = IF made THEN Append(meant, [name |-> job.name, look |-> job.look]) ELSE meant
           /\ IF job.mine
              THEN /\ dialog' = <<>> /\ pending' = Forsaken(Tail(pending))
                   /\ given' = IF made THEN <<[label |-> dialog[1].label, tag |-> job.tag,
                                               pressed |-> dialog[1].pressed]>> ELSE <<>>
              ELSE pending' = Tail(pending) /\ UNCHANGED <<dialog, given>>
    /\ UNCHANGED <<asked, edits>>

Reject ==
    /\ dialog # <<>> /\ dialog' = <<>> /\ pending' = Forsaken(pending)
    /\ UNCHANGED <<server, given, meant, asked, edits>>

\* A stored tag is shown in a TagWidget, changed or not, and stored again.
Edit(i, changes, form) ==
    LET tag == FromAkonadi(server[i])
        left == IF changes THEN form ELSE SetTag(tag)
    IN  /\ edits < MaxEdits /\ edits' = edits + 1
        /\ server' = [server EXCEPT ![i] = SaveToAkonadi(RecordTagSettings(tag, left))]
        /\ meant' = IF changes THEN [meant EXCEPT ![i].look = Look(form)] ELSE meant
        /\ UNCHANGED <<pending, dialog, given, asked>>

Next ==
    \/ Open \/ SlotSave \/ Reject
    \/ \E text \in Names : SlotTagNameChanged(text)
    \/ \E form \in Forms : ChangeForm(form)
    \/ \E made \in BOOLEAN : OnTagCreated(made)
    \/ \E i \in DOMAIN server, form \in Forms, changes \in BOOLEAN : Edit(i, changes, form)

Spec == Init /\ [][Next]_vars

-----------------------------------------------------------------------------
(* Properties *)

\* Whatever was entered for a tag, when it was made and whenever it was edited, is what
\* the widgets show of it when it is read again; a tag that is only looked at does not
\* change.  A dialog gives a tag of the name it gives, or OK was pressed twice.
TagAsEntered ==
    /\ \A i \in DOMAIN server :
           [name |-> FromAkonadi(server[i]).name, look |-> Look(SetTag(FromAkonadi(server[i])))] = meant[i]
    /\ given # <<>> => given[1].label = given[1].tag.name \/ given[1].pressed > 1
=============================================================================
