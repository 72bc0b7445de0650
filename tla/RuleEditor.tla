------------------------------ MODULE RuleEditor ------------------------------
(***************************************************************************)
(* The editor of one search rule: SearchRuleWidget in                      *)
(* search/searchpatternedit.cpp and its handlers, search/widgethandler/.   *)
(* An editor has a field, and two stacks of widgets of which one each is   *)
(* raised: where the function is chosen and where the value is entered.    *)
(* Each handler has a function combo of its own; some share a line edit.   *)
(* Contents are pairs of a kind ("text", "number", ...) and a value.       *)
(***************************************************************************)
EXTENDS Integers, Sequences

CONSTANTS Texts,        \* what may be typed into a line
          Tags,         \* the tags of Akonadi
          OtherTags,    \* tags that have been deleted
          Numbers,      \* numbers that rules and users may give
          MaxAge,       \* the most the spin box of days shows (99)
          Dates,        \* dates, and "today" among them
          StatusValues, \* sequence of the states of a message that are offered
          MaxEdits      \* how often the user changes something

VARIABLES isBalooSearch,    \* the editor belongs to a search of the index
          fetched,          \* the tag combo has been filled
          editor,           \* the widgets
          given,            \* history: the rule that was set, until the user changes something
          edits

vars == <<isBalooSearch, fetched, editor, given, edits>>

-----------------------------------------------------------------------------
(* Handlers: what they handle, offer, and keep from a search of the index *)

Comparisons == <<"equals", "not-equal", "greater", "less-or-equal", "less", "greater-or-equal">>

TagHandler ==
    [fields |-> {"<tag>"}, unsearchable |-> {"equals", "not-equal", "regexp", "not-regexp"},
     functions |-> <<"contains", "contains-not", "equals", "not-equal", "regexp", "not-regexp">>]
DateHandler == [fields |-> {"<date>"}, unsearchable |-> {}, functions |-> Comparisons]
NumericHandler == [fields |-> {"<age in days>"}, unsearchable |-> {}, functions |-> Comparisons]
StatusHandler ==
    [fields |-> {"<status>"}, unsearchable |-> {}, functions |-> <<"contains", "contains-not">>]
MessageHandler ==
    [fields |-> {"<message>"}, unsearchable |-> {"has-attachment", "has-no-attachment"},
     functions |-> <<"contains", "contains-not", "regexp", "not-regexp",
                     "has-attachment", "has-no-attachment">>]
NumericDoubleHandler == [fields |-> {"<size>"}, unsearchable |-> {}, functions |-> Comparisons]
\* The fallback: it handles every field.
TextHandler ==
    [fields |-> {}, unsearchable |-> {},
     functions |-> <<"contains", "contains-not", "equals", "not-equal", "start-with", "not-start-with",
                     "end-with", "not-end-with", "regexp", "not-regexp">>]
HeadersHandler ==
    [fields |-> {"To", "From", "CC", "<recipients>"},
     unsearchable |-> {"is-in-addressbook", "is-not-in-addressbook"},
     functions |-> TextHandler.functions \o <<"is-in-addressbook", "is-not-in-addressbook">>]
\* These have nothing to enter: a label, and a value that nobody looks at.
EncryptionHandler == [fields |-> {"<encryption>"}, unsearchable |-> {}, functions |-> <<"equals", "not-equal">>]
AttachmentHandler == [fields |-> {"<attachment>"}, unsearchable |-> {}, functions |-> <<"equals", "not-equal">>]
InvitationHandler == [fields |-> {"<invitation>"}, unsearchable |-> {}, functions |-> <<"equals", "not-equal">>]

\* In the order they are registered in.
HandlerNames == <<"tag", "date", "numeric", "status", "message", "numericDouble", "headers",
                  "encryption", "attachment", "invitation", "text">>

Names == {HandlerNames[i] : i \in 1..Len(HandlerNames)}
Handler(h) ==
    CASE h = "tag" -> TagHandler
      [] h = "date" -> DateHandler
      [] h = "numeric" -> NumericHandler
      [] h = "status" -> StatusHandler
      [] h = "message" -> MessageHandler
      [] h = "numericDouble" -> NumericDoubleHandler
      [] h = "headers" -> HeadersHandler
      [] h = "encryption" -> EncryptionHandler
      [] h = "attachment" -> AttachmentHandler
      [] h = "invitation" -> InvitationHandler
      [] h = "text" -> TextHandler
Labels == {"encryption", "attachment", "invitation"}

HandlesField(h, field) == h = "text" \/ field \in Handler(h).fields
Refuses(h, baloo, func) == baloo /\ func \in Handler(h).unsearchable
Known(h, func) == \E i \in 1..Len(Handler(h).functions) : Handler(h).functions[i] = func
Offered(h, baloo) ==
    {f \in {Handler(h).functions[i] : i \in 1..Len(Handler(h).functions)} : ~Refuses(h, baloo, f)}

\* The manager asks the handlers in their order.
First(handlers) ==
    HandlerNames[CHOOSE i \in 1..Len(HandlerNames) :
                     HandlerNames[i] \in handlers /\ \A j \in 1..(i - 1) : HandlerNames[j] \notin handlers]
HandlerOf(field) == First({h \in Names : HandlesField(h, field)})

Empty == <<"empty", "">>
Dummy(func) == <<"dummy", func>>
IsRegExp(func) == func \in {"regexp", "not-regexp"}
Hides(func) == func \in {"has-attachment", "has-no-attachment", "is-in-addressbook", "is-not-in-addressbook"}

-----------------------------------------------------------------------------
(* Reading the widgets *)

\* The size is shown in kilobytes with two decimals.
Kilobytes(bytes) == LET k == (200 * bytes + 1024) \div 2048 IN IF k < 0 THEN 0 ELSE k
Bytes(hundredths) == (hundredths * 1024) \div 100

TagValue(e) == IF IsRegExp(e.function["tag"]) THEN e.tagLine ELSE e.tagChosen
DateValue(e) == e.date
NumericValue(e) == <<"number", e.number>>
NumericDoubleValue(e) == <<"number", Bytes(e.size)>>
StatusValue(e) == <<"status", e.status>>
MessageValue(e) == IF Hides(e.function["message"]) THEN Dummy(e.function["message"]) ELSE e.line
HeadersValue(e) == IF Hides(e.function["headers"]) THEN Dummy(e.function["headers"]) ELSE e.line
TextValue(e) == e.line

HandlerValue(h, e) ==
    CASE h = "tag" -> TagValue(e)
      [] h = "date" -> DateValue(e)
      [] h = "numeric" -> NumericValue(e)
      [] h = "numericDouble" -> NumericDoubleValue(e)
      [] h = "status" -> StatusValue(e)
      [] h = "message" -> MessageValue(e)
      [] h = "headers" -> HeadersValue(e)
      [] h \in Labels -> Dummy(h)
      [] h = "text" -> TextValue(e)

\* The manager takes the first value that is not empty, and the last handler has
\* one for every field.
ManagerValue(field, e) ==
    LET value == HandlerValue(HandlerOf(field), e)
    IN  IF value = Empty THEN TextValue(e) ELSE value

ManagerFunction(field, e) == e.function[HandlerOf(field)]

RuleOf(e) == [field |-> e.field, function |-> ManagerFunction(e.field, e),
              contents |-> ManagerValue(e.field, e)]

-----------------------------------------------------------------------------
(* Setting the widgets *)

\* update() of the handlers: what is raised to enter the value.
ValueWidget(h, func) ==
    CASE h = "tag" -> IF IsRegExp(func) THEN "tagLine" ELSE "tagCombo"
      [] h \in {"message", "headers", "text"} -> IF Hides(func) THEN "none" ELSE "line"
      [] h \in Labels -> "none"
      [] OTHER -> h

RaiseChoice(e, h) == [e EXCEPT !.raised = h] \* faulty: the widget for the value stays
Raise(e, h) == [e EXCEPT !.raised = h, !.shown = ValueWidget(h, e.function[h])]
ManagerUpdate(e, field) == Raise(e, HandlerOf(field))

\* reset() of every handler.
ManagerReset(e) ==
    ManagerUpdate([e EXCEPT !.function = [h \in Names |-> Handler(h).functions[1]],
                            !.line = Empty, !.tagLine = Empty, !.tagChosen = Empty, !.tagText = Empty,
                            !.status = StatusValues[1], !.number = 0, !.size = 0,
                            !.date = <<"date", "today">>], "")

ToInt(contents) == IF contents[1] = "number" THEN contents[2] ELSE 0
Clip(n, low, high) == IF n < low THEN low ELSE IF n > high THEN high ELSE n

\* A tag that is not in the combo is put into its line, the empty entry chosen.
ShowTag(e, rule, tags) ==
    IF IsRegExp(rule.function) THEN [e EXCEPT !.tagLine = rule.contents]
    ELSE [e EXCEPT !.tagText = rule.contents,
                   !.tagChosen = IF rule.contents \in tags THEN rule.contents ELSE Empty]
ShowDate(e, rule) == [e EXCEPT !.date = IF rule.contents[1] = "date" THEN rule.contents ELSE Empty]
ShowNumeric(e, rule) == [e EXCEPT !.number = Clip(ToInt(rule.contents), -10000, MaxAge)]
ShowNumericDouble(e, rule) == [e EXCEPT !.size = Kilobytes(ToInt(rule.contents))]
ShowStatus(e, rule) ==
    [e EXCEPT !.status = IF \E i \in 1..Len(StatusValues) : rule.contents = <<"status", StatusValues[i]>>
                         THEN rule.contents[2] ELSE StatusValues[1]]
ShowMessage(e, rule) == IF Hides(rule.function) THEN e ELSE [e EXCEPT !.line = rule.contents]
ShowHeaders(e, rule) == IF Hides(rule.function) THEN e ELSE [e EXCEPT !.line = rule.contents]
ShowText(e, rule) == [e EXCEPT !.line = rule.contents]

ShowValue(h, e, rule, tags) ==
    CASE h = "tag" -> ShowTag(e, rule, tags)
      [] h = "date" -> ShowDate(e, rule)
      [] h = "numeric" -> ShowNumeric(e, rule)
      [] h = "numericDouble" -> ShowNumericDouble(e, rule)
      [] h = "status" -> ShowStatus(e, rule)
      [] h = "message" -> ShowMessage(e, rule)
      [] h = "headers" -> ShowHeaders(e, rule)
      [] h \in Labels -> e
      [] h = "text" -> ShowText(e, rule)

\* The first handler that does not refuse; a function it does not know is shown as
\* its first one.
ManagerSetRule(e, rule, baloo, tags) ==
    LET h == First({x \in Names : HandlesField(x, rule.field) /\ ~Refuses(x, baloo, rule.function)})
        func == IF Known(h, rule.function) THEN rule.function ELSE Handler(h).functions[1]
        cleared == [ManagerReset(e) EXCEPT !.field = rule.field, !.function[h] = func]
    IN  [ShowValue(h, cleared, rule, tags) EXCEPT !.raised = h, !.shown = ValueWidget(h, rule.function)]

-----------------------------------------------------------------------------
(* The editor *)

Fields == {"<tag>", "<date>", "<age in days>", "<status>", "<message>", "<size>", "To", "<attachment>", "Subject"}

Blank == [field |-> "", function |-> [h \in Names |-> Handler(h).functions[1]], line |-> Empty,
          tagLine |-> Empty, tagChosen |-> Empty, tagText |-> Empty, status |-> StatusValues[1],
          number |-> 0, size |-> 0, date |-> <<"date", "today">>, raised |-> "text", shown |-> "line"]

\* Contents that a rule on this field may have.
Contents(field) ==
    CASE field = "<tag>" -> {<<"tag", t>> : t \in Tags \cup OtherTags}
      [] field = "<date>" -> {<<"date", d>> : d \in Dates}
      [] field \in {"<age in days>", "<size>"} -> {<<"number", n>> : n \in Numbers}
      [] field = "<status>" -> {<<"status", StatusValues[i]>> : i \in 1..Len(StatusValues)}
      [] field = "<attachment>" -> {Dummy("attachment")}
      [] OTHER -> {<<"text", t>> : t \in Texts}

TagEntries == {<<"tag", t>> : t \in Tags}

RuleWith(f, func, c) ==
    [field |-> f, function |-> func, contents |-> IF Hides(func) THEN Dummy(func) ELSE c]
RulesOn(f) == UNION {{RuleWith(f, func, c) : c \in Contents(f)} : func \in Offered(HandlerOf(f), FALSE)}
Rules == UNION {RulesOn(f) : f \in Fields}

Init ==
    /\ isBalooSearch \in BOOLEAN
    /\ fetched = FALSE
    /\ editor = Blank
    /\ given = <<>>
    /\ edits = 0

Edits == edits < MaxEdits /\ edits' = edits + 1

\* The lister gives an editor a rule, whatever it showed before.
SetRule(rule) ==
    /\ editor' = ManagerSetRule(editor, rule, isBalooSearch, IF fetched THEN TagEntries ELSE {})
    /\ given' = <<rule>>
    /\ Edits
    /\ UNCHANGED <<isBalooSearch, fetched>>

Clear ==
    /\ editor' = [ManagerReset(editor) EXCEPT !.field = ""]
    /\ given' = <<>>
    /\ UNCHANGED <<isBalooSearch, fetched, edits>>

SlotRuleFieldChanged(field) ==
    /\ editor' = ManagerUpdate([editor EXCEPT !.field = field], field)
    /\ given' = <<>>
    /\ Edits
    /\ UNCHANGED <<isBalooSearch, fetched>>

SlotFunctionChanged(func) ==
    /\ func \in Offered(editor.raised, isBalooSearch)
    /\ editor' = ManagerUpdate([editor EXCEPT !.function[editor.raised] = func], editor.field)
    /\ given' = <<>>
    /\ Edits
    /\ UNCHANGED <<isBalooSearch, fetched>>

Enter(w, x) == editor' = [editor EXCEPT ![w] = x]
ChooseTag(t) == editor' = [editor EXCEPT !.tagChosen = t, !.tagText = t]

\* The user enters something into the widget he sees.
SlotValueChanged ==
    /\ \/ editor.shown = "line" /\ \E t \in Texts : Enter("line", <<"text", t>>)
       \/ editor.shown = "tagLine" /\ \E t \in Texts : Enter("tagLine", <<"text", t>>)
       \/ editor.shown = "tagCombo" /\ fetched /\ \E t \in TagEntries : ChooseTag(t)
       \/ editor.shown = "status" /\ \E i \in 1..Len(StatusValues) : Enter("status", StatusValues[i])
       \/ editor.shown = "numeric" /\ \E n \in Numbers : Enter("number", Clip(n, -10000, MaxAge))
       \/ editor.shown = "numericDouble" /\ \E n \in Numbers : Enter("size", Kilobytes(n))
       \/ editor.shown = "date" /\ \E d \in Dates : Enter("date", <<"date", d>>)
    /\ given' = <<>>
    /\ Edits
    /\ UNCHANGED <<isBalooSearch, fetched>>

\* Other fields are offered: the field is kept only where tags are left out.
SetPatternEditOptions(notShowTags) ==
    LET field == IF notShowTags /\ editor.field # "<tag>" THEN editor.field ELSE ""
    IN  /\ editor' = ManagerUpdate([editor EXCEPT !.field = field], field)
        /\ given' = <<>>
        /\ Edits
        /\ UNCHANGED <<isBalooSearch, fetched>>

\* The job that fills the tag combo has ended; what is chosen in the combo and
\* what stands in its line stay.
OnTagsFetched ==
    /\ ~fetched
    /\ fetched' = TRUE
    /\ UNCHANGED <<isBalooSearch, editor, given, edits>>

Next ==
    \/ \E rule \in Rules : SetRule(rule)
    \/ Clear
    \/ \E field \in Fields : SlotRuleFieldChanged(field)
    \/ \E func \in Offered(editor.raised, isBalooSearch) : SlotFunctionChanged(func)
    \/ SlotValueChanged
    \/ \E notShowTags \in BOOLEAN : SetPatternEditOptions(notShowTags)
    \/ OnTagsFetched

Spec == Init /\ [][Next]_vars

-----------------------------------------------------------------------------
(* Properties *)

Missing(rule) == rule.field = "<tag>" /\ rule.function \notin {"regexp", "not-regexp"} /\ editor.tagChosen = Empty
RefusedBy(rule) == Refuses(HandlerOf(rule.field), isBalooSearch, rule.function)

\* A rule that has only been looked at is read back as it was, whatever the editor
\* showed before: this is what the dialog stores when another filter is chosen.
\* Ages beyond what the spin box shows are cut, sizes lose up to six bytes or gain up
\* to five, a tag is kept only if it was in the combo, and a rule the index cannot
\* search for becomes one that it can.
RuleStays ==
    given # <<>> =>
        LET was == given[1]
            is == RuleOf(editor)
        IN  /\ is.field = was.field
            /\ RefusedBy(was) \/ is.function = was.function
            /\ \/ is.contents = was.contents
               \/ Missing(was) \/ RefusedBy(was)
               \/ was.field = "<age in days>" /\ was.contents[2] > MaxAge /\ is.contents[2] = MaxAge
               \/ was.field = "<size>" /\ (is.contents[2] - was.contents[2]) \in -6..5

\* After any mix of fields, functions and values that was chosen, the rule is what
\* the raised widgets show and not what a hidden one has kept, but for a tag or a
\* date that is left empty.
RuleIsShown ==
    LET h == HandlerOf(editor.field)
        is == RuleOf(editor)
    IN  (given = <<>> \/ ~RefusedBy(given[1])) /\ editor.raised = h =>
            /\ is.function = editor.function[editor.raised]
            /\ editor.shown = ValueWidget(h, is.function)
            /\ editor.shown = "line" => is.contents = editor.line
            /\ editor.shown = "tagCombo" /\ editor.tagChosen # Empty => is.contents = editor.tagText
            /\ editor.shown = "status" => is.contents = <<"status", editor.status>>
=============================================================================
