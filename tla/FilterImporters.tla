--------------------------- MODULE FilterImporters ---------------------------
(***************************************************************************)
(* The filters of other programs (src/src/filter/filterimporter/): how     *)
(* they are read, entry by entry, from their files.                        *)
(*                                                                         *)
(* An entry is a line, a group of a configuration, or an XML element in    *)
(* the order of the document.  Texts are sequences of words, as the        *)
(* parameters of actions are.                                              *)
(***************************************************************************)
EXTENDS ActionParameters

CONSTANTS
  Entries,    \* for each format the entries there may be
  There,      \* the World the filters come to
  Slashed,    \* what paths that begin with a slash are without it
  Dates,      \* the texts that are dates
  MaxEntries  \* bound on the length of a file

VARIABLES
  format, \* of the file
  file,   \* history: its entries so far
  s,      \* the importer
  done

vars == <<format, file, s, done>>

Formats == DOMAIN Entries

(* The importer: the filters it has read, the names of those it found      *)
(* empty, the filter being read (if any), an action that waits for its     *)
(* value, whether the rest of this list of actions or conditions is        *)
(* skipped, and the folders the user has chosen for paths.                 *)
NewFilter(name) ==
  [name |-> name, op |-> "and", rules |-> << >>, actions |-> << >>, enabled |-> TRUE,
   on |-> {"check-mail", "manual-filtering"}, stop |-> TRUE]

Init ==
  /\ format \in Formats /\ file = << >> /\ done = FALSE
  /\ s = [imported |-> << >>, empty |-> << >>, current |-> << >>, pending |-> << >>, skips |-> FALSE, cache |-> << >>]
-----------------------------------------------------------------------------
Lookup(table, key) == IF key \in DOMAIN table THEN table[key] ELSE ""

(* What the importers share: appendFilter() and createFilterAction().      *)
IsRule(r)   == IF r.field = "<age in days>" THEN IsNumber(r.contents) ELSE r.field # "" /\ r.contents # NoText
Filled(f)   == [f EXCEPT !.rules = SelectSeq(@, IsRule)]
HasNothing(f) == f.rules = << >> /\ f.actions = << >>

AppendFilter(t) ==
  IF t.current = << >> THEN t
  ELSE LET f == Filled(t.current[1]) IN
       IF HasNothing(f) THEN [t EXCEPT !.current = << >>, !.empty = Append(@, f.name)]
       ELSE [t EXCEPT !.current = << >>, !.imported = Append(@, f)]

Begin(t, f) == [AppendFilter(t) EXCEPT !.current = <<f>>, !.skips = FALSE]

CreateFilterAction(t, name, value) ==
  IF name \notin ActionNames THEN {t}
  ELSE {IF ParamIsEmpty(n.action) THEN [t EXCEPT !.cache = n.cache]
        ELSE [t EXCEPT !.current[1].actions = Append(@, n.action), !.cache = n.cache] :
          n \in ArgsFromStringInteractive(name, value, There, t.cache)}

WithRule(t, r) == [t EXCEPT !.current[1].rules = Append(@, r)]
-----------------------------------------------------------------------------
(* Thunderbird: lines of a tag and a value.                                *)
ThunderbirdFields ==
  [subject |-> "subject", from |-> "from", body |-> "<body>", date |-> "<date>", status |-> "<status>",
   to |-> "to", cc |-> "cc", tag |-> "<tag>", size |-> "<size>"]
  @@ ("to or cc" :> "<recipients>" @@ "all addresses" :> "<recipients>" @@ "age in days" :> "<age in days>")

ThunderbirdFunctions ==
  [contains |-> "contains", is |-> "equals", matches |-> "equals"]
  @@ ("doesn't contain" :> "contains-not" @@ "isn't" :> "not-equal" @@ "doesn't match" :> "not-equal"
  @@ "is before" :> "less" @@ "is lower than" :> "less" @@ "is less than" :> "less"
  @@ "is after" :> "greater" @@ "is higher than" :> "greater" @@ "is greater than" :> "greater"
  @@ "begins with" :> "start-with" @@ "ends with" :> "end-with"
  @@ "is in ab" :> "is-in-addressbook" @@ "isn't in ab" :> "is-not-in-addressbook")

ThunderbirdStatus == [read |-> "Read", unread |-> "Unread", new |-> "New", forwarded |-> "Forwarded"]

(* Sizes are in kilobytes; what is no number is 0. *)
Kilobytes(text) == IF IsNumber(text) THEN Append(text, "KiB") ELSE <<"0">>

ThunderbirdContents(field, text) ==
  CASE field = "<status>" -> <<Lookup(ThunderbirdStatus, text[1])>>
    [] field = "<size>"   -> Kilobytes(text)
    [] field = "<date>"   -> IF text \in Dates THEN text ELSE NoText
    [] OTHER              -> text

(* splitConditions(): a condition of less than three parts is left out.    *)
ThunderbirdRules(conditions) ==
  LET whole == SelectSeq(conditions, LAMBDA c : Len(c) >= 3)
      rule(c) == LET field == Lookup(ThunderbirdFields, c[1])
                 IN  [field |-> field, func |-> Lookup(ThunderbirdFunctions, c[2]),
                      contents |-> ThunderbirdContents(field, c[3])]
  IN  [i \in DOMAIN whole |-> rule(whole[i])]

ThunderbirdConditions(t, e) ==
  CASE e.op \in {"AND", "OR"} ->
         [t EXCEPT !.current[1].op = IF e.op = "AND" THEN "and" ELSE "or",
                   !.current[1].rules = @ \o ThunderbirdRules(e.conditions)]
    [] e.op = "ALL" -> [t EXCEPT !.current[1].op = "all"]
    [] OTHER        -> t

ThunderbirdActions ==
  [Forward |-> "forward", AddTag |-> "add tag", Delete |-> "delete", Reply |-> "set Reply-To"]
  @@ ("Move to folder" :> "transfer" @@ "Copy to folder" :> "copy" @@ "Change priority" :> "Change priority"
  @@ "Mark read" :> "set status" @@ "Mark unread" :> "set status")

ThunderbirdValue(action) ==
  CASE action = "Mark read"   -> <<"R">>
    [] action = "Mark unread" -> <<"U">>
    [] OTHER                  -> NoText

Priorities == [Highest |-> "1 (Highest)", High |-> "2 (High)", Normal |-> "3 (Normal)", Low |-> "4 (Low)", Lowest |-> "5 (Lowest)"]

(* An action and the value on the line that follows.                       *)
WithValue(t, name, value) ==
  CASE name = "Change priority" ->
         CreateFilterAction(t, "add header", <<"X-Priority", IF value[1] \in DOMAIN Priorities THEN Priorities[value[1]] ELSE value[1]>>)
    [] name \in {"copy", "transfer"} -> CreateFilterAction(t, name, IF value \in DOMAIN Slashed THEN Slashed[value] ELSE value)
    [] OTHER -> CreateFilterAction(t, name, value)

(* "Stop execution" is no action, but the line after it is still taken for *)
(* its value.                                                              *)
ThunderbirdAction(t, e) ==
  [t EXCEPT !.pending = <<[name |-> Lookup(ThunderbirdActions, e.value[1]), value |-> ThunderbirdValue(e.value[1])]>>,
            !.current[1].stop = @ \/ e.value = <<"Stop execution">>]

ThunderbirdTypes ==
  ("1" :> {"check-mail"} @@ "16" :> {"manual-filtering"} @@ "17" :> {"check-mail", "manual-filtering"}
   @@ "32" :> {"send-mail"} @@ "48" :> {"manual-filtering", "send-mail"})

(* Types below 32 leave "send-mail" as it was.                             *)
ThunderbirdType(on, type) ==
  CASE type \notin DOMAIN ThunderbirdTypes -> on
    [] OTHER -> (on \ {"check-mail", "manual-filtering"}) \cup ThunderbirdTypes[type]

ThunderbirdTag(t, e) ==
  CASE e.tag = "name"      -> Begin(t, NewFilter(e.value))
    [] e.tag = "action"    -> ThunderbirdAction(t, e)
    [] e.tag = "enabled"   -> [t EXCEPT !.current[1].enabled = @ /\ e.value # <<"no">>]
    [] e.tag = "condition" -> ThunderbirdConditions(t, e)
    [] e.tag = "type"      -> [t EXCEPT !.current[1].on = ThunderbirdType(@, e.value[1])]
    [] OTHER               -> t

(* parseLine(): an action is made when the next line is read, or none is   *)
(* left; a line that is not its value is then parsed as any other.         *)
Unpended(t)        == [t EXCEPT !.pending = << >>]
WithoutValue(t)    == IF t.pending = << >> THEN {t}
                      ELSE CreateFilterAction(Unpended(t), t.pending[1].name, t.pending[1].value)

ParseLineSwallowing(t, e) == \* faulty: the line after an action is taken for its value
  CASE t.pending # << >> /\ e.tag = "actionValue" -> WithValue(Unpended(t), t.pending[1].name, e.value)
    [] t.pending # << >> /\ e.tag # "actionValue" -> WithoutValue(t)
    [] OTHER -> {ThunderbirdTag(t, e)}

ParseLine(t, e) ==
  IF t.pending # << >> /\ e.tag = "actionValue" THEN WithValue(Unpended(t), t.pending[1].name, e.value)
  ELSE {ThunderbirdTag(u, e) : u \in WithoutValue(t)}
-----------------------------------------------------------------------------
(* Sylpheed: a rule, its list of conditions and its list of actions.       *)
SylpheedHeaders ==
  [From |-> "from", Cc |-> "cc", To |-> "to", Subject |-> "subject"]
  @@ ("Reply-To" :> "reply-to" @@ "List-Id" :> "list-id" @@ "X-ML-Name" :> "x-mailing-list")
SylpheedFields ==
  [size |-> "<size>", age |-> "<age in days>", unread |-> "<status>"]
  @@ ("match-any-header" :> "<any header>" @@ "match-to-or-cc" :> "<recipients>" @@ "match-body-text" :> "<body>")
SylpheedTypes ==
  [contains |-> "contains", is |-> "equals", regex |-> "regexp", gt |-> "greater", lt |-> "less"]
  @@ ("not-contain" :> "contains-not" @@ "is-not" :> "not-equal" @@ "not-regex" :> "not-regexp"
  @@ "in-addressbook" :> "is-in-addressbook" @@ "not-in-addressbook" :> "is-not-in-addressbook")

SylpheedCondition(e) ==
  [field    |-> IF e.match = "match-header" THEN Lookup(SylpheedHeaders, e.header) ELSE Lookup(SylpheedFields, e.match),
   func     |-> Lookup(SylpheedTypes, e.type),
   contents |-> CASE e.match = "size"   -> Kilobytes(e.text)
                  [] e.match = "unread" -> <<"Unread">>
                  [] OTHER              -> IF e.match = "match-header" \/ e.match \in DOMAIN SylpheedFields THEN e.text ELSE NoText]

SylpheedActions ==
  [move |-> "transfer", copy |-> "copy", delete |-> "delete", exec |-> "execute", forward |-> "forward", redirect |-> "redirect"]
  @@ ("exec-async" :> "filter app" @@ "mark-as-read" :> "set status")

SylpheedAction(t, e) ==
  CASE t.skips           -> {t}
    [] ~t.skips /\ e.name = "stop-eval" -> {[t EXCEPT !.skips = TRUE, !.current[1].stop = TRUE]}
    [] OTHER -> CreateFilterAction(t, Lookup(SylpheedActions, e.name), IF e.name = "mark-as-read" THEN <<"R">> ELSE e.text)

SylpheedTiming(on, timing) ==
  CASE timing = "any"      -> on \cup {"check-mail", "manual-filtering"}
    [] timing = "receiver" -> on \cup {"check-mail"}
    [] timing = "manual"   -> (on \ {"check-mail"}) \cup {"manual-filtering"}
    [] OTHER               -> on

SylpheedRule(e) ==
  [NewFilter(e.name) EXCEPT !.enabled = e.enabled # "false", !.on = SylpheedTiming(@, e.timing)]

ParseSylpheed(t, e) ==
  CASE e.tag = "rule"           -> {Begin(t, SylpheedRule(e))}
    [] e.tag = "condition-list" -> {[t EXCEPT !.current[1].op = IF e.bool \in {"and", "or"} THEN e.bool ELSE @]}
    [] e.tag = "condition"      -> {WithRule(t, SylpheedCondition(e))}
    [] e.tag = "action-list"    -> {[t EXCEPT !.skips = FALSE]}
    [] e.tag = "action"         -> SylpheedAction(t, e)
    [] OTHER                    -> {t}
-----------------------------------------------------------------------------
(* Evolution: a rule, its title, its set of parts and its set of actions.  *)
EvolutionParts ==
  [to |-> "to", sender |-> "from", cc |-> "cc", bcc |-> "bcc", subject |-> "subject", header |-> "<any header>",
   body |-> "<body>", size |-> "<size>", status |-> "<status>", mlist |-> "list-id"] @@ ("recv-date" :> "<date>")
EvolutionFlags == [Seen |-> "Read", Answered |-> "Sent", Flagged |-> "Important", Junk |-> "Spam"]
EvolutionOptions ==
  [contains |-> "contains", is |-> "equals"]
  @@ ("not contains" :> "contains-not" @@ "is not" :> "not-equal" @@ "starts with" :> "start-with"
  @@ "not starts with" :> "not-start-with" @@ "ends with" :> "end-with" @@ "not ends with" :> "not-end-with"
  @@ "greater-than" :> "greater" @@ "less-than" :> "less")

(* The contents of a part, by the type of its value. *)
EvolutionContents(e) ==
  CASE e.type = "flag" -> <<Lookup(EvolutionFlags, e.text[1])>>
    [] e.type = "integer" -> Kilobytes(e.text)
    [] e.type \in {"string", "address", "folder"} -> e.text
    [] OTHER -> NoText

(* "all" ends the set; a part that is not known is left out.               *)
EvolutionPart(t, e) ==
  CASE t.skips -> t
    [] ~t.skips /\ e.name = "all" -> [t EXCEPT !.skips = TRUE, !.current[1].op = "all"]
    [] ~t.skips /\ e.name \in DOMAIN EvolutionParts ->
         WithRule(t, [field |-> EvolutionParts[e.name], func |-> Lookup(EvolutionOptions, e.option), contents |-> EvolutionContents(e)])
    [] OTHER -> t

EvolutionActions ==
  [delete |-> "delete", shell |-> "execute", pipe |-> "filter app", forward |-> "forward"]
  @@ ("move-to-folder" :> "transfer" @@ "copy-to-folder" :> "copy" @@ "set-status" :> "set status"
  @@ "unset-status" :> "unset status" @@ "play-sound" :> "play sound")

(* Only the value of a folder is read. *)
EvolutionAction(t, e) ==
  CASE t.skips -> {t}
    [] ~t.skips /\ e.name = "stop" -> {[t EXCEPT !.skips = TRUE, !.current[1].stop = TRUE]}
    [] OTHER -> CreateFilterAction(t, Lookup(EvolutionActions, e.name), IF e.type = "folder" THEN e.text ELSE NoText)

EvolutionRule(e) ==
  [NewFilter(NoText) EXCEPT
     !.enabled = e.enabled # "false",
     !.op = CASE e.grouping = "all" -> "and" [] e.grouping = "any" -> "or" [] OTHER -> @,
     !.on = CASE e.source = "incoming" -> @ \cup {"check-mail"}
              [] e.source = "outgoing" -> (@ \ {"check-mail"}) \cup {"send-mail"}
              [] OTHER                 -> @]

ParseEvolution(t, e) ==
  CASE e.tag = "rule"                   -> {Begin(t, EvolutionRule(e))}
    [] e.tag = "title"                  -> {[t EXCEPT !.current[1].name = e.text]}
    [] e.tag \in {"partset", "actionset"} -> {[t EXCEPT !.skips = FALSE]}
    [] e.tag = "part"                   -> {EvolutionPart(t, e)}
    [] e.tag = "action"                 -> EvolutionAction(t, e)
    [] OTHER                            -> {t}
-----------------------------------------------------------------------------
(* Procmail: recipes.  Conditions are regular expressions on a few headers; *)
(* commands are executed, with their bar; any other line names a folder.   *)
UniqueName(t) == <<ToString(Len(t.imported) + Len(t.empty) + Len(t.current) + 1)>>
ProcmailFields == [From |-> "from", Subject |-> "subject"] @@ ("(To|Cc)" :> "<recipients>")

ParseProcmail(t, e) ==
  CASE e.tag = ":0" -> {Begin(t, NewFilter(UniqueName(t)))}
    [] e.tag = "*"  -> {WithRule(t, [field |-> Lookup(ProcmailFields, e.header), func |-> "regexp", contents |-> e.text])}
    [] e.tag = "|"  -> CreateFilterAction(t, "execute", e.text)
    [] e.tag = ""   -> CreateFilterAction(t, "transfer", e.text)
    [] OTHER        -> {t} \* empty lines, comments, redirections and blocks

(* Balsa: a group is a filter; no condition is ever read.                  *)
BalsaActions == ("1" :> "copy" @@ "2" :> "transfer" @@ "4" :> "execute" @@ "5" :> "transfer")

ParseBalsa(t, e) ==
  UNION {CreateFilterAction(u, Lookup(BalsaActions, e.type), e.action) :
           u \in CreateFilterAction(Begin(t, [NewFilter(e.name) EXCEPT !.op = IF e.op \in {"and", "or"} THEN e.op ELSE @]),
                                    "play sound", e.sound)}

(* Claws Mail and Gmail: of a filter only the name is read.                *)
ParseClaws(t, e) == {IF e.tag \in {"", "["} THEN t ELSE Begin(t, NewFilter(e.name))}
ParseGmail(t, e) == {IF e.tag = "entry" THEN Begin(t, NewFilter(UniqueName(t))) ELSE t}

Parse(t, e) ==
  CASE format = "thunderbird" -> ParseLine(t, e)
    [] format = "sylpheed"    -> ParseSylpheed(t, e)
    [] format = "evolution"   -> ParseEvolution(t, e)
    [] format = "procmail"    -> ParseProcmail(t, e)
    [] format = "balsa"       -> ParseBalsa(t, e)
    [] format = "claws"       -> ParseClaws(t, e)
    [] format = "gmail"       -> ParseGmail(t, e)
-----------------------------------------------------------------------------
(* What follows what in a file: whatever belongs to a filter follows its   *)
(* beginning, an element that is in a list follows the list's, and a value *)
(* the action that has one.                                                *)
Begins(e) == e.tag \in {"name", "rule", ":0", "group", "filter", "entry"}
Lists     == [sylpheed |-> [condition |-> "condition-list", action |-> "action-list"],
              evolution |-> [part |-> "partset", action |-> "actionset"]]
IsListed(e)    == format \in DOMAIN Lists /\ e.tag \in DOMAIN Lists[format]
HasValue(e)    == e.tag = "action" /\ e.value[1] \notin {"Delete", "Mark read", "Mark unread", "Stop execution"}
MayFollow(e, last) ==
  /\ IsListed(e) => last.tag \in {e.tag, Lists[format][e.tag]}
  /\ format = "thunderbird" => (e.tag = "actionValue" <=> HasValue(last))

ReadEntry ==
  /\ ~done /\ Len(file) < MaxEntries
  /\ \E e \in Entries[format] :
       /\ IF file = << >> THEN Begins(e) \/ format \in {"claws", "gmail"} ELSE MayFollow(e, file[Len(file)])
       /\ file' = Append(file, e) /\ s' \in Parse(s, e)
  /\ UNCHANGED <<format, done>>

Finish ==
  /\ ~done /\ file # << >> /\ done' = TRUE
  /\ format = "thunderbird" => ~HasValue(file[Len(file)])
  /\ s' \in {AppendFilter(t) : t \in WithoutValue(s)}
  /\ UNCHANGED <<format, file>>

Next == ReadEntry \/ Finish

Spec == Init /\ [][Next]_vars
-----------------------------------------------------------------------------
(* What a file as a whole says: its filters, each a part of it; and what   *)
(* an entry asks for, if nothing before it in its list ends the list.      *)
Starts  == SetToSortSeq({i \in DOMAIN file : Begins(file[i])}, <)
Portion(k) == SubSeq(file, Starts[k], IF k = Len(Starts) THEN Len(file) ELSE Starts[k + 1] - 1)

Ended(part, i) ==
  /\ format \in DOMAIN Lists
  /\ \E j \in 1 .. i : part[j].tag = "action" /\ part[j].name \in {"stop-eval", "stop"}
                       /\ \A m \in j .. i : part[m].tag = "action"

Requested(part, i) ==
  LET e == part[i]
      value == IF i < Len(part) /\ part[i + 1].tag = "actionValue" THEN part[i + 1].value ELSE ThunderbirdValue(e.value[1])
  IN  CASE format = "thunderbird" /\ e.tag = "action" ->
             IF e.value = <<"Change priority">>
             THEN [name |-> "add header", args |-> <<"X-Priority">> \o value]
             ELSE [name |-> Lookup(ThunderbirdActions, e.value[1]), args |-> value]
        [] format = "sylpheed" /\ e.tag = "action" ->
             [name |-> Lookup(SylpheedActions, e.name), args |-> IF e.name = "mark-as-read" THEN <<"R">> ELSE e.text]
        [] format = "evolution" /\ e.tag = "action" ->
             [name |-> Lookup(EvolutionActions, e.name), args |-> IF e.type = "folder" THEN e.text ELSE NoText]
        [] format = "procmail" /\ e.tag \in {"|", ""} ->
             [name |-> IF e.tag = "|" THEN "execute" ELSE "transfer", args |-> e.text]
        [] OTHER -> [name |-> "", args |-> NoText]

Possible(r) == r.name \in ActionNames /\ \E n \in ArgsFromStringInteractive(r.name, r.args, There, << >>) : ~ParamIsEmpty(n.action)

ActionsOf(part) ==
  LET all == [i \in DOMAIN part |-> IF Ended(part, i) THEN [name |-> "", args |-> NoText] ELSE Requested(part, i)]
      possible == SelectSeq(all, Possible)
  IN  [i \in DOMAIN possible |-> possible[i].name]

SwitchedOff(part) ==
  \E i \in DOMAIN part : \/ part[i].tag = "enabled" /\ part[i].value = <<"no">>
                         \/ part[i].tag = "rule" /\ part[i].enabled = "false"

(* A filter that does something, by what it does and whether it is on.     *)
Doing(doings) == SelectSeq(doings, LAMBDA d : d.actions # << >>)

(* Every filter of the file is imported or reported as empty, once; those  *)
(* that do something are imported in the order of the file, with all they  *)
(* do that can be done here, and are on only if they were on there.        *)
ImportedAsWritten ==
  done =>
    /\ Len(s.imported) + Len(s.empty) = Len(Starts)
    /\ format # "balsa" =>
         Doing([i \in DOMAIN s.imported |->
                  [actions |-> [j \in DOMAIN s.imported[i].actions |-> s.imported[i].actions[j].name], on |-> s.imported[i].enabled]])
         = Doing([k \in DOMAIN Starts |-> [actions |-> ActionsOf(Portion(k)), on |-> ~SwitchedOff(Portion(k))]])
=============================================================================
