------------------------------ MODULE MailFilter ------------------------------
(***************************************************************************)
(* Mail filters at work (src/src/filter/mailfilter.cpp): the filter agent  *)
(* fetches as much of a new message as the filters say they need, applies  *)
(* the filters one after the other until one of them stops it, and stores  *)
(* what they changed.  The agent is another program.                       *)
(***************************************************************************)
EXTENDS FilterActions

CONSTANTS
  FilterLists, \* the lists of filters to look at
  Messages,    \* the messages that arrive
  Accounts,    \* the accounts they arrive by; filters may be for some only
  Outbound     \* the filters run on messages that are being sent

Heads == {"identity", "transport", "reply-to", "mdn"}

(* A message has these properties, and nothing else is told of it.         *)
IsMessage(m) ==
  /\ m = [part |-> m.part, text |-> m.text, flags |-> m.flags, tags |-> m.tags, heads |-> m.heads,
          crypt |-> m.crypt, size |-> m.size, age |-> m.age, date |-> m.date,
          known |-> m.known, attached |-> m.attached]
  /\ m.part \in {Envelope, Header, Complete} /\ m.text \in [Fields -> Texts]
  /\ m.flags \subseteq Flags /\ m.tags \subseteq Tags
  /\ m.heads = [h \in Heads |-> m.heads[h]] /\ m.attached \in BOOLEAN

(* The rules that the editors offer: only a rule on the whole message asks *)
(* for attachments, and one on the body calls it "<body>".                 *)
IsRule(r) ==
  /\ r = [field |-> r.field, func |-> r.func, contents |-> r.contents] /\ r.func \in Functions
  /\ r.func.test = "has-attachment" => r.field = "<message>"
  /\ r.field # "body"

(* The actions there are, with the parameters their editors offer. *)
IsAction(a) ==
  /\ a.type \in EnvelopeActions \cup
       {"add header", "remove header", "rewrite header", "set Reply-To", "set transport", "set identity",
        "execute", "filter app", "decrypt", "encrypt", "redirect", "confirm delivery", "fake mdn"}
  /\ a.type = "add tag" => a.list \subseteq Tags
  /\ a.type \in {"set status", "unset status"} => a.param \in Flags \cup {"unread", NoParam}
  /\ a.type \in {"add header", "rewrite header", "set identity"} => a.value \in Texts
  /\ a.type = "set identity" => a.bcc \in Texts
  /\ a.type = "filter app" => IsMessage(a.prints)
  /\ a.type = "add to address book" /\ a.param # NoParam => a.value \in {"from", "to", "cc", "bcc"}

IsList(s, Test(_)) == s \in Seq(ToSet(s)) /\ \A x \in ToSet(s) : Test(x)
IsFilter(f) ==
  IsList(f.pattern.rules, IsRule) /\ IsList(f.actions, IsAction) /\ f.enabled \in BOOLEAN /\ f.stop \in BOOLEAN

ASSUME OutboundAssumption == Outbound \in BOOLEAN
ASSUME MessageAssumption == \A m \in Messages : IsMessage(m)
ASSUME FilterAssumption  == \A fs \in FilterLists : IsList(fs, IsFilter)

VARIABLES
  filters, \* the filters
  account, \* the account the message came by
  message, \* the message on the server
  context, \* the ItemContext the filters work in
  current, \* the filter at work
  next,    \* its next action; 0 before its pattern has matched
  phase    \* "new", "filtering", "stored" or "failed"

vars == <<filters, account, message, context, current, next, phase>>
-----------------------------------------------------------------------------
ApplyOnAccount(f, id) == id \in f.accounts

(* requiredPart(): a filter that will not be applied needs nothing more.   *)
RequiredPart(f, id) ==
  IF ~f.enabled \/ ~ApplyOnAccount(f, id) THEN Envelope
  ELSE Max({PatternPart(f.pattern)} \cup {ActionPart(f.actions[i]) : i \in DOMAIN f.actions})

Fetched(part) == Max({Envelope} \cup {RequiredPart(filters[i], account) : i \in DOMAIN filters}) = part

Init ==
  /\ filters \in FilterLists /\ account \in Accounts
  /\ message \in Messages /\ message.part = Complete
  /\ context = ContextOf(message, FALSE)
  /\ current = 0 /\ next = 0 /\ phase = "new"

(* The agent fetches the message. *)
Fetch ==
  /\ phase = "new"
  /\ \E part \in {Envelope, Header, Complete} :
       Fetched(part) /\ context' = ContextOf([message EXCEPT !.part = part], part = Complete)
  /\ current' = 1 /\ next' = 0 /\ phase' = "filtering"
  /\ UNCHANGED <<filters, account, message>>

Applied(f, m) == f.enabled /\ ApplyOnAccount(f, account) /\ PatternMatches(f.pattern, m)

(* The agent asks the next filter whether it matches. *)
Match ==
  /\ phase = "filtering" /\ next = 0 /\ current <= Len(filters)
  /\ IF Applied(filters[current], context.item) THEN next' = 1 /\ UNCHANGED current
     ELSE current' = current + 1 /\ UNCHANGED next
  /\ UNCHANGED <<filters, account, message, context, phase>>

(* One round of execActions(): errors are passed over but for critical     *)
(* ones, on which the agent gives the message up.                          *)
ExecAction ==
  /\ phase = "filtering" /\ next > 0 /\ next <= Len(filters[current].actions)
  /\ \E o \in Process(filters[current].actions[next], context, Outbound) :
       /\ context' = o.context
       /\ IF o.code = "CriticalError" THEN phase' = "failed" /\ UNCHANGED next
          ELSE next' = next + 1 /\ UNCHANGED phase
  /\ UNCHANGED <<filters, account, message, current>>

EndActionsWithoutStopping == \* faulty: the next filter goes on
  /\ phase = "filtering" /\ next > 0 /\ next = Len(filters[current].actions) + 1
  /\ next' = 0 /\ current' = current + 1
  /\ UNCHANGED <<filters, account, message, context, phase>>

(* After its last action a filter may stop the filtering.  *)
EndActions ==
  /\ phase = "filtering" /\ next > 0 /\ next = Len(filters[current].actions) + 1
  /\ next' = 0
  /\ current' = IF filters[current].stop THEN Len(filters) + 1 ELSE current + 1
  /\ UNCHANGED <<filters, account, message, context, phase>>

(* The agent stores what is marked to be stored; it never uploads a        *)
(* message that it had not fetched completely.                             *)
Store ==
  /\ phase = "filtering" /\ next = 0 /\ current = Len(filters) + 1
  /\ LET new     == context.item
         flags   == context.storeFlags
         payload == context.storePayload /\ context.full
         sent    == IF payload THEN WithPayload(message, new) ELSE message
     IN
     message' = IF context.delete THEN message
                ELSE [sent EXCEPT
                        !.flags = IF flags THEN new.flags ELSE @,
                        !.tags  = IF flags THEN new.tags ELSE @,
                        !.heads["mdn"] = IF flags THEN new.heads["mdn"] ELSE @]
  /\ phase' = "stored"
  /\ UNCHANGED <<filters, account, context, current, next>>

Next == Fetch \/ Match \/ ExecAction \/ EndActions \/ Store

Spec == Init /\ [][Next]_vars
-----------------------------------------------------------------------------
TypeOK ==
  /\ account \in Accounts
  /\ \A i \in DOMAIN filters : \A r \in ToSet(filters[i].pattern.rules) : r.func \in Functions
  /\ message.flags \subseteq Flags /\ \A f \in Fields : message.text[f] \in Texts
  /\ context.item.tags \subseteq Tags /\ context.item.flags \subseteq Flags
  /\ current \in 0..(Len(filters) + 1)
  /\ next # 0 => current \in DOMAIN filters /\ next <= Len(filters[current].actions) + 1
  /\ phase \in {"new", "filtering", "stored", "failed"}

(* What is fetched is enough: a filter matches the part of the message     *)
(* that its filters asked for exactly if it matches all of it, and every   *)
(* action does to the part what it would do to all (requiredPart()).       *)
AllOf(c) == [c EXCEPT !.item.part = Complete]

FetchSuffices ==
  /\ phase = "filtering" /\ next = 0 /\ current \in DOMAIN filters =>
       (Applied(filters[current], context.item) <=> Applied(filters[current], AllOf(context).item))
  /\ phase = "filtering" /\ next > 0 /\ next \in DOMAIN filters[current].actions =>
       LET a == filters[current].actions[next] IN
       {Outcome(o.code, AllOf(o.context)) : o \in Process(a, context, Outbound)} = Process(a, AllOf(context), Outbound)

(* What the actions did is on the server when the message has been         *)
(* filtered: each marks what it changes to be stored, and headers are      *)
(* changed only in messages fetched completely.                            *)
ChangesAreStored ==
  phase = "stored" /\ ~context.delete => message = AllOf(context).item

(* A filter works only if it is enabled and for the account, and never     *)
(* behind one that was due for every message and stops the filtering.      *)
Unconditional(f) == f.enabled /\ account \in f.accounts /\ (f.pattern.rules = << >> \/ f.pattern.op = "all")

NoneBehindTheStop ==
  /\ TypeOK
  /\ phase = "filtering" /\ next > 0 =>
       /\ filters[current].enabled /\ account \in filters[current].accounts
       /\ \A i \in 1..(current - 1) : ~(Unconditional(filters[i]) /\ filters[i].stop)

(* A search folder with a filter's pattern finds the messages the filter   *)
(* would match, asAkonadiQuery() asking the server for no less than        *)
(* matches() accepts.  That is so of these rules only: the others, and     *)
(* "all", ask something else (see the README).                             *)
Searchable(r) ==
  \/ r.field \in {"<status>", "<attachment>", "<invitation>", "<size>", "<date>"}
  \/ /\ r.field \notin {"<encryption>", "<age in days>", "<tag>"}
     /\ r.func.test \in {"contains", "equals"}
     /\ r.field \in {"<recipients>", "<message>", "<any header>"} => ~r.func.neg
  \/ r.field \in Fields /\ r.func.test \in {"start-with", "end-with"} /\ ~r.func.neg

FoundIfMatched ==
  \A i \in DOMAIN filters :
    LET p == filters[i].pattern IN
    p.rules # << >> /\ p.op # "all" /\ (\A j \in DOMAIN p.rules : Searchable(p.rules[j])) =>
      (PatternMatches(p, message) => PatternFinds(p, message))

(* A filter of old with "A unless B" still means A and not B when it is    *)
(* read today, as far as the functions of a pair are each other's opposite *)
(* (searchrule.h), which those of the address book, and "equals" of        *)
(* several recipients, are not; an empty field matches neither, and nor    *)
(* does any field by a function that is not offered for it.                *)
Opposed(r, m) ==
  LET of(tests) == r.func.test \in tests IN
  CASE r.field = "<status>"                                    -> of({"contains", "equals"})
    [] r.field \in {"<size>", "<age in days>", "<date>"}       -> of({"equals", "greater", "less"})
    [] r.field \in {"<encryption>", "<attachment>", "<invitation>"} -> of({"equals"})
    [] r.field \in {"<message>", "<any header>", "<recipients>"} ->
         /\ of({"contains", "equals", "regexp", "start-with", "has-attachment"})
         /\ ~(r.field = "<recipients>" /\ of({"equals"}))
    [] OTHER -> /\ of({"contains", "equals", "regexp", "start-with"})
                /\ Text(m, IF r.field = "<body>" THEN "body" ELSE r.field) # NoText

UnlessMeansNot ==
  \A i \in DOMAIN filters : LET rules == filters[i].pattern.rules IN
    Len(rules) = 2 /\ ~RuleIsEmpty(rules[1]) /\ ~RuleIsEmpty(rules[2]) /\ Opposed(rules[2], message) =>
      (PatternMatches(LegacyRead(rules[1], "unless", rules[2]), message)
         <=> RuleMatches(rules[1], message) /\ ~RuleMatches(rules[2], message))

(* What a pattern means does not depend on who asks: the filter, the       *)
(* search folder, or the configuration of an older version.                *)
PatternsAgree == FoundIfMatched /\ UnlessMeansNot
=============================================================================
