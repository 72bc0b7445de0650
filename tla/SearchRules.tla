----------------------------- MODULE SearchRules -----------------------------
(***************************************************************************)
(* The search patterns of filters and search folders (src/src/search/).    *)
(* A pattern is a name, an operator and a list of rules; a rule compares   *)
(* one field of a message with the rule's contents by one function.        *)
(***************************************************************************)
EXTENDS Integers, Sequences, SequencesExt

CONSTANT MaxRules \* filterRulesMaximumSize()

(* A function is a test or its opposite: contains-not, less-or-equal for   *)
(* "greater" and so on.  "none" is FuncNone, which is no enumerator.       *)
Tests     == {"contains", "equals", "regexp", "greater", "less", "in-addressbook",
              "has-attachment", "start-with", "end-with", "none"}
Functions == [test : Tests, neg : BOOLEAN]

Is(test)    == [test |-> test, neg |-> FALSE]
IsNot(test) == [test |-> test, neg |-> TRUE]

(* The order of the enumerators, the first of which is 0. *)
Enumerators ==
  <<Is("contains"), IsNot("contains"), Is("equals"), IsNot("equals"), Is("regexp"), IsNot("regexp"),
    Is("greater"), IsNot("greater"), Is("less"), IsNot("less"),
    Is("in-addressbook"), IsNot("in-addressbook"), Is("in-category"), IsNot("in-category"),
    Is("has-attachment"), IsNot("has-attachment"), Is("start-with"), IsNot("start-with"),
    Is("end-with"), IsNot("end-with"), Is("has-invitation"), IsNot("has-invitation")>>

(* A field's text is what is true of it: it contains the rule's contents,  *)
(* starts or ends with them, is the same but for the case, or ends with    *)
(* them and a closing angle bracket.                                       *)
Texts   == {t \in SUBSET {"contains", "starts", "ends", "same", "angled"} :
              t \cap {"starts", "ends", "same", "angled"} # {} => "contains" \in t} \cup {{"empty"}}
NoText  == {"empty"}
Fields  == {"subject", "from", "to", "cc", "bcc", "list-id", "body"}
Flags   == {"read", "replied", "important", "watched", "ignored", "spam", "ham", "encrypted",
            "attachment", "invitation", "keyword"}

(* A message: its texts, how its size, age and date compare with what the  *)
(* rules name, whose of its addresses are in the address book, how it is   *)
(* encrypted.  "part" is the part of it that has been fetched.             *)
Envelope == 0
Header   == 1
Complete == 2

Covers(part, field) ==
  \/ field \in {"subject", "from", "to", "cc", "bcc"}
  \/ field = "list-id" /\ part >= Header
  \/ field = "body" /\ part = Complete

Text(m, field) == IF Covers(m.part, field) THEN m.text[field] ELSE NoText

(* Several texts in a row: who starts and who ends it matters. *)
Joint(texts, first, last) ==
  (UNION {t \cap {"contains"} : t \in texts}) \cup (first \cap {"starts"}) \cup (last \cap {"ends"})
-----------------------------------------------------------------------------
(* matchesInternal() of a string rule; texts of no length never match.     *)
TextMatches(f, text) ==
  LET sought == CASE f.test \in {"contains", "regexp"} -> "contains"
                  [] f.test = "equals"     -> "same"
                  [] f.test = "start-with" -> "starts"
                  [] f.test = "end-with"   -> "ends"
  IN  /\ text # NoText
      /\ f.test \in {"contains", "regexp", "equals", "start-with", "end-with"}
      /\ (sought \in text) # f.neg

(* ... and of the address book: is there someone in it, is there someone   *)
(* not in it?  (Categories are offered by no editor and left out.)         *)
AddressMatches(f, m) == m.known # (IF f.neg THEN "all" ELSE "none")

(* addresses that end with a bracket are tried without it *)
Unbracketed(text) == IF "angled" \in text THEN (text \ {"angled"}) \cup {"ends"} ELSE {}

(* SearchRuleString::matches() *)
StringMatches(r, m) ==
  LET text == CASE r.field = "<message>"    -> Joint({Text(m, f) : f \in Fields} \ {NoText}, {}, Text(m, "body"))
                [] r.field = "<any header>" -> Joint({Text(m, f) : f \in Fields \ {"body"}} \ {NoText}, {}, {})
                [] r.field = "<recipients>" -> Joint({Text(m, f) : f \in {"to", "cc", "bcc"}},
                                                     Text(m, "to"), Text(m, "bcc"))
                [] r.field = "<body>"       -> Text(m, "body")
                [] r.field = "<tag>"        -> NoText
                [] OTHER                    -> Text(m, r.field)
  IN  CASE r.field = "<recipients>" /\ r.func.test = "equals" ->
             \E f \in {"to", "cc", "bcc"} : TextMatches(r.func, Text(m, f))
        [] r.func.test = "in-addressbook" ->
             IF r.field \notin Fields \ {"body"} \/ text = NoText THEN r.func.neg ELSE AddressMatches(r.func, m)
        [] r.func.test = "has-attachment" -> (m.attached /\ m.part = Complete) # r.func.neg
        [] OTHER ->
             \/ TextMatches(r.func, text)
             \/ /\ r.field \in {"from", "to", "cc", "bcc"} /\ r.func.test = "end-with"
                /\ "angled" \in text /\ TextMatches(r.func, Unbracketed(text))

(* The numbers and dates of a message are below, at or above the rule's.   *)
(* Comparing numbers as texts, which no editor offers, is left out.        *)
NumberMatches(f, order) ==
  /\ f.test \in {"equals", "greater", "less"}
  /\ f.neg # (CASE f.test = "equals"  -> order = 0
                [] f.test = "greater" -> order > 0
                [] f.test = "less"    -> order < 0)

DateMatches(f, order) == NumberMatches(f, order)

(* Statuses: a message that is not unread is read. *)
HasStatus(m, status) == IF status = "unread" THEN "read" \notin m.flags ELSE status \in m.flags

StatusMatches(r, m) == r.func.test \in {"equals", "contains"} /\ HasStatus(m, r.contents) # r.func.neg

AttachmentMatches(r, m) == r.func.test = "equals" /\ ("attachment" \in m.flags) # r.func.neg
InvitationMatches(r, m) == r.func.test = "equals" /\ ("invitation" \in m.flags) # r.func.neg

(* Anything but "equals" asks for messages that are not encrypted.  What   *)
(* is encrypted inline shows in the body only.                             *)
IsEncrypted(m) == m.crypt.how \in (IF m.part = Complete THEN {"pgp", "smime", "inline"} ELSE {"pgp", "smime"})
EncryptionMatches(r, m) == (r.func = [test |-> "equals", neg |-> FALSE]) = IsEncrypted(m)

RuleMatches(r, m) ==
  CASE r.field = "<status>"      -> StatusMatches(r, m)
    [] r.field = "<size>"        -> NumberMatches(r.func, m.size)
    [] r.field = "<age in days>" -> NumberMatches(r.func, m.age)
    [] r.field = "<date>"        -> DateMatches(r.func, m.date)
    [] r.field = "<encryption>"  -> EncryptionMatches(r, m)
    [] r.field = "<attachment>"  -> AttachmentMatches(r, m)
    [] r.field = "<invitation>"  -> InvitationMatches(r, m)
    [] OTHER                     -> r.contents # "" /\ StringMatches(r, m)

(* isEmpty(): rules for a flag of the message always are complete.         *)
RuleIsEmpty(r) ==
  CASE r.field \in {"<encryption>", "<attachment>", "<invitation>"} -> FALSE
    [] r.field \in {"<size>", "<age in days>", "<date>"} -> r.contents # "valid"
    [] OTHER -> r.field = "" \/ r.contents = ""

RulePartForgettingBodies(r) == \* faulty
  CASE r.field \in {"<message>", "<encryption>"}           -> Complete
    [] r.field \in {"list-id", "<any header>", "<body>"}   -> Header
    [] OTHER                                               -> Envelope

(* requiredPart(): what has to be fetched of a message to match the rule   *)
RulePart(r) ==
  CASE r.field \in {"<message>", "<body>", "<encryption>"} -> Complete
    [] r.field \in {"list-id", "<any header>"}             -> Header
    [] OTHER                                               -> Envelope
-----------------------------------------------------------------------------
(* SearchPattern: an operator, "and", "or" or "all", and rules *)
PatternMatches(p, m) ==
  \/ p.rules = << >>
  \/ p.op = "and" /\ \A i \in DOMAIN p.rules : RuleMatches(p.rules[i], m)
  \/ p.op = "or"  /\ \E i \in DOMAIN p.rules : RuleMatches(p.rules[i], m)
  \/ p.op = "all"

PatternPart(p) == Max({Envelope} \cup {RulePart(p.rules[i]) : i \in DOMAIN p.rules})

(* writeConfig() writes so many rules, readConfig() reads the complete ones *)
PatternWritten(p) == [p EXCEPT !.rules = SubSeq(@, 1, Min({MaxRules, Len(@)}))]
PatternRead(p)    == [p EXCEPT !.rules = SelectSeq(@, LAMBDA r : ~RuleIsEmpty(r))]

(* importLegacyConfig(): two rules, A and B, joined by "and", "or",        *)
(* "unless" or "ignore", which takes the first only.  For "unless" the     *)
(* last bit of B's function is flipped; "none" has no enumerator then.     *)
Inverted(r) ==
  LET i == CHOOSE j \in DOMAIN Enumerators : Enumerators[j] = r.func
  IN  IF r.func.test = "none" THEN r
      ELSE [r EXCEPT !.func = Enumerators[IF i % 2 = 1 THEN i + 1 ELSE i - 1]]

LegacyRead(a, joint, b) ==
  CASE RuleIsEmpty(a)                      -> [op |-> "and", rules |-> << >>]
    [] joint = "ignore" \/ RuleIsEmpty(b) -> [op |-> "and", rules |-> <<a>>]
    [] joint = "or"                        -> [op |-> "or",  rules |-> <<a, b>>]
    [] joint = "unless"                    -> [op |-> "and", rules |-> <<a, Inverted(b)>>]
    [] OTHER                               -> [op |-> "and", rules |-> <<a, b>>]
-----------------------------------------------------------------------------
(* A search folder asks the server instead.  isNegated() and               *)
(* akonadiComparator(): prefixes, suffixes and regular expressions become  *)
(* "contains"; less-or-equal and greater-or-equal are asked as such.       *)
Negated(f) == f.neg /\ f.test \notin {"greater", "less"}

(* What the server is asked of one text, and of several at once.           *)
TextQuery(f, texts) ==
  LET asked == IF f.test \in {"equals", "in-addressbook", "has-attachment"} THEN "same" ELSE "contains"
  IN  (\E t \in texts : asked \in t) # Negated(f)

StringQuery(r, m) ==
  TextQuery(r.func,
    CASE r.field = "<message>"    -> {m.text[f] : f \in Fields}
      [] r.field = "<any header>" -> {m.text[f] : f \in Fields \ {"body"}}
      [] r.field = "<recipients>" -> {m.text[f] : f \in {"to", "cc", "bcc"}}
      [] r.field = "<body>"       -> {m.text["body"]}
      [] OTHER                    -> {m.text[r.field]})

StatusQueryUnmended(r, m) == \* faulty: the special case forgets the rule's own negation
  IF r.contents = "unread" THEN "read" \notin m.flags
  ELSE (r.contents \in m.flags) # Negated(r.func)

(* "Unread" has no flag of its own: it is asked for as "not read".         *)
StatusQuery(r, m) ==
  IF r.contents = "unread" THEN ("read" \in m.flags) # ~Negated(r.func)
  ELSE (r.contents \in m.flags) # Negated(r.func)

FlagQuery(r, m, flag)  == (flag \in m.flags) # Negated(r.func)
NumberQuery(r, order)  == NumberMatches(r.func, order)

RuleQuery(r, m) ==
  CASE r.field = "<status>"     -> StatusQuery(r, m)
    [] r.field = "<size>"       -> NumberQuery(r, m.size)
    [] r.field = "<date>"       -> NumberQuery(r, m.date)
    [] r.field = "<age in days>" -> NumberQuery(r, -1) \* the date is asked to compare with one ahead
    [] r.field = "<attachment>" -> FlagQuery(r, m, "attachment")
    [] r.field = "<invitation>" -> FlagQuery(r, m, "invitation")
    [] OTHER                    -> StringQuery(r, m)

(* asAkonadiQuery(): rules on the encryption ask nothing, and a pattern    *)
(* that asks nothing finds nothing.  An "all" pattern still asks its rules. *)
Asked(p) == {i \in DOMAIN p.rules : p.rules[i].field # "<encryption>"}

PatternFinds(p, m) ==
  IF p.op = "or" THEN \E i \in Asked(p) : RuleQuery(p.rules[i], m)
  ELSE Asked(p) # {} /\ \A i \in Asked(p) : RuleQuery(p.rules[i], m)
=============================================================================
