---------------------------- MODULE MCMailFilter ----------------------------
(***************************************************************************)
(* The small instance of MailFilter that TLC checks: every pattern of one  *)
(* of the rules below, pairs of them, every action, pairs of filters, each *)
(* for messages that differ in what rules and actions look at.             *)
(***************************************************************************)
EXTENDS MailFilter

CONSTANTS here, elsewhere, friend, work, smtp, ours, theirs

AllAccounts   == {here, elsewhere}
AllTags       == {friend}
AllIdentities == {work}
AllTransports == {smtp}
OurKeys       == {ours}

ARule(field, test, neg, contents) == [field |-> field, func |-> [test |-> test, neg |-> neg], contents |-> contents]

TextRules ==
  {ARule(field, test, neg, "words") :
     field \in {"subject", "to", "list-id", "<body>", "<message>", "<any header>", "<recipients>"},
     test \in {"contains", "equals", "start-with", "end-with"}, neg \in BOOLEAN}
  \cup {ARule("from", "in-addressbook", neg, "words") : neg \in BOOLEAN}
  \cup {ARule("<message>", "has-attachment", neg, "words") : neg \in BOOLEAN}
OtherRules ==
  {ARule("<status>", test, neg, status) :
     test \in {"equals", "contains"}, neg \in BOOLEAN, status \in {"unread", "important"}}
  \cup {ARule(field, test, neg, "valid") :
     field \in {"<size>", "<date>", "<age in days>"}, test \in {"equals", "greater", "less"}, neg \in BOOLEAN}
  \cup {ARule(field, "equals", neg, "words") :
     field \in {"<encryption>", "<attachment>", "<invitation>"}, neg \in BOOLEAN}
AllRules == TextRules \cup OtherRules

Pattern(op, rules) == [op |-> op, rules |-> rules]
Always   == Pattern("and", << >>)
IfStatus == Pattern("and", <<ARule("<status>", "equals", FALSE, "unread")>>)
IfBody   == Pattern("and", <<ARule("<body>", "contains", FALSE, "words")>>)
IfList   == Pattern("and", <<ARule("list-id", "contains", FALSE, "words")>>)

AMessage ==
  [part |-> Complete,
   text |-> [f \in Fields |-> IF f \in {"list-id", "bcc"} THEN NoText ELSE {}],
   flags |-> {"important", "keyword"}, tags |-> {},
   heads |-> [h \in {"identity", "transport", "reply-to", "mdn"} |-> NoParam],
   crypt |-> Plain, size |-> 0, age |-> 0, date |-> -1, known |-> "some", attached |-> FALSE]
(* What a command makes of a message. *)
Printed == [AMessage EXCEPT !.text["body"] = {"contains"}, !.text["subject"] = {}, !.attached = TRUE, !.age = 1]

AnAction(type, param) ==
  [type |-> type, param |-> param, value |-> {"contains"}, bcc |-> {"contains", "ends"},
   list |-> AllTags, how |-> "pgp", reencrypt |-> TRUE, prints |-> Printed]
AllActions ==
  {AnAction(type, NoParam) :
     type \in {"delete", "transfer", "fake mdn", "confirm delivery", "set status", "remove header", "execute"}}
  \cup {AnAction(type, "x") :
     type \in {"transfer", "copy", "add header", "remove header", "rewrite header", "set Reply-To",
               "execute", "filter app", "decrypt", "redirect", "play sound"}}
  \cup {AnAction(type, status) : type \in {"set status", "unset status"}, status \in {"unread", "read", "spam"}}
  \cup {AnAction("add tag", friend), AnAction("set transport", smtp), AnAction("set identity", work),
        AnAction("fake mdn", "ignore"), AnAction("fake mdn", "denied"), AnAction("encrypt", ours),
        AnAction("encrypt", theirs), [AnAction("encrypt", ours) EXCEPT !.how = "smime"],
        [AnAction("add to address book", "x") EXCEPT !.value = "from"]}

AFilter(pattern, actions, stop) ==
  [pattern |-> pattern, actions |-> actions, enabled |-> TRUE, accounts |-> {here}, stop |-> stop]

Changing == {"encrypt", "decrypt", "unset status", "set identity"}
Doing(a) == AFilter(Always, <<a>>, FALSE)
Lists ==
  {<<AFilter(Pattern("and", <<r>>), << >>, FALSE)>> : r \in AllRules}
  \cup {<<AFilter(Pattern(op, <<r, ARule("subject", "contains", FALSE, "words")>>), << >>, FALSE)>> :
          r \in AllRules, op \in {"and", "or", "all"}}
  \cup {<<AFilter(Pattern("and", <<ARule("<status>", "contains", FALSE, "important"), r>>), << >>, FALSE)>> : r \in AllRules}
  \cup {<<AFilter(Always, <<a>>, FALSE)>> : a \in AllActions}
  \cup {<<AFilter(Always, <<a, b>>, FALSE)>> : a \in {b \in AllActions : b.type \in Changing}, b \in AllActions}
  \cup {<<AFilter(p, <<a>>, stop), q>> :
          p \in {Always, IfStatus, IfBody, Pattern("all", <<ARule("subject", "contains", FALSE, "words")>>)},
          a \in {AnAction("set status", "read"), AnAction("transfer", "x"), AnAction("execute", "x")}, stop \in BOOLEAN,
          q \in {AFilter(r, <<AnAction(type, "x")>>, FALSE) : r \in {Always, IfStatus, IfList},
                                                              type \in {"add header", "remove header", "copy"}}
                 \cup {[Doing(AnAction("delete", NoParam)) EXCEPT !.enabled = FALSE],
                       [Doing(AnAction("filter app", "x")) EXCEPT !.accounts = {elsewhere}]}}

Mails ==
  {AMessage,
   [AMessage EXCEPT !.text["subject"] = {"contains", "starts", "same"}, !.text["to"] = {"contains", "angled"},
                    !.text["list-id"] = {"contains"}, !.size = 1, !.date = 0, !.age = 1],
   [AMessage EXCEPT !.text["body"] = {"contains", "ends"}, !.text["cc"] = {"contains", "starts", "ends", "same"},
                    !.size = -1, !.attached = TRUE, !.flags = {"read", "attachment", "ham"}, !.known = "none"],
   [AMessage EXCEPT !.crypt = [how |-> "pgp", key |-> ours], !.flags = {"encrypted", "watched"},
                    !.text["list-id"] = {}, !.date = 1, !.known = "all"],
   [AMessage EXCEPT !.crypt = [how |-> "smime", key |-> theirs], !.flags = {"encrypted", "invitation"},
                    !.heads["identity"] = work],
   [AMessage EXCEPT !.crypt = [how |-> "inline", key |-> ours]]}
=============================================================================
