---------------------------- MODULE SieveScripts ----------------------------
(***************************************************************************)
(* Filters converted to a Sieve script (FilterConvertToSieve, src/src/     *)
(* filter/filterconverter/, and the generateSieveScript() of filters,      *)
(* patterns and rules).  A script is the extensions it requires and a      *)
(* block for each filter: a joint test, commands, and whether it stops.    *)
(***************************************************************************)
EXTENDS SearchRules

CONSTANTS
  FilterLists, \* the lists of filters to convert
  Messages     \* the messages the server may be given

VARIABLES
  filters,  \* to be converted
  requires, \* the extensions required so far
  blocks    \* the blocks written so far

vars == <<filters, requires, blocks>>

Init == filters \in FilterLists /\ requires = {} /\ blocks = << >>
-----------------------------------------------------------------------------
(* Rules.  What Sieve cannot ask becomes a remark in the place of a test.  *)
Remark == [kind |-> "remark"]
NotSupported == {"<status>", "<any header>", "contents", "<age in days>", "<date>", "<recipients>", "<tag>", "<message>"}

SizeTestOffByOne(f) == \* faulty: less-or-equal is taken for less
  CASE f.test = "greater" -> [kind |-> "size", comparison |-> IF f.neg THEN ":under" ELSE ":over", offset |-> 0]
    [] f.test = "less"    -> [kind |-> "size", comparison |-> IF f.neg THEN ":over" ELSE ":under", offset |-> 0]
    [] f.test = "equals"  -> [kind |-> "size", comparison |-> "remark", offset |-> 0]
    [] OTHER              -> Remark

SizeTest(f) ==
  CASE f.test = "greater" -> [kind |-> "size", comparison |-> IF f.neg THEN ":under" ELSE ":over", offset |-> IF f.neg THEN 1 ELSE 0]
    [] f.test = "less"    -> [kind |-> "size", comparison |-> IF f.neg THEN ":over" ELSE ":under", offset |-> IF f.neg THEN -1 ELSE 0]
    [] f.test = "equals"  -> [kind |-> "size", comparison |-> "remark", offset |-> 0]
    [] OTHER              -> Remark

(* Beginnings and ends are asked for by regular expressions.               *)
Comparison == [t \in {"contains", "equals", "regexp", "start-with", "end-with", "none"} |->
                 CASE t = "contains" -> ":contains" [] t = "equals" -> ":is" [] t = "none" -> "" [] OTHER -> ":regex"]
Anchor(test) == CASE test = "start-with" -> "^" [] test = "end-with" -> "$" [] OTHER -> ""

TextTest(kind, field, f) ==
  IF f.test \notin DOMAIN Comparison THEN Remark
  ELSE [kind |-> kind, field |-> field, comparison |-> Comparison[f.test], anchor |-> Anchor(f.test),
        not |-> f.neg /\ f.test # "none"]

TestOf(r) ==
  CASE r.field = "<size>"            -> SizeTest(r.func)
    [] r.field \in NotSupported      -> Remark
    [] r.field = "<body>"            -> TextTest("body", "body", r.func)
    [] OTHER                         -> TextTest("header", r.field, r.func)

RequiredByTest(r) ==
  (IF r.field = "<body>" THEN {"body"} ELSE {})
  \cup (IF r.field \notin NotSupported \cup {"<size>"} /\ r.func.test \in {"regexp", "start-with", "end-with"} THEN {"regex"} ELSE {})

(* Patterns.  "all" asks nothing, and its block is not well formed.        *)
Joints == [or |-> "anyof", and |-> "allof", all |-> "true"]
JointTest(p) == [joint |-> Joints[p.op],
                 tests |-> IF p.op = "all" THEN << >> ELSE [i \in 1 .. Min({MaxRules, Len(p.rules)}) |-> TestOf(p.rules[i])]]
RequiredByPattern(p) ==
  IF p.op = "all" THEN {} ELSE UNION {RequiredByTest(p.rules[i]) : i \in 1 .. Min({MaxRules, Len(p.rules)})}

(* Actions: the command and the extensions of each; the others become      *)
(* remarks.                                                                *)
Command(name) ==
  CASE name = "transfer"      -> <<"fileinto">>
    [] name = "copy"          -> <<"fileinto", ":copy">>
    [] name = "delete"        -> <<"discard">>
    [] name = "redirect"      -> <<"redirect">>
    [] name = "set status"    -> <<"setflag">>
    [] name = "unset status"  -> <<"removeflag">>
    [] name = "add header"    -> <<"addheader">>
    [] name = "remove header" -> <<"deleteheader">>
    [] OTHER                  -> <<"remark">>

Requires(name) ==
  CASE name = "transfer"                          -> {"fileinto"}
    [] name = "copy"                              -> {"fileinto", "copy"}
    [] name \in {"set status", "unset status"}    -> {"imap4flags"}
    [] name \in {"add header", "remove header"}   -> {"editheader"}
    [] OTHER                                      -> {}

(* MailFilter::generateSieveScript()                                       *)
BlockOf(f) ==
  [asks |-> JointTest(f.pattern), commands |-> [i \in DOMAIN f.actions |-> Command(f.actions[i])], stop |-> f.stop]
RequiredBy(f) == RequiredByPattern(f.pattern) \cup UNION {Requires(f.actions[i]) : i \in DOMAIN f.actions}

Convert ==
  /\ Len(blocks) < Len(filters)
  /\ LET f == filters[Len(blocks) + 1]
     IN  blocks' = Append(blocks, BlockOf(f)) /\ requires' = requires \cup RequiredBy(f)
  /\ UNCHANGED filters

Next == Convert
Spec == Init /\ [][Next]_vars
-----------------------------------------------------------------------------
(* What a Sieve server makes of a script (RFC 5228, 5173, 3894, 5232,      *)
(* 5293).  A size test asks for kilobytes where the rule means bytes: the  *)
(* size of a message is relative to the number in the rule, in the unit of *)
(* the one who looks at it, so that all but the unit is compared.          *)
ExtensionOf(word) ==
  CASE word = "fileinto" -> "fileinto" [] word = ":copy" -> "copy"
    [] word \in {"setflag", "removeflag"} -> "imap4flags"
    [] word \in {"addheader", "deleteheader"} -> "editheader"
    [] word = "body" -> "body" [] word = ":regex" -> "regex" [] OTHER -> "none"

WordsOf(block) ==
  (UNION {{block.commands[i][j] : j \in DOMAIN block.commands[i]} : i \in DOMAIN block.commands})
  \cup {block.asks.tests[i].kind : i \in DOMAIN block.asks.tests}
  \cup {block.asks.tests[i].comparison : i \in {j \in DOMAIN block.asks.tests : block.asks.tests[j].kind # "remark"}}

Finds(t, text) ==
  CASE t.comparison = ":contains" -> "contains" \in text
    [] t.comparison = ":is"       -> "same" \in text
    [] t.comparison = ":regex"    -> (CASE t.anchor = "^" -> "starts" [] t.anchor = "$" -> "ends" [] OTHER -> "contains") \in text

TestHolds(t, m) ==
  IF t.kind = "size" THEN IF t.comparison = ":over" THEN m.size > t.offset ELSE m.size < t.offset
  ELSE Finds(t, m.text[t.field]) # t.not

BlockHolds(b, m) ==
  IF b.asks.joint = "anyof" THEN \E i \in DOMAIN b.asks.tests : TestHolds(b.asks.tests[i], m)
  ELSE \A i \in DOMAIN b.asks.tests : TestHolds(b.asks.tests[i], m)

(* What can be converted: complete rules on a size or a text that do not   *)
(* become remarks, and patterns that ask something.  (Rules on encryption, *)
(* attachments and invitations become tests of headers of such names.)     *)
Convertible(r) ==
  /\ ~RuleIsEmpty(r)
  /\ \/ r.field = "<size>" /\ r.func.test \in {"greater", "less"}
     \/ r.field \in (Fields \ {"body"}) \cup {"<body>"} /\ r.func.test \in DOMAIN Comparison \ {"none"}
PatternConvertible(p) ==
  p.op # "all" /\ p.rules # << >> /\ Len(p.rules) <= MaxRules /\ \A i \in DOMAIN p.rules : Convertible(p.rules[i])

(* A script requires every extension it uses: a server refuses one that    *)
(* does not.                                                               *)
ExtensionsRequired ==
  \A i \in DOMAIN blocks : {ExtensionOf(w) : w \in WordsOf(blocks[i])} \ {"none"} \subseteq requires

(* A message with all the headers there are, of which no address ends with *)
(* a bracket (which the rules here look behind).                           *)
HasHeaders(m) == m.part = Complete /\ \A f \in Fields : m.text[f] # NoText /\ "angled" \notin m.text[f]

(* The block of a filter that can be converted acts on the messages the    *)
(* filter matches, of those that have the headers it asks about; except    *)
(* that the number of a size test is taken for kilobytes.                  *)
ConvertedAlike ==
  \A i \in DOMAIN blocks : PatternConvertible(filters[i].pattern) =>
    \A m \in Messages : HasHeaders(m) => (BlockHolds(blocks[i], m) <=> PatternMatches(filters[i].pattern, m))
-----------------------------------------------------------------------------
(* The lists the code can be given: patterns are joined by one of three    *)
(* operators, functions are one of a pair.                                 *)
IsList(s) == s \in Seq({s[i] : i \in DOMAIN s})
IsFilter(f) ==
  /\ f.pattern.op \in DOMAIN Joints
  /\ IsList(f.pattern.rules) /\ \A i \in DOMAIN f.pattern.rules : f.pattern.rules[i].func \in Functions
IsFilterList(fs) == IsList(fs) /\ \A i \in DOMAIN fs : IsFilter(fs[i])
=============================================================================
