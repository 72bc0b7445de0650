----------------------------- MODULE FilterConfig -----------------------------
(***************************************************************************)
(* Filters in configuration files (MailFilter, src/src/filter/mailfilter.cpp, *)
(* SearchPattern and SearchRule, src/src/search/): how they are written,   *)
(* exported, read, read while the user is asked for what is missing,       *)
(* copied and streamed.                                                    *)
(***************************************************************************)
EXTENDS ActionParameters

CONSTANTS
  MaxRules,  \* filterRulesMaximumSize()
  MaxActions \* filterActionsMaximumSize()

S == INSTANCE SearchRules

(* A filter: its pattern (name, operator, rules), the sets it applies on,  *)
(* the accounts it is for, what it shows in menus, its actions.            *)
SetsOfOld     == {"check-mail", "manual-filtering"}
StandardIcon  == "system-run"

(* A key a group does not have is an empty set, one it has a singleton.    *)
Key(present, value)   == IF present THEN {value} ELSE {}
Entry(key, otherwise) == IF key = {} THEN otherwise ELSE CHOOSE v \in key : TRUE

(* writeConfig(); exported actions name folders by their paths.            *)
WrittenActions(actions, export, w) ==
  [i \in DOMAIN actions |->
     [name |-> actions[i].name,
      args |-> IF export THEN ArgsAsStringReal(actions[i], w) ELSE ArgsAsString(actions[i])]]

Written(f, export, w) ==
  [id |-> {f.id}, pattern |-> S!PatternWritten(f.pattern), on |-> {f.on}, applicability |-> f.applicability,
   stop |-> f.stop, configureShortcut |-> f.configureShortcut, shortcut |-> Key(f.shortcut # "", f.shortcut),
   configureToolbar |-> f.configureToolbar, toolbarName |-> {f.toolbarName}, icon |-> Key(f.icon # "", f.icon),
   autoNaming |-> f.autoNaming, enabled |-> f.enabled, actions |-> WrittenActions(f.actions, export, w),
   accounts |-> Key(f.accounts # {}, f.accounts)]

(* readConfig(): all but the actions and the accounts.  A group without    *)
(* "apply-on" is of old.                                                   *)
ReadFields(g, actions, accounts) ==
  [id |-> Entry(g.id, "random"), pattern |-> S!PatternRead(g.pattern),
   on |-> Entry(g.on, SetsOfOld), applicability |-> IF g.on = {} THEN "but-imap" ELSE g.applicability,
   stop |-> g.stop, configureShortcut |-> g.configureShortcut, shortcut |-> Entry(g.shortcut, ""),
   configureToolbar |-> g.configureToolbar /\ g.configureShortcut,
   toolbarName |-> Entry(g.toolbarName, g.pattern.name), icon |-> Entry(g.icon, StandardIcon),
   autoNaming |-> g.autoNaming, enabled |-> g.enabled, actions |-> actions, accounts |-> accounts]

(* Of the first few actions those that are known and not empty are kept.   *)
Readable(stored)       == SelectSeq(SubSeq(stored, 1, Min({MaxActions, Len(stored)})), LAMBDA s : s.name \in ActionNames)
ReadAction(s, w)       == ArgsFromString(NewAction(s.name, w), s.args, w)
WithAction(actions, a) == IF ParamIsEmpty(a) THEN actions ELSE Append(actions, a)

ReadActions(stored, w) ==
  FoldLeft(LAMBDA actions, s : WithAction(actions, ReadAction(s, w)), << >>, Readable(stored))

AskForActions(stored, w, cache) ==
  FoldLeft(LAMBDA outcomes, s :
             UNION {{[actions |-> WithAction(o.actions, n.action), update |-> o.update \/ n.update, cache |-> n.cache] :
                       n \in ArgsFromStringInteractive(s.name, s.args, w, o.cache)} : o \in outcomes},
           {[actions |-> << >>, update |-> FALSE, cache |-> cache]}, Readable(stored))

(* FilterActionMissingAccountDialog, when an account is not there          *)
AllAccountsExist(accounts, w) == accounts \subseteq w.accounts
AskForAccounts(accounts, w) ==
  IF AllAccountsExist(accounts, w) THEN {[accounts |-> accounts, update |-> FALSE]}
  ELSE {[accounts |-> accounts, update |-> FALSE]} \cup {[accounts |-> A, update |-> TRUE] : A \in SUBSET w.accounts}

ReadConfig(g, w) == ReadFields(g, ReadActions(g.actions, w), Entry(g.accounts, {}))

ReadConfigInteractive(g, w, cache) ==
  {[filter |-> ReadFields(g, o.actions, a.accounts), update |-> o.update \/ a.update, cache |-> o.cache] :
     o \in AskForActions(g.actions, w, cache), a \in AskForAccounts(Entry(g.accounts, {}), w)}
-----------------------------------------------------------------------------
(* purify(): empty rules and actions go, and accounts that are gone.       *)
Purified(f, w) ==
  [f EXCEPT !.pattern.rules = SelectSeq(@, LAMBDA r : ~S!RuleIsEmpty(r)),
            !.actions = SelectSeq(@, LAMBDA a : ~ParamIsEmpty(a)),
            !.accounts = IF w.accounts = {} THEN @ ELSE @ \cap w.accounts]

FilterIsEmpty(f) ==
  \/ f.pattern.rules = << >> /\ f.actions = << >>
  \/ f.applicability = "checked" /\ "check-mail" \in f.on /\ f.accounts = {}

(* The copy constructor, which gives a filter without a name in the        *)
(* toolbar that of its pattern; and a filter written to a stream and read  *)
(* into a new one: the name of its pattern stays behind.                   *)
ToolbarName(f) == IF f.toolbarName = "" THEN f.pattern.name ELSE f.toolbarName
ActionsCopied(f, w) == [f EXCEPT !.actions = [i \in DOMAIN @ |-> CopyOf(@[i], w)]]
Copied(f, w)   == [ActionsCopied(f, w) EXCEPT !.toolbarName = ToolbarName(f)]
PatternStreamed(p) == [name |-> "unknown", op |-> p.op, rules |-> p.rules]
Streamed(f, w) == [ActionsCopied(f, w) EXCEPT !.pattern = PatternStreamed(@)]

(* readFiltersFromConfig() and writeFiltersToConfig()                      *)
WriteAll(filters, export, w) ==
  LET kept == SelectSeq(filters, LAMBDA f : ~FilterIsEmpty(f))
  IN  [i \in DOMAIN kept |-> Written(kept[i], export, w)]

WithFilter(o, n, w) ==
  LET f == Purified(n.filter, w) IN
  [filters |-> IF FilterIsEmpty(f) THEN o.filters ELSE Append(o.filters, f),
   empty |-> IF FilterIsEmpty(f) THEN Append(o.empty, f.pattern.name) ELSE o.empty,
   update |-> o.update \/ n.update, cache |-> n.cache]

NoneRead(cache) == [filters |-> << >>, empty |-> << >>, update |-> FALSE, cache |-> cache]

ReadAll(groups, w) ==
  FoldLeft(LAMBDA o, g : WithFilter(o, [filter |-> ReadConfig(g, w), update |-> FALSE, cache |-> o.cache], w),
           NoneRead(<< >>), groups).filters

ReadAllInteractive(groups, w) ==
  FoldLeft(LAMBDA outcomes, g :
             UNION {{WithFilter(o, n, w) : n \in ReadConfigInteractive(g, w, o.cache)} : o \in outcomes},
           {NoneRead(<< >>)}, groups)
=============================================================================
