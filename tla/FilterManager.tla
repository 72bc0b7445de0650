---------------------------- MODULE FilterManager ----------------------------
(***************************************************************************)
(* FilterManager (src/src/filter/filtermanager.cpp) holds the mail filters *)
(* of the process.  Every change is written to the configuration file that *)
(* is shared with the filter agent, which is told to read it again.        *)
(***************************************************************************)
EXTENDS Integers, Sequences, SequencesExt, Lists

CONSTANTS
  Accounts,      \* the mail accounts that exist
  OtherAccounts, \* accounts that filters still name but that are gone
  Stored,        \* the filters in the configuration file at the start
  Foreign        \* filters that other parts of the program may add

VARIABLES
  filters, \* mFilters
  config,  \* the filters in the configuration file
  agent,   \* the filters the agent works with
  loaded   \* the configuration has been read; mInitialized

managerVars == <<filters, config, agent, loaded>>

(* A filter, as far as it matters here.  Its actions may be none, some     *)
(* that lack their parameter, or some that are complete.                   *)
FilterRecords ==
  [id : Nat, name : {"unknown", "unnamed", "field", "own"}, auto : BOOLEAN, enabled : BOOLEAN,
   op : {"and", "all"}, rules : BOOLEAN, actions : {"none", "unfit", "fit"},
   inbound : BOOLEAN, applicability : {"all", "checked"}, accounts : SUBSET (Accounts \cup OtherAccounts),
   shortcut : BOOLEAN, toolbar : BOOLEAN]

(* A filter that is not in the menus has no button in the toolbar, neither *)
(* one that is read from a file nor one that has been edited.              *)
MenuFirst(f) == f.toolbar => f.shortcut

(* The filters of files and of other parts of the program are filters.     *)
ASSUME FiltersAssumption ==
  /\ Stored \in Seq({f \in FilterRecords : MenuFirst(f)})
  /\ \A f \in Foreign : f \in FilterRecords /\ MenuFirst(f)
-----------------------------------------------------------------------------
(* isEmpty() *)
IsEmpty(f) ==
  \/ ~f.rules /\ f.actions = "none"
  \/ f.applicability = "checked" /\ f.inbound /\ f.accounts = {}

(* purify() drops incomplete actions and accounts that are gone ...        *)
Purified(f) ==
  [f EXCEPT !.actions = IF @ = "fit" THEN @ ELSE "none", !.accounts = @ \cap Accounts]

(* ... and says nothing if every action was complete, and there was one.   *)
NothingToSay(f) == f.actions = "fit"

(* readFiltersFromConfig(), not interactive, and writeFiltersToConfig() *)
Worthwhile   == {f \in FilterRecords : ~IsEmpty(f)}
ReadFrom(fs) == Keep([i \in DOMAIN fs |-> Purified(fs[i])], Worthwhile)
Written(fs)  == Keep(fs, Worthwhile)

EndUpdateEarly(fs) == \* faulty: the agent reads before the file is written
  config' = Written(fs) /\ agent' = ReadFrom(config)

(* endUpdate(): write the configuration, let the agent read it. *)
EndUpdate(fs) ==
  config' = Written(fs) /\ agent' = ReadFrom(config')

ManagerInit ==
  config = Stored /\ filters = << >> /\ agent = ReadFrom(Stored) /\ loaded = FALSE

(* slotReadConfig(), and slotServerStateChanged() whenever the server      *)
(* comes up (its disconnect() names a signal as if it were a slot).        *)
ReadConfig ==
  /\ loaded' = TRUE /\ filters' = ReadFrom(config)
  /\ UNCHANGED <<config, agent>>

SetFilters(fs) == filters' = fs /\ EndUpdate(fs) /\ UNCHANGED loaded

(* appendFilters(fs, replace).  After a filter of the same name has been   *)
(* removed the search goes on with the second one.                         *)
Namesakes(f, fs) ==
  LET first   == CHOOSE i \in DOMAIN fs : fs[i].name = f.name /\ \A j \in DOMAIN fs : fs[j].name = f.name => i <= j
      without == RemoveAt(fs, first)
  IN  IF \A i \in DOMAIN fs : fs[i].name # f.name THEN fs
      ELSE IF without = << >> THEN << >>
      ELSE <<Head(without)>> \o Keep(Tail(without), {g \in FilterRecords : g.name # f.name})

AppendFilters(f, replace) ==
  /\ filters' = Append(IF replace THEN Namesakes(f, filters) ELSE filters, f)
  /\ EndUpdate(filters') /\ UNCHANGED loaded

RemoveFilter(i) ==
  /\ filters' = RemoveAt(filters, i)
  /\ EndUpdate(filters') /\ UNCHANGED loaded

(* Elsewhere in the program a filter is added or removed.  *)
OthersChange ==
  /\ loaded
  /\ \/ \E f \in Foreign, replace \in BOOLEAN :
          (\A i \in DOMAIN filters : filters[i].id # f.id) /\ AppendFilters(f, replace)
     \/ \E i \in DOMAIN filters : filters[i] \in Foreign /\ RemoveFilter(i)
-----------------------------------------------------------------------------
(* The agent works with the filters of the manager, except for those that  *)
(* cannot be saved: all writing comes before its reading.                  *)
AgentFollows == loaded => agent = ReadFrom(filters) /\ ReadFrom(config) = ReadFrom(filters)
=============================================================================
