----------------------------- MODULE FilterImport -----------------------------
(***************************************************************************)
(* Filters that are exported to a file and imported from it, here or on    *)
(* another computer (FilterImporterExporter, FilterSelectionDialog and     *)
(* KMFilterDialog, src/src/filter/).                                       *)
(***************************************************************************)
EXTENDS FilterConfig

CONSTANTS
  FilterLists, \* the lists of filters there may be at home
  Foreign,     \* groups an old or edited file may hold
  Home, Away,  \* the two worlds
  MaxExports, MaxImports \* bounds

VARIABLES
  place,   \* where we are: Home or Away
  config,  \* akonadi_mailfilter_agentrc
  list,    \* the filters of the dialog; all is well when it shows what is configured
  file,    \* the file, by its groups
  offered, \* the filters read from it, while the user is to select some
  stage,   \* "editing" or "selecting"
  origin,  \* history: the filters exported to the file
  exports, imports \* so far

vars == <<place, config, list, file, offered, stage, origin, exports, imports>>

Init ==
  /\ place = Home /\ list \in FilterLists /\ config = WriteAll(list, FALSE, Home)
  /\ file \in {<< >>} \cup {<<g>> : g \in Foreign} /\ origin = << >>
  /\ offered = << >> /\ stage = "editing" /\ exports = 0 /\ imports = 0
-----------------------------------------------------------------------------
(* exportFilters(): of the filters that can be saved the user selects some.*)
Selections(filters) ==
  {[i \in 1 .. Cardinality(I) |-> filters[SetToSortSeq(I, <)[i]]] : I \in SUBSET DOMAIN filters}

ForSaving(filters, w) == SelectSeq([i \in DOMAIN filters |-> Purified(Copied(filters[i], w), w)], LAMBDA f : ~FilterIsEmpty(f))

ExportFilters ==
  /\ stage = "editing" /\ list # << >> /\ exports < MaxExports /\ exports' = exports + 1
  /\ \E chosen \in Selections(ForSaving(list, place)) :
       file' = WriteAll(chosen, TRUE, place) /\ origin' = chosen
  /\ UNCHANGED <<place, config, list, offered, stage, imports>>

(* The file is taken to another computer, where there are no filters yet.  *)
GoAway ==
  /\ place = Home /\ stage = "editing" /\ exports > 0
  /\ place' = Away /\ list' = << >> /\ config' = << >>
  /\ UNCHANGED <<file, offered, stage, origin, exports, imports>>

(* importFilters(): the filters are read while the user is asked for what  *)
(* is missing.  Once anything has been put in its place all filters read   *)
(* are written over those of the program.                                  *)
ImportFilters ==
  /\ stage = "editing" /\ file # << >> /\ imports < MaxImports /\ imports' = imports + 1
  /\ \E o \in ReadAllInteractive(file, place) :
       /\ offered' = o.filters /\ stage' = "selecting"
       /\ config' = IF o.update THEN WriteAll(o.filters, FALSE, place) ELSE config
  /\ UNCHANGED <<place, list, file, origin, exports>>

(* FilterSelectionDialog; what is selected is appended to the list.        *)
Select ==
  /\ stage = "selecting" /\ offered # << >>
  /\ \E chosen \in Selections(offered) : list' = list \o chosen
  /\ stage' = "editing" /\ offered' = << >>
  /\ UNCHANGED <<place, config, file, origin, exports, imports>>

Reject ==
  /\ stage = "selecting" /\ stage' = "editing" /\ offered' = << >>
  /\ UNCHANGED <<place, config, list, file, origin, exports, imports>>

(* The dialog: its filters are saved, or it is left and opened again.      *)
Apply ==
  /\ stage = "editing"
  /\ config' = WriteAll(ForSaving(list, place), FALSE, place)
  /\ UNCHANGED <<place, list, file, offered, stage, origin, exports, imports>>

Reopen ==
  /\ stage = "editing" /\ list' = ReadAll(config, place)
  /\ UNCHANGED <<place, config, file, offered, stage, origin, exports, imports>>

Next == ExportFilters \/ GoAway \/ ImportFilters \/ Select \/ Reject \/ Apply \/ Reopen

Spec == Init /\ [][Next]_vars
-----------------------------------------------------------------------------
(* What a filter says, its actions named by what they are about: a folder  *)
(* is the path it has.                                                     *)
Meant(a, w) == [name |-> a.name,
                about |-> IF ParamKind(a) = "folder" THEN <<w.paths[a.param[1][1]]>> ELSE a.param]
Said(f, w) == [f EXCEPT !.actions = [i \in DOMAIN @ |-> Meant(@[i], w)]]

Present(a, w) ==
  CASE ParamKind(a) = "folder"    -> a.param[1][1] \in DOMAIN w.paths
    [] ParamKind(a) = "identity"  -> a.param[1] \in w.identities
    [] ParamKind(a) = "transport" -> a.param[1] \in w.transports
    [] ParamKind(a) = "sound"     -> a.param[1] \in w.sounds
    [] ParamKind(a) = "tag"       -> \E t \in ToSet(w.tags) : t.url = a.param[1]
    [] ParamKind(a) = "key"       -> a.param[1] \in w.keys
    [] OTHER                      -> TRUE

AllPresent(f, w) == AllAccountsExist(f.accounts, w) /\ \A i \in DOMAIN f.actions : Present(f.actions[i], w)

(* Everything a filter refers to here is there too, its folders by path.   *)
PresentIn(f, here, there) ==
  /\ AllPresent(f, here) /\ AllAccountsExist(f.accounts, there)
  /\ \A i \in DOMAIN f.actions :
       LET a == f.actions[i] IN
       IF ParamKind(a) = "folder" THEN \E g \in DOMAIN there.paths : there.paths[g] = here.paths[a.param[1][1]]
       ELSE Present(a, there)

(* A filter that was exported and refers to nothing that is missing here   *)
(* is imported as it was: with its rules, flags and accounts, and actions  *)
(* that do the same to folders of the same path, whatever their numbers.   *)
ImportedAsExported ==
  stage = "selecting" =>
    \A i \in DOMAIN origin :
      PresentIn(origin[i], Home, place) =>
        \E j \in DOMAIN offered : AllPresent(offered[j], place) /\ Said(offered[j], place) = Said(origin[i], Home)

(* Saving and reading again changes no filter.                             *)
ReopensAsSaved ==
  Reopen /\ config = WriteAll(ForSaving(list, place), FALSE, place) => list' = ForSaving(list, place)
=============================================================================
