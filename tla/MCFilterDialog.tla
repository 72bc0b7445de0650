--------------------------- MODULE MCFilterDialog ---------------------------
(***************************************************************************)
(* The small instance of FilterDialog that TLC checks: two filters to    *)
(* start with, one more that is lost with its account, one others add.     *)
(***************************************************************************)
EXTENDS FilterDialog

CONSTANTS here, gone

AFilter(id) ==
  [id |-> id, name |-> "field", auto |-> TRUE, enabled |-> TRUE, op |-> "and", rules |-> TRUE,
   actions |-> "fit", inbound |-> TRUE, applicability |-> "all", accounts |-> {},
   shortcut |-> FALSE, toolbar |-> FALSE]

Existing  == {here}
Vanished  == {gone}
FirstFilters ==
  <<[AFilter(101) EXCEPT !.shortcut = TRUE, !.toolbar = TRUE],
    [AFilter(102) EXCEPT !.applicability = "checked", !.accounts = {here, gone}],
    [AFilter(103) EXCEPT !.applicability = "checked", !.accounts = {gone}]>>
ByOthers  == {AFilter(201)}
FromFiles == {[AFilter(101) EXCEPT !.actions = "unfit"]}
=============================================================================
