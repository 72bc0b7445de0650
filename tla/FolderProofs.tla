------------------------------ MODULE FolderProofs ------------------------------
(***************************************************************************)
(* Theorems about two components of Components that many reach at once:    *)
(* the order of the folders and their settings.                            *)
(***************************************************************************)
EXTENDS ComponentProofs

(* The order of the folders.  Its operators on lists are those of Lists.   *)
LEMMA OrderOperators ==
  /\ \A s : Order!Range(s) = Range(s)
  /\ \A s, S : Order!Keep(s, S) = Keep(s, S)
  /\ \A S : Order!Cardinality(S) = Cardinality(S)
  /\ \A s, i : Order!RemoveAt(s, i) = RemoveAt(s, i)
  /\ \A s, i, x : Order!InsertAt(s, i, x) = InsertAt(s, i, x)
<1>1. \A s : Order!Range(s) = Range(s)
  BY DEF Order!Range, Range
<1>2. \A s, S : Order!Keep(s, S) = Keep(s, S)
  BY DEF Order!Keep, Keep
<1>3. \A s, i : Order!RemoveAt(s, i) = RemoveAt(s, i)
  BY DEF Order!RemoveAt, RemoveAt
<1>4. \A s, i, x : Order!InsertAt(s, i, x) = InsertAt(s, i, x)
  BY DEF Order!InsertAt, InsertAt
<1>5. \A S : Order!Cardinality(S) = Cardinality(S)
  BY DEF Order!Cardinality, Cardinality
<1>6. QED
  BY <1>1, <1>2, <1>3, <1>4, <1>5

(* The dialog's list has each account once, and a button is enabled only   *)
(* where there is a row to move to.                                        *)
IsOrderDialog(d) ==
  /\ d.list \in Seq(Order!Folders) /\ Unequal(d.list) /\ Range(d.list) = d.accounts
  /\ d.row \in 0..Len(d.list)
  /\ d.up => d.row > 1
  /\ d.down => d.row \in 1..(Len(d.list) - 1)

Shows(w) ==
  w # << >> =>
    \E d : /\ w = <<d>> /\ IsOrderDialog(d)
           /\ d = [list |-> d.list, row |-> d.row, enabled |-> d.enabled, up |-> d.up, down |-> d.down,
                   accounts |-> d.accounts]
RanksFit == ~manual => \A c \in Order!Folders \ stale : ranks[c] \in {Unranked, Order!Rank(c, topLevelOrder)}
ViewFits ==
  /\ manual <=> main.sorting = "dragAndDrop"
  /\ main = Order!Reading(viewConfig) /\ main.icon \in 16..32
  /\ main = [icon |-> main.icon, tips |-> main.tips, sorting |-> main.sorting]

OrderInv ==
  /\ order \in Seq(Order!Folders) /\ Unequal(order)
  /\ Shows(orderDialog) /\ RanksFit /\ ViewFits

(* init() lists every account once.                                        *)
LEMMA AccountsListed ==
  ASSUME order \in Seq(Order!Folders), Unequal(order)
  PROVE  /\ Order!Listed \in Seq(Order!Folders) /\ Unequal(Order!Listed)
         /\ Range(Order!Listed) = Range(Order!MailAccounts)
<1> DEFINE F == Order!Folders
           mail == Order!MailAccounts
           rest == Keep(mail, F \ Range(order))
<1>1. Accounts \in Seq(F) /\ Unequal(Accounts) /\ F = Range(Accounts)
  BY OrderAssumption, OrderOperators DEF Unequal, Order!Folders
<1>2. mail = Keep(Accounts, agents \ Pop3)
  BY OrderOperators DEF Order!MailAccounts
<1>3. mail \in Seq(F) /\ Unequal(mail) /\ Range(mail) \subseteq F
  BY <1>1, <1>2, RangeOfKeep, KeepsUnequal
<1>4. rest \in Seq(F) /\ Unequal(rest) /\ Range(rest) = Range(mail) \cap (F \ Range(order))
  <2> HIDE DEF mail
  <2>1. QED
    BY <1>3, RangeOfKeep, KeepsUnequal
<1>5. Order!Listed = Keep(order \o rest, Range(mail))
  BY OrderOperators DEF Order!Listed
<1> HIDE DEF F, mail, rest
<1>6. order \in Seq(F)
  BY DEF F
<1>7. /\ order \o rest \in Seq(F) /\ Unequal(order \o rest)
      /\ Range(order \o rest) = Range(order) \cup Range(rest)
  BY <1>4, <1>6, JoinedLists
<1>8. /\ Order!Listed \in Seq(F) /\ Unequal(Order!Listed)
      /\ Range(Order!Listed) = (Range(order) \cup Range(rest)) \cap Range(mail)
  <2> DEFINE all == order \o rest
             M == Range(mail)
  <2>1. all \in Seq(F) /\ Unequal(all) /\ Order!Listed = Keep(all, M)
    BY <1>5, <1>7
  <2> HIDE DEF all, M
  <2>2. Keep(all, M) \in Seq(F) /\ Range(Keep(all, M)) = Range(all) \cap M
    BY <2>1, RangeOfKeep
  <2>3. Unequal(Keep(all, M))
    BY <2>1, KeepsUnequal
  <2>4. QED
    BY <1>7, <2>1, <2>2, <2>3 DEF all, M
<1>9. QED
  BY <1>3, <1>4, <1>8 DEF F, mail

(* Moving an account keeps the list's accounts.                            *)
LEMMA AccountMoved ==
  ASSUME NEW d, IsOrderDialog(d), NEW from \in 1..Len(d.list), NEW to \in 1..Len(d.list), NEW l,
         l = InsertAt(RemoveAt(d.list, from), to, d.list[from])
  PROVE  /\ l \in Seq(Order!Folders) /\ Unequal(l) /\ Range(l) = d.accounts /\ Len(l) = Len(d.list)
<1> DEFINE F == Order!Folders
           s == d.list
           r == RemoveAt(s, from)
           x == s[from]
<1>1. s \in Seq(F) /\ Unequal(s) /\ Range(s) = d.accounts /\ Len(s) \in Nat /\ DOMAIN s = 1..Len(s) /\ x \in F
  BY DEF IsOrderDialog
<1> HIDE DEF F
<1>2. r \in Seq(F) /\ Len(r) = Len(s) - 1
  BY <1>1, WithoutOne
<1>3. Unequal(r) /\ Range(r) = Range(s) \ {x}
  BY <1>1, StaysUnequal
<1>4. x \notin Range(r) /\ x \in Range(s)
  BY <1>1, <1>3 DEF Range
<1> HIDE DEF r, x
<1>5. to \in 1..(Len(r) + 1)
  BY <1>1, <1>2
<1>6. l = InsertAt(r, to, x)
  BY DEF r, x
<1>7. l \in Seq(F) /\ Len(l) = Len(r) + 1
  BY <1>1, <1>2, <1>5, <1>6, WithOneMore
<1>8. Unequal(l) /\ Range(l) = Range(r) \cup {x}
  BY <1>1, <1>2, <1>3, <1>4, <1>5, <1>6, StaysUnequal, RangeOfTwo
<1>9. QED
  BY <1>1, <1>2, <1>3, <1>4, <1>7, <1>8 DEF F
(* What the view has cached stays true.                                    *)
LEMMA RanksStay ==
  /\ RanksFit /\ UNCHANGED <<special, uses, topLevelOrder, manual, ranks, stale>> => RanksFit'
  /\ Order!ClearRanks => RanksFit'
  /\ \A c \in Order!Folders : \A use : RanksFit /\ Order!IdentityChanged(c, use) => RanksFit'
  /\ \A l, r \in Order!Folders : RanksFit /\ Order!Compare(l, r) => RanksFit'
<1>1. ASSUME RanksFit, UNCHANGED <<special, uses, topLevelOrder, manual, ranks, stale>> PROVE RanksFit'
  <2>1. /\ special' = special /\ uses' = uses /\ topLevelOrder' = topLevelOrder /\ manual' = manual
        /\ ranks' = ranks /\ stale' = stale
    BY <1>1
  <2>2. \A c : Order!Rank(c, topLevelOrder)' = Order!Rank(c, topLevelOrder)
    <3>1. \A k, c : Order!FolderIs(k, c)' <=> Order!FolderIs(k, c)
      BY <2>1 DEF Order!FolderIs
    <3>2. QED
      BY <2>1, <3>1 DEF Order!Rank
  <2>3. QED
    BY <1>1, <2>1, <2>2 DEF RanksFit, Order!Folders
<1>2. Order!ClearRanks => RanksFit'
  BY DEF Order!ClearRanks, RanksFit, Order!Folders
<1>3. ASSUME NEW l, NEW r, RanksFit, Order!Compare(l, r) PROVE RanksFit'
  <2>1. /\ special' = special /\ uses' = uses /\ topLevelOrder' = topLevelOrder /\ manual' = manual
        /\ stale' = stale
        /\ ranks' = [c \in Order!Folders |-> IF c \in {l, r} THEN Order!CollectionRank(c) ELSE ranks[c]]
    BY <1>3 DEF Order!Compare, Order!roles
  <2>2. \A c : Order!Rank(c, topLevelOrder)' = Order!Rank(c, topLevelOrder)
    <3>1. \A k, c : Order!FolderIs(k, c)' <=> Order!FolderIs(k, c)
      BY <2>1 DEF Order!FolderIs
    <3>2. QED
      BY <2>1, <3>1 DEF Order!Rank
  <2>3. QED
    BY <1>3, <2>1, <2>2 DEF RanksFit, Order!CollectionRank, Order!Folders
<1>4. ASSUME NEW c \in Order!Folders, NEW use, RanksFit, Order!IdentityChanged(c, use) PROVE RanksFit'
  <2>1. /\ special' = special /\ topLevelOrder' = topLevelOrder /\ manual' = manual /\ ranks' = ranks
        /\ stale' = IF ranks[c] = Unranked THEN stale ELSE stale \cup {c}
        /\ \A x : x # c => uses'[x] = uses[x]
    BY <1>4 DEF Order!IdentityChanged
  <2>2. ASSUME NEW x \in Order!Folders \ {c} PROVE Order!Rank(x, topLevelOrder)' = Order!Rank(x, topLevelOrder)
    <3>1. \A k : Order!FolderIs(k, x)' <=> Order!FolderIs(k, x)
      BY <2>1 DEF Order!FolderIs
    <3>2. QED
      BY <2>1, <3>1 DEF Order!Rank
  <2>3. c \notin stale' => ranks'[c] = Unranked
    BY <2>1
  <2>4. QED
    BY <1>4, <2>1, <2>2, <2>3 DEF RanksFit, Order!Folders
<1>5. QED
  BY <1>1, <1>2, <1>3, <1>4
(* The settings that the view shows and those it has stored stay alike.    *)
LEMMA ViewStays ==
  /\ ViewFits /\ UNCHANGED <<manual, main, viewConfig>> => ViewFits'
  /\ ViewFits /\ Order!ChangeView => ViewFits'
  /\ ViewFits /\ Order!ReadConfig => ViewFits'
<1>1. ViewFits /\ UNCHANGED <<manual, main, viewConfig>> => ViewFits'
  BY DEF ViewFits, Order!Reading
<1>A. ASSUME ViewFits, viewConfig' = main', main'.icon \in 16..32, manual' <=> main'.sorting = "dragAndDrop",
             main' = [icon |-> main'.icon, tips |-> main'.tips, sorting |-> main'.sorting]
      PROVE  ViewFits'
  BY <1>A DEF ViewFits, Order!Reading
<1>2. ASSUME ViewFits, NEW size \in Order!IconSizes, Order!ChangeIconSize(size) PROVE ViewFits'
  <2>1. main' = [icon |-> size, tips |-> main.tips, sorting |-> main.sorting]
    BY <1>2 DEF ViewFits, Order!ChangeIconSize
  <2>2. size \in 16..32
    BY DEF Order!IconSizes
  <2>3. manual' = manual /\ viewConfig' = main'
    BY <1>2 DEF Order!ChangeIconSize, Order!WriteConfig, Order!proxyVars
  <2>4. QED
    BY <1>2, <1>A, <2>1, <2>2, <2>3 DEF ViewFits
<1>3. ASSUME ViewFits, NEW tips, Order!SetTooltipsPolicy(tips) PROVE ViewFits'
  <2>1. main' = [icon |-> main.icon, tips |-> tips, sorting |-> main.sorting]
    BY <1>3 DEF ViewFits, Order!SetTooltipsPolicy
  <2>3. manual' = manual /\ viewConfig' = main'
    BY <1>3 DEF Order!SetTooltipsPolicy, Order!WriteConfig, Order!proxyVars
  <2>4. QED
    BY <1>3, <1>A, <2>1, <2>3 DEF ViewFits
<1>4. ASSUME ViewFits, NEW policy, Order!SetSortingPolicy(policy) PROVE ViewFits'
  <2>1. main' = [icon |-> main.icon, tips |-> main.tips, sorting |-> policy]
    BY <1>4 DEF ViewFits, Order!SetSortingPolicy
  <2>3. manual' = (policy = "dragAndDrop") /\ viewConfig' = main'
    BY <1>4 DEF Order!SetSortingPolicy, Order!WriteConfig, Order!SetManualSortingActive
  <2>4. QED
    BY <1>4, <1>A, <2>1, <2>3 DEF ViewFits
<1>5. ASSUME ViewFits, Order!ReadConfig PROVE ViewFits'
  <2>1. main' = main /\ viewConfig' = viewConfig /\ manual' = (main'.sorting = "dragAndDrop")
    BY <1>5 DEF ViewFits, Order!ReadConfig
  <2>2. QED
    BY <1>5, <2>1 DEF ViewFits, Order!Reading
<1>6. QED
  BY <1>1, <1>2, <1>3, <1>4, <1>5 DEF Order!ChangeView

(* A dialog whose buttons are as slotEnableControls() sets them.           *)
LEMMA ControlsFit ==
  ASSUME NEW l \in Seq(Order!Folders), Unequal(l), NEW row \in 0..Len(l), NEW b, NEW u, NEW v
  PROVE  LET d == [list |-> l, row |-> row, enabled |-> b, up |-> u, down |-> v, accounts |-> Range(l)]
         IN  Shows(<<Order!Controls(d)>>)
<1> DEFINE d == [list |-> l, row |-> row, enabled |-> b, up |-> u, down |-> v, accounts |-> Range(l)]
           up == d.enabled /\ d.row > 1
           down == d.enabled /\ d.row \in 1..(Len(d.list) - 1)
           c == [list |-> l, row |-> row, enabled |-> b, up |-> up, down |-> down, accounts |-> Range(l)]
<1>1. Order!Controls(d) = c
  <2>1. Order!Controls(d) = [d EXCEPT !.up = up, !.down = down]
    BY DEF Order!Controls
  <2> HIDE DEF up, down
  <2>2. QED
    BY <2>1
<1>2. IsOrderDialog(c)
  <2>1. up => row > 1
    OBVIOUS
  <2>2. down => row \in 1..(Len(l) - 1)
    OBVIOUS
  <2> HIDE DEF up, down
  <2>3. QED
    BY <2>1, <2>2 DEF IsOrderDialog
<1> HIDE DEF c
<1>3. Shows(<<c>>)
  <2>1. c = [list |-> c.list, row |-> c.row, enabled |-> c.enabled, up |-> c.up, down |-> c.down,
             accounts |-> c.accounts]
    BY DEF c
  <2>2. QED
    BY <1>2, <2>1 DEF Shows
<1>4. QED
  BY <1>1, <1>3

(* The dialog keeps its accounts.                                          *)
LEMMA OrderEdited ==
  ASSUME Shows(orderDialog), Order!EditOrder
  PROVE  Shows(orderDialog')
<1>1. PICK d : /\ orderDialog = <<d>> /\ IsOrderDialog(d)
               /\ d = [list |-> d.list, row |-> d.row, enabled |-> d.enabled, up |-> d.up, down |-> d.down,
                       accounts |-> d.accounts]
  BY DEF Shows, Order!EditOrder
<1>2. d.list \in Seq(Order!Folders) /\ Unequal(d.list) /\ Range(d.list) = d.accounts /\ d.row \in 0..Len(d.list)
  BY <1>1 DEF IsOrderDialog
<1>3. orderDialog[1] = d
  BY <1>1
<1>4. CASE orderDialog' = <<Order!SlotEnableAccountOrder(d)>>
  <2> DEFINE e == [list |-> d.list, row |-> d.row, enabled |-> ~d.enabled, up |-> d.up, down |-> d.down,
                   accounts |-> Range(d.list)]
  <2>1. [d EXCEPT !.enabled = ~d.enabled] = e
    BY <1>1, <1>2
  <2>2. Order!SlotEnableAccountOrder(d) = Order!Controls(e)
    BY <2>1 DEF Order!SlotEnableAccountOrder
  <2>3. Shows(<<Order!Controls(e)>>)
    BY <1>2, ControlsFit
  <2>4. QED
    BY <1>4, <2>2, <2>3
<1>5. ASSUME NEW row \in 1..Len(d.list), orderDialog' = <<Order!SelectRow(d, row)>> PROVE Shows(orderDialog')
  <2> DEFINE e == [list |-> d.list, row |-> row, enabled |-> d.enabled, up |-> d.up, down |-> d.down,
                   accounts |-> Range(d.list)]
  <2>1. [d EXCEPT !.row = row] = e
    BY <1>1, <1>2
  <2>2. Order!SelectRow(d, row) = Order!Controls(e)
    BY <2>1 DEF Order!SelectRow
  <2>3. row \in 0..Len(d.list)
    BY <1>2
  <2>4. Shows(<<Order!Controls(e)>>)
    BY <1>2, <2>3, ControlsFit
  <2>5. QED
    BY <1>5, <2>2, <2>4
<1>6. ASSUME d.row \in 1..Len(d.list), NEW to \in 1..Len(d.list), orderDialog' = <<Order!MoveItem(d, to)>>
      PROVE  Shows(orderDialog')
  <2> DEFINE l == InsertAt(RemoveAt(d.list, d.row), to, d.list[d.row])
             e == [list |-> l, row |-> to, enabled |-> d.enabled, up |-> d.up, down |-> d.down, accounts |-> Range(l)]
  <2>1. l \in Seq(Order!Folders) /\ Unequal(l) /\ Range(l) = d.accounts /\ Len(l) = Len(d.list)
    BY <1>1, <1>6, AccountMoved
  <2>2. Order!MoveItem(d, to) = Order!Controls([d EXCEPT !.list = l, !.row = to])
    BY OrderOperators DEF Order!MoveItem
  <2> HIDE DEF l
  <2>3. [d EXCEPT !.list = l, !.row = to] = e
    <3> DEFINE m == [d EXCEPT !.list = l, !.row = to]
    <3>1. d = [list |-> d.list, row |-> d.row, enabled |-> d.enabled, up |-> d.up, down |-> d.down,
               accounts |-> Range(l)]
      BY <1>1, <2>1
    <3>2. DOMAIN d = {"list", "row", "enabled", "up", "down", "accounts"}
      BY <3>1
    <3>3. m = [x \in {"list", "row", "enabled", "up", "down", "accounts"} |-> m[x]]
      BY <3>2
    <3>4. /\ m.list = l /\ m.row = to /\ m.enabled = d.enabled /\ m.up = d.up /\ m.down = d.down
          /\ m.accounts = d.accounts
      BY <3>2
    <3> HIDE DEF m
    <3>5. m = e
      BY <3>3, <3>4, <2>1
    <3>6. QED
      BY <3>5 DEF m
  <2>4. to \in 0..Len(l)
    BY <1>2, <2>1
  <2>5. Shows(<<Order!Controls(e)>>)
    BY <2>1, <2>4, ControlsFit
  <2>6. QED
    BY <1>6, <2>2, <2>3, <2>5
<1>7. d.up => d.row - 1 \in 1..Len(d.list) /\ d.row \in 1..Len(d.list)
  BY <1>1, <1>2 DEF IsOrderDialog
<1>8. d.down => d.row + 1 \in 1..Len(d.list) /\ d.row \in 1..Len(d.list)
  BY <1>1, <1>2 DEF IsOrderDialog
<1>9. d.row # 0 => d.row \in 1..Len(d.list)
  BY <1>2
<1>10. QED
  BY <1>3, <1>4, <1>5, <1>6, <1>7, <1>8, <1>9 DEF Order!EditOrder, Order!SlotMoveUp, Order!SlotMoveDown
(* Every step keeps it.                                                    *)
LEMMA OrderStep ==
  ASSUME OrderInv, [Order!Next]_Order!vars
  PROVE  OrderInv'
<1> DEFINE Listing == order \in Seq(Order!Folders) /\ Unequal(order)
<1>0. Listing /\ Shows(orderDialog) /\ RanksFit /\ ViewFits
  BY DEF OrderInv
<1>A. ASSUME Listing', Shows(orderDialog'), RanksFit', ViewFits' PROVE OrderInv'
  BY <1>A DEF OrderInv
<1>B. order' = order => Listing'
  BY <1>0 DEF Unequal, Order!Folders
<1>C. orderDialog' = << >> => Shows(orderDialog')
  BY DEF Shows
<1>D. orderDialog' = orderDialog => Shows(orderDialog')
  BY <1>0
<1> HIDE DEF Listing
<1>1. ASSUME NEW l \in Order!Folders, NEW r \in Order!Folders, Order!Compare(l, r) PROVE OrderInv'
  BY <1>0, <1>1, <1>A, <1>B, <1>D, RanksStay, ViewStays DEF Order!Compare, Order!dialogVars, Order!roles, Order!viewVars
<1>2. ASSUME NEW c, NEW s, Order!SpecialCollectionsChanged(c, s) PROVE OrderInv'
  <2>1. /\ order' = order /\ orderDialog' = orderDialog /\ manual' = manual
        /\ UNCHANGED <<manual, main, viewConfig>>
    BY <1>2 DEF Order!SpecialCollectionsChanged, Order!dialogVars, Order!roles, Order!viewVars
  <2>2. RanksFit'
    <3>1. CASE manual
      BY <2>1, <3>1 DEF RanksFit
    <3>2. CASE ~manual
      BY <1>2, <3>2, RanksStay DEF Order!SpecialCollectionsChanged
    <3>3. QED
      BY <3>1, <3>2
  <2>3. QED
    BY <1>0, <1>A, <1>B, <1>D, <2>1, <2>2, ViewStays
<1>3. CASE Order!ChangeView
  <2>1. order' = order /\ orderDialog' = orderDialog /\ topLevelOrder' = topLevelOrder
        /\ special' = special /\ uses' = uses
    BY <1>3 DEF Order!ChangeView, Order!dialogVars, Order!roles, Order!ChangeIconSize, Order!SetTooltipsPolicy,
       Order!SetSortingPolicy, Order!proxyVars
  <2>2. (manual' = manual /\ ranks' = ranks /\ stale' = stale) \/ Order!ClearRanks
    BY <1>3 DEF Order!ChangeView, Order!ChangeIconSize, Order!SetTooltipsPolicy, Order!SetSortingPolicy,
       Order!proxyVars, Order!SetManualSortingActive
  <2>3. RanksFit'
    BY <1>0, <2>1, <2>2, RanksStay
  <2>4. QED
    BY <1>0, <1>3, <1>A, <1>B, <1>D, <2>1, <2>3, ViewStays
<1>4. CASE Order!OpenSelectionDialog
  <2>1. /\ UNCHANGED <<special, uses, topLevelOrder, manual, ranks, stale>> /\ order' = order /\ orderDialog' = orderDialog
        /\ UNCHANGED <<manual, main, viewConfig>>
    BY <1>4 DEF Order!OpenSelectionDialog, Order!WriteConfig, Order!dialogVars, Order!roles, Order!proxyVars
  <2>2. QED
    BY <1>0, <1>A, <1>B, <1>D, <2>1, RanksStay, ViewStays
<1>5. CASE Order!ReadConfig
  BY <1>0, <1>5, <1>A, <1>B, <1>D, RanksStay, ViewStays DEF Order!ReadConfig, Order!dialogVars, Order!roles
<1>E. ASSUME UNCHANGED <<special, uses, topLevelOrder, manual, ranks, stale>>, UNCHANGED <<manual, main, viewConfig>>,
             Listing', Shows(orderDialog')
      PROVE  OrderInv'
  BY <1>0, <1>A, <1>E, RanksStay, ViewStays
<1>6. CASE Order!OpenOrderDialog
  <2> DEFINE d == [list |-> Order!Listed, row |-> 0, enabled |-> enabled, up |-> FALSE, down |-> FALSE,
                   accounts |-> Order!Range(Order!MailAccounts)]
  <2>1. orderDialog' = <<d>>
    BY <1>6 DEF Order!OpenOrderDialog
  <2>2. /\ d.list \in Seq(Order!Folders) /\ Unequal(d.list) /\ Range(d.list) = d.accounts
        /\ Len(d.list) \in Nat
    BY <1>0, AccountsListed, OrderOperators DEF Listing
  <2>3. IsOrderDialog(d)
    BY <2>2 DEF IsOrderDialog
  <2>4. Shows(<<d>>)
    BY <2>3 DEF Shows
  <2>5. QED
    BY <1>6, <1>B, <1>E, <2>1, <2>4 DEF Order!OpenOrderDialog, Order!proxyVars, Order!viewVars, Order!roles
<1>7. CASE Order!EditOrder
  BY <1>0, <1>7, <1>B, <1>E, OrderEdited DEF Order!EditOrder, Order!proxyVars, Order!viewVars, Order!roles
<1>8. CASE Order!SlotOk
  <2>1. PICK d : orderDialog = <<d>> /\ IsOrderDialog(d)
    BY <1>0, <1>8 DEF Order!SlotOk, Shows
  <2>2. order' = d.list
    BY <1>8, <2>1 DEF Order!SlotOk
  <2>3. Listing'
    BY <2>1, <2>2 DEF Listing, IsOrderDialog, Unequal, Order!Folders
  <2>4. QED
    BY <1>8, <1>C, <1>E, <2>3 DEF Order!SlotOk, Order!proxyVars, Order!viewVars, Order!roles
<1>9. CASE Order!Reject
  BY <1>9, <1>B, <1>C, <1>E DEF Order!Reject, Order!proxyVars, Order!viewVars, Order!roles
<1>10. ASSUME NEW a, Order!AccountChanged(a) PROVE OrderInv'
  BY <1>10, <1>B, <1>D, <1>E DEF Order!AccountChanged, Order!dialogVars, Order!proxyVars, Order!viewVars, Order!roles
<1>F. ASSUME NEW c \in Order!Folders, NEW use, Order!IdentityChanged(c, use) PROVE OrderInv'
  <2>1. order' = order /\ orderDialog' = orderDialog /\ UNCHANGED <<manual, main, viewConfig>>
    BY <1>F DEF Order!IdentityChanged, Order!dialogVars, Order!roles, Order!viewVars
  <2>2. RanksFit'
    BY <1>0, <1>F, RanksStay
  <2>3. QED
    BY <1>0, <1>A, <1>B, <1>D, <2>1, <2>2, ViewStays
<1>11. CASE UNCHANGED Order!vars
  BY <1>11, <1>B, <1>D, <1>E DEF Order!vars, Order!dialogVars, Order!proxyVars, Order!viewVars, Order!roles
<1>12. QED
  BY <1>1, <1>2, <1>3, <1>4, <1>5, <1>6, <1>7, <1>8, <1>9, <1>10, <1>11, <1>F DEF Order!Next

(* However accounts are moved, come and go, the dialog neither loses nor   *)
(* doubles one, the ranks that the view has cached are the ranks but for   *)
(* folders that an identity has since begun or ceased to use, and the     *)
(* settings it shows are the stored ones (AccountConfigOrderDialog,        *)
(* EntityCollectionOrderProxyModel, FolderTreeView).                       *)
THEOREM OrderIsAlwaysKept == Spec => [](part = "order" => Order!OrderIsKept)
<1>1. Order!Init => OrderInv
  <2> SUFFICES ASSUME Order!Init PROVE OrderInv
    OBVIOUS
  <2>1. order \in Seq(Order!Folders) /\ Unequal(order)
    BY DEF Order!Init, Unequal
  <2>2. Shows(orderDialog)
    BY DEF Order!Init, Shows
  <2>3. RanksFit
    BY DEF Order!Init, RanksFit
  <2>4. ViewFits
    <3>1. main = Order!Reading(viewConfig) /\ manual = FALSE
      BY DEF Order!Init
    <3>2. main = [icon |-> 22, tips |-> TRUE, sorting |-> "column"]
      <4>1. viewConfig = [icon |-> 64, tips |-> TRUE, sorting |-> "column"] /\ 64 \notin 16..32
        BY DEF Order!Init
      <4>2. QED
        BY <3>1, <4>1 DEF Order!Reading
    <3>3. QED
      BY <3>1, <3>2 DEF ViewFits
  <2>5. QED
    BY <2>1, <2>2, <2>3, <2>4 DEF OrderInv
<1>2. OrderInv /\ [Order!Next]_Order!vars => OrderInv'
  BY OrderStep
<1>3. OrderInv => Order!OrderIsKept
  <2> SUFFICES ASSUME OrderInv PROVE Order!OrderIsKept
    OBVIOUS
  <2>1. ASSUME orderDialog # << >>
        PROVE  /\ Order!Range(orderDialog[1].list) = orderDialog[1].accounts
               /\ Len(orderDialog[1].list) = Order!Cardinality(orderDialog[1].accounts)
    <3>1. PICK d : orderDialog = <<d>> /\ IsOrderDialog(d)
      BY <2>1 DEF OrderInv, Shows
    <3>2. Range(d.list) = d.accounts /\ Len(d.list) = Cardinality(d.accounts)
      BY <3>1, AsLongAsMany DEF IsOrderDialog
    <3>3. QED
      BY <3>1, <3>2, OrderOperators
  <2>2. QED
    BY <2>1 DEF OrderInv, Order!OrderIsKept, RanksFit, ViewFits
<1>4. Init => (part = "order" => OrderInv)
  BY <1>1, OneBegins
<1>5. (part = "order" => OrderInv) /\ [Next]_vars => (part = "order" => OrderInv)'
  <2> SUFFICES ASSUME part = "order" => OrderInv, [Next]_vars, part' = "order" PROVE OrderInv'
    OBVIOUS
  <2>1. part = "order" /\ [Order!Next]_Order!vars
    BY OneMoves
  <2>2. QED
    BY <1>2, <2>1
<1>6. QED
  BY <1>4, <1>5, <1>3, PTL DEF Spec

-----------------------------------------------------------------------------
(* The settings of folders.  An entry of the file may leave the identity   *)
(* out, what an object holds never does.                                   *)
Values  == Settings!Settings(Ids, MessageFormats)
Entries == Settings!Settings(Ids \cup {None}, MessageFormats)
Fields  == {"useDefault", "identity", "keep", "hide", "format", "list"}

Alike(v, w) == v.keep = w.keep /\ v.hide = w.hide /\ v.list = w.list

(* What AsWanted, ReadConfig and WriteConfig say, of given identities.     *)
Fits(w, v, ids, ds, un) ==
  /\ Alike(v, w) /\ (w.format = "Unknown" \/ v.format = w.format)
  /\ w.useDefault => v.useDefault
  /\ ~w.useDefault /\ w.identity \in ids =>
       (~v.useDefault /\ v.identity = w.identity) \/ (w.identity \in un /\ v.identity \in ds)
LeftOut(w, e, ids, un) ==
  ~e.useDefault /\ e.identity = None /\ ~w.useDefault /\ w.identity \in ids => w.identity \in un

Followed(v, ids, dflt) == Settings!SlotIdentitiesChanged(v, ids, dflt)
Reading(e, ids, dflt) == Followed([e EXCEPT !.identity = IF e.identity = None THEN dflt ELSE e.identity], ids, dflt)
Writing(v, own, format) ==
  [v EXCEPT !.identity = IF v.useDefault \/ v.identity = own THEN None ELSE v.identity,
            !.format = IF v.format = "Unknown" THEN format ELSE v.format]

(* Values and entries are records.                                         *)
LEMMA ValuesAreRecords ==
  /\ \A v \in Entries : /\ DOMAIN v = Fields /\ v.useDefault \in BOOLEAN /\ v.identity \in Ids \cup {None}
                        /\ v.keep \in BOOLEAN /\ v.hide \in BOOLEAN /\ v.list \in BOOLEAN
                        /\ v.format \in MessageFormats
  /\ \A v : v \in Values <=> v \in Entries /\ v.identity \in Ids
  /\ \A v : v = [x \in Fields |-> v[x]] /\ v.useDefault \in BOOLEAN /\ v.identity \in Ids \cup {None}
            /\ v.keep \in BOOLEAN /\ v.hide \in BOOLEAN /\ v.list \in BOOLEAN /\ v.format \in MessageFormats
            => v \in Entries
<1>1. \A v \in Entries : /\ DOMAIN v = Fields /\ v.useDefault \in BOOLEAN /\ v.identity \in Ids \cup {None}
                         /\ v.keep \in BOOLEAN /\ v.hide \in BOOLEAN /\ v.list \in BOOLEAN
                         /\ v.format \in MessageFormats
  BY DEF Entries, Settings!Settings, Fields
<1>2. ASSUME NEW v, v = [x \in Fields |-> v[x]], v.useDefault \in BOOLEAN, v.identity \in Ids \cup {None},
             v.keep \in BOOLEAN, v.hide \in BOOLEAN, v.list \in BOOLEAN, v.format \in MessageFormats
      PROVE  v \in Entries
  <2>1. v = [useDefault |-> v.useDefault, identity |-> v.identity, keep |-> v.keep, hide |-> v.hide,
             format |-> v.format, list |-> v.list]
    BY <1>2 DEF Fields
  <2>2. QED
    BY <1>2, <2>1 DEF Entries, Settings!Settings
<1>3. \A v : v \in Values <=> v \in Entries /\ v.identity \in Ids
  BY DEF Values, Entries, Settings!Settings
<1>4. QED
  BY <1>1, <1>2, <1>3

(* Another identity, and what was not the default one made the default.    *)
LEMMA IdentityReplaced ==
  ASSUME NEW v \in Entries, NEW i \in Ids, NEW m, m = [v EXCEPT !.identity = i]
  PROVE  /\ m \in Values /\ m \in Entries /\ m.identity = i /\ m.useDefault = v.useDefault /\ Alike(m, v)
         /\ m.format = v.format
<1>1. DOMAIN v = Fields
  BY ValuesAreRecords
<1>2. /\ m = [x \in Fields |-> m[x]]
      /\ m.identity = i /\ m.useDefault = v.useDefault /\ m.keep = v.keep /\ m.hide = v.hide /\ m.list = v.list
      /\ m.format = v.format
  BY <1>1 DEF Fields
<1>3. m \in Entries
  BY <1>2, ValuesAreRecords
<1>4. QED
  BY <1>2, <1>3, ValuesAreRecords DEF Alike

Defaulting(v, i) == [v EXCEPT !.identity = i, !.useDefault = TRUE]

LEMMA DefaultReplaced ==
  ASSUME NEW v \in Entries, NEW i \in Ids, NEW n, n = Defaulting(v, i)
  PROVE  n \in Values /\ n.identity = i /\ n.useDefault /\ Alike(n, v) /\ n.format = v.format
<1>1. DOMAIN v = Fields
  BY ValuesAreRecords
<1>2. n = [x \in Fields |-> n[x]]
  BY <1>1 DEF Fields, Defaulting
<1>3. /\ n.identity = i /\ n.useDefault = TRUE /\ n.keep = v.keep /\ n.hide = v.hide /\ n.list = v.list
      /\ n.format = v.format
  BY <1>1 DEF Fields, Defaulting
<1>4. n \in Entries
  BY <1>2, <1>3, ValuesAreRecords
<1>5. QED
  BY <1>3, <1>4, ValuesAreRecords DEF Alike

(* slotIdentitiesChanged().                                                *)
LEMMA WhoIsFollowed ==
  ASSUME NEW v \in Entries, NEW ids, ids \subseteq Ids, NEW dflt \in ids, NEW u, u = Followed(v, ids, dflt)
  PROVE  /\ u \in Values /\ u.identity \in ids /\ Alike(u, v) /\ u.format = v.format
         /\ v.useDefault => u.useDefault /\ u.identity = dflt
         /\ ~v.useDefault /\ v.identity \in ids => ~u.useDefault /\ u.identity = v.identity
         /\ ~v.useDefault /\ v.identity \notin ids => u.useDefault /\ u.identity = dflt
<1>1. CASE v.useDefault
  <2>1. u = [v EXCEPT !.identity = dflt] /\ dflt \in Ids
    BY <1>1 DEF Followed, Settings!SlotIdentitiesChanged
  <2>2. u \in Values /\ u.identity = dflt /\ u.useDefault = v.useDefault /\ Alike(u, v) /\ u.format = v.format
    BY <2>1, IdentityReplaced
  <2>3. QED
    BY <1>1, <2>2
<1>2. CASE ~v.useDefault /\ v.identity \in ids
  <2>1. u = [v EXCEPT !.identity = v.identity] /\ v.identity \in Ids
    BY <1>2 DEF Followed, Settings!SlotIdentitiesChanged
  <2>2. /\ u \in Values /\ u.identity = v.identity /\ u.useDefault = v.useDefault /\ Alike(u, v)
        /\ u.format = v.format
    BY <2>1, IdentityReplaced
  <2>3. QED
    BY <1>2, <2>2
<1>3. CASE ~v.useDefault /\ v.identity \notin ids
  <2>1. u = Defaulting(v, dflt) /\ dflt \in Ids
    BY <1>3 DEF Followed, Settings!SlotIdentitiesChanged, Defaulting
  <2>2. u \in Values /\ u.identity = dflt /\ u.useDefault /\ Alike(u, v) /\ u.format = v.format
    BY <2>1, DefaultReplaced
  <2>3. QED
    BY <1>3, <2>2
<1>4. v.useDefault \in BOOLEAN
  BY ValuesAreRecords
<1>5. QED
  BY <1>1, <1>2, <1>3, <1>4

(* readConfig().                                                           *)
LEMMA WhatIsRead ==
  ASSUME NEW e \in Entries, NEW ids, ids \subseteq Ids, NEW dflt \in ids, NEW u, u = Reading(e, ids, dflt)
  PROVE  /\ u \in Values /\ u.identity \in ids /\ Alike(u, e) /\ u.format = e.format
         /\ e.useDefault => u.useDefault /\ u.identity = dflt
         /\ ~e.useDefault /\ e.identity = None => ~u.useDefault /\ u.identity = dflt
         /\ ~e.useDefault /\ e.identity \in ids => ~u.useDefault /\ u.identity = e.identity
         /\ ~e.useDefault /\ e.identity # None /\ e.identity \notin ids => u.useDefault /\ u.identity = dflt
<1> DEFINE i == IF e.identity = None THEN dflt ELSE e.identity
           v == [e EXCEPT !.identity = i]
<1>1. i \in Ids
  BY ValuesAreRecords
<1>2. u = Followed(v, ids, dflt)
  BY DEF Reading
<1>3. /\ v \in Entries /\ v.identity = i /\ v.useDefault = e.useDefault /\ Alike(v, e) /\ v.format = e.format
  <2> HIDE DEF i
  <2>1. QED
    BY <1>1, IdentityReplaced
<1>4. None \notin ids
  BY SettingsAssumption
<1> HIDE DEF v
<1>5. /\ u \in Values /\ u.identity \in ids /\ Alike(u, v) /\ u.format = v.format
      /\ v.useDefault => u.useDefault /\ u.identity = dflt
      /\ ~v.useDefault /\ v.identity \in ids => ~u.useDefault /\ u.identity = v.identity
      /\ ~v.useDefault /\ v.identity \notin ids => u.useDefault /\ u.identity = dflt
  BY <1>2, <1>3, WhoIsFollowed
<1>6. Alike(u, e)
  BY <1>3, <1>5 DEF Alike
<1>7. QED
  BY <1>3, <1>4, <1>5, <1>6

(* writeConfig().                                                          *)
LEMMA WhatIsWritten ==
  ASSUME NEW v \in Values, NEW own, NEW format \in MessageFormats, NEW e, e = Writing(v, own, format)
  PROVE  /\ e \in Entries /\ Alike(e, v) /\ e.useDefault = v.useDefault
         /\ e.identity = IF v.useDefault \/ v.identity = own THEN None ELSE v.identity
         /\ v.format # "Unknown" => e.format = v.format
<1> DEFINE i == IF v.useDefault \/ v.identity = own THEN None ELSE v.identity
           f == IF v.format = "Unknown" THEN format ELSE v.format
           m == [v EXCEPT !.identity = i, !.format = f]
<1>1. DOMAIN v = Fields /\ v \in Entries /\ v.identity \in Ids
  BY ValuesAreRecords
<1>2. e = m
  BY DEF Writing
<1>3. i \in Ids \cup {None} /\ f \in MessageFormats
  BY <1>1, ValuesAreRecords
<1> HIDE DEF i, f
<1>4. m = [x \in Fields |-> m[x]]
  BY <1>1 DEF Fields
<1>5. /\ m.identity = i /\ m.format = f /\ m.useDefault = v.useDefault /\ m.keep = v.keep /\ m.hide = v.hide
      /\ m.list = v.list
  BY <1>1 DEF Fields
<1> HIDE DEF m
<1>6. m \in Entries
  BY <1>1, <1>3, <1>4, <1>5, ValuesAreRecords
<1>7. QED
  BY <1>2, <1>5, <1>6 DEF Alike, i, f

(* What was wanted still is what is used when it has been written and is   *)
(* read again, and when identities go.                                     *)
LEMMA WrittenFits ==
  ASSUME NEW w, NEW v \in Values, NEW ids, ids \subseteq Ids, NEW ds, NEW dflt \in ids, dflt \in ds,
         v.identity \in ids, NEW un, NEW format \in MessageFormats, Fits(w, v, ids, ds, un),
         w.useDefault \in BOOLEAN, NEW own, ~v.useDefault /\ v.identity = own => own \in un,
         NEW e, e = Writing(v, own, format)
  PROVE  e \in Entries /\ Fits(w, Reading(e, ids, dflt), ids, ds, un) /\ LeftOut(w, e, ids, un)
<1> DEFINE u == Reading(e, ids, dflt)
<1>1. /\ e \in Entries /\ Alike(e, v) /\ e.useDefault = v.useDefault
      /\ e.identity = IF v.useDefault \/ v.identity = own THEN None ELSE v.identity
      /\ v.format # "Unknown" => e.format = v.format
  BY WhatIsWritten
<1>2. /\ u \in Values /\ u.identity \in ids /\ Alike(u, e) /\ u.format = e.format
      /\ e.useDefault => u.useDefault /\ u.identity = dflt
      /\ ~e.useDefault /\ e.identity = None => ~u.useDefault /\ u.identity = dflt
      /\ ~e.useDefault /\ e.identity \in ids => ~u.useDefault /\ u.identity = e.identity
  BY <1>1, WhatIsRead
<1>3. v.useDefault \in BOOLEAN /\ None \notin ids
  BY ValuesAreRecords, SettingsAssumption
<1> HIDE DEF u
<1>4. Alike(v, w) => Alike(u, w)
  BY <1>1, <1>2 DEF Alike
<1>5. w.format = "Unknown" \/ u.format = w.format
  BY <1>1, <1>2 DEF Fits
<1>6. w.useDefault => u.useDefault
  BY <1>1, <1>2 DEF Fits
<1>7. ASSUME ~w.useDefault, w.identity \in ids
      PROVE  /\ (~u.useDefault /\ u.identity = w.identity) \/ (w.identity \in un /\ u.identity \in ds)
             /\ ~e.useDefault /\ e.identity = None => w.identity \in un
  <2>1. (~v.useDefault /\ v.identity = w.identity) \/ w.identity \in un
    BY <1>7 DEF Fits
  <2>2. CASE v.useDefault
    BY <1>1, <1>2, <2>1, <2>2
  <2>3. CASE ~v.useDefault /\ v.identity = own
    BY <1>1, <1>2, <2>1, <2>3
  <2>4. CASE ~v.useDefault /\ v.identity # own
    <3>1. ~e.useDefault /\ e.identity = v.identity /\ e.identity # None
      BY <1>1, <1>3, <2>4
    <3>2. ~u.useDefault /\ u.identity = v.identity
      BY <1>2, <3>1
    <3>3. (~v.useDefault /\ v.identity = w.identity) \/ (w.identity \in un /\ v.identity \in ds)
      BY <1>7 DEF Fits
    <3>4. QED
      BY <3>1, <3>2, <3>3
  <2>5. QED
    BY <1>3, <2>2, <2>3, <2>4
<1>8. Alike(v, w)
  BY DEF Fits
<1>9. QED
  BY <1>1, <1>4, <1>5, <1>6, <1>7, <1>8 DEF Fits, LeftOut, u

LEMMA FollowedFits ==
  ASSUME NEW w, NEW v \in Values, NEW ids, NEW later, later \subseteq ids, ids \subseteq Ids, NEW ds, NEW dflt \in later,
         v.identity \in ids, NEW un, Fits(w, v, ids, ds, un), NEW u, u = Followed(v, later, dflt)
  PROVE  u \in Values /\ u.identity \in later /\ Fits(w, u, later, ds \cup {dflt}, un)
<1>1. v \in Entries /\ later \subseteq Ids
  BY ValuesAreRecords
<1>2. /\ u \in Values /\ u.identity \in later /\ Alike(u, v) /\ u.format = v.format
      /\ v.useDefault => u.useDefault /\ u.identity = dflt
      /\ ~v.useDefault /\ v.identity \in later => ~u.useDefault /\ u.identity = v.identity
      /\ ~v.useDefault /\ v.identity \notin later => u.useDefault /\ u.identity = dflt
  BY <1>1, WhoIsFollowed
<1>4. Alike(u, w)
  BY <1>2 DEF Fits, Alike
<1>5. (w.format = "Unknown" \/ u.format = w.format) /\ (w.useDefault => u.useDefault)
  BY <1>2 DEF Fits
<1>6. ASSUME ~w.useDefault, w.identity \in later
      PROVE  (~u.useDefault /\ u.identity = w.identity)
             \/ (w.identity \in un /\ u.identity \in ds \cup {dflt})
  <2>1. (~v.useDefault /\ v.identity = w.identity) \/ (w.identity \in un /\ v.identity \in ds)
    BY <1>6 DEF Fits
  <2>2. v.useDefault \in BOOLEAN
    BY <1>1, ValuesAreRecords
  <2>3. QED
    BY <1>2, <1>6, <2>1, <2>2
<1>7. QED
  BY <1>2, <1>4, <1>5, <1>6 DEF Fits

LEMMA StoredFits ==
  ASSUME NEW w, NEW e \in Entries, NEW ids, NEW later, later \subseteq ids, ids \subseteq Ids, NEW ds,
         NEW was \in ids, NEW dflt \in later, NEW un,
         Fits(w, Reading(e, ids, was), ids, ds, un), LeftOut(w, e, ids, un)
  PROVE  Fits(w, Reading(e, later, dflt), later, ds \cup {dflt}, un) /\ LeftOut(w, e, later, un)
<1> DEFINE v == Reading(e, ids, was)
           u == Reading(e, later, dflt)
<1>1. /\ v \in Values /\ v.identity \in ids /\ Alike(v, e) /\ v.format = e.format
      /\ e.useDefault => v.useDefault /\ v.identity = was
      /\ ~e.useDefault /\ e.identity = None => ~v.useDefault /\ v.identity = was
      /\ ~e.useDefault /\ e.identity \in ids => ~v.useDefault /\ v.identity = e.identity
      /\ ~e.useDefault /\ e.identity # None /\ e.identity \notin ids => v.useDefault /\ v.identity = was
  BY WhatIsRead
<1>2. /\ u \in Values /\ u.identity \in later /\ Alike(u, e) /\ u.format = e.format
      /\ e.useDefault => u.useDefault /\ u.identity = dflt
      /\ ~e.useDefault /\ e.identity = None => ~u.useDefault /\ u.identity = dflt
      /\ ~e.useDefault /\ e.identity \in later => ~u.useDefault /\ u.identity = e.identity
      /\ ~e.useDefault /\ e.identity # None /\ e.identity \notin later => u.useDefault /\ u.identity = dflt
  <2>1. later \subseteq Ids
    OBVIOUS
  <2>2. QED
    BY <2>1, WhatIsRead
<1>3. e.useDefault \in BOOLEAN /\ None \notin ids
  BY ValuesAreRecords, SettingsAssumption
<1>4. Fits(w, v, ids, ds, un)
  OBVIOUS
<1> HIDE DEF u, v
<1>6. LeftOut(w, e, later, un)
  BY DEF LeftOut
<1>7. Alike(u, w)
  BY <1>1, <1>2, <1>4 DEF Fits, Alike
<1>8. (w.format = "Unknown" \/ u.format = w.format) /\ (w.useDefault => u.useDefault)
  BY <1>1, <1>2, <1>3, <1>4 DEF Fits
<1>9. ASSUME ~w.useDefault, w.identity \in later
      PROVE  (~u.useDefault /\ u.identity = w.identity)
             \/ (w.identity \in un /\ u.identity \in ds \cup {dflt})
  <2>1. (~v.useDefault /\ v.identity = w.identity) \/ (w.identity \in un /\ v.identity \in ds)
    BY <1>4, <1>9 DEF Fits
  <2>2. CASE w.identity \in un /\ (e.useDefault \/ e.identity = None \/ e.identity \notin later)
    BY <1>2, <1>3, <2>2
  <2>3. CASE ~e.useDefault /\ e.identity # None /\ e.identity \in later
    BY <1>1, <1>2, <2>1, <2>3
  <2>4. CASE w.identity \notin un
    <3>1. ~v.useDefault /\ v.identity = w.identity
      BY <2>1, <2>4
    <3>2. ~(~e.useDefault /\ e.identity = None)
      BY <1>9, <2>4 DEF LeftOut
    <3>3. ~e.useDefault /\ e.identity \in ids /\ e.identity = w.identity
      BY <1>1, <1>3, <3>1, <3>2
    <3>4. QED
      BY <1>2, <1>9, <3>3
  <2>5. QED
    BY <1>3, <2>2, <2>3, <2>4
<1>10. QED
  BY <1>6, <1>7, <1>8, <1>9 DEF Fits, u

LEMMA MoreLeftOut ==
  ASSUME NEW w, NEW v, NEW ids, NEW ds, NEW un, NEW more, un \subseteq more
  PROVE  /\ Fits(w, v, ids, ds, un) => Fits(w, v, ids, ds, more)
         /\ \A e : LeftOut(w, e, ids, un) => LeftOut(w, e, ids, more)
BY DEF Fits, LeftOut

(* The other fields of a value, and all that the pages save.               *)
LEMMA FormatSet ==
  ASSUME NEW v \in Values, NEW m \in MessageFormats, NEW u, u = [v EXCEPT !.format = m]
  PROVE  /\ u \in Values /\ u.identity = v.identity /\ u.useDefault = v.useDefault /\ Alike(u, v)
         /\ u.format = m
<1>1. DOMAIN v = Fields /\ v \in Entries /\ v.identity \in Ids
  BY ValuesAreRecords
<1>2. /\ u = [x \in Fields |-> u[x]]
      /\ u.format = m /\ u.useDefault = v.useDefault /\ u.keep = v.keep /\ u.hide = v.hide /\ u.list = v.list
      /\ u.identity = v.identity
  BY <1>1 DEF Fields
<1>3. u \in Entries
  BY <1>1, <1>2, ValuesAreRecords
<1>4. QED
  BY <1>1, <1>2, <1>3, ValuesAreRecords DEF Alike

LEMMA ListSet ==
  ASSUME NEW v \in Values, NEW b \in BOOLEAN, NEW u, u = [v EXCEPT !.list = b]
  PROVE  /\ u \in Values /\ u.identity = v.identity /\ u.useDefault = v.useDefault /\ u.format = v.format
         /\ u.keep = v.keep /\ u.hide = v.hide /\ u.list = b
<1>1. DOMAIN v = Fields /\ v \in Entries /\ v.identity \in Ids
  BY ValuesAreRecords
<1>2. /\ u = [x \in Fields |-> u[x]]
      /\ u.format = v.format /\ u.useDefault = v.useDefault /\ u.keep = v.keep /\ u.hide = v.hide /\ u.list = b
      /\ u.identity = v.identity
  BY <1>1 DEF Fields
<1>3. u \in Entries
  BY <1>1, <1>2, ValuesAreRecords
<1>4. QED
  BY <1>1, <1>2, <1>3, ValuesAreRecords

PageForms == [useDefault : BOOLEAN, identity : Ids, keep : BOOLEAN, hide : BOOLEAN, format : MessageFormats]

LEMMA AllIsSaved ==
  ASSUME NEW v \in Values, NEW form \in PageForms, default \in Ids, NEW u, u = Settings!Saved(form, v)
  PROVE  /\ u \in Values /\ u.useDefault = form.useDefault
         /\ u.identity = IF form.useDefault /\ ~v.useDefault THEN default ELSE form.identity
         /\ u.keep = form.keep /\ u.hide = form.hide /\ u.list = v.list
         /\ u.format = IF form.format = "Unknown" THEN v.format ELSE form.format
<1> DEFINE i == IF form.useDefault /\ ~v.useDefault THEN default ELSE form.identity
           m == IF form.format = "Unknown" THEN v.format ELSE form.format
           n == [v EXCEPT !.useDefault = form.useDefault, !.identity = i, !.keep = form.keep,
                          !.hide = form.hide, !.format = m]
<1>1. DOMAIN v = Fields /\ v \in Entries /\ v.format \in MessageFormats /\ v.list \in BOOLEAN
  BY ValuesAreRecords
<1>2. u = n
  BY DEF Settings!Saved
<1>3. /\ i \in Ids /\ m \in MessageFormats /\ form.useDefault \in BOOLEAN /\ form.keep \in BOOLEAN
      /\ form.hide \in BOOLEAN
  BY <1>1 DEF PageForms
<1> HIDE DEF i, m
<1>4. n = [x \in Fields |-> n[x]]
  BY <1>1 DEF Fields
<1>5. n.useDefault = form.useDefault
  BY <1>1 DEF Fields
<1>6. n.identity = i
  BY <1>1 DEF Fields
<1>7. n.keep = form.keep
  BY <1>1 DEF Fields
<1>8. n.hide = form.hide
  BY <1>1 DEF Fields
<1>9. n.format = m
  BY <1>1 DEF Fields
<1>10. n.list = v.list
  BY <1>1 DEF Fields
<1> HIDE DEF n
<1>11. n \in Entries
  BY <1>1, <1>3, <1>4, <1>5, <1>6, <1>7, <1>8, <1>9, <1>10, ValuesAreRecords
<1>12. n \in Values
  BY <1>3, <1>6, <1>11, ValuesAreRecords
<1>13. QED
  BY <1>2, <1>5, <1>6, <1>7, <1>8, <1>9, <1>10, <1>12 DEF i, m

(* What the pages show, and what a user makes of it.                       *)
Ticked(form, b, i) == [form EXCEPT !.useDefault = b, !.identity = i]

(* One live object per folder, which whoever asked for it may write, and   *)
(* who points to it.                                                       *)
Held  == [folder : Configured, write : BOOLEAN, value : Values]
Pages == [object : Objects, saved : BOOLEAN, mayCreate : BOOLEAN, form : PageForms]

ManagerFits == identities \subseteq Ids /\ default \in identities /\ default \in defaults

HeldOnce ==
  /\ object \in [Objects -> Held \cup {None}]
  /\ \A o \in Settings!Live : object[o].value.identity \in identities
  /\ \A o \in Settings!Live : object[o].write <=> o \in asked
  /\ \A o, p \in Settings!Live : object[o].folder = object[p].folder /\ object[o].folder \notin unsure => o = p

PointersFit ==
  /\ fcMap \in [Configured -> Objects \cup {None}]
  /\ \A f \in Configured : fcMap[f] # None => fcMap[f] \in Settings!Live /\ object[fcMap[f]].folder = f
  /\ others \subseteq Settings!Live

PagesFit ==
  /\ properties = [d \in Dialogs |-> properties[d]]
  /\ \A d \in Dialogs : properties[d] # None =>
       properties[d] \in Pages /\ properties[d].object \in Settings!Live
       /\ properties[d].form.identity \in identities

(* What is wanted of a folder, its object and its entry agree.             *)
Sure(f) == f \notin unsure /\ account[f].resource
Agrees(f) ==
  /\ \A o \in Settings!Live : object[o].folder = f =>
       Fits(wanted[f], object[o].value, identities, defaults, unwritten[f])
  /\ (\A o \in Settings!Live : object[o].folder # f) =>
       Fits(wanted[f], Reading(config[f], identities, default), identities, defaults, unwritten[f])
  /\ LeftOut(wanted[f], config[f], identities, unwritten[f])

StoredFit ==
  /\ config \in [Configured -> Entries] /\ wanted \in [Configured -> Values]
  /\ unwritten = [f \in Configured |-> unwritten[f]]
  /\ \A f \in Configured : Sure(f) => Agrees(f)

SettingsInv == ManagerFits /\ HeldOnce /\ PointersFit /\ PagesFit /\ StoredFit

ManagerRests == UNCHANGED <<identities, default, defaults, account>>

(* The operators of the component are those of the values.                 *)
Own(f) == Settings!LeftUnsaid(f)

LEMMA SettingsOperators ==
  /\ \A e : Settings!ReadConfig(e) = Reading(e, identities, default)
  /\ \A f, v : account[f].resource => Settings!WriteConfig(f, v) =
         Writing(v, Own(f), config[f].format)
  /\ \A f, v : ~account[f].resource => Settings!WriteConfig(f, v) = config[f]
  /\ \A f, v : Settings!AsWanted(f, v) <=> Fits(wanted[f], v, identities, defaults, unwritten[f])
  /\ \A f, v : Settings!Unsaid(f, v) = IF v.useDefault THEN {} ELSE {v.identity} \cap {Own(f)}
<1>1. \A e : Settings!ReadConfig(e) = Reading(e, identities, default)
  BY DEF Settings!ReadConfig, Reading, Followed
<1>2. \A f, v : account[f].resource => Settings!WriteConfig(f, v) =
         Writing(v, Own(f), config[f].format)
  BY DEF Settings!WriteConfig, Own, Writing
<1>3. \A f, v : ~account[f].resource => Settings!WriteConfig(f, v) = config[f]
  BY DEF Settings!WriteConfig
<1>4. \A f, v : Settings!AsWanted(f, v) <=> Fits(wanted[f], v, identities, defaults, unwritten[f])
  BY DEF Settings!AsWanted, Fits, Alike
<1>5. \A f, v : Settings!Unsaid(f, v) = IF v.useDefault THEN {} ELSE {v.identity} \cap {Own(f)}
  BY DEF Settings!Unsaid, Own
<1>6. QED
  BY <1>1, <1>2, <1>3, <1>4, <1>5

(* What is live is a record.                                               *)
LEMMA LiveAreHeld ==
  ASSUME HeldOnce
  PROVE  /\ \A o \in Settings!Live : o \in Objects /\ object[o] \in Held /\ object[o].folder \in Configured
                                     /\ object[o].write \in BOOLEAN /\ object[o].value \in Values
         /\ None \notin Held
<1>1. None \notin Held
  BY SettingsAssumption DEF Held, Values
<1>2. \A o \in Settings!Live : o \in Objects /\ object[o] \in Held
  BY DEF HeldOnce, Settings!Live
<1>3. \A h \in Held : h.folder \in Configured /\ h.write \in BOOLEAN /\ h.value \in Values
  BY DEF Held
<1>4. QED
  BY <1>1, <1>2, <1>3

(* forCollection(): a cached object, or a new one that holds what is read. *)
FromCache(f, write, o) ==
  /\ fcMap[f] = o
  /\ object' = [object EXCEPT ![o].write = @ \/ write]
  /\ asked' = IF write THEN asked \cup {o} ELSE asked
  /\ UNCHANGED <<fcMap, unsure>>

LEMMA CachedIsTaken ==
  ASSUME SettingsInv, NEW f \in Configured, NEW write \in BOOLEAN, NEW o \in Objects,
         FromCache(f, write, o), ManagerRests, config' = config, wanted' = wanted, unwritten' = unwritten
  PROVE  /\ HeldOnce' /\ StoredFit' /\ fcMap' \in [Configured -> Objects \cup {None}]
         /\ Settings!Live' = Settings!Live \cup {o} /\ o \in Settings!Live
         /\ \A p \in Settings!Live : object'[p].folder = object[p].folder /\ object'[p].value = object[p].value
         /\ object'[o].folder = f
         /\ \A g \in Configured : fcMap'[g] # None => fcMap'[g] \in Settings!Live' /\ object'[fcMap'[g]].folder = g
<1>1. None # o /\ fcMap[f] = o /\ fcMap' = fcMap /\ unsure' = unsure
  BY SettingsAssumption DEF FromCache
<1>2. o \in Settings!Live /\ object[o].folder = f
  BY <1>1 DEF SettingsInv, PointersFit
<1>3. /\ \A p \in Settings!Live : p \in Objects /\ object[p] \in Held /\ object[p].folder \in Configured
                                  /\ object[p].write \in BOOLEAN /\ object[p].value \in Values
      /\ None \notin Held
  BY LiveAreHeld DEF SettingsInv
<1>4. /\ object' = [object EXCEPT ![o] = [object[o] EXCEPT !.write = object[o].write \/ write]]
      /\ object \in [Objects -> Held \cup {None}]
  BY DEF SettingsInv, HeldOnce, FromCache
<1>5. /\ [object[o] EXCEPT !.write = object[o].write \/ write] \in Held
      /\ [object[o] EXCEPT !.write = object[o].write \/ write].write = (object[o].write \/ write)
      /\ [object[o] EXCEPT !.write = object[o].write \/ write].folder = object[o].folder
      /\ [object[o] EXCEPT !.write = object[o].write \/ write].value = object[o].value
  <2>1. object[o] \in Held /\ object[o].write \in BOOLEAN
    BY <1>2, <1>3
  <2>2. QED
    BY <2>1 DEF Held
<1>6. object' \in [Objects -> Held \cup {None}] /\ \A p \in Objects \ {o} : object'[p] = object[p]
  BY <1>4, <1>5
<1>7. /\ object'[o] \in Held /\ object'[o].write = (object[o].write \/ write)
      /\ object'[o].folder = object[o].folder /\ object'[o].value = object[o].value
  BY <1>4, <1>5
<1>8. Settings!Live' = Settings!Live \cup {o} /\ Settings!Live' = Settings!Live
  BY <1>2, <1>3, <1>6, <1>7 DEF Settings!Live
<1>9. \A p \in Settings!Live : object'[p].folder = object[p].folder /\ object'[p].value = object[p].value
  BY <1>3, <1>6, <1>7
<1>10. HeldOnce'
  <2>1. \A p \in Settings!Live' : object'[p].value.identity \in identities'
    BY <1>8, <1>9 DEF SettingsInv, HeldOnce, ManagerRests
  <2>2. \A p \in Settings!Live' : object'[p].write <=> p \in asked'
    <3> SUFFICES ASSUME NEW p \in Settings!Live PROVE object'[p].write <=> p \in asked'
      BY <1>8
    <3>1. (object[p].write <=> p \in asked) /\ asked' = IF write THEN asked \cup {o} ELSE asked
      BY DEF SettingsInv, HeldOnce, FromCache
    <3>2. CASE p = o
      BY <1>7, <3>1, <3>2
    <3>3. CASE p # o
      BY <1>3, <1>6, <3>1, <3>3
    <3>4. QED
      BY <3>2, <3>3
  <2>3. \A p, q \in Settings!Live' : object'[p].folder = object'[q].folder /\ object'[p].folder \notin unsure'
           => p = q
    BY <1>1, <1>8, <1>9 DEF SettingsInv, HeldOnce
  <2>4. QED
    BY <1>6, <2>1, <2>2, <2>3 DEF HeldOnce
<1>11. StoredFit'
  <2>1. ASSUME NEW g \in Configured, Sure(g)' PROVE Agrees(g)'
    <3>1. Sure(g) /\ Agrees(g)
      BY <1>1, <2>1 DEF Sure, ManagerRests, SettingsInv, StoredFit
    <3>2. UNCHANGED <<wanted, config, identities, default, defaults, account, unwritten>>
      BY DEF ManagerRests
    <3>3. \A p \in Settings!Live' : object'[p].folder = g =>
            Fits(wanted'[g], object'[p].value, identities', defaults', unwritten'[g])
      BY <1>8, <1>9, <3>1, <3>2 DEF Agrees
    <3>4. (\A p \in Settings!Live' : object'[p].folder # g) =>
            Fits(wanted'[g], Reading(config'[g], identities', default'), identities', defaults', unwritten'[g])
      BY <1>8, <1>9, <3>1, <3>2 DEF Agrees
    <3>5. LeftOut(wanted'[g], config'[g], identities', unwritten'[g])
      BY <3>1, <3>2 DEF Agrees
    <3>6. QED
      BY <3>3, <3>4, <3>5 DEF Agrees
  <2>2. QED
    BY <2>1 DEF SettingsInv, StoredFit
<1>12. \A g \in Configured : fcMap'[g] # None => fcMap'[g] \in Settings!Live' /\ object'[fcMap'[g]].folder = g
  BY <1>1, <1>8, <1>9 DEF SettingsInv, PointersFit
<1>13. QED
  BY <1>1, <1>2, <1>7, <1>8, <1>9, <1>10, <1>11, <1>12 DEF SettingsInv, PointersFit

LEMMA NewIsTaken ==
  ASSUME SettingsInv, NEW f \in Configured, NEW write \in BOOLEAN, NEW o \in Objects,
         fcMap[f] = None, object[o] = None,
         object' = [object EXCEPT ![o] = [folder |-> f, write |-> write, value |-> Settings!ReadConfig(config[f])]],
         fcMap' = [fcMap EXCEPT ![f] = o],
         asked' = IF write THEN asked \cup {o} ELSE asked \ {o},
         unsure' = IF \E p \in Settings!Live : object[p].folder = f THEN unsure \cup {f} ELSE unsure,
         ManagerRests, config' = config, wanted' = wanted, unwritten' = unwritten
  PROVE  /\ HeldOnce' /\ StoredFit' /\ fcMap' \in [Configured -> Objects \cup {None}]
         /\ Settings!Live' = Settings!Live \cup {o}
         /\ object'[o].folder = f
         /\ \A g \in Configured : fcMap'[g] # None => fcMap'[g] \in Settings!Live' /\ object'[fcMap'[g]].folder = g
<1> DEFINE h == [folder |-> f, write |-> write, value |-> Reading(config[f], identities, default)]
<1>1. /\ \A p \in Settings!Live : p \in Objects /\ object[p] \in Held /\ object[p].folder \in Configured
                                  /\ object[p].write \in BOOLEAN /\ object[p].value \in Values
      /\ None \notin Held
  BY LiveAreHeld DEF SettingsInv
<1>2. Reading(config[f], identities, default) \in Values /\ Reading(config[f], identities, default).identity \in identities
  <2>1. config[f] \in Entries /\ identities \subseteq Ids /\ default \in identities
    BY DEF SettingsInv, StoredFit, ManagerFits
  <2>2. QED
    BY <2>1, WhatIsRead
<1>3. /\ h \in Held /\ h.folder = f /\ h.write = write /\ h.value = Reading(config[f], identities, default)
  BY <1>2 DEF Held
<1> HIDE DEF h
<1>4. object' = [object EXCEPT ![o] = h]
  BY SettingsOperators DEF h
<1>5. object' \in [Objects -> Held \cup {None}] /\ object'[o] = h /\ \A p \in Objects \ {o} : object'[p] = object[p]
  BY <1>3, <1>4 DEF SettingsInv, HeldOnce
<1>6. Settings!Live' = Settings!Live \cup {o} /\ o \notin Settings!Live
  BY <1>1, <1>3, <1>5 DEF Settings!Live
<1>7. \A p \in Settings!Live : object'[p] = object[p] /\ p # o
  BY <1>1, <1>5, <1>6
<1>8. HeldOnce'
  <2>1. \A p \in Settings!Live' : object'[p].value.identity \in identities'
    BY <1>2, <1>3, <1>5, <1>6, <1>7 DEF SettingsInv, HeldOnce, ManagerRests
  <2>2. \A p \in Settings!Live' : object'[p].write <=> p \in asked'
    <3> SUFFICES ASSUME NEW p \in Settings!Live' PROVE object'[p].write <=> p \in asked'
      OBVIOUS
    <3>1. CASE p = o
      BY <1>3, <1>5, <3>1
    <3>2. CASE p \in Settings!Live
      <4>1. object[p].write <=> p \in asked
        BY <3>2 DEF SettingsInv, HeldOnce
      <4>2. QED
        BY <1>7, <3>2, <4>1
    <3>3. QED
      BY <1>6, <3>1, <3>2
  <2>3. ASSUME NEW p \in Settings!Live', NEW q \in Settings!Live', object'[p].folder = object'[q].folder,
               object'[p].folder \notin unsure'
        PROVE  p = q
    <3>1. CASE p \in Settings!Live /\ q \in Settings!Live
      BY <1>7, <2>3, <3>1 DEF SettingsInv, HeldOnce
    <3>2. CASE p = o /\ q \in Settings!Live
      BY <1>3, <1>5, <1>7, <2>3, <3>2
    <3>3. CASE p \in Settings!Live /\ q = o
      BY <1>3, <1>5, <1>7, <2>3, <3>3
    <3>4. QED
      BY <1>6, <3>1, <3>2, <3>3
  <2>4. QED
    BY <1>5, <2>1, <2>2, <2>3 DEF HeldOnce
<1>9. StoredFit'
  <2>1. ASSUME NEW g \in Configured, Sure(g)' PROVE Agrees(g)'
    <3>1. Sure(g) /\ Agrees(g)
      BY <2>1 DEF Sure, ManagerRests, SettingsInv, StoredFit
    <3>2. UNCHANGED <<wanted, config, identities, default, defaults, account, unwritten>>
      BY DEF ManagerRests
    <3>3. ASSUME NEW p \in Settings!Live', object'[p].folder = g
          PROVE  Fits(wanted[g], object'[p].value, identities, defaults, unwritten[g])
      <4>1. CASE p = o
        <5>1. g = f
          BY <1>3, <1>5, <3>3, <4>1
        <5>2. \A q \in Settings!Live : object[q].folder # g
          BY <2>1, <5>1 DEF Sure
        <5>3. QED
          BY <1>3, <1>5, <3>1, <4>1, <5>1, <5>2 DEF Agrees
      <4>2. CASE p \in Settings!Live
        BY <1>7, <3>1, <3>3, <4>2 DEF Agrees
      <4>3. QED
        BY <1>6, <4>1, <4>2
    <3>4. (\A p \in Settings!Live' : object'[p].folder # g) =>
            Fits(wanted[g], Reading(config[g], identities, default), identities, defaults, unwritten[g])
      BY <1>6, <1>7, <3>1 DEF Agrees
    <3>5. LeftOut(wanted[g], config[g], identities, unwritten[g])
      BY <3>1 DEF Agrees
    <3>6. QED
      BY <3>2, <3>3, <3>4, <3>5 DEF Agrees
  <2>2. QED
    BY <2>1 DEF SettingsInv, StoredFit
<1>10. ASSUME NEW g \in Configured, fcMap'[g] # None
       PROVE  fcMap'[g] \in Settings!Live' /\ object'[fcMap'[g]].folder = g
  <2>1. CASE g = f
    BY <1>3, <1>5, <1>6, <2>1 DEF SettingsInv, PointersFit
  <2>2. CASE g # f
    BY <1>6, <1>7, <1>10, <2>2 DEF SettingsInv, PointersFit
  <2>3. QED
    BY <2>1, <2>2
<1>11. fcMap' \in [Configured -> Objects \cup {None}]
  BY DEF SettingsInv, PointersFit
<1>12. QED
  BY <1>3, <1>5, <1>6, <1>8, <1>9, <1>10, <1>11

LEMMA FolderIsTaken ==
  ASSUME SettingsInv, NEW f \in Configured, NEW write \in BOOLEAN, NEW o \in Objects,
         Settings!ForCollection(f, write, o), ManagerRests, config' = config, wanted' = wanted,
         unwritten' = unwritten
  PROVE  /\ HeldOnce' /\ StoredFit' /\ fcMap' \in [Configured -> Objects \cup {None}]
         /\ Settings!Live' = Settings!Live \cup {o}
         /\ object'[o].folder = f
         /\ \A g \in Configured : fcMap'[g] # None => fcMap'[g] \in Settings!Live' /\ object'[fcMap'[g]].folder = g
<1>1. CASE /\ fcMap[f] = None
           /\ object[o] = None
           /\ object' = [object EXCEPT ![o] = [folder |-> f, write |-> write, value |-> Settings!ReadConfig(config[f])]]
           /\ fcMap' = [fcMap EXCEPT ![f] = o]
           /\ asked' = IF write THEN asked \cup {o} ELSE asked \ {o}
           /\ unsure' = IF \E p \in Settings!Live : object[p].folder = f THEN unsure \cup {f} ELSE unsure
  BY <1>1, NewIsTaken
<1>2. CASE FromCache(f, write, o)
  BY <1>2, CachedIsTaken
<1>3. QED
  BY <1>1, <1>2 DEF Settings!ForCollection, FromCache

(* Any identity that the pages show or an object uses exists.              *)
LEMMA IdentityIsThere ==
  ASSUME NEW f, NEW v, v.identity \in identities
  PROVE  Settings!FallBackIdentity(f, v) \in identities /\ Settings!Identity(f, v) \in identities
BY DEF Settings!FallBackIdentity, Settings!Identity

LEMMA PagesOpened ==
  ASSUME SettingsInv, NEW f \in Configured, NEW mayCreate \in BOOLEAN, NEW d \in Dialogs,
         Settings!OpenDialog(d, f, mayCreate)
  PROVE  SettingsInv'
<1>1. PICK o \in Objects :
        /\ Settings!ForCollection(f, TRUE, o)
        /\ properties' = [properties EXCEPT ![d] =
               [object |-> o, saved |-> FALSE, mayCreate |-> mayCreate,
                form |-> Settings!Shown(f, object'[o].value, mayCreate)]]
  BY DEF Settings!OpenDialog
<1>2. ManagerRests /\ config' = config /\ wanted' = wanted /\ others' = others /\ unwritten' = unwritten
  BY DEF Settings!OpenDialog, Settings!Manager, ManagerRests
<1>3. /\ HeldOnce' /\ StoredFit' /\ fcMap' \in [Configured -> Objects \cup {None}]
      /\ Settings!Live' = Settings!Live \cup {o}
      /\ \A g \in Configured : fcMap'[g] # None => fcMap'[g] \in Settings!Live' /\ object'[fcMap'[g]].folder = g
  BY <1>1, <1>2, FolderIsTaken
<1> DEFINE v == object'[o].value
           form == Settings!Shown(f, v, mayCreate)
<1>4. v \in Values /\ v.identity \in identities
  <2>1. None \notin Held
    BY LiveAreHeld DEF SettingsInv
  <2>2. o \in Settings!Live' /\ object' \in [Objects -> Held \cup {None}] /\ v.identity \in identities
    BY <1>2, <1>3 DEF HeldOnce, ManagerRests
  <2>3. object'[o] \in Held
    BY <2>2 DEF Settings!Live
  <2>4. QED
    BY <2>2, <2>3 DEF Held
<1>5. v.useDefault \in BOOLEAN /\ v.keep \in BOOLEAN /\ v.hide \in BOOLEAN /\ v.format \in MessageFormats
  BY <1>4, ValuesAreRecords
<1>6. Settings!Identity(f, v) \in identities /\ identities \subseteq Ids
  BY <1>4, IdentityIsThere DEF SettingsInv, ManagerFits
<1> HIDE DEF v
<1>7. form \in PageForms /\ form.identity \in identities
  BY <1>5, <1>6 DEF PageForms, Settings!Shown
<1> DEFINE opened == [object |-> o, saved |-> FALSE, mayCreate |-> mayCreate, form |-> form]
<1> HIDE DEF form
<1>8. opened \in Pages /\ opened.object = o /\ opened.form.identity \in identities
  BY <1>7 DEF Pages
<1>9. properties' = [properties EXCEPT ![d] = opened]
  BY <1>1 DEF form, v
<1> HIDE DEF opened
<1>10. PagesFit'
  <2>1. properties' = [e \in Dialogs |-> properties'[e]] /\ properties'[d] = opened
        /\ \A e \in Dialogs \ {d} : properties'[e] = properties[e]
    BY <1>9 DEF SettingsInv, PagesFit
  <2>2. ASSUME NEW e \in Dialogs, properties'[e] # None
        PROVE  /\ properties'[e] \in Pages /\ properties'[e].object \in Settings!Live'
               /\ properties'[e].form.identity \in identities'
    <3>1. CASE e = d
      BY <1>2, <1>3, <1>8, <2>1, <3>1 DEF ManagerRests
    <3>2. CASE e # d
      BY <1>2, <1>3, <2>1, <2>2, <3>2 DEF ManagerRests, SettingsInv, PagesFit
    <3>3. QED
      BY <3>1, <3>2
  <2>3. QED
    BY <2>1, <2>2 DEF PagesFit
<1>11. others' \subseteq Settings!Live'
  BY <1>2, <1>3 DEF SettingsInv, PointersFit
<1>12. ManagerFits'
  BY <1>2 DEF SettingsInv, ManagerFits, ManagerRests
<1>13. QED
  BY <1>3, <1>10, <1>11, <1>12 DEF SettingsInv, PointersFit

LEMMA Asked ==
  ASSUME SettingsInv, NEW f \in Configured, NEW write \in BOOLEAN, Settings!Ask(f, write)
  PROVE  SettingsInv'
<1>1. PICK o \in Objects : Settings!ForCollection(f, write, o) /\ others' = others \cup {o}
  BY DEF Settings!Ask
<1>2. ManagerRests /\ config' = config /\ wanted' = wanted /\ properties' = properties /\ unwritten' = unwritten
  BY DEF Settings!Ask, Settings!Manager, ManagerRests
<1>3. /\ HeldOnce' /\ StoredFit' /\ fcMap' \in [Configured -> Objects \cup {None}]
      /\ Settings!Live' = Settings!Live \cup {o}
      /\ \A g \in Configured : fcMap'[g] # None => fcMap'[g] \in Settings!Live' /\ object'[fcMap'[g]].folder = g
  BY <1>1, <1>2, FolderIsTaken
<1>4. PagesFit'
  BY <1>2, <1>3 DEF SettingsInv, PagesFit, ManagerRests
<1>5. others' \subseteq Settings!Live'
  BY <1>1, <1>3 DEF SettingsInv, PointersFit
<1>6. ManagerFits'
  BY <1>2 DEF SettingsInv, ManagerFits, ManagerRests
<1>7. QED
  BY <1>3, <1>4, <1>5, <1>6 DEF SettingsInv, PointersFit

(* ~FolderSettings() stores what the object holds, if somebody may write   *)
(* it; what nobody may write has not been changed, or the folder is no     *)
(* longer a sure one.                                                      *)
Written(f, dead) == {o \in dead : object[o].folder = f /\ object[o].write}

LEMMA Destroyed ==
  ASSUME SettingsInv, NEW dead, dead \subseteq Settings!Live, Settings!Destroy(dead),
         ManagerRests, wanted' = wanted, asked' = asked
  PROVE  /\ HeldOnce' /\ StoredFit' /\ Settings!Live' = Settings!Live \ dead
         /\ \A p \in Settings!Live' : object'[p] = object[p]
<1>1. /\ \A p \in Settings!Live : p \in Objects /\ object[p] \in Held /\ object[p].folder \in Configured
                                  /\ object[p].write \in BOOLEAN /\ object[p].value \in Values
      /\ None \notin Held
  BY LiveAreHeld DEF SettingsInv
<1>2. object' = [o \in Objects |-> IF o \in dead THEN None ELSE object[o]]
  BY DEF Settings!Destroy
<1>3. object' \in [Objects -> Held \cup {None}]
  BY <1>2 DEF SettingsInv, HeldOnce
<1>4. Settings!Live' = Settings!Live \ dead /\ \A p \in Settings!Live' : object'[p] = object[p]
  BY <1>2 DEF Settings!Live
<1>5. unsure' = unsure \cup {object[o].folder : o \in {d \in dead \ asked :
                         object[d].value # Settings!ReadConfig(config[object[d].folder])}}
  BY DEF Settings!Destroy
<1>6. HeldOnce'
  <2>1. unsure \subseteq unsure'
    BY <1>5
  <2>2. \A p \in Settings!Live' : p \in Settings!Live /\ object'[p] = object[p]
    BY <1>4
  <2>3. \A p \in Settings!Live' : object'[p].value.identity \in identities'
    BY <2>2 DEF SettingsInv, HeldOnce, ManagerRests
  <2>4. \A p \in Settings!Live' : object'[p].write <=> p \in asked'
    BY <2>2 DEF SettingsInv, HeldOnce
  <2>5. \A p, q \in Settings!Live' : object'[p].folder = object'[q].folder /\ object'[p].folder \notin unsure' => p = q
    BY <2>1, <2>2 DEF SettingsInv, HeldOnce
  <2>6. QED
    BY <1>3, <2>3, <2>4, <2>5 DEF HeldOnce
<1>7. config' = [f \in Configured |->
           IF Written(f, dead) = {} THEN config[f]
           ELSE Settings!WriteConfig(f, object[CHOOSE o \in Written(f, dead) : TRUE].value)]
  BY DEF Settings!Destroy, Written
<1>B. unwritten' = [f \in Configured |->
           IF Written(f, dead) = {} THEN unwritten[f]
           ELSE unwritten[f] \cup Settings!Unsaid(f, object[CHOOSE o \in Written(f, dead) : TRUE].value)]
  BY DEF Settings!Destroy, Written
<1>8. ASSUME NEW f \in Configured, Written(f, dead) # {}
      PROVE  \E o \in dead : /\ object[o].folder = f /\ o \in Settings!Live
                             /\ config'[f] = Settings!WriteConfig(f, object[o].value)
                             /\ unwritten'[f] = unwritten[f] \cup Settings!Unsaid(f, object[o].value)
  <2>1. (CHOOSE o \in Written(f, dead) : TRUE) \in Written(f, dead)
    BY <1>8
  <2>2. QED
    BY <1>7, <1>8, <1>B, <2>1 DEF Written
<1>C. \A f \in Configured : unwritten[f] \subseteq unwritten'[f]
  BY <1>B
<1>9. config' \in [Configured -> Entries]
  <2> SUFFICES ASSUME NEW f \in Configured PROVE config'[f] \in Entries
    BY <1>7
  <2>1. config[f] \in Entries /\ config[f].format \in MessageFormats
    BY ValuesAreRecords DEF SettingsInv, StoredFit
  <2>2. CASE Written(f, dead) = {}
    BY <1>7, <2>1, <2>2
  <2>3. CASE Written(f, dead) # {}
    <3>1. PICK o \in dead : o \in Settings!Live /\ config'[f] = Settings!WriteConfig(f, object[o].value)
      BY <1>8, <2>3
    <3>2. object[o].value \in Values
      BY <1>1, <3>1
    <3>3. CASE account[f].resource
      <4>1. config'[f] = Writing(object[o].value, Own(f), config[f].format)
        BY <3>1, <3>3, SettingsOperators
      <4>2. QED
        BY <2>1, <3>2, <4>1, WhatIsWritten
    <3>4. CASE ~account[f].resource
      BY <2>1, <3>1, <3>4, SettingsOperators
    <3>5. QED
      BY <3>3, <3>4
  <2>4. QED
    BY <2>2, <2>3
<1>10. ASSUME NEW f \in Configured, Sure(f)'
       PROVE  Agrees(f)'
  <2>1. UNCHANGED <<wanted, identities, default, defaults, account>>
    BY DEF ManagerRests
  <2>2. Sure(f) /\ Agrees(f)
    <3>1. Sure(f)
      BY <1>5, <1>10, <2>1 DEF Sure
    <3>2. QED
      BY <3>1 DEF SettingsInv, StoredFit
  <2>3. \A p \in Settings!Live' : object'[p].folder = f =>
            Fits(wanted[f], object'[p].value, identities, defaults, unwritten'[f])
    <3>1. \A p \in Settings!Live' : object'[p].folder = f =>
            Fits(wanted[f], object'[p].value, identities, defaults, unwritten[f])
      BY <1>4, <2>2 DEF Agrees
    <3>2. QED
      BY <1>C, <3>1, MoreLeftOut
  <2>4. CASE Written(f, dead) = {}
    <3>1. config'[f] = config[f] /\ unwritten'[f] = unwritten[f]
      BY <1>7, <1>B, <2>4
    <3>2. ASSUME \A p \in Settings!Live' : object'[p].folder # f
          PROVE  Fits(wanted[f], Reading(config[f], identities, default), identities, defaults, unwritten[f])
      <4>1. CASE \A p \in Settings!Live : object[p].folder # f
        BY <2>2, <4>1 DEF Agrees
      <4>2. CASE \E p \in Settings!Live : object[p].folder = f
        <5>1. PICK p \in Settings!Live : object[p].folder = f
          BY <4>2
        <5>2. p \in dead
          BY <1>4, <3>2, <5>1
        <5>3. ~object[p].write
          BY <2>4, <5>1, <5>2 DEF Written
        <5>4. p \notin asked
          BY <5>1, <5>3 DEF SettingsInv, HeldOnce
        <5>5. object[p].value = Settings!ReadConfig(config[f])
          BY <1>5, <1>10, <5>1, <5>2, <5>4 DEF Sure
        <5>6. Fits(wanted[f], object[p].value, identities, defaults, unwritten[f])
          BY <2>2, <5>1 DEF Agrees
        <5>7. QED
          BY <5>5, <5>6, SettingsOperators
      <4>3. QED
        BY <4>1, <4>2
    <3>3. LeftOut(wanted[f], config[f], identities, unwritten[f])
      BY <2>2 DEF Agrees
    <3>4. QED
      BY <2>1, <2>3, <3>1, <3>2, <3>3 DEF Agrees
  <2>5. CASE Written(f, dead) # {}
    <3>1. PICK o \in dead : o \in Settings!Live /\ object[o].folder = f
                            /\ config'[f] = Settings!WriteConfig(f, object[o].value)
                            /\ unwritten'[f] = unwritten[f] \cup Settings!Unsaid(f, object[o].value)
      BY <1>8, <2>5
    <3>2. config'[f] = Writing(object[o].value, Own(f), config[f].format)
      BY <2>2, <3>1, SettingsOperators DEF Sure
    <3>3. Fits(wanted[f], object[o].value, identities, defaults, unwritten'[f])
      <4>1. Fits(wanted[f], object[o].value, identities, defaults, unwritten[f])
        BY <2>2, <3>1 DEF Agrees
      <4>2. QED
        BY <1>C, <4>1, MoreLeftOut
    <3>7. ~object[o].value.useDefault /\ object[o].value.identity = Own(f) => Own(f) \in unwritten'[f]
      BY <3>1, SettingsOperators
    <3>4. /\ object[o].value \in Values /\ object[o].value.identity \in identities
          /\ config[f].format \in MessageFormats /\ wanted[f].useDefault \in BOOLEAN
          /\ identities \subseteq Ids /\ default \in identities /\ default \in defaults
      BY <1>1, <3>1, ValuesAreRecords DEF SettingsInv, HeldOnce, StoredFit, ManagerFits
    <3>5. /\ Fits(wanted[f], Reading(config'[f], identities, default), identities, defaults, unwritten'[f])
          /\ LeftOut(wanted[f], config'[f], identities, unwritten'[f])
      BY <3>2, <3>3, <3>4, <3>7, WrittenFits
    <3>6. QED
      BY <2>1, <2>3, <3>5 DEF Agrees
  <2>6. QED
    BY <2>4, <2>5
<1>11. StoredFit'
  BY <1>9, <1>10, <1>B DEF StoredFit, SettingsInv
<1>12. QED
  BY <1>4, <1>6, <1>11

(* Only what nobody points to dies.                                        *)
LEMMA ObjectLetGo ==
  ASSUME SettingsInv, NEW o \in Objects, Settings!LetGo(o)
  PROVE  SettingsInv'
<1> DEFINE last == ~Settings!Cached(o) /\ \A d \in Dialogs : properties[d] # None => properties[d].object # o
           dead == IF last THEN {o} ELSE {}
<1>1. o \in others /\ others' = others \ {o} /\ Settings!Destroy(dead)
  BY DEF Settings!LetGo
<1>2. ManagerRests /\ wanted' = wanted /\ asked' = asked /\ fcMap' = fcMap /\ properties' = properties
  BY DEF Settings!LetGo, Settings!Manager, ManagerRests
<1>3. dead \subseteq Settings!Live /\ dead \subseteq {o} /\ (dead # {} => last)
  BY <1>1 DEF SettingsInv, PointersFit
<1> HIDE DEF dead
<1>4. /\ HeldOnce' /\ StoredFit' /\ Settings!Live' = Settings!Live \ dead
      /\ \A p \in Settings!Live' : object'[p] = object[p]
  BY <1>1, <1>2, <1>3, Destroyed
<1>5. ManagerFits'
  BY <1>2 DEF SettingsInv, ManagerFits, ManagerRests
<1>6. \A f \in Configured : fcMap[f] # None => fcMap[f] \in Settings!Live'
  BY <1>3, <1>4 DEF SettingsInv, PointersFit, Settings!Cached
<1>7. PointersFit'
  BY <1>1, <1>2, <1>3, <1>4, <1>6 DEF SettingsInv, PointersFit
<1>8. \A d \in Dialogs : properties[d] # None => properties[d].object \in Settings!Live'
  BY <1>3, <1>4 DEF SettingsInv, PagesFit
<1>9. PagesFit'
  BY <1>2, <1>8 DEF SettingsInv, PagesFit, ManagerRests
<1>10. QED
  BY <1>4, <1>5, <1>7, <1>9 DEF SettingsInv

LEMMA PagesClosed ==
  ASSUME SettingsInv, NEW d \in Dialogs, Settings!CloseDialog(d)
  PROVE  SettingsInv'
<1> DEFINE o == properties[d].object
           last == /\ ~Settings!Cached(o) /\ o \notin others
                   /\ \A e \in Dialogs \ {d} : properties[e] # None => properties[e].object # o
           dead == IF last THEN {o} ELSE {}
<1>1. properties[d] # None /\ properties' = [properties EXCEPT ![d] = None] /\ Settings!Destroy(dead)
  BY DEF Settings!CloseDialog
<1>2. ManagerRests /\ wanted' = wanted /\ asked' = asked /\ fcMap' = fcMap /\ others' = others
  BY DEF Settings!CloseDialog, Settings!Manager, ManagerRests
<1>3. dead \subseteq Settings!Live /\ dead \subseteq {o} /\ (dead # {} => last)
  BY <1>1 DEF SettingsInv, PagesFit
<1> HIDE DEF dead
<1>4. /\ HeldOnce' /\ StoredFit' /\ Settings!Live' = Settings!Live \ dead
      /\ \A p \in Settings!Live' : object'[p] = object[p]
  BY <1>1, <1>2, <1>3, Destroyed
<1>5. ManagerFits'
  BY <1>2 DEF SettingsInv, ManagerFits, ManagerRests
<1>6. \A f \in Configured : fcMap[f] # None => fcMap[f] \in Settings!Live'
  BY <1>3, <1>4 DEF SettingsInv, PointersFit, Settings!Cached
<1>7. others' \subseteq Settings!Live'
  BY <1>2, <1>3, <1>4 DEF SettingsInv, PointersFit
<1>8. PointersFit'
  BY <1>2, <1>4, <1>6, <1>7 DEF SettingsInv, PointersFit
<1>9. \A e \in Dialogs \ {d} : properties[e] # None => properties[e].object \in Settings!Live'
  BY <1>3, <1>4 DEF SettingsInv, PagesFit
<1>10. properties' = [e \in Dialogs |-> properties'[e]] /\ properties'[d] = None
       /\ \A e \in Dialogs \ {d} : properties'[e] = properties[e]
  BY <1>1 DEF SettingsInv, PagesFit
<1>11. PagesFit'
  BY <1>2, <1>9, <1>10 DEF SettingsInv, PagesFit, ManagerRests
<1>12. QED
  BY <1>4, <1>5, <1>8, <1>11 DEF SettingsInv

LEMMA CacheCleared ==
  ASSUME SettingsInv, Settings!ClearCache
  PROVE  SettingsInv'
<1> DEFINE dead == {o \in Settings!Live : Settings!Cached(o) /\ ~Settings!Pointed(o)}
<1>1. fcMap' = [f \in Configured |-> None] /\ Settings!Destroy(dead)
  BY DEF Settings!ClearCache
<1>2. ManagerRests /\ wanted' = wanted /\ asked' = asked /\ properties' = properties /\ others' = others
  BY DEF Settings!ClearCache, Settings!Manager, ManagerRests
<1>3. dead \subseteq Settings!Live /\ \A o \in dead : ~Settings!Pointed(o)
  OBVIOUS
<1> HIDE DEF dead
<1>4. /\ HeldOnce' /\ StoredFit' /\ Settings!Live' = Settings!Live \ dead
      /\ \A p \in Settings!Live' : object'[p] = object[p]
  BY <1>1, <1>2, <1>3, Destroyed
<1>5. ManagerFits'
  BY <1>2 DEF SettingsInv, ManagerFits, ManagerRests
<1>6. others' \subseteq Settings!Live'
  BY <1>2, <1>3, <1>4 DEF SettingsInv, PointersFit, Settings!Pointed
<1>7. PointersFit'
  BY <1>1, <1>6 DEF PointersFit
<1>8. \A e \in Dialogs : properties[e] # None => properties[e].object \in Settings!Live'
  BY <1>3, <1>4 DEF SettingsInv, PagesFit, Settings!Pointed
<1>9. PagesFit'
  BY <1>2, <1>8 DEF SettingsInv, PagesFit, ManagerRests
<1>10. QED
  BY <1>4, <1>5, <1>7, <1>9 DEF SettingsInv

(* A setter changes one object; the history and perhaps the entry follow.  *)
ObjectSet(o, v) == object' = [object EXCEPT ![o].value = v]

LEMMA ObjectIsSet ==
  ASSUME SettingsInv, NEW o \in Settings!Live, NEW v \in Values, ObjectSet(o, v)
  PROVE  /\ object' \in [Objects -> Held \cup {None}] /\ Settings!Live' = Settings!Live
         /\ \A p \in Settings!Live : object'[p].folder = object[p].folder /\ object'[p].write = object[p].write
         /\ \A p \in Settings!Live \ {o} : object'[p] = object[p]
         /\ object'[o].value = v
<1>1. /\ \A p \in Settings!Live : p \in Objects /\ object[p] \in Held
      /\ None \notin Held
  BY LiveAreHeld DEF SettingsInv
<1> DEFINE h == [object[o] EXCEPT !.value = v]
<1>2. h \in Held /\ h.folder = object[o].folder /\ h.write = object[o].write /\ h.value = v
  BY <1>1 DEF Held
<1>3. object' = [object EXCEPT ![o] = h] /\ object \in [Objects -> Held \cup {None}]
  BY DEF ObjectSet, SettingsInv, HeldOnce
<1> HIDE DEF h
<1>4. /\ object' \in [Objects -> Held \cup {None}] /\ object'[o] = h
      /\ \A p \in Objects \ {o} : object'[p] = object[p]
  BY <1>1, <1>2, <1>3
<1>5. Settings!Live' = Settings!Live
  BY <1>1, <1>2, <1>4 DEF Settings!Live
<1>6. QED
  BY <1>1, <1>2, <1>4, <1>5

LEMMA SettingIsKept ==
  ASSUME SettingsInv, NEW o \in Settings!Live, NEW v \in Values, ObjectSet(o, v), v.identity \in identities,
         NEW f, f = object[o].folder, NEW w \in Values, wanted' = [wanted EXCEPT ![f] = w],
         NEW e \in Entries, config' = [config EXCEPT ![f] = e],
         NEW un, unwritten' = [unwritten EXCEPT ![f] = un],
         Sure(f) => Fits(w, v, identities, defaults, un) /\ LeftOut(w, e, identities, un),
         ManagerRests, fcMap' = fcMap, others' = others, asked' = asked, unsure' = unsure,
         PagesFit'
  PROVE  SettingsInv'
<1>1. /\ object' \in [Objects -> Held \cup {None}] /\ Settings!Live' = Settings!Live
      /\ \A p \in Settings!Live : object'[p].folder = object[p].folder /\ object'[p].write = object[p].write
      /\ \A p \in Settings!Live \ {o} : object'[p] = object[p]
      /\ object'[o].value = v
  BY ObjectIsSet
<1>2. f \in Configured
  BY LiveAreHeld DEF SettingsInv
<1>3. HeldOnce'
  <2>1. \A p \in Settings!Live' : object'[p].value.identity \in identities'
    BY <1>1 DEF SettingsInv, HeldOnce, ManagerRests
  <2>2. \A p \in Settings!Live' : object'[p].write <=> p \in asked'
    BY <1>1 DEF SettingsInv, HeldOnce
  <2>3. \A p, q \in Settings!Live' : object'[p].folder = object'[q].folder /\ object'[p].folder \notin unsure' => p = q
    BY <1>1 DEF SettingsInv, HeldOnce
  <2>4. QED
    BY <1>1, <2>1, <2>2, <2>3 DEF HeldOnce
<1>4. ManagerFits' /\ PointersFit'
  BY <1>1 DEF SettingsInv, ManagerFits, ManagerRests, PointersFit
<1>5. /\ config' \in [Configured -> Entries] /\ wanted' \in [Configured -> Values]
      /\ config'[f] = e /\ wanted'[f] = w /\ unwritten'[f] = un
      /\ \A g \in Configured \ {f} : /\ config'[g] = config[g] /\ wanted'[g] = wanted[g]
                                      /\ unwritten'[g] = unwritten[g]
      /\ unwritten' = [g \in Configured |-> unwritten'[g]]
  BY <1>2 DEF SettingsInv, StoredFit
<1>6. ASSUME NEW g \in Configured, Sure(g)'
      PROVE  Agrees(g)'
  <2>1. UNCHANGED <<identities, default, defaults, account>>
    BY DEF ManagerRests
  <2>2. Sure(g) /\ Agrees(g)
    BY <1>6, <2>1 DEF Sure, SettingsInv, StoredFit
  <2>3. CASE g = f
    <3>1. Fits(w, v, identities, defaults, un) /\ LeftOut(w, e, identities, un)
      BY <2>2, <2>3
    <3>2. ASSUME NEW p \in Settings!Live', object'[p].folder = f
          PROVE  p = o
      BY <1>1, <2>2, <2>3, <3>2 DEF SettingsInv, HeldOnce, Sure
    <3>3. object'[o].folder = f /\ o \in Settings!Live'
      BY <1>1
    <3>4. QED
      BY <1>1, <1>5, <2>1, <2>3, <3>1, <3>2, <3>3 DEF Agrees
  <2>4. CASE g # f
    <3>1. \A p \in Settings!Live' : object'[p].folder = g => object'[p] = object[p]
      BY <1>1, <2>4
    <3>2. QED
      BY <1>1, <1>5, <2>1, <2>2, <2>4, <3>1 DEF Agrees
  <2>5. QED
    BY <2>3, <2>4
<1>7. StoredFit'
  BY <1>5, <1>6 DEF StoredFit
<1>8. QED
  BY <1>3, <1>4, <1>7 DEF SettingsInv

(* What is known before a setter is called.                                *)
LEMMA WhatIsHeld ==
  ASSUME SettingsInv, NEW o \in Settings!Live, NEW f, f = object[o].folder
  PROVE  /\ object[o].value \in Values /\ object[o].value.identity \in identities /\ f \in Configured
         /\ wanted[f] \in Values /\ config[f] \in Entries /\ config[f].format \in MessageFormats
         /\ wanted[f].useDefault \in BOOLEAN
         /\ Sure(f) => Fits(wanted[f], object[o].value, identities, defaults, unwritten[f])
                       /\ LeftOut(wanted[f], config[f], identities, unwritten[f])
<1>1. object[o].value \in Values /\ object[o].value.identity \in identities /\ f \in Configured
  BY LiveAreHeld DEF SettingsInv, HeldOnce
<1>2. wanted[f] \in Values /\ config[f] \in Entries
  BY <1>1 DEF SettingsInv, StoredFit
<1>3. config[f].format \in MessageFormats /\ wanted[f].useDefault \in BOOLEAN
  BY <1>2, ValuesAreRecords
<1>4. Sure(f) => Agrees(f)
  BY <1>1 DEF SettingsInv, StoredFit
<1>5. QED
  BY <1>1, <1>2, <1>3, <1>4 DEF Agrees

LEMMA EntryWritten ==
  ASSUME SettingsInv, NEW f \in Configured, NEW v \in Values, v.identity \in identities,
         NEW w, w.useDefault \in BOOLEAN, NEW un, Settings!Unsaid(f, v) \subseteq un,
         Sure(f) => Fits(w, v, identities, defaults, un)
  PROVE  /\ Settings!WriteConfig(f, v) \in Entries
         /\ Sure(f) => LeftOut(w, Settings!WriteConfig(f, v), identities, un)
<1> DEFINE e == Writing(v, Own(f), config[f].format)
<1>1. config[f] \in Entries /\ config[f].format \in MessageFormats
  BY ValuesAreRecords DEF SettingsInv, StoredFit
<1>2. identities \subseteq Ids /\ default \in identities /\ default \in defaults
  BY DEF SettingsInv, ManagerFits
<1>3. e \in Entries
  BY <1>1, WhatIsWritten
<1>A. ~v.useDefault /\ v.identity = Own(f) => Own(f) \in un
  BY SettingsOperators
<1>4. Sure(f) => LeftOut(w, e, identities, un)
  BY <1>1, <1>2, <1>A, WrittenFits
<1>5. account[f].resource => Settings!WriteConfig(f, v) = e
  BY SettingsOperators
<1> HIDE DEF e
<1>6. QED
  BY <1>1, <1>3, <1>4, <1>5, SettingsOperators DEF Sure

LEMMA FormatIsSet ==
  ASSUME SettingsInv, NEW o \in Objects, NEW format \in MessageFormats, Settings!SetFormatMessage(o, format)
  PROVE  SettingsInv'
<1> DEFINE f == object[o].folder
           v == [object[o].value EXCEPT !.format = format]
           w == [wanted[f] EXCEPT !.format = format]
           e == config[f]
<1>1. o \in Settings!Live
  BY DEF Settings!SetFormatMessage, SettingsInv, PointersFit
<1>2. /\ object[o].value \in Values /\ object[o].value.identity \in identities /\ f \in Configured
      /\ wanted[f] \in Values /\ e \in Entries
      /\ Sure(f) => Fits(wanted[f], object[o].value, identities, defaults, unwritten[f])
                    /\ LeftOut(wanted[f], e, identities, unwritten[f])
  BY <1>1, WhatIsHeld
<1>3. ObjectSet(o, v) /\ wanted' = [wanted EXCEPT ![f] = w]
  BY DEF Settings!SetFormatMessage, ObjectSet
<1>4. /\ ManagerRests /\ config' = config /\ fcMap' = fcMap /\ properties' = properties /\ others' = others
      /\ asked' = asked /\ unsure' = unsure /\ unwritten' = unwritten
  BY DEF Settings!SetFormatMessage, Settings!Manager, ManagerRests
<1> HIDE DEF f
<1>5. /\ v \in Values /\ v.identity = object[o].value.identity /\ v.useDefault = object[o].value.useDefault
      /\ Alike(v, object[o].value) /\ v.format = format
  BY <1>2, FormatSet
<1>6. /\ w \in Values /\ w.identity = wanted[f].identity /\ w.useDefault = wanted[f].useDefault
      /\ Alike(w, wanted[f]) /\ w.format = format
  BY <1>2, FormatSet
<1> HIDE DEF v, w, e
<1>7. ASSUME Sure(f)
      PROVE  Fits(w, v, identities, defaults, unwritten[f]) /\ LeftOut(w, e, identities, unwritten[f])
  <2>1. /\ Fits(wanted[f], object[o].value, identities, defaults, unwritten[f])
        /\ LeftOut(wanted[f], e, identities, unwritten[f])
    BY <1>2, <1>7
  <2>2. Alike(v, w)
    BY <1>5, <1>6, <2>1 DEF Fits, Alike
  <2>4. Fits(w, v, identities, defaults, unwritten[f])
    BY <1>5, <1>6, <2>1, <2>2 DEF Fits
  <2>5. LeftOut(w, e, identities, unwritten[f])
    BY <1>6, <2>1 DEF LeftOut
  <2>6. QED
    BY <2>4, <2>5
<1>8. config' = [config EXCEPT ![f] = e] /\ unwritten' = [unwritten EXCEPT ![f] = unwritten[f]]
  BY <1>2, <1>4 DEF SettingsInv, StoredFit, e
<1>9. Settings!Live' = Settings!Live
  BY <1>1, <1>3, <1>5, ObjectIsSet
<1>10. PagesFit'
  BY <1>4, <1>9 DEF SettingsInv, PagesFit, ManagerRests
<1>11. v.identity \in identities /\ e \in Entries
  BY <1>2, <1>5
<1>12. f = object[o].folder
  BY DEF f
<1>13. ManagerRests /\ fcMap' = fcMap /\ others' = others /\ asked' = asked /\ unsure' = unsure
  BY <1>4
<1>14. v \in Values /\ w \in Values
  BY <1>5, <1>6
<1>15. QED
  BY <1>1, <1>3, <1>7, <1>8, <1>10, <1>11, <1>12, <1>13, <1>14, SettingIsKept

LEMMA ListIsSet ==
  ASSUME SettingsInv, NEW o \in Objects, NEW enabled1 \in BOOLEAN, Settings!SetMailingListEnabled(o, enabled1)
  PROVE  SettingsInv'
<1> DEFINE f == object[o].folder
           v == [object[o].value EXCEPT !.list = enabled1]
           w == [wanted[f] EXCEPT !.list = enabled1]
           e == Settings!WriteConfig(f, v)
           un == unwritten[f] \cup Settings!Unsaid(f, v)
<1>1. o \in Settings!Live
  BY DEF Settings!SetMailingListEnabled, SettingsInv, PointersFit
<1>2. /\ object[o].value \in Values /\ object[o].value.identity \in identities /\ f \in Configured
      /\ wanted[f] \in Values /\ wanted[f].useDefault \in BOOLEAN
      /\ Sure(f) => Fits(wanted[f], object[o].value, identities, defaults, unwritten[f])
  BY <1>1, WhatIsHeld
<1>3. /\ ObjectSet(o, v) /\ wanted' = [wanted EXCEPT ![f] = w] /\ config' = [config EXCEPT ![f] = e]
      /\ unwritten' = [unwritten EXCEPT ![f] = un]
  BY DEF Settings!SetMailingListEnabled, ObjectSet
<1>4. /\ ManagerRests /\ fcMap' = fcMap /\ properties' = properties /\ others' = others
      /\ asked' = asked /\ unsure' = unsure
  BY DEF Settings!SetMailingListEnabled, Settings!Manager, ManagerRests
<1> HIDE DEF f
<1>5. /\ v \in Values /\ v.identity = object[o].value.identity /\ v.useDefault = object[o].value.useDefault
      /\ v.format = object[o].value.format /\ v.keep = object[o].value.keep /\ v.hide = object[o].value.hide
      /\ v.list = enabled1
  BY <1>2, ListSet
<1>6. /\ w \in Values /\ w.identity = wanted[f].identity /\ w.useDefault = wanted[f].useDefault
      /\ w.format = wanted[f].format /\ w.keep = wanted[f].keep /\ w.hide = wanted[f].hide
      /\ w.list = enabled1
  BY <1>2, ListSet
<1> HIDE DEF v, w
<1>7. ASSUME Sure(f)
      PROVE  Fits(w, v, identities, defaults, un)
  <2>1. Fits(wanted[f], object[o].value, identities, defaults, unwritten[f])
    BY <1>2, <1>7
  <2>2. Alike(v, w)
    BY <1>5, <1>6, <2>1 DEF Fits, Alike
  <2>3. Fits(w, v, identities, defaults, unwritten[f])
    BY <1>5, <1>6, <2>1, <2>2 DEF Fits
  <2>4. QED
    BY <2>3, MoreLeftOut
<1>8. v.identity \in identities /\ w.useDefault \in BOOLEAN
  BY <1>2, <1>5, <1>6
<1>9. e \in Entries /\ (Sure(f) => LeftOut(w, e, identities, un))
  BY <1>2, <1>5, <1>7, <1>8, EntryWritten
<1> HIDE DEF e, un
<1>10. Settings!Live' = Settings!Live
  BY <1>1, <1>3, <1>5, ObjectIsSet
<1>11. PagesFit'
  BY <1>4, <1>10 DEF SettingsInv, PagesFit, ManagerRests
<1>12. f = object[o].folder
  BY DEF f
<1>13. QED
  BY <1>1, <1>3, <1>4, <1>5, <1>6, <1>7, <1>8, <1>9, <1>11, <1>12, SettingIsKept

(* The pages' save() sets everything but the mailing list, and stores it.  *)
LEMMA PagesSaved ==
  ASSUME SettingsInv, NEW d \in Dialogs, Settings!SaveDialog(d)
  PROVE  SettingsInv'
<1> DEFINE o == properties[d].object
           f == object[o].folder
           form == properties[d].form
           v == Settings!Saved(form, object[o].value)
           w == wanted'[f]
           e == Settings!WriteConfig(f, v)
           un == Settings!Unsaid(f, v)
<1>1. properties[d] # None /\ properties[d] \in Pages /\ o \in Settings!Live /\ form.identity \in identities
  BY DEF Settings!SaveDialog, SettingsInv, PagesFit
<1>2. /\ object[o].value \in Values /\ object[o].value.identity \in identities /\ f \in Configured
      /\ wanted[f] \in Values
      /\ Sure(f) => Fits(wanted[f], object[o].value, identities, defaults, unwritten[f])
  BY <1>1, WhatIsHeld
<1>3. ObjectSet(o, v) /\ config' = [config EXCEPT ![f] = e] /\ unwritten' = [unwritten EXCEPT ![f] = un]
  BY DEF Settings!SaveDialog, ObjectSet
<1>4. /\ ManagerRests /\ fcMap' = fcMap /\ others' = others /\ asked' = asked /\ unsure' = unsure
  BY DEF Settings!SaveDialog, Settings!Manager, ManagerRests
<1>5. properties' = [properties EXCEPT ![d].saved = TRUE]
  BY DEF Settings!SaveDialog
<1>6. form \in PageForms /\ form.useDefault \in BOOLEAN /\ form.keep \in BOOLEAN /\ form.hide \in BOOLEAN
      /\ form.format \in MessageFormats /\ form.identity \in Ids
  BY <1>1 DEF Pages, PageForms
<1>7. wanted' = [wanted EXCEPT ![f].useDefault = form.useDefault, ![f].identity = form.identity,
                               ![f].keep = form.keep, ![f].hide = form.hide,
                               ![f].format = IF form.format = "Unknown" THEN @ ELSE form.format]
  BY DEF Settings!SaveDialog
<1>8. wanted \in [Configured -> Values] /\ DOMAIN wanted[f] = Fields
  BY <1>2, ValuesAreRecords DEF SettingsInv, StoredFit
<1> HIDE DEF form
<1>9. w \in Values /\ wanted' = [wanted EXCEPT ![f] = w]
      /\ w.useDefault = form.useDefault /\ w.identity = form.identity /\ w.keep = form.keep /\ w.hide = form.hide
      /\ w.list = wanted[f].list
      /\ w.format = IF form.format = "Unknown" THEN wanted[f].format ELSE form.format
  <2> HIDE DEF f
  <2>1. wanted' = [wanted EXCEPT ![f] = w]
    BY <1>7, <1>8
  <2>2. w = [x \in Fields |-> w[x]]
    BY <1>2, <1>7, <1>8 DEF Fields
  <2>3. w.useDefault = form.useDefault
    BY <1>2, <1>7, <1>8 DEF Fields
  <2>4. w.identity = form.identity
    BY <1>2, <1>7, <1>8 DEF Fields
  <2>5. w.keep = form.keep
    BY <1>2, <1>7, <1>8 DEF Fields
  <2>6. w.hide = form.hide
    BY <1>2, <1>7, <1>8 DEF Fields
  <2>7. w.list = wanted[f].list
    BY <1>2, <1>7, <1>8 DEF Fields
  <2>8. w.format = IF form.format = "Unknown" THEN wanted[f].format ELSE form.format
    BY <1>2, <1>7, <1>8 DEF Fields
  <2>9. wanted[f].list \in BOOLEAN /\ wanted[f].format \in MessageFormats
    BY <1>2, ValuesAreRecords
  <2> HIDE DEF w
  <2>10. w \in Entries
    BY <1>6, <2>2, <2>3, <2>4, <2>5, <2>6, <2>7, <2>8, <2>9, ValuesAreRecords
  <2>11. w \in Values
    BY <1>6, <2>4, <2>10, ValuesAreRecords
  <2>12. QED
    BY <2>1, <2>3, <2>4, <2>5, <2>6, <2>7, <2>8, <2>11
<1>10. identities \subseteq Ids /\ default \in identities /\ default \in Ids
  BY DEF SettingsInv, ManagerFits
<1>11. /\ v \in Values /\ v.useDefault = form.useDefault
       /\ v.identity = IF form.useDefault /\ ~object[o].value.useDefault THEN default ELSE form.identity
       /\ v.keep = form.keep /\ v.hide = form.hide /\ v.list = object[o].value.list
       /\ v.format = IF form.format = "Unknown" THEN object[o].value.format ELSE form.format
  BY <1>2, <1>6, <1>10, AllIsSaved
<1> HIDE DEF v, w
<1>12. v.identity \in identities /\ w.useDefault \in BOOLEAN
  BY <1>1, <1>6, <1>9, <1>10, <1>11 DEF form
<1>13. ASSUME Sure(f)
       PROVE  Fits(w, v, identities, defaults, un)
  <2>1. Fits(wanted[f], object[o].value, identities, defaults, unwritten[f])
    BY <1>2, <1>13
  <2>2. Alike(v, w) /\ (w.format = "Unknown" \/ v.format = w.format)
    BY <1>9, <1>11, <2>1 DEF Fits, Alike
  <2>3. (w.useDefault => v.useDefault) /\ (~w.useDefault => ~v.useDefault /\ v.identity = w.identity)
    BY <1>9, <1>11
  <2>4. QED
    BY <2>2, <2>3 DEF Fits
<1>14. e \in Entries /\ (Sure(f) => LeftOut(w, e, identities, un))
  BY <1>2, <1>11, <1>12, <1>13, EntryWritten
<1> HIDE DEF e, un
<1>15. Settings!Live' = Settings!Live
  BY <1>1, <1>3, <1>11, ObjectIsSet
<1>16. PagesFit'
  <2> DEFINE p == [properties[d] EXCEPT !.saved = TRUE]
  <2>1. p \in Pages /\ p.object = o /\ p.form = form
    BY <1>1 DEF Pages, form
  <2>2. properties' = [properties EXCEPT ![d] = p]
    BY <1>5
  <2> HIDE DEF p
  <2>3. /\ properties' = [x \in Dialogs |-> properties'[x]] /\ properties'[d] = p
        /\ \A x \in Dialogs \ {d} : properties'[x] = properties[x]
    BY <2>2 DEF SettingsInv, PagesFit
  <2>4. \A x \in Dialogs : properties'[x] # None =>
          properties'[x] \in Pages /\ properties'[x].object \in Settings!Live /\ properties'[x].form.identity \in identities
    BY <1>1, <2>1, <2>3 DEF SettingsInv, PagesFit, form
  <2>5. QED
    BY <1>4, <1>15, <2>3, <2>4 DEF PagesFit, ManagerRests
<1>17. f = object[o].folder /\ o \in Settings!Live /\ w \in Values /\ v \in Values
       /\ wanted' = [wanted EXCEPT ![f] = w]
  BY <1>1, <1>9, <1>11
<1> HIDE DEF f, o
<1>18. QED
  BY <1>3, <1>4, <1>12, <1>13, <1>14, <1>16, <1>17, SettingIsKept

(* The format of all cached folders: of the objects, not of the entries.   *)
LEMMA FormatsReset ==
  ASSUME SettingsInv, Settings!ResetHtmlFormat
  PROVE  SettingsInv'
<1>1. /\ \A p \in Settings!Live : p \in Objects /\ object[p] \in Held /\ object[p].folder \in Configured
                                  /\ object[p].write \in BOOLEAN /\ object[p].value \in Values
      /\ None \notin Held
  BY LiveAreHeld DEF SettingsInv
<1>2. /\ object' = [o \in Objects |-> IF Settings!Cached(o) THEN [object[o] EXCEPT !.value.format = "Global"]
                                                            ELSE object[o]]
      /\ wanted' = [f \in Configured |-> IF fcMap[f] # None THEN [wanted[f] EXCEPT !.format = "Global"]
                                                            ELSE wanted[f]]
  BY DEF Settings!ResetHtmlFormat
<1>3. /\ ManagerRests /\ config' = config /\ fcMap' = fcMap /\ properties' = properties /\ others' = others
      /\ asked' = asked /\ unsure' = unsure /\ unwritten' = unwritten
  BY DEF Settings!ResetHtmlFormat, Settings!Manager, ManagerRests
<1>4. ASSUME NEW o \in Objects, Settings!Cached(o)
      PROVE  /\ o \in Settings!Live /\ object'[o] \in Held /\ object'[o].folder = object[o].folder
             /\ object'[o].write = object[o].write
             /\ object'[o].value = [object[o].value EXCEPT !.format = "Global"]
  <2>1. o \in Settings!Live
    BY <1>4, SettingsAssumption DEF SettingsInv, PointersFit, Settings!Cached
  <2> DEFINE v == [object[o].value EXCEPT !.format = "Global"]
  <2>2. object[o] \in Held /\ object[o].value \in Values
    BY <1>1, <2>1
  <2>3. v \in Values
    BY <2>2, FormatSet, SettingsAssumption
  <2>4. object'[o] = [object[o] EXCEPT !.value = v]
    BY <1>2, <1>4
  <2> HIDE DEF v
  <2>5. object'[o] \in Held /\ object'[o].folder = object[o].folder /\ object'[o].write = object[o].write
        /\ object'[o].value = v
    BY <2>2, <2>3, <2>4 DEF Held
  <2>6. QED
    BY <2>1, <2>5 DEF v
<1>5. \A o \in Objects : ~Settings!Cached(o) => object'[o] = object[o]
  BY <1>2
<1>6. object' \in [Objects -> Held \cup {None}] /\ Settings!Live' = Settings!Live
  <2>1. object' = [o \in Objects |-> object'[o]] /\ \A o \in Objects : object[o] \in Held \cup {None}
    BY <1>2 DEF SettingsInv, HeldOnce
  <2>2. \A o \in Objects : object'[o] \in Held \cup {None}
    BY <1>4, <1>5, <2>1
  <2>3. \A o \in Objects : object'[o] # None <=> object[o] # None
    BY <1>1, <1>4, <1>5 DEF Settings!Live
  <2>4. QED
    BY <2>1, <2>2, <2>3 DEF Settings!Live
<1>7. ASSUME NEW o \in Settings!Live
      PROVE  /\ object'[o].folder = object[o].folder /\ object'[o].write = object[o].write
             /\ object'[o].value.identity = object[o].value.identity
             /\ object'[o].value.useDefault = object[o].value.useDefault
             /\ Alike(object'[o].value, object[o].value)
             /\ object'[o].value.format = IF Settings!Cached(o) THEN "Global" ELSE object[o].value.format
  <2>1. CASE Settings!Cached(o)
    <3>1. object[o].value \in Values /\ "Global" \in MessageFormats
      BY <1>1, SettingsAssumption
    <3>2. /\ object'[o].folder = object[o].folder /\ object'[o].write = object[o].write
          /\ object'[o].value = [object[o].value EXCEPT !.format = "Global"]
      BY <1>1, <1>4, <2>1
    <3> DEFINE u == object'[o].value
               v == object[o].value
    <3> HIDE DEF u, v
    <3>3. v \in Values /\ u = [v EXCEPT !.format = "Global"]
      BY <3>1, <3>2 DEF u, v
    <3>4. u.identity = v.identity /\ u.useDefault = v.useDefault /\ Alike(u, v) /\ u.format = "Global"
      BY <3>1, <3>3, FormatSet
    <3>5. QED
      BY <2>1, <3>2, <3>4 DEF u, v
  <2>2. CASE ~Settings!Cached(o)
    BY <1>1, <1>5, <2>2 DEF Alike
  <2>3. QED
    BY <2>1, <2>2
<1>8. HeldOnce'
  <2>1. \A p \in Settings!Live' : object'[p].value.identity \in identities'
    BY <1>3, <1>6, <1>7 DEF SettingsInv, HeldOnce, ManagerRests
  <2>2. \A p \in Settings!Live' : object'[p].write <=> p \in asked'
    BY <1>3, <1>6, <1>7 DEF SettingsInv, HeldOnce
  <2>3. \A p, q \in Settings!Live' : object'[p].folder = object'[q].folder /\ object'[p].folder \notin unsure' => p = q
    BY <1>3, <1>6, <1>7 DEF SettingsInv, HeldOnce
  <2>4. QED
    BY <1>6, <2>1, <2>2, <2>3 DEF HeldOnce
<1>9. ManagerFits' /\ PagesFit'
  BY <1>3, <1>6 DEF SettingsInv, ManagerFits, ManagerRests, PagesFit
<1>10. PointersFit'
  BY <1>3, <1>6, <1>7 DEF SettingsInv, PointersFit
<1>11. ASSUME NEW f \in Configured
       PROVE  /\ wanted'[f] \in Values /\ wanted'[f].identity = wanted[f].identity
              /\ wanted'[f].useDefault = wanted[f].useDefault /\ Alike(wanted'[f], wanted[f])
              /\ wanted'[f].format = IF fcMap[f] # None THEN "Global" ELSE wanted[f].format
  <2>1. wanted[f] \in Values
    BY DEF SettingsInv, StoredFit
  <2>2. CASE fcMap[f] # None
    <3>1. wanted'[f] = [wanted[f] EXCEPT !.format = "Global"]
      BY <1>2, <2>2
    <3>2. QED
      BY <2>1, <2>2, <3>1, FormatSet, SettingsAssumption
  <2>3. CASE fcMap[f] = None
    BY <1>2, <2>1, <2>3 DEF Alike
  <2>4. QED
    BY <2>2, <2>3
<1>12. ASSUME NEW f \in Configured, Sure(f)'
       PROVE  Agrees(f)'
  <2>1. UNCHANGED <<config, identities, default, defaults, account, unwritten>>
    BY <1>3 DEF ManagerRests
  <2>2. Sure(f) /\ Agrees(f)
    BY <1>3, <1>12, <2>1 DEF Sure, SettingsInv, StoredFit
  <2> DEFINE w == wanted'[f]
  <2>3. /\ w.identity = wanted[f].identity /\ w.useDefault = wanted[f].useDefault /\ Alike(w, wanted[f])
        /\ w.format = IF fcMap[f] # None THEN "Global" ELSE wanted[f].format
    BY <1>11
  <2> HIDE DEF w
  <2>5. ASSUME NEW o \in Settings!Live, object[o].folder = f
        PROVE  Fits(w, object'[o].value, identities, defaults, unwritten[f])
    <3>1. Settings!Cached(o) <=> fcMap[f] # None
      <4>1. fcMap[f] # None => fcMap[f] = o
        BY <2>2, <2>5 DEF SettingsInv, PointersFit, HeldOnce, Sure
      <4>2. \A g \in Configured : fcMap[g] = o => g = f
        BY <1>1, <2>5, SettingsAssumption DEF SettingsInv, PointersFit
      <4>3. o # None
        BY <1>1, SettingsAssumption
      <4>4. QED
        BY <4>1, <4>2, <4>3 DEF Settings!Cached
    <3>2. Fits(wanted[f], object[o].value, identities, defaults, unwritten[f])
      BY <2>2, <2>5 DEF Agrees
    <3> DEFINE v == object'[o].value
    <3>3. /\ v.identity = object[o].value.identity /\ v.useDefault = object[o].value.useDefault
          /\ Alike(v, object[o].value)
          /\ v.format = IF fcMap[f] # None THEN "Global" ELSE object[o].value.format
      BY <1>7, <3>1
    <3> HIDE DEF v
    <3>4. Alike(v, w)
      BY <2>3, <3>2, <3>3 DEF Fits, Alike
    <3>5. w.format = "Unknown" \/ v.format = w.format
      BY <2>3, <3>2, <3>3 DEF Fits
    <3>6. Fits(w, v, identities, defaults, unwritten[f])
      BY <2>3, <3>2, <3>3, <3>4, <3>5 DEF Fits
    <3>7. QED
      BY <3>6 DEF v
  <2>6. ASSUME \A o \in Settings!Live : object[o].folder # f
        PROVE  Fits(w, Reading(config[f], identities, default), identities, defaults, unwritten[f])
    <3>1. fcMap[f] = None
      BY <2>6 DEF SettingsInv, PointersFit
    <3>2. w = wanted[f]
      BY <1>2, <3>1 DEF w
    <3>3. QED
      BY <2>2, <2>6, <3>2 DEF Agrees
  <2>7. LeftOut(w, config[f], identities, unwritten[f])
    BY <2>2, <2>3 DEF Agrees, LeftOut
  <2>8. QED
    BY <1>6, <1>7, <2>1, <2>5, <2>6, <2>7 DEF Agrees, w
<1>13. StoredFit'
  <2>1. wanted' = [f \in Configured |-> wanted'[f]]
    BY <1>2
  <2>2. wanted' \in [Configured -> Values]
    BY <1>11, <2>1
  <2>3. QED
    BY <1>3, <1>12, <2>2 DEF SettingsInv, StoredFit
<1>14. QED
  BY <1>8, <1>9, <1>10, <1>13 DEF SettingsInv

(* Identities go, another one is the default.                              *)
LEMMA IdentitiesGone ==
  ASSUME SettingsInv, NEW ids, ids \subseteq identities, NEW dflt \in ids, Settings!IdentitiesChanged(ids, dflt)
  PROVE  SettingsInv'
<1>1. /\ \A p \in Settings!Live : p \in Objects /\ object[p] \in Held /\ object[p].folder \in Configured
                                  /\ object[p].write \in BOOLEAN /\ object[p].value \in Values
      /\ None \notin Held
  BY LiveAreHeld DEF SettingsInv
<1>2. /\ identities' = ids /\ default' = dflt /\ defaults' = defaults \cup {dflt}
      /\ account' = account /\ config' = config /\ fcMap' = fcMap /\ others' = others /\ wanted' = wanted
      /\ asked' = asked /\ unsure' = unsure /\ unwritten' = unwritten
  BY DEF Settings!IdentitiesChanged
<1>3. identities \subseteq Ids /\ ids \subseteq Ids /\ default \in identities /\ default \in defaults
  BY DEF SettingsInv, ManagerFits
<1>4. object' = [o \in Objects |->
           IF object[o] = None THEN None
           ELSE [object[o] EXCEPT !.value = Followed(object[o].value, ids, dflt)]]
  BY DEF Settings!IdentitiesChanged, Followed
<1>5. ASSUME NEW o \in Settings!Live
      PROVE  /\ object'[o] \in Held /\ object'[o].folder = object[o].folder /\ object'[o].write = object[o].write
             /\ object'[o].value = Followed(object[o].value, ids, dflt)
             /\ object'[o].value.identity \in ids
  <2> DEFINE v == Followed(object[o].value, ids, dflt)
  <2>1. object[o] \in Held /\ object[o].value \in Entries /\ object[o] # None /\ o \in Objects
    BY <1>1, ValuesAreRecords
  <2>2. v \in Values /\ v.identity \in ids
    BY <1>3, <2>1, WhoIsFollowed
  <2>3. object'[o] = [object[o] EXCEPT !.value = v]
    BY <1>4, <2>1
  <2> HIDE DEF v
  <2>4. object'[o] \in Held /\ object'[o].folder = object[o].folder /\ object'[o].write = object[o].write
        /\ object'[o].value = v
    BY <2>1, <2>2, <2>3 DEF Held
  <2>5. QED
    BY <2>2, <2>4 DEF v
<1>6. \A o \in Objects : object[o] = None => object'[o] = None
  BY <1>4
<1>7. object' \in [Objects -> Held \cup {None}] /\ Settings!Live' = Settings!Live
  <2>1. object' = [o \in Objects |-> object'[o]] /\ \A o \in Objects : o \in Settings!Live <=> object[o] # None
    BY <1>4 DEF Settings!Live
  <2>2. \A o \in Objects : object'[o] \in Held \cup {None} /\ (object'[o] # None <=> object[o] # None)
    BY <1>1, <1>5, <1>6, <2>1
  <2>3. object' \in [Objects -> Held \cup {None}]
    BY <2>1, <2>2
  <2>4. QED
    BY <2>2, <2>3 DEF Settings!Live
<1>8. HeldOnce'
  <2>1. \A p \in Settings!Live' : object'[p].value.identity \in identities'
    BY <1>2, <1>5, <1>7
  <2>2. \A p \in Settings!Live' : object'[p].write <=> p \in asked'
    BY <1>2, <1>5, <1>7 DEF SettingsInv, HeldOnce
  <2>3. \A p, q \in Settings!Live' : object'[p].folder = object'[q].folder /\ object'[p].folder \notin unsure' => p = q
    BY <1>2, <1>5, <1>7 DEF SettingsInv, HeldOnce
  <2>4. QED
    BY <1>7, <2>1, <2>2, <2>3 DEF HeldOnce
<1>9. ManagerFits'
  BY <1>2, <1>3 DEF ManagerFits
<1>10. PointersFit'
  BY <1>2, <1>5, <1>7 DEF SettingsInv, PointersFit
<1>11. PagesFit'
  <2>1. properties' = [d \in Dialogs |->
           IF properties[d] = None \/ properties[d].form.identity \in ids THEN properties[d]
           ELSE [properties[d] EXCEPT !.form.identity = dflt]]
    BY DEF Settings!IdentitiesChanged
  <2>2. ASSUME NEW d \in Dialogs, properties'[d] # None
        PROVE  /\ properties'[d] \in Pages /\ properties'[d].object \in Settings!Live
               /\ properties'[d].form.identity \in ids
    <3>1. CASE properties[d] = None
      BY <2>1, <2>2, <3>1
    <3>2. CASE properties[d] # None /\ properties[d].form.identity \in ids
      BY <2>1, <3>2 DEF SettingsInv, PagesFit
    <3>3. CASE properties[d] # None /\ properties[d].form.identity \notin ids
      <4> DEFINE form == [properties[d].form EXCEPT !.identity = dflt]
      <4>1. properties[d] \in Pages /\ properties[d].object \in Settings!Live /\ dflt \in Ids
        BY <1>3, <3>3 DEF SettingsInv, PagesFit
      <4>2. form \in PageForms /\ form.identity = dflt
        BY <4>1 DEF Pages, PageForms
      <4>3. properties'[d] = [properties[d] EXCEPT !.form = form]
        BY <2>1, <3>3
      <4> HIDE DEF form
      <4>4. QED
        BY <4>1, <4>2, <4>3 DEF Pages
    <3>4. QED
      BY <3>1, <3>2, <3>3
  <2>3. QED
    BY <1>2, <1>7, <2>1, <2>2 DEF PagesFit
<1>12. ASSUME NEW f \in Configured, Sure(f)'
       PROVE  Agrees(f)'
  <2>1. Sure(f) /\ Agrees(f)
    BY <1>2, <1>12 DEF Sure, SettingsInv, StoredFit
  <2>2. ASSUME NEW o \in Settings!Live, object[o].folder = f
        PROVE  Fits(wanted[f], object'[o].value, ids, defaults \cup {dflt}, unwritten[f])
    <3>1. Fits(wanted[f], object[o].value, identities, defaults, unwritten[f])
      BY <2>1, <2>2 DEF Agrees
    <3>2. object[o].value \in Values /\ object[o].value.identity \in identities
      BY <1>1 DEF SettingsInv, HeldOnce
    <3>3. object'[o].value = Followed(object[o].value, ids, dflt)
      BY <1>5
    <3>4. QED
      BY <1>3, <3>1, <3>2, <3>3, FollowedFits
  <2>3. config[f] \in Entries /\ LeftOut(wanted[f], config[f], identities, unwritten[f])
    BY <2>1 DEF Agrees, SettingsInv, StoredFit
  <2>4. LeftOut(wanted[f], config[f], ids, unwritten[f])
    BY <2>3 DEF LeftOut
  <2>5. ASSUME \A o \in Settings!Live : object[o].folder # f
        PROVE  Fits(wanted[f], Reading(config[f], ids, dflt), ids, defaults \cup {dflt}, unwritten[f])
    <3>1. Fits(wanted[f], Reading(config[f], identities, default), identities, defaults, unwritten[f])
      BY <2>1, <2>5 DEF Agrees
    <3>2. QED
      BY <1>3, <2>3, <3>1, StoredFits
  <2>6. QED
    BY <1>2, <1>5, <1>7, <2>2, <2>4, <2>5 DEF Agrees
<1>13. StoredFit'
  BY <1>2, <1>12 DEF SettingsInv, StoredFit
<1>14. QED
  BY <1>8, <1>9, <1>10, <1>11, <1>13 DEF SettingsInv

(* The user changes a page; nobody else sees it.                           *)
LEMMA PageEdited ==
  ASSUME SettingsInv, NEW d \in Dialogs, NEW form, Settings!EditForm(d, form)
  PROVE  SettingsInv'
<1> DEFINE o == properties[d].object
           was == properties[d].form
<1>1. /\ properties[d] # None
      /\ \/ form = [was EXCEPT !.useDefault = FALSE]
         \/ form = Ticked(was, TRUE, Settings!FallBackIdentity(object[o].folder, object[o].value))
         \/ \E i \in identities : form = [was EXCEPT !.identity = i]
         \/ form = [was EXCEPT !.keep = ~@]
         \/ form = [was EXCEPT !.hide = ~@]
         \/ \E m \in MessageFormats \ {"Unknown"} : form = [was EXCEPT !.format = m]
      /\ properties' = [properties EXCEPT ![d].form = form]
  BY DEF Settings!EditForm, Ticked
<1>2. /\ ManagerRests /\ config' = config /\ fcMap' = fcMap /\ object' = object /\ others' = others
      /\ wanted' = wanted /\ asked' = asked /\ unsure' = unsure /\ unwritten' = unwritten
  BY DEF Settings!EditForm, Settings!Manager, ManagerRests
<1>3. /\ properties[d] \in Pages /\ o \in Settings!Live /\ was.identity \in identities /\ was \in PageForms
      /\ was.keep \in BOOLEAN /\ was.hide \in BOOLEAN
  <2>1. properties[d] \in Pages /\ o \in Settings!Live /\ was.identity \in identities
    BY <1>1 DEF SettingsInv, PagesFit
  <2>2. QED
    BY <2>1 DEF Pages, PageForms
<1>4. form \in PageForms /\ form.identity \in identities
  <2> HIDE DEF was, o
  <2>1. identities \subseteq Ids
    BY DEF SettingsInv, ManagerFits
  <2>2. CASE form = [was EXCEPT !.useDefault = FALSE]
    BY <1>3, <2>2 DEF PageForms
  <2>3. CASE form = Ticked(was, TRUE, Settings!FallBackIdentity(object[o].folder, object[o].value))
    <3> DEFINE i == Settings!FallBackIdentity(object[o].folder, object[o].value)
    <3>1. i \in identities
      BY <1>3, IdentityIsThere DEF SettingsInv, HeldOnce
    <3> HIDE DEF i
    <3>2. form = Ticked(was, TRUE, i)
      BY <2>3 DEF i
    <3>3. QED
      BY <1>3, <2>1, <3>1, <3>2 DEF PageForms, Ticked
  <2>4. CASE \E i \in identities : form = [was EXCEPT !.identity = i]
    BY <1>3, <2>1, <2>4 DEF PageForms
  <2>5. CASE form = [was EXCEPT !.keep = ~was.keep]
    BY <1>3, <2>5 DEF PageForms
  <2>6. CASE form = [was EXCEPT !.hide = ~was.hide]
    BY <1>3, <2>6 DEF PageForms
  <2>7. CASE \E m \in MessageFormats : form = [was EXCEPT !.format = m]
    BY <1>3, <2>7 DEF PageForms
  <2>8. QED
    BY <1>1, <2>2, <2>3, <2>4, <2>5, <2>6, <2>7
<1>5. PagesFit'
  <2> DEFINE p == [properties[d] EXCEPT !.form = form]
  <2>1. p \in Pages /\ p.object = o /\ p.form = form
    BY <1>3, <1>4 DEF Pages
  <2>2. properties' = [properties EXCEPT ![d] = p]
    BY <1>1
  <2> HIDE DEF p
  <2>3. /\ properties' = [x \in Dialogs |-> properties'[x]] /\ properties'[d] = p
        /\ \A x \in Dialogs \ {d} : properties'[x] = properties[x]
    BY <2>2 DEF SettingsInv, PagesFit
  <2>4. \A x \in Dialogs : properties'[x] # None =>
          properties'[x] \in Pages /\ properties'[x].object \in Settings!Live /\ properties'[x].form.identity \in identities
    BY <1>3, <1>4, <2>1, <2>3 DEF SettingsInv, PagesFit
  <2>5. Settings!Live' = Settings!Live
    BY <1>2 DEF Settings!Live
  <2>6. QED
    BY <1>2, <2>3, <2>4, <2>5 DEF PagesFit, ManagerRests
<1>6. UNCHANGED <<identities, default, defaults, account, config, fcMap, object, others, wanted, asked, unsure,
               unwritten>>
  BY <1>2 DEF ManagerRests
<1>7. ManagerFits' /\ HeldOnce' /\ PointersFit' /\ StoredFit'
  BY <1>6 DEF SettingsInv, ManagerFits, HeldOnce, PointersFit, StoredFit, Sure, Agrees, Settings!Live
<1>8. QED
  BY <1>5, <1>7 DEF SettingsInv

LEMMA SettingsStep == SettingsInv /\ [Settings!Next]_Settings!vars => SettingsInv'
<1> SUFFICES ASSUME SettingsInv, [Settings!Next]_Settings!vars PROVE SettingsInv'
  OBVIOUS
<1>1. CASE \E f \in Configured, write \in BOOLEAN : Settings!Ask(f, write)
  BY <1>1, Asked
<1>2. CASE \E o \in Objects : Settings!LetGo(o)
  BY <1>2, ObjectLetGo
<1>3. CASE Settings!ClearCache
  BY <1>3, CacheCleared
<1>4. CASE \E o \in Objects, format \in MessageFormats : Settings!SetFormatMessage(o, format)
  BY <1>4, FormatIsSet
<1>5. CASE \E o \in Objects, e \in BOOLEAN : Settings!SetMailingListEnabled(o, e)
  BY <1>5, ListIsSet
<1>6. CASE Settings!ResetHtmlFormat
  BY <1>6, FormatsReset
<1>7. CASE \E ids \in SUBSET identities : \E dflt \in ids : Settings!IdentitiesChanged(ids, dflt)
  BY <1>7, IdentitiesGone
<1>8. CASE \E d \in Dialogs, f \in Configured, mayCreate \in BOOLEAN : Settings!OpenDialog(d, f, mayCreate)
  BY <1>8, PagesOpened
<1>9. CASE \E d \in Dialogs : \E form \in UNION {Settings!Changed(g) : g \in Settings!Forms} : Settings!EditForm(d, form)
  BY <1>9, PageEdited
<1>10. CASE \E d \in Dialogs : Settings!SaveDialog(d)
  BY <1>10, PagesSaved
<1>11. CASE \E d \in Dialogs : Settings!CloseDialog(d)
  BY <1>11, PagesClosed
<1>12. CASE UNCHANGED Settings!vars
  <2>1. UNCHANGED <<identities, default, account, config, fcMap, object, properties, others, wanted, asked,
                    unsure, defaults, unwritten>>
    BY <1>12 DEF Settings!vars
  <2>2. QED
    BY <2>1 DEF SettingsInv, ManagerFits, HeldOnce, PointersFit, PagesFit, StoredFit, Sure, Agrees, Settings!Live
<1>13. QED
  BY <1>1, <1>2, <1>3, <1>4, <1>5, <1>6, <1>7, <1>8, <1>9, <1>10, <1>11, <1>12 DEF Settings!Next

LEMMA SettingsBegin == Settings!Init => SettingsInv
<1> SUFFICES ASSUME Settings!Init PROVE SettingsInv
  OBVIOUS
<1>1. /\ identities = Ids /\ default \in Ids /\ config = [f \in Configured |-> Settings!Unset]
      /\ fcMap = [f \in Configured |-> None] /\ object = [o \in Objects |-> None]
      /\ properties = [d \in Dialogs |-> None] /\ others = {} /\ defaults = {default}
      /\ unwritten = [f \in Configured |-> {}]
      /\ wanted = [f \in Configured |-> Reading(Settings!Unset, identities, default)]
  BY SettingsOperators DEF Settings!Init
<1>2. Settings!Unset \in Entries /\ Settings!Unset.useDefault
  BY SettingsAssumption DEF Settings!Unset, Entries, Settings!Settings
<1> DEFINE v == Reading(Settings!Unset, identities, default)
<1>3. v \in Values /\ v.useDefault
  BY <1>1, <1>2, WhatIsRead
<1> HIDE DEF v
<1>4. Settings!Live = {}
  BY <1>1 DEF Settings!Live
<1>5. ManagerFits /\ HeldOnce /\ PointersFit /\ PagesFit
  BY <1>1, <1>4 DEF ManagerFits, HeldOnce, PointersFit, PagesFit
<1>6. \A f \in Configured : wanted[f] = v /\ config[f] = Settings!Unset
  BY <1>1 DEF v
<1>7. \A f \in Configured : Agrees(f)
  <2>1. \A a : Fits(v, v, identities, defaults, a) /\ LeftOut(v, Settings!Unset, identities, a)
    BY <1>2, <1>3 DEF Fits, Alike, LeftOut
  <2>2. QED
    BY <1>4, <1>6, <2>1 DEF Agrees, v
<1>8. StoredFit
  BY <1>1, <1>2, <1>3, <1>7 DEF StoredFit, v
<1>9. QED
  BY <1>5, <1>8 DEF SettingsInv

LEMMA SettingsMean == SettingsInv => Settings!LastSettingStays /\ Settings!IdentityExists
<1> SUFFICES ASSUME SettingsInv PROVE Settings!LastSettingStays /\ Settings!IdentityExists
  OBVIOUS
<1>1. ASSUME NEW f \in Configured \ unsure, account[f].resource
      PROVE  /\ \A o \in Settings!Live : object[o].folder = f => Settings!AsWanted(f, object[o].value)
             /\ (\A o \in Settings!Live : object[o].folder # f) => Settings!AsWanted(f, Settings!ReadConfig(config[f]))
  <2>1. Agrees(f)
    BY <1>1 DEF SettingsInv, StoredFit, Sure
  <2>2. QED
    BY <2>1, SettingsOperators DEF Agrees
<1>2. ASSUME NEW o \in Settings!Live
      PROVE  Settings!Identity(object[o].folder, object[o].value) \in identities
  BY IdentityIsThere DEF SettingsInv, HeldOnce
<1>3. QED
  BY <1>1, <1>2 DEF Settings!LastSettingStays, Settings!IdentityExists

(* What was last entered for a folder, through whichever pointer or dialog, *)
(* is what its object holds, or what is read when there is none; no folder  *)
(* uses an identity that is gone; and the order of the accounts, the ranks  *)
(* in the cache and what the view shows agree (FolderSettings, the pages of *)
(* the folder's properties, AccountConfigOrderDialog).                      *)
THEOREM SettingsAlwaysStay == Spec => []SettingsStay
<1>1. Init => (part = "settings" => SettingsInv)
  BY OneBegins, SettingsBegin
<1>2. (part = "settings" => SettingsInv) /\ [Next]_vars => (part = "settings" => SettingsInv)'
  <2> SUFFICES ASSUME part = "settings" => SettingsInv, [Next]_vars, part' = "settings" PROVE SettingsInv'
    OBVIOUS
  <2>1. part = "settings" /\ [Settings!Next]_Settings!vars
    BY OneMoves
  <2>2. QED
    BY SettingsStep, <2>1
<1>3. (part = "settings" => SettingsInv) /\ (part = "order" => Order!OrderIsKept) => SettingsStay
  BY SettingsMean DEF SettingsStay
<1>4. QED
  BY <1>1, <1>2, <1>3, OrderIsAlwaysKept, PTL DEF Spec
=============================================================================
