------------------------------ MODULE FolderTree ------------------------------
(***************************************************************************)
(* Moving through the tree of folders: FolderTreeView                      *)
(* (folder/foldertreeview.cpp), and the filter one types into              *)
(* FolderTreeWidget (folder/foldertreewidget.cpp with                      *)
(* folder/hierarchicalfoldermatcher.cpp).                                  *)
(* Folders are numbered as they stand in the tree from top to bottom, 0 is *)
(* the invalid index: the root of the model, and what a search that found  *)
(* nothing answers.                                                        *)
(***************************************************************************)
EXTENDS Integers, Sequences, FiniteSetsExt

CONSTANTS Size,        \* number of folders
          Names,       \* names of folders
          MaxMoves     \* how often the user moves or filters

Folders == 1..Size

\* What a folder is to a search for unread mail.  "trash" stands for the outbox too,
\* "drafts" for templates and sent mail, "silent" for a folder that is to be ignored
\* when new mail arrives; all but "read" hold unread mail.
Kinds == {"read", "unread", "trash", "drafts", "silent"}

VARIABLES parent,   \* the tree
          kind, name,
          pattern,  \* the typed filter: for each of its parts the names that match it
          shown,    \* the folders the filter leaves in the view
          current,  \* the current folder
          asked,    \* history: folders the user was asked about by the last jump
          jump,     \* history: the last jump, until something else happens
          moves

vars == <<parent, kind, name, pattern, shown, current, asked, jump, moves>>

NoJump == [direction |-> "none", from |-> 0, confirm |-> FALSE, answer |-> TRUE]

-----------------------------------------------------------------------------
(* The tree *)

Ancestors(n) == LET f[i \in 0..Size] == IF i = 0 THEN {} ELSE {i} \cup f[parent[i]] IN f[n] \ {n}

\* Akonadi's tree is filtered recursively: what leads to a match is shown with it.
Matches(parts, n) ==
    LET f[i \in 0..Len(parts), k \in 0..Size] ==
            \/ i = 0
            \/ k # 0 /\ name[k] \in parts[i] /\ f[i - 1, parent[k]]
    IN  f[Len(parts), n]

Visible(parts) ==
    LET found == {n \in Folders : Matches(parts, n)}
    IN  found \cup UNION {Ancestors(n) : n \in found}

ChildrenIn(rows, n) == {i \in rows : parent[i] = n}
Children(n) == ChildrenIn(shown, n)
LowestOf(S) == IF S = {} THEN 0 ELSE Min(S)
HighestOf(S) == IF S = {} THEN 0 ELSE Max(S)
NextSibling(n) == LowestOf({i \in Children(parent[n]) : i > n})

\* The last folder of the subtree of a folder.
LastChild(n) == LET f[i \in 0..Size] == IF Children(i) = {} THEN i ELSE f[Max(Children(i))] IN f[n]

-----------------------------------------------------------------------------
(* The folder above and the one below *)

\* From the last folder of a subtree the search climbs.  The sibling of the parent is
\* the one below; of the sibling of a parent further up it takes the one below that.
IndexBelow(n) ==
    LET below[i \in 0..Size] ==
            IF Children(i) # {} THEN Min(Children(i))
            ELSE IF i = 0 THEN 0
            ELSE IF NextSibling(i) # 0 THEN NextSibling(i)
            ELSE IF parent[i] = 0 THEN 0
            ELSE IF NextSibling(parent[i]) # 0 THEN NextSibling(parent[i])
            ELSE LET climbed == {a \in Ancestors(parent[i]) :
                                    NextSibling(a) # 0 /\ below[NextSibling(a)] # 0}
                 IN  IF climbed = {} THEN 0 ELSE below[NextSibling(Max(climbed))]
    IN  below[n]

IndexAboveNotDeeper(n) == \* faulty: the folder above, not the last one in it
    IF n = 0 THEN LastChild(0)
    ELSE LET before == {i \in Children(parent[n]) : i < n}
         IN  IF before = {} THEN parent[n] ELSE Max(before)

IndexAbove(n) ==
    IF n = 0 THEN LastChild(0)
    ELSE LET before == {i \in Children(parent[n]) : i < n}
         IN  IF before = {} THEN parent[n] ELSE LastChild(Max(before))

Unread(n) == kind[n] # "read"

NextUnreadCollection(n, direction) ==
    LET step(i) == IF direction = "forward" THEN IndexBelow(i) ELSE IndexAbove(i)
        f[i \in 0..Size] ==
            LET next == step(i)
            IN  IF next = 0 \/ (Unread(next) /\ kind[next] # "silent") THEN next ELSE f[next]
    IN  f[n]

IgnoreUnreadFolder(n, confirm) == confirm /\ kind[n] = "drafts"

\* The folder that the jump would go to; asking the user comes after that.
TrySelectNextUnreadFolder(n, direction, confirm) ==
    LET f[i \in 0..Size] ==
            LET next == NextUnreadCollection(i, direction)
            IN  IF next # 0 /\ (kind[next] = "trash" \/ IgnoreUnreadFolder(next, confirm))
                THEN f[next] ELSE next
    IN  f[n]

\* The user is asked unless it is the key to go to the next folder that he pressed;
\* the answer "no" is taken for "there is none".
Selected(n, confirm, answer) == IF n # 0 /\ (answer \/ ~confirm) THEN n ELSE 0
AskedAbout(n, confirm) == IF n # 0 /\ confirm THEN <<n>> ELSE <<>>

-----------------------------------------------------------------------------

\* All trees: each folder is a child of the one above it or of one of its ancestors.
Trees == {p \in [Folders -> 0..(Size - 1)] :
            \A i \in Folders :
                IF i = 1 THEN p[i] = 0
                ELSE \/ p[i] = i - 1
                     \/ LET up[k \in 0..Size] == IF k = 0 THEN {0} ELSE {p[k]} \cup (IF p[k] < k THEN up[p[k]] ELSE {})
                        IN  p[i] \in up[i - 1]}

Init ==
    /\ parent \in Trees
    /\ kind \in [Folders -> Kinds]
    /\ name \in [Folders -> Names]
    /\ pattern = <<>>
    /\ shown = Folders
    /\ current \in 0..Size
    /\ asked = <<>>
    /\ jump = NoJump
    /\ moves = 0

Moves == moves < MaxMoves /\ moves' = moves + 1

\* selectNextUnreadFolder() and selectPrevUnreadFolder().  When there is none the search
\* starts once more at the top, or at the bottom.
SelectUnreadFolder(direction, confirm, answer) ==
    LET first == TrySelectNextUnreadFolder(current, direction, confirm)
        again == TrySelectNextUnreadFolder(IF direction = "forward" THEN LowestOf(Children(0)) ELSE LastChild(0),
                                           direction, confirm)
    IN  /\ IF Selected(first, confirm, answer) # 0
           THEN current' = first /\ asked' = AskedAbout(first, confirm)
           ELSE /\ current' = IF Selected(again, confirm, answer) # 0 THEN again ELSE current
                /\ asked' = AskedAbout(first, confirm) \o AskedAbout(again, confirm)
        /\ jump' = [direction |-> direction, from |-> current, confirm |-> confirm, answer |-> answer]
        /\ Moves
        /\ UNCHANGED <<parent, kind, name, pattern, shown>>

MoveTo(n) ==
    /\ current' = IF n = 0 THEN current ELSE n
    /\ asked' = <<>>
    /\ jump' = NoJump
    /\ Moves
    /\ UNCHANGED <<parent, kind, name, pattern, shown>>

\* A folder without children goes to its sibling, any other to the one below.
SelectNextFolder(n) ==
    IF n = 0 THEN 0
    ELSE IF Children(n) # {} THEN IndexBelow(n)
    ELSE IF NextSibling(n) # 0 THEN NextSibling(n)
    ELSE IndexBelow(n)

SlotFocusNextFolder == MoveTo(SelectNextFolder(current))
SlotFocusPrevFolder == MoveTo(IF current = 0 THEN 0 ELSE IndexAbove(current))
SlotFocusFirstFolder == MoveTo(LowestOf(Children(0)))
SlotFocusLastFolder == MoveTo(LastChild(0))
SelectCollectionFolder(n) == n \in shown /\ MoveTo(n)

\* findFirstMatch(): the folder, what is in it, its siblings below and what is in them,
\* then those above.
FindFirstMatch(parts, rows, start) ==
    LET search[n \in 0..Size] ==
            IF n = 0 \/ Matches(parts, n) THEN n
            ELSE LET inside == search[LowestOf(ChildrenIn(rows, n))]
                 IN  IF inside # 0 THEN inside
                     ELSE search[LowestOf({i \in ChildrenIn(rows, parent[n]) : i > n})]
        above == IF start = 0 THEN {}
                 ELSE {i \in ChildrenIn(rows, parent[start]) : i < start /\ search[i] # 0}
    IN  IF search[start] # 0 \/ above = {} THEN search[start] ELSE search[Min(above)]

\* applyFilter(): first the tree is filtered, where the view gives up a current folder
\* that is hidden, then the first match becomes the current one.
ApplyFilter(parts) ==
    LET rows == Visible(parts)
    IN  /\ pattern' = parts
        /\ shown' = rows
        /\ \E kept \in IF current \in rows \cup {0} THEN {current} ELSE rows \cup {0} :
               LET start == IF kept # 0 THEN kept ELSE LowestOf(ChildrenIn(rows, 0))
                   match == FindFirstMatch(parts, rows, start)
               IN  current' = IF match # 0 THEN match ELSE kept
        /\ asked' = <<>>
        /\ jump' = NoJump
        /\ Moves
        /\ UNCHANGED <<parent, kind, name>>

Patterns == UNION {[1..n -> {S \in SUBSET Names : S # {}}] : n \in 0..2}

Next ==
    \/ \E direction \in {"forward", "backward"}, confirm, answer \in BOOLEAN :
           SelectUnreadFolder(direction, confirm, answer)
    \/ SlotFocusNextFolder
    \/ SlotFocusPrevFolder
    \/ SlotFocusFirstFolder
    \/ SlotFocusLastFolder
    \/ \E n \in Folders : SelectCollectionFolder(n)
    \/ \E parts \in Patterns : ApplyFilter(parts)

Spec == Init /\ [][Next]_vars

-----------------------------------------------------------------------------
(* Properties *)

\* Where a jump may go.
Wanted(confirm) == {n \in shown : kind[n] = "unread" \/ (kind[n] = "drafts" /\ ~confirm)}
Bottom == HighestOf(shown)
Found == current # jump.from

\* Going back reaches the nearest folder with unread mail above the current one, and
\* from the top the nearest to the bottom, though never the last folder of the tree;
\* a jump in either direction goes nowhere but to such a folder, and with a question
\* only when the user agreed.
JumpsToUnread ==
    jump.direction # "none" =>
        LET wanted == Wanted(jump.confirm)
            above == IF jump.from = 0 THEN wanted ELSE {n \in wanted : n < jump.from}
            rest == wanted \ {Bottom}
        IN  /\ Found => current \in wanted /\ (jump.confirm => jump.answer /\ asked[Len(asked)] = current)
            /\ jump.direction = "backward" /\ (jump.answer \/ ~jump.confirm) =>
                   IF above # {} THEN current = Max(above)
                   ELSE rest # {} => current = Max(rest)

\* "find next unread collection starting from current position": going forward reaches
\* the nearest folder with unread mail below the current one.  The code breaks it.
NextUnreadIsNearest ==
    jump.direction = "forward" /\ ~jump.confirm =>
        LET below == {n \in Wanted(FALSE) : n > jump.from}
        IN  below # {} => current = Min(below)

\* While one types a filter that any folder matches, the current folder is one that
\* matches, wherever one was before.
LeadsToMatch ==
    pattern' # pattern /\ pattern' # <<>> /\ (\E n \in Folders : Matches(pattern', n))
        => Matches(pattern', current')
FilterLeadsToMatch == [][LeadsToMatch]_vars
=============================================================================
