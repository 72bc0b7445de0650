------------------------- MODULE FilterDialogProofs -------------------------
(***************************************************************************)
(* Proofs about the filter dialog and the filter manager, for every list   *)
(* of filters, any number of items and of changes.                         *)
(***************************************************************************)
EXTENDS FilterDialog, ListLemmas, FiniteSetTheorems

(* A list of which every element is replaced.                              *)
Image(g, s)      == [i \in DOMAIN s |-> g[s[i]]]
MapsInto(g, A, B) == \A x \in A : g[x] \in B
LeavesOut(g, A, S, U) == \A x \in A : x \notin S => g[x] \notin U

(* The image of a list is as long, and that of a longer list is longer.    *)
LEMMA ImageOfAppend ==
  ASSUME NEW A, NEW B, NEW g, MapsInto(g, A, B), NEW s \in Seq(A), NEW x \in A
  PROVE  /\ Image(g, s) \in Seq(B) /\ Image(g, << >>) = << >>
         /\ Image(g, Append(s, x)) = Append(Image(g, s), g[x])
<1>1. /\ DOMAIN s = 1..Len(s) /\ Len(s) \in Nat /\ \A i \in 1..Len(s) : s[i] \in A
      /\ DOMAIN Append(s, x) = 1..(Len(s) + 1)
      /\ \A i \in 1..Len(s) : Append(s, x)[i] = s[i]
      /\ Append(s, x)[Len(s) + 1] = x
  BY AppendProperties
<1>M. \A y \in A : g[y] \in B
  BY DEF MapsInto
<1>2. Image(g, s) \in Seq(B) /\ Len(Image(g, s)) = Len(s) /\ \A i \in 1..Len(s) : Image(g, s)[i] = g[s[i]]
  BY <1>1, <1>M DEF Image
<1>3. Image(g, << >>) = << >>
  BY DEF Image
<1>4. Image(g, Append(s, x)) \in Seq(B) /\ Len(Image(g, Append(s, x))) = Len(s) + 1
  <2>1. Append(s, x) \in Seq(A)
    BY AppendProperties
  <2>2. QED
    BY <1>1, <1>M, <2>1 DEF Image
<1>5. Append(Image(g, s), g[x]) \in Seq(B) /\ Len(Append(Image(g, s), g[x])) = Len(s) + 1
      /\ (\A i \in 1..Len(s) : Append(Image(g, s), g[x])[i] = g[s[i]])
      /\ Append(Image(g, s), g[x])[Len(s) + 1] = g[x]
  <2>1. g[x] \in B
    BY <1>M
  <2>2. QED
    BY <2>1, <1>2, AppendProperties
<1>6. \A i \in 1..(Len(s) + 1) : Image(g, Append(s, x))[i] = Append(Image(g, s), g[x])[i]
  <2> SUFFICES ASSUME NEW i \in 1..(Len(s) + 1)
               PROVE Image(g, Append(s, x))[i] = Append(Image(g, s), g[x])[i]
    OBVIOUS
  <2>1. Image(g, Append(s, x))[i] = g[Append(s, x)[i]]
    BY <1>1 DEF Image
  <2>2. QED
    BY <2>1, <1>1, <1>5
<1>7. Image(g, Append(s, x)) = Append(Image(g, s), g[x])
  BY <1>4, <1>5, <1>6, SeqEqual
<1>8. QED
  BY <1>2, <1>3, <1>7

(* What is left out before every element is replaced would be left out     *)
(* after that.                                                             *)
LEMMA KeepBeforeImage ==
  ASSUME NEW A, NEW B, NEW g, MapsInto(g, A, B), NEW s \in Seq(A), NEW S, NEW U,
         LeavesOut(g, A, S, U)
  PROVE  Keep(Image(g, Keep(s, S)), U) = Keep(Image(g, s), U)
<1> DEFINE T == {t \in Seq(A) : Keep(Image(g, Keep(t, S)), U) = Keep(Image(g, t), U)}
<1>1. << >> \in T
  <2>1. << >> \in Seq(A) /\ Keep(<< >>, S) = << >>
    BY EmptyList
  <2>2. QED
    BY <2>1
<1>2. ASSUME NEW t \in Seq(A), NEW x \in A, t \in T PROVE Append(t, x) \in T
  <2>1. Append(t, x) \in Seq(A) /\ Keep(t, S) \in Seq(A)
    BY AppendProperties, RangeOfKeep
  <2>Y. PICK y \in B : y = g[x]
    BY DEF MapsInto
  <2>2. Image(g, t) \in Seq(B) /\ Image(g, Append(t, x)) = Append(Image(g, t), y)
    BY <2>Y, ImageOfAppend
  <2>3. Image(g, Keep(t, S)) \in Seq(B) /\ Image(g, Append(Keep(t, S), x)) = Append(Image(g, Keep(t, S)), y)
    BY <2>1, <2>Y, ImageOfAppend
  <2>4. Keep(Image(g, Append(t, x)), U) = IF y \in U THEN Append(Keep(Image(g, t), U), y) ELSE Keep(Image(g, t), U)
    BY <2>2, KeepOfAppend
  <2>5. Keep(Image(g, Append(Keep(t, S), x)), U) =
          IF y \in U THEN Append(Keep(Image(g, Keep(t, S)), U), y) ELSE Keep(Image(g, Keep(t, S)), U)
    BY <2>3, KeepOfAppend
  <2>6. Keep(Append(t, x), S) = IF x \in S THEN Append(Keep(t, S), x) ELSE Keep(t, S)
    BY KeepOfAppend
  <2>7. Keep(Image(g, Keep(t, S)), U) = Keep(Image(g, t), U)
    BY <1>2
  <2>8. Keep(Image(g, Keep(Append(t, x), S)), U) = Keep(Image(g, Append(t, x)), U)
    <3>1. CASE x \in S
      BY <3>1, <2>4, <2>5, <2>6, <2>7
    <3>2. CASE x \notin S
      <4>1. y \notin U
        BY <3>2, <2>Y DEF LeavesOut
      <4>2. QED
        BY <4>1, <3>2, <2>4, <2>6, <2>7
    <3>3. QED
      BY <3>1, <3>2
  <2>9. QED
    BY <2>1, <2>8
<1>3. s \in T
  <2> HIDE DEF T
  <2>1. QED
    BY <1>1, <1>2, ByAppending
<1>4. QED
  BY <1>3

-----------------------------------------------------------------------------
(* Filters, as they are written and read.                                  *)

Purify == [f \in FilterRecords |-> Purified(f)]

(* Purifying a filter leaves a filter, changes nothing the second time and *)
(* makes none worthwhile.                                                  *)
LEMMA PurifiedIsFilter ==
  ASSUME NEW f \in FilterRecords
  PROVE  /\ Purified(f) \in FilterRecords
         /\ Purified(Purified(f)) = Purified(f)
         /\ IsEmpty(f) => IsEmpty(Purified(f))
         /\ MenuFirst(f) => MenuFirst(Purified(f))
         /\ NothingToSay(f) => NothingToSay(Purified(f))
<1>1. Purified(f) \in FilterRecords
  BY DEF Purified, FilterRecords
<1>2. /\ Purified(f).actions = (IF f.actions = "fit" THEN "fit" ELSE "none")
      /\ Purified(f).accounts = f.accounts \cap Accounts
      /\ Purified(f).rules = f.rules /\ Purified(f).applicability = f.applicability
      /\ Purified(f).inbound = f.inbound
      /\ Purified(f).shortcut = f.shortcut /\ Purified(f).toolbar = f.toolbar
  BY DEF Purified, FilterRecords
<1>3. Purified(Purified(f)) = Purified(f)
  <2> DEFINE g == Purified(f)
  <2>1. Purified(g) = [g EXCEPT !.actions = IF g.actions = "fit" THEN g.actions ELSE "none",
                                !.accounts = g.accounts \cap Accounts]
    BY DEF Purified
  <2>2. (IF g.actions = "fit" THEN g.actions ELSE "none") = g.actions /\ g.accounts \cap Accounts = g.accounts
    BY <1>2
  <2>3. g = [g EXCEPT !.actions = g.actions, !.accounts = g.accounts]
    BY <1>1 DEF FilterRecords
  <2> HIDE DEF g
  <2>4. QED
    BY <2>1, <2>2, <2>3 DEF g
<1>4. QED
  BY <1>1, <1>2, <1>3 DEF IsEmpty, MenuFirst, NothingToSay

(* Reading is keeping what is worthwhile of the purified filters.          *)
LEMMA ReadIsKeep ==
  ASSUME NEW fs \in Seq(FilterRecords)
  PROVE  /\ ReadFrom(fs) = Keep(Image(Purify, fs), Worthwhile)
         /\ Image(Purify, fs) \in Seq(FilterRecords)
         /\ Range(Image(Purify, fs)) = {Purified(f) : f \in Range(fs)}
         /\ MapsInto(Purify, FilterRecords, FilterRecords)
<1>1. DOMAIN fs = 1..Len(fs) /\ Len(fs) \in Nat /\ \A i \in DOMAIN fs : fs[i] \in FilterRecords
  OBVIOUS
<1>2. \A f \in FilterRecords : Purify[f] = Purified(f) /\ Purified(f) \in FilterRecords
  BY PurifiedIsFilter DEF Purify
<1>3. Image(Purify, fs) = [i \in DOMAIN fs |-> Purified(fs[i])]
  BY <1>1, <1>2 DEF Image
<1>4. Image(Purify, fs) \in Seq(FilterRecords)
  BY <1>1, <1>2, <1>3
<1>5. Range(Image(Purify, fs)) = {Purified(f) : f \in Range(fs)}
  BY <1>3 DEF Range
<1>6. QED
  BY <1>2, <1>3, <1>4, <1>5 DEF ReadFrom, MapsInto

(* What is read are filters: those of the list, purified, that are         *)
(* worthwhile then.                                                        *)
LEMMA ReadIsList ==
  ASSUME NEW fs \in Seq(FilterRecords)
  PROVE  /\ ReadFrom(fs) \in Seq(FilterRecords)
         /\ Range(ReadFrom(fs)) = {Purified(f) : f \in Range(fs)} \cap Worthwhile
         /\ Written(fs) \in Seq(FilterRecords)
BY ReadIsKeep, RangeOfKeep DEF Written

(* The agent reads the same whether or not the filters without a purpose   *)
(* have been left out in writing.                                          *)
LEMMA WritingLosesNothing ==
  ASSUME NEW fs \in Seq(FilterRecords)
  PROVE  ReadFrom(Written(fs)) = ReadFrom(fs)
<1>1. LeavesOut(Purify, FilterRecords, Worthwhile, Worthwhile)
  BY PurifiedIsFilter DEF LeavesOut, Worthwhile, Purify
<1>2. Keep(Image(Purify, Keep(fs, Worthwhile)), Worthwhile) = Keep(Image(Purify, fs), Worthwhile)
  BY <1>1, ReadIsKeep, KeepBeforeImage
<1>3. Keep(fs, Worthwhile) \in Seq(FilterRecords)
  BY RangeOfKeep
<1>4. QED
  BY <1>2, <1>3, ReadIsKeep DEF Written

(* Reading what has been read already changes nothing.                     *)
LEMMA ReadingTwice ==
  ASSUME NEW fs \in Seq(FilterRecords)
  PROVE  ReadFrom(ReadFrom(fs)) = ReadFrom(fs)
<1> DEFINE gs == Image(Purify, fs)
<1>1. gs \in Seq(FilterRecords) /\ ReadFrom(fs) = Keep(gs, Worthwhile)
  BY ReadIsKeep
<1>2. Image(Purify, gs) = gs
  <2>1. DOMAIN gs = DOMAIN fs /\ \A i \in DOMAIN fs : gs[i] = Purified(fs[i]) /\ fs[i] \in FilterRecords
    BY DEF Image, Purify
  <2>2. \A i \in DOMAIN fs : Purify[gs[i]] = gs[i]
    BY <2>1, PurifiedIsFilter DEF Purify
  <2>3. QED
    BY <2>1, <2>2 DEF Image
<1>3. ReadFrom(gs) = Keep(gs, Worthwhile)
  <2> HIDE DEF gs
  <2>1. QED
    BY <1>1, <1>2, ReadIsKeep
<1>4. ReadFrom(Written(gs)) = ReadFrom(gs)
  <2> HIDE DEF gs
  <2>1. QED
    BY <1>1, WritingLosesNothing
<1>5. QED
  BY <1>1, <1>3, <1>4 DEF Written

-----------------------------------------------------------------------------
(* Lists of items.                                                         *)

(* When every step leads from what is good to what is good after it, what  *)
(* the steps for all selected items end with is good.                      *)
LEMMA StepsEndGood ==
  ASSUME NEW how, NEW Good, NEW s \in Good[0], Len(Picked) \in Nat,
         \A i \in 1..Len(Picked) : \A x \in Good[i - 1] : Step(how, x, i) \in Good[i]
  PROVE  OneByOne(how, s) \in Good[Len(Picked)]
<1> DEFINE n == Len(Picked)
           G == [i \in 1..n |-> [x \in Good[i - 1] |-> Step(how, x, i)]]
           Done(f) == f = [i \in 0..n |-> IF i = 0 THEN s ELSE Step(how, f[i - 1], i)]
           K == CHOOSE f : Done(f)
<1>0. n \in Nat /\ \A i \in 1..n : i - 1 \in 0..n
  OBVIOUS
<1>1. \A i \in 1..n : \A x \in Good[i - 1] : G[i][x] = Step(how, x, i) /\ Step(how, x, i) \in Good[i]
  OBVIOUS
<1>2. PICK F : F = [i \in 0..n |-> F[i]] /\ Follows(F, s, n, G) /\ \A i \in 0..n : F[i] \in Good[i]
  <2>1. \A i \in 1..n : \A x \in Good[i - 1] : G[i][x] \in Good[i]
    BY <1>1
  <2> HIDE DEF G, n
  <2>2. QED
    BY <1>0, <2>1, RecursionExists
<1>3. F[0] = s /\ \A i \in 1..n : F[i] = Step(how, F[i - 1], i)
  <2>1. F[0] = s /\ \A i \in 1..n : F[i] = G[i][F[i - 1]]
    BY <1>2 DEF Follows
  <2>2. \A i \in 1..n : F[i - 1] \in Good[i - 1]
    BY <1>0, <1>2
  <2> HIDE DEF G, n
  <2>3. QED
    BY <1>1, <2>1, <2>2
<1>4. Done(K)
  <2>1. Done(F)
    <3>1. \A i \in 0..n : F[i] = IF i = 0 THEN s ELSE Step(how, F[i - 1], i)
      BY <1>3, <1>0
    <3> HIDE DEF n
    <3>2. QED
      BY <1>2, <3>1
  <2>2. \E f : Done(f)
    <3> HIDE DEF Done
    <3>1. QED
      BY <2>1
  <2> HIDE DEF Done
  <2>3. QED
    BY <2>2
<1>5. K[0] = s /\ \A i \in 1..n : K[i] = Step(how, K[i - 1], i)
  <2> HIDE DEF K
  <2>1. \A i \in 0..n : K[i] = IF i = 0 THEN s ELSE Step(how, K[i - 1], i)
    BY <1>4
  <2>2. QED
    BY <2>1, <1>0
<1>6. \A i \in 0..n : i \in {k \in 0..n : K[k] = F[k]}
  <2> DEFINE T == {k \in 0..n : K[k] = F[k]}
  <2>1. 0 \in T
    BY <1>3, <1>5, <1>0
  <2>2. ASSUME NEW k \in 0..(n - 1), k \in T PROVE k + 1 \in T
    <3>1. k + 1 \in 1..n /\ k + 1 \in 0..n /\ (k + 1) - 1 = k /\ K[k] = F[k]
      BY <2>2, <1>0
    <3>2. K[k + 1] = F[k + 1]
      <4> HIDE DEF K, n
      <4>1. QED
        BY <3>1, <1>3, <1>5
    <3>3. QED
      BY <3>1, <3>2
  <2> HIDE DEF T, n
  <2>3. \A i \in 0..n : i \in T
    BY <1>0, <2>1, <2>2, Upwards
  <2>4. QED
    BY <2>3 DEF T
<1>7. OneByOne(how, s) = K[n]
  BY DEF OneByOne
<1>8. n \in 0..n
  BY <1>0
<1>9. QED
  <2> HIDE DEF K, n
  <2>1. K[n] \in Good[n]
    BY <1>2, <1>6, <1>8
  <2>2. QED
    BY <2>1, <1>7 DEF n

(* The list widget and the editors as a button finds and leaves them: no   *)
(* item is in the list twice, the current item and the selected ones are   *)
(* in it, and the editors show the current item or none.                   *)
Widget(I) ==
  [list : Seq(I), current : I \cup {NoFilter}, selected : SUBSET I, edited : I \cup {NoFilter}]
Sane(s, I) ==
  /\ s \in Widget(I) /\ Unequal(s.list)
  /\ s.current \in Range(s.list) \cup {NoFilter} /\ s.selected \subseteq Range(s.list)
  /\ s.edited \in {s.current, NoFilter}

(* The row of an item is where it is.                                      *)
LEMMA RowIsPlace ==
  ASSUME NEW s, Unequal(s.list)
  PROVE  /\ \A n \in Range(s.list) : Row(s, n) \in DOMAIN s.list /\ s.list[Row(s, n)] = n
         /\ \A i \in DOMAIN s.list : Row(s, s.list[i]) = i
BY DEF Row, Unequal, Range

(* Taking an item out of a sane list leaves a sane list without it.        *)
LEMMA TakenIsSane ==
  ASSUME NEW I, NEW s, Sane(s, I), NEW i \in DOMAIN s.list
  PROVE  /\ Sane(Taken(s, i), I) /\ Taken(s, i).list = RemoveAt(s.list, i)
         /\ Range(Taken(s, i).list) = Range(s.list) \ {s.list[i]}
<1> DEFINE n == s.list[i]
           r == RemoveAt(s.list, i)
           c == IF n # s.current THEN s.current
                ELSE IF i > 1 THEN s.list[i - 1] ELSE IF Len(s.list) > 1 THEN s.list[2] ELSE NoFilter
           e == IF c = s.current THEN s.edited ELSE c
           t == Taken(s, i)
<1>0. /\ s.list \in Seq(I) /\ DOMAIN s.list = 1..Len(s.list) /\ Len(s.list) \in Nat
      /\ s.selected \subseteq Range(s.list) /\ s.selected \in SUBSET I
      /\ s.current \in Range(s.list) \cup {NoFilter} /\ s.edited \in {s.current, NoFilter}
      /\ Unequal(s.list)
  BY DEF Sane, Widget
<1>1. r \in Seq(I) /\ Unequal(r) /\ Range(r) = Range(s.list) \ {n}
  BY <1>0, WithoutOne, StaysUnequal
<1>2. c \in Range(r) \cup {NoFilter}
  <2>1. CASE n # s.current
    BY <1>0, <1>1, <2>1
  <2>2. CASE n = s.current /\ i > 1
    <3>1. i - 1 \in DOMAIN s.list /\ s.list[i - 1] # n
      BY <1>0, <2>2 DEF Unequal
    <3>2. s.list[i - 1] \in Range(s.list)
      BY <3>1 DEF Range
    <3>3. QED
      BY <2>2, <3>1, <3>2, <1>1
  <2>3. CASE n = s.current /\ ~(i > 1) /\ Len(s.list) > 1
    <3>1. 2 \in DOMAIN s.list /\ s.list[2] # n
      BY <1>0, <2>3 DEF Unequal
    <3>2. s.list[2] \in Range(s.list)
      BY <3>1 DEF Range
    <3>3. QED
      BY <2>3, <3>1, <3>2, <1>1
  <2>4. CASE n = s.current /\ ~(i > 1) /\ ~(Len(s.list) > 1)
    BY <2>4
  <2>5. QED
    BY <2>1, <2>2, <2>3, <2>4
<1>3. /\ t.list = r /\ t.current = c /\ t.selected = s.selected \ {n}
      /\ t = [list |-> t.list, current |-> t.current, selected |-> t.selected, edited |-> t.edited]
      /\ t.edited \in {e, NoFilter}
  BY DEF Taken
<1>4. Range(r) \subseteq I
  BY <1>1 DEF Range
<1>5. e \in {c, NoFilter}
  BY <1>0
<1>6. t \in Widget(I) /\ t.current \in Range(r) \cup {NoFilter} /\ t.edited \in {t.current, NoFilter}
      /\ t.selected \subseteq Range(r)
  <2> HIDE DEF n, r, c, e, t
  <2>1. t.edited \in {c, NoFilter}
    BY <1>3, <1>5
  <2>2. c \in I \cup {NoFilter}
    BY <1>2, <1>4
  <2>3. t.selected \subseteq Range(r) /\ t.selected \in SUBSET I
    BY <1>0, <1>1, <1>3
  <2>4. QED
    BY <1>1, <1>2, <1>3, <2>1, <2>2, <2>3 DEF Widget
<1>7. QED
  <2> HIDE DEF r, c, e, t, n
  <2>1. Sane(t, I)
    BY <1>1, <1>3, <1>6 DEF Sane
  <2>2. QED
    BY <2>1, <1>1, <1>3 DEF t, r, n

(* Moving an item leaves a sane list of the same items.                    *)
LEMMA MovedIsSane ==
  ASSUME NEW I, NEW s, Sane(s, I), NEW from \in DOMAIN s.list, NEW to \in Nat \ {0}
  PROVE  /\ Sane(Moved(s, from, to), I) /\ Range(Moved(s, from, to).list) = Range(s.list)
         /\ Moved(s, from, to).list =
              InsertAt(RemoveAt(s.list, from), IF to > Len(s.list) THEN Len(s.list) ELSE to, s.list[from])
<1> DEFINE n == s.list[from]
           r == RemoveAt(s.list, from)
           t == Taken(s, from)
           k == IF to > Len(s.list) THEN Len(s.list) ELSE to
           u == InsertAt(r, k, n)
           m == Moved(s, from, to)
<1>0. /\ s.list \in Seq(I) /\ DOMAIN s.list = 1..Len(s.list) /\ Len(s.list) \in Nat
      /\ Unequal(s.list) /\ n \in I /\ n \in Range(s.list)
  BY DEF Sane, Widget, Range
<1>1. Sane(t, I) /\ t.list = r /\ Range(r) = Range(s.list) \ {n}
  BY TakenIsSane
<1>2. r \in Seq(I) /\ Len(r) = Len(s.list) - 1 /\ Unequal(r)
  BY <1>0, <1>1, WithoutOne, StaysUnequal
<1>3. k \in 1..(Len(r) + 1)
  <2> HIDE DEF r
  <2>1. QED
    BY <1>0, <1>2
<1>4. u \in Seq(I) /\ Unequal(u) /\ Range(u) = Range(s.list)
  <2> HIDE DEF r, k, n
  <2>1. u \in Seq(I)
    BY <1>0, <1>2, <1>3, WithOneMore
  <2>2. n \notin Range(r)
    BY <1>1
  <2>3. Unequal(u)
    BY <1>0, <1>2, <1>3, <2>2, StaysUnequal
  <2>4. Range(u) = Range(r) \cup {n}
    BY <1>0, <1>2, <1>3, RangeOfTwo
  <2>5. QED
    BY <1>0, <1>1, <2>1, <2>3, <2>4
<1>5. m = [t EXCEPT !.list = u]
  <2>1. m = [t EXCEPT !.list = InsertAt(t.list, k, n)]
    BY DEF Moved
  <2>2. QED
    BY <2>1, <1>1
<1>6. Sane(m, I) /\ m.list = u
  <2> HIDE DEF u, t, m, n, k, r
  <2>1. /\ m.list = u /\ m.current = t.current /\ m.selected = t.selected /\ m.edited = t.edited
        /\ m \in Widget(I)
    BY <1>1, <1>4, <1>5 DEF Sane, Widget
  <2>2. Range(t.list) \subseteq Range(u)
    BY <1>1, <1>4
  <2>3. QED
    BY <2>1, <2>2, <1>1, <1>4 DEF Sane
<1>7. QED
  BY <1>4, <1>6

(* The rows of the selected items.                                         *)
Places(s, S, r) ==
  /\ DOMAIN r = 1..Len(Keep(s, S))
  /\ \A i \in DOMAIN r : r[i] \in DOMAIN s /\ s[r[i]] \in S /\ Keep(s, S)[i] = s[r[i]]
  /\ \A i \in DOMAIN r : i <= r[i] /\ r[i] - i <= Len(s) - Len(Keep(s, S))
  /\ \A i, j \in DOMAIN r : i < j => r[i] < r[j]
  /\ \A p \in DOMAIN s : s[p] \in S => \E i \in DOMAIN r : r[i] = p

(* What is kept comes from rows that go down the list.                     *)
LEMMA KeepHasPlaces ==
  ASSUME NEW A, NEW s \in Seq(A), NEW S
  PROVE  \E r : Places(s, S, r)
<1> DEFINE T == {t \in Seq(A) : \E r : Places(t, S, r)}
<1>1. << >> \in T
  <2>1. Places(<< >>, S, << >>)
    BY EmptyList DEF Places
  <2>2. QED
    BY <2>1
<1>2. ASSUME NEW t \in Seq(A), NEW x \in A, t \in T PROVE Append(t, x) \in T
  <2> DEFINE u == Append(t, x)
             n == Len(t)
             k == Len(Keep(t, S))
  <2>1. PICK r : Places(t, S, r)
    BY <1>2
  <2>2. /\ n \in Nat /\ DOMAIN t = 1..n /\ u \in Seq(A) /\ DOMAIN u = 1..(n + 1) /\ Len(u) = n + 1
        /\ u[n + 1] = x /\ \A i \in 1..n : u[i] = t[i]
    BY AppendProperties
  <2>3. Keep(t, S) \in Seq(A) /\ k \in Nat
    BY RangeOfKeep
  <2>4. CASE x \in S
    <3> DEFINE q == [i \in 1..(k + 1) |-> IF i = k + 1 THEN n + 1 ELSE r[i]]
               v == Append(Keep(t, S), x)
    <3>1. Keep(u, S) = v
      BY <2>4, KeepOfAppend
    <3>2. Len(v) = k + 1 /\ v[k + 1] = x /\ \A i \in 1..k : v[i] = Keep(t, S)[i]
      BY <2>3, AppendProperties
    <3>3. /\ DOMAIN q = 1..(k + 1) /\ q[k + 1] = n + 1
          /\ \A i \in 1..k : q[i] = r[i]
      BY <2>3
    <3>4. /\ DOMAIN r = 1..k
          /\ \A i \in 1..k : r[i] \in 1..n /\ t[r[i]] \in S /\ Keep(t, S)[i] = t[r[i]]
          /\ \A i \in 1..k : i <= r[i] /\ r[i] - i <= n - k
          /\ \A i, j \in 1..k : i < j => r[i] < r[j]
          /\ \A p \in 1..n : t[p] \in S => \E i \in 1..k : r[i] = p
      BY <2>1, <2>2 DEF Places
    <3> HIDE DEF q, v, u, n, k
    <3>5. \A i \in 1..(k + 1) : q[i] \in 1..(n + 1) /\ u[q[i]] \in S /\ v[i] = u[q[i]]
      BY <2>2, <2>3, <2>4, <3>2, <3>3, <3>4
    <3>6. k <= n
      <4>1. CASE k = 0
        BY <4>1, <2>2
      <4>2. CASE k \in 1..k
        BY <4>2, <2>2, <2>3, <3>4
      <4>3. QED
        BY <4>1, <4>2, <2>3
    <3>7. ASSUME NEW i \in 1..(k + 1) PROVE i <= q[i] /\ q[i] - i <= (n + 1) - (k + 1)
      <4>1. CASE i \in 1..k
        <5>1. q[i] = r[i] /\ i <= r[i] /\ r[i] - i <= n - k
          BY <4>1, <3>3, <3>4
        <5>2. (n + 1) - (k + 1) = n - k
          BY <2>2, <2>3
        <5>3. QED
          BY <5>1, <5>2
      <4>2. CASE i = k + 1
        BY <4>2, <2>2, <2>3, <3>3, <3>6
      <4>3. QED
        BY <4>1, <4>2, <2>3
    <3>8. ASSUME NEW i \in 1..(k + 1), NEW j \in 1..(k + 1), i < j PROVE q[i] < q[j]
      <4>0. i \in 1..k
        BY <2>3, <3>8
      <4>1. q[i] = r[i] /\ r[i] \in 1..n
        BY <4>0, <3>3, <3>4
      <4>2. CASE j = k + 1
        BY <4>1, <4>2, <2>2, <3>3
      <4>3. CASE j \in 1..k
        BY <4>0, <4>1, <4>3, <3>3, <3>4, <3>8
      <4>4. QED
        BY <4>2, <4>3, <2>3
    <3>9. \A p \in 1..(n + 1) : u[p] \in S => \E i \in 1..(k + 1) : q[i] = p
      BY <2>2, <2>3, <3>3, <3>4
    <3>10. Places(u, S, q)
      BY <2>2, <3>1, <3>2, <3>3, <3>5, <3>7, <3>8, <3>9 DEF Places
    <3>11. QED
      BY <3>10, <2>2 DEF u
  <2>5. CASE x \notin S
    <3>1. Keep(u, S) = Keep(t, S)
      BY <2>5, KeepOfAppend
    <3> HIDE DEF u
    <3>2. /\ DOMAIN r = 1..k
          /\ \A i \in 1..k : r[i] \in 1..n /\ t[r[i]] \in S /\ Keep(t, S)[i] = t[r[i]]
          /\ \A i \in 1..k : i <= r[i] /\ r[i] - i <= n - k
          /\ \A i, j \in 1..k : i < j => r[i] < r[j]
          /\ \A p \in 1..n : t[p] \in S => \E i \in 1..k : r[i] = p
      BY <2>1, <2>2 DEF Places
    <3> HIDE DEF n, k
    <3>3. \A i \in 1..k : r[i] \in 1..(n + 1) /\ u[r[i]] \in S /\ Keep(t, S)[i] = u[r[i]]
      BY <2>2, <3>2
    <3>4. \A i \in 1..k : i <= r[i] /\ r[i] - i <= (n + 1) - k
      BY <2>2, <2>3, <3>2
    <3>5. \A p \in 1..(n + 1) : u[p] \in S => \E i \in 1..k : r[i] = p
      <4> SUFFICES ASSUME NEW p \in 1..(n + 1), u[p] \in S PROVE \E i \in 1..k : r[i] = p
        OBVIOUS
      <4>1. p # n + 1
        BY <2>2, <2>5
      <4>2. p \in 1..n /\ t[p] \in S
        BY <4>1, <2>2
      <4>3. QED
        BY <4>2, <3>2
    <3>6. Len(Keep(u, S)) = k
      BY <3>1 DEF k
    <3>7. Places(u, S, r)
      BY <2>2, <3>1, <3>2, <3>3, <3>4, <3>5, <3>6 DEF Places
    <3>8. QED
      BY <3>7, <2>2 DEF u
  <2>6. QED
    BY <2>4, <2>5
<1>3. s \in T
  <2> HIDE DEF T
  <2>1. QED
    BY <1>1, <1>2, ByAppending
<1>4. QED
  BY <1>3

-----------------------------------------------------------------------------
(* Items that move up the list.                                            *)

Lift(s, from, to) == InsertAt(RemoveAt(s, from), to, s[from])

(* Putting in an element does not touch what comes after it.               *)
LEMMA InsertInAppend ==
  ASSUME NEW A, NEW t \in Seq(A), NEW x \in A, NEW y \in A
  PROVE  /\ \A i \in 1..(Len(t) + 1) : InsertAt(Append(t, y), i, x) = Append(InsertAt(t, i, x), y)
         /\ InsertAt(t, Len(t) + 1, x) = Append(t, x)
<1>0. /\ Len(t) \in Nat /\ Append(t, y) \in Seq(A) /\ Len(Append(t, y)) = Len(t) + 1
      /\ Append(t, y)[Len(t) + 1] = y /\ \A j \in 1..Len(t) : Append(t, y)[j] = t[j]
  BY AppendProperties
<1>1. ASSUME NEW i \in 1..(Len(t) + 1)
      PROVE  InsertAt(Append(t, y), i, x) = Append(InsertAt(t, i, x), y)
  <2> DEFINE u == Append(t, y)
             v == InsertAt(t, i, x)
             a == InsertAt(u, i, x)
             b == Append(v, y)
             n == Len(t)
  <2>1. /\ v \in Seq(A) /\ Len(v) = n + 1
        /\ \A j \in 1..(n + 1) : v[j] = IF j < i THEN t[j] ELSE IF j = i THEN x ELSE t[j - 1]
    BY WithOneMore
  <2>2. /\ a \in Seq(A) /\ Len(a) = n + 2
        /\ \A j \in 1..(n + 2) : a[j] = IF j < i THEN u[j] ELSE IF j = i THEN x ELSE u[j - 1]
    <3>1. i \in 1..(Len(u) + 1) /\ Len(u) + 1 = n + 2 /\ u \in Seq(A)
      BY <1>0
    <3> HIDE DEF u, n
    <3>2. QED
      BY <3>1, WithOneMore
  <2>3. /\ b \in Seq(A) /\ Len(b) = n + 2 /\ b[n + 2] = y
        /\ \A j \in 1..(n + 1) : b[j] = v[j]
    <3> HIDE DEF v, n
    <3>1. Len(v) + 1 = n + 2
      BY <2>1, <1>0 DEF n
    <3>2. QED
      BY <2>1, <3>1, AppendProperties
  <2>4. ASSUME NEW j \in 1..(n + 2) PROVE a[j] = b[j]
    <3>0. /\ n \in Nat /\ u[n + 1] = y /\ \A m \in 1..n : u[m] = t[m]
      BY <1>0
    <3> HIDE DEF a, b, u, v, n
    <3>1. CASE j = n + 2
      <4>1. ~(j < i) /\ j # i /\ j - 1 = n + 1
        BY <3>0, <3>1, <1>1 DEF n
      <4>2. QED
        BY <3>0, <3>1, <4>1, <2>2, <2>3
    <3>2. CASE j \in 1..(n + 1)
      <4>1. b[j] = IF j < i THEN t[j] ELSE IF j = i THEN x ELSE t[j - 1]
        BY <3>2, <2>1, <2>3
      <4>2. j < i => j \in 1..n
        BY <3>0, <3>2, <1>1 DEF n
      <4>3. ~(j < i) /\ j # i => j - 1 \in 1..n
        BY <3>0, <3>2, <1>1 DEF n
      <4>4. QED
        BY <3>0, <4>1, <4>2, <4>3, <2>2
    <3>3. QED
      BY <3>0, <3>1, <3>2
  <2>5. a = b
    <3> HIDE DEF a, b, n
    <3>1. QED
      BY <2>2, <2>3, <2>4, SeqEqual
  <2>6. QED
    BY <2>5
<1>2. InsertAt(t, Len(t) + 1, x) = Append(t, x)
  <2> DEFINE a == InsertAt(t, Len(t) + 1, x)
             b == Append(t, x)
             n == Len(t)
  <2>1. /\ a \in Seq(A) /\ Len(a) = n + 1
        /\ \A j \in 1..(n + 1) : a[j] = IF j < n + 1 THEN t[j] ELSE IF j = n + 1 THEN x ELSE t[j - 1]
    <3>1. ASSUME NEW k \in 1..(Len(t) + 1)
          PROVE  /\ InsertAt(t, k, x) \in Seq(A) /\ Len(InsertAt(t, k, x)) = Len(t) + 1
                 /\ \A j \in 1..(Len(t) + 1) :
                      InsertAt(t, k, x)[j] = IF j < k THEN t[j] ELSE IF j = k THEN x ELSE t[j - 1]
      BY WithOneMore
    <3>2. n + 1 \in 1..(Len(t) + 1)
      BY <1>0
    <3>3. QED
      BY <3>1, <3>2
  <2>2. b \in Seq(A) /\ Len(b) = n + 1 /\ b[n + 1] = x /\ \A j \in 1..n : b[j] = t[j]
    BY AppendProperties
  <2>3. n \in Nat
    BY <1>0
  <2> HIDE DEF a, b, n
  <2>4. \A j \in 1..(n + 1) : a[j] = b[j]
    BY <2>1, <2>2, <2>3
  <2>5. a = b
    BY <2>1, <2>2, <2>4, SeqEqual
  <2>6. QED
    BY <2>5 DEF a, b
<1>3. QED
  BY <1>1, <1>2

(* It does not matter where among elements that are not kept an element is *)
(* put in, nor where one is put in that is not kept.                       *)
LEMMA KeepOfInsert ==
  ASSUME NEW A, NEW s \in Seq(A), NEW S, NEW x \in A, NEW i \in 1..(Len(s) + 1),
         x \in S => \A p \in i..Len(s) : s[p] \notin S
  PROVE  Keep(InsertAt(s, i, x), S) = Keep(Append(s, x), S)
<1> DEFINE Late(t, k) == x \in S => \A p \in k..Len(t) : t[p] \notin S
           T == {t \in Seq(A) : \A k \in 1..(Len(t) + 1) :
                   Late(t, k) => Keep(InsertAt(t, k, x), S) = Keep(Append(t, x), S)}
<1>1. << >> \in T
  <2>1. << >> \in Seq(A) /\ Len(<< >>) = 0 /\ 1..(Len(<< >>) + 1) = {1}
    OBVIOUS
  <2>2. InsertAt(<< >>, 1, x) = Append(<< >>, x)
    <3>1. \A t \in Seq(A) : InsertAt(t, Len(t) + 1, x) = Append(t, x)
      BY InsertInAppend
    <3>2. InsertAt(<< >>, Len(<< >>) + 1, x) = Append(<< >>, x)
      BY <2>1, <3>1
    <3>3. Len(<< >>) + 1 = 1
      OBVIOUS
    <3>4. QED
      BY <3>2, <3>3
  <2>3. QED
    BY <2>1, <2>2
<1>2. ASSUME NEW t \in Seq(A), NEW y \in A, t \in T PROVE Append(t, y) \in T
  <2> DEFINE u == Append(t, y)
             n == Len(t)
  <2>0. /\ n \in Nat /\ u \in Seq(A) /\ Len(u) = n + 1 /\ u[n + 1] = y
        /\ \A j \in 1..n : u[j] = t[j]
    BY AppendProperties
  <2>1. ASSUME NEW k \in 1..(Len(u) + 1), Late(u, k) PROVE Keep(InsertAt(u, k, x), S) = Keep(Append(u, x), S)
    <3>1. CASE k = n + 2
      <4>1. k = Len(u) + 1
        BY <3>1, <2>0
      <4> HIDE DEF u
      <4>2. InsertAt(u, k, x) = Append(u, x)
        BY <4>1, <2>0, InsertInAppend
      <4>3. QED
        BY <4>2
    <3>2. CASE k \in 1..(n + 1)
      <4> DEFINE v == InsertAt(t, k, x)
      <4>1. InsertAt(u, k, x) = Append(v, y) /\ v \in Seq(A)
        BY <3>2, InsertInAppend, WithOneMore
      <4>2. Keep(v, S) = Keep(Append(t, x), S)
        <5>1. Late(t, k)
          <6>1. \A p \in k..n : p \in k..Len(u) /\ u[p] = t[p]
            <7> HIDE DEF u
            <7>1. QED
              BY <2>0, <3>2
          <6>2. QED
            BY <6>1, <2>1
        <5>2. QED
          BY <5>1, <1>2, <3>2
      <4>3. Keep(Append(v, y), S) = IF y \in S THEN Append(Keep(v, S), y) ELSE Keep(v, S)
        <5> HIDE DEF v
        <5>1. QED
          BY <4>1, KeepOfAppend
      <4>4. /\ Keep(Append(t, x), S) = IF x \in S THEN Append(Keep(t, S), x) ELSE Keep(t, S)
            /\ Keep(u, S) = IF y \in S THEN Append(Keep(t, S), y) ELSE Keep(t, S)
        BY KeepOfAppend
      <4>5. Keep(Append(u, x), S) = IF x \in S THEN Append(Keep(u, S), x) ELSE Keep(u, S)
        <5> HIDE DEF u
        <5>1. QED
          BY <2>0, KeepOfAppend
      <4>6. x \in S => y \notin S
        <5>1. n + 1 \in k..Len(u)
          <6> HIDE DEF u
          <6>1. QED
            BY <2>0, <3>2
        <5>2. QED
          BY <5>1, <2>0, <2>1
      <4> HIDE DEF u, v
      <4>7. QED
        BY <4>1, <4>2, <4>3, <4>4, <4>5, <4>6
    <3>3. k = n + 2 \/ k \in 1..(n + 1)
      <4> HIDE DEF u
      <4>1. QED
        BY <2>0, <2>1
    <3>4. QED
      BY <3>1, <3>2, <3>3
  <2> HIDE DEF u, n, Late
  <2>2. u \in T
    BY <2>0, <2>1
  <2>3. QED
    BY <2>2 DEF u
<1>3. s \in T
  <2> HIDE DEF T
  <2>1. QED
    BY <1>1, <1>2, ByAppending
<1>4. Late(s, i)
  OBVIOUS
<1> HIDE DEF Late
<1>5. QED
  BY <1>3, <1>4

(* Moving an element up, past others of which none is kept when it is,     *)
(* changes neither the number of elements nor the order of those kept.     *)
LEMMA KeepOfLift ==
  ASSUME NEW A, NEW s \in Seq(A), NEW S, NEW from \in 1..Len(s), NEW to \in 1..from,
         s[from] \in S => \A p \in to..(from - 1) : s[p] \notin S
  PROVE  Keep(Lift(s, from, to), S) = Keep(s, S)
<1> DEFINE Past(t, f, k) == t[f] \in S => \A p \in k..(f - 1) : t[p] \notin S
           T == {t \in Seq(A) : \A f \in 1..Len(t) : \A k \in 1..f :
                   Past(t, f, k) => Keep(Lift(t, f, k), S) = Keep(t, S)}
<1>1. << >> \in T
  <2>1. << >> \in Seq(A) /\ Len(<< >>) = 0 /\ 1..Len(<< >>) = {}
    OBVIOUS
  <2> HIDE DEF Past
  <2>2. QED
    BY <2>1
<1>2. ASSUME NEW t \in Seq(A), NEW y \in A, t \in T PROVE Append(t, y) \in T
  <2> DEFINE u == Append(t, y)
             n == Len(t)
  <2>0. /\ n \in Nat /\ u \in Seq(A) /\ Len(u) = n + 1 /\ u[n + 1] = y
        /\ \A j \in 1..n : u[j] = t[j] /\ t[j] \in A
    BY AppendProperties
  <2>1. ASSUME NEW f \in 1..Len(u), NEW k \in 1..f, Past(u, f, k) PROVE Keep(Lift(u, f, k), S) = Keep(u, S)
    <3>1. CASE f = n + 1
      <4>1. RemoveAt(u, f) = t
        <5> DEFINE r == RemoveAt(u, f)
        <5>1. r \in Seq(A) /\ Len(r) = n /\ \A j \in 1..n : r[j] = IF j < f THEN u[j] ELSE u[j + 1]
          <6>1. f \in 1..Len(u) /\ Len(u) - 1 = n
            BY <2>0
          <6> HIDE DEF u, n
          <6>2. QED
            BY <6>1, <2>0, WithoutOne
        <5> HIDE DEF r, u
        <5>2. \A j \in 1..n : r[j] = t[j]
          BY <5>1, <2>0, <3>1
        <5>3. r = t
          BY <5>1, <5>2, <2>0, SeqEqual
        <5>4. QED
          BY <5>3 DEF r
      <4>2. u[f] = y /\ Lift(u, f, k) = InsertAt(t, k, y)
        BY <4>1, <2>0, <3>1 DEF Lift
      <4>3. k \in 1..(Len(t) + 1)
        BY <2>0, <3>1
      <4>4. y \in S => \A p \in k..Len(t) : t[p] \notin S
        <5>1. f - 1 = Len(t)
          BY <2>0, <3>1
        <5>2. \A p \in k..Len(t) : u[p] = t[p]
          <6> HIDE DEF u
          <6>1. QED
            BY <2>0, <4>3
        <5>3. QED
          BY <5>1, <5>2, <4>2, <2>1
      <4>5. Keep(InsertAt(t, k, y), S) = Keep(Append(t, y), S)
        BY <4>3, <4>4, KeepOfInsert
      <4>6. QED
        BY <4>2, <4>5
    <3>2. CASE f \in 1..n
      <4> DEFINE r == RemoveAt(t, f)
                 l == InsertAt(r, k, t[f])
      <4>1. RemoveAt(u, f) = Append(r, y) /\ r \in Seq(A) /\ Len(r) = n - 1
        <5> DEFINE a == RemoveAt(u, f)
                   b == Append(r, y)
        <5>1. r \in Seq(A) /\ Len(r) = n - 1 /\ \A j \in 1..(n - 1) : r[j] = IF j < f THEN t[j] ELSE t[j + 1]
          BY <3>2, WithoutOne
        <5>2. a \in Seq(A) /\ Len(a) = n /\ \A j \in 1..n : a[j] = IF j < f THEN u[j] ELSE u[j + 1]
          <6>1. f \in 1..Len(u) /\ Len(u) - 1 = n
            BY <2>0
          <6> HIDE DEF u, n
          <6>2. QED
            BY <6>1, <2>0, WithoutOne
        <5>3. b \in Seq(A) /\ Len(b) = n /\ b[n] = y /\ \A j \in 1..(n - 1) : b[j] = r[j]
          <6> HIDE DEF r
          <6>1. Len(r) + 1 = n
            BY <5>1, <2>0
          <6>2. QED
            BY <5>1, <6>1, AppendProperties
        <5>4. \A j \in 1..n : a[j] = b[j]
          <6> SUFFICES ASSUME NEW j \in 1..n PROVE a[j] = b[j]
            OBVIOUS
          <6> HIDE DEF a, b, r, u, n
          <6>1. CASE j = n
            BY <6>1, <5>2, <5>3, <2>0, <3>2
          <6>2. CASE j \in 1..(n - 1)
            BY <6>2, <5>1, <5>2, <5>3, <2>0
          <6>3. QED
            BY <6>1, <6>2, <2>0
        <5> HIDE DEF a, b, n
        <5>5. a = b
          BY <5>2, <5>3, <5>4, SeqEqual
        <5>6. QED
          BY <5>5, <5>1 DEF a, b
      <4>2. u[f] = t[f] /\ t[f] \in A
        BY <2>0, <3>2
      <4>3. InsertAt(Append(r, y), k, t[f]) = Append(l, y) /\ l \in Seq(A)
        <5>1. k \in 1..(Len(r) + 1)
          <6> HIDE DEF r
          <6>1. QED
            BY <4>1, <3>2, <2>0
        <5>2. PICK x \in A : x = t[f]
          BY <4>2
        <5> HIDE DEF r, u, n
        <5>3. InsertAt(Append(r, y), k, x) = Append(InsertAt(r, k, x), y)
          BY <5>1, <4>1, InsertInAppend
        <5>4. InsertAt(r, k, x) \in Seq(A)
          BY <5>1, <4>1, WithOneMore
        <5>5. QED
          BY <5>2, <5>3, <5>4
      <4>4. Lift(u, f, k) = Append(l, y) /\ Lift(t, f, k) = l
        BY <4>1, <4>2, <4>3 DEF Lift
      <4>5. Keep(l, S) = Keep(t, S)
        <5>1. Past(t, f, k)
          <6>1. \A p \in k..(f - 1) : u[p] = t[p]
            <7> HIDE DEF u
            <7>1. QED
              BY <2>0, <3>2
          <6>2. QED
            BY <6>1, <4>2, <2>1
        <5> HIDE DEF l, Past
        <5>2. QED
          BY <5>1, <4>4, <1>2, <3>2
      <4>6. Keep(Append(l, y), S) = IF y \in S THEN Append(Keep(l, S), y) ELSE Keep(l, S)
        <5> HIDE DEF l
        <5>1. QED
          BY <4>3, KeepOfAppend
      <4>7. Keep(u, S) = IF y \in S THEN Append(Keep(t, S), y) ELSE Keep(t, S)
        BY KeepOfAppend
      <4> HIDE DEF l, u
      <4>8. QED
        BY <4>4, <4>5, <4>6, <4>7
    <3>3. f = n + 1 \/ f \in 1..n
      <4> HIDE DEF u
      <4>1. QED
        BY <2>0
    <3>4. QED
      BY <3>1, <3>2, <3>3
  <2> HIDE DEF u, n, Past
  <2>2. u \in T
    BY <2>0, <2>1
  <2>3. QED
    BY <2>2 DEF u
<1>3. s \in T
  <2> HIDE DEF T
  <2>1. QED
    BY <1>1, <1>2, ByAppending
<1>4. Past(s, from, to)
  OBVIOUS
<1> HIDE DEF Past
<1>5. QED
  BY <1>3, <1>4

(* A row that is moved down by one has let the next one up.                *)
LEMMA Neighbours ==
  ASSUME NEW A, NEW s \in Seq(A), NEW p \in 1..(Len(s) - 1)
  PROVE  /\ InsertAt(RemoveAt(s, p), p + 1, s[p]) = Lift(s, p + 1, p)
         /\ Lift(s, p + 1, p)[p] = s[p + 1] /\ Lift(s, p + 1, p)[p + 1] = s[p]
         /\ \A q \in DOMAIN s : q # p /\ q # p + 1 => Lift(s, p + 1, p)[q] = s[q]
<1> DEFINE n == Len(s)
           a == RemoveAt(s, p)
           b == RemoveAt(s, p + 1)
           c == InsertAt(a, p + 1, s[p])
           d == InsertAt(b, p, s[p + 1])
<1>0. /\ n \in Nat /\ DOMAIN s = 1..n /\ p \in 1..n /\ p + 1 \in 1..n
      /\ s[p] \in A /\ s[p + 1] \in A
  OBVIOUS
<1>1. a \in Seq(A) /\ Len(a) = n - 1 /\ \A j \in 1..(n - 1) : a[j] = IF j < p THEN s[j] ELSE s[j + 1]
  BY <1>0, WithoutOne
<1>2. b \in Seq(A) /\ Len(b) = n - 1 /\ \A j \in 1..(n - 1) : b[j] = IF j < p + 1 THEN s[j] ELSE s[j + 1]
  BY <1>0, WithoutOne
<1>3. /\ c \in Seq(A) /\ Len(c) = n
      /\ \A j \in 1..n : c[j] = IF j < p + 1 THEN a[j] ELSE IF j = p + 1 THEN s[p] ELSE a[j - 1]
  <2> HIDE DEF a, n
  <2>1. p + 1 \in 1..(Len(a) + 1) /\ Len(a) + 1 = n
    BY <1>0, <1>1
  <2>2. QED
    BY <1>0, <1>1, <2>1, WithOneMore
<1>4. /\ d \in Seq(A) /\ Len(d) = n
      /\ \A j \in 1..n : d[j] = IF j < p THEN b[j] ELSE IF j = p THEN s[p + 1] ELSE b[j - 1]
  <2> HIDE DEF b, n
  <2>1. p \in 1..(Len(b) + 1) /\ Len(b) + 1 = n
    BY <1>0, <1>2
  <2>2. PICK x \in A : x = s[p + 1]
    BY <1>0
  <2>3. /\ InsertAt(b, p, x) \in Seq(A) /\ Len(InsertAt(b, p, x)) = Len(b) + 1
        /\ \A j \in 1..(Len(b) + 1) :
             InsertAt(b, p, x)[j] = IF j < p THEN b[j] ELSE IF j = p THEN x ELSE b[j - 1]
    <3>1. b \in Seq(A) /\ p \in 1..(Len(b) + 1)
      BY <1>2, <2>1
    <3>2. QED
      BY <3>1, WithOneMore
  <2>4. QED
    BY <2>1, <2>2, <2>3
<1>5. ASSUME NEW j \in 1..n
      PROVE  LET x == IF j = p THEN s[p + 1] ELSE IF j = p + 1 THEN s[p] ELSE s[j]
             IN  c[j] = x /\ d[j] = x
  <2> HIDE DEF a, b, c, d, n
  <2>1. CASE j < p
    <3>1. j \in 1..(n - 1) /\ j < p + 1 /\ j # p /\ j # p + 1
      BY <1>0, <2>1
    <3>2. QED
      BY <3>1, <2>1, <1>1, <1>2, <1>3, <1>4
  <2>2. CASE j = p
    <3>1. j \in 1..(n - 1) /\ j < p + 1 /\ ~(j < p)
      BY <1>0, <2>2
    <3>2. QED
      BY <3>1, <2>2, <1>1, <1>2, <1>3, <1>4
  <2>3. CASE j = p + 1
    <3>1. /\ p \in 1..(n - 1) /\ ~(j < p + 1) /\ ~(j < p) /\ j # p /\ j - 1 = p /\ p < p + 1
          /\ ~(p < p) /\ p + 1 # p
      BY <1>0, <2>3
    <3>2. b[p] = s[p]
      BY <3>1, <1>2
    <3>3. c[j] = s[p]
      BY <3>1, <2>3, <1>3
    <3>4. d[j] = b[p]
      BY <3>1, <2>3, <1>4
    <3>5. QED
      BY <3>1, <3>2, <3>3, <3>4, <2>3
  <2>4. CASE j > p + 1
    <3>1. j - 1 \in 1..(n - 1) /\ ~(j < p + 1) /\ ~(j < p) /\ j # p /\ j # p + 1
          /\ ~(j - 1 < p) /\ ~(j - 1 < p + 1) /\ (j - 1) + 1 = j
      BY <1>0, <2>4
    <3>2. QED
      BY <3>1, <1>1, <1>2, <1>3, <1>4
  <2>5. QED
    BY <2>1, <2>2, <2>3, <2>4, <1>0
<1>6. c = d
  <2> HIDE DEF c, d, n
  <2>1. \A j \in 1..n : c[j] = d[j]
    BY <1>5
  <2>2. QED
    BY <2>1, <1>3, <1>4, SeqEqual
<1>7. Lift(s, p + 1, p) = d
  BY DEF Lift
<1>8. p # p + 1
  BY <1>0
<1> HIDE DEF c, d, n
<1>9. d[p] = s[p + 1] /\ d[p + 1] = s[p] /\ \A q \in DOMAIN s : q # p /\ q # p + 1 => d[q] = s[q]
  BY <1>0, <1>5, <1>8
<1>10. QED
  BY <1>6, <1>7, <1>9 DEF c

-----------------------------------------------------------------------------
(* The buttons that move and delete.                                       *)

(* What a button has to keep: the items, each of them once.                *)
Kept(s, I) == Sane(s, I) /\ Range(s.list) = Range(list) /\ Len(s.list) = Len(list)

(* Rows below the selected items that have been moved are as they were.    *)
Below(s, r, i) == \A p \in DOMAIN list : (\A j \in 1..i : r[j] < p) => s.list[p] = list[p]
(* So are, in the other direction, the rows above them.                    *)
Above(s, r, j) == \A p \in DOMAIN list : (\A m \in (Len(Picked) - j + 1)..Len(Picked) : p < r[m]) => s.list[p] = list[p]

Orderly(s) == SameOrder(list, s.list, selected) /\ SameOrder(list, s.list, Range(list) \ selected)

(* Moving an item keeps what a button has to keep.                         *)
LEMMA MovedIsKept ==
  ASSUME NEW I, list \in Seq(I), NEW s, Kept(s, I), NEW from \in DOMAIN list, NEW to \in Nat \ {0}
  PROVE  /\ Kept(Moved(s, from, to), I)
         /\ Moved(s, from, to).list =
              InsertAt(RemoveAt(s.list, from), IF to > Len(list) THEN Len(list) ELSE to, s.list[from])
<1>1. /\ s.list \in Seq(I) /\ DOMAIN s.list = 1..Len(s.list) /\ DOMAIN list = 1..Len(list)
      /\ Len(s.list) = Len(list) /\ Len(list) \in Nat
      /\ from \in DOMAIN s.list /\ s.list[from] \in I
  BY DEF Kept, Sane, Widget
<1>2. /\ Sane(Moved(s, from, to), I) /\ Range(Moved(s, from, to).list) = Range(s.list)
      /\ Moved(s, from, to).list =
           InsertAt(RemoveAt(s.list, from), IF to > Len(list) THEN Len(list) ELSE to, s.list[from])
  BY <1>1, MovedIsSane DEF Kept
<1> DEFINE k == IF to > Len(list) THEN Len(list) ELSE to
           q == RemoveAt(s.list, from)
<1>3. q \in Seq(I) /\ Len(q) = Len(list) - 1
  BY <1>1, WithoutOne
<1>4. k \in 1..(Len(q) + 1)
  <2> HIDE DEF q
  <2>1. QED
    BY <1>1, <1>3
<1>5. Len(InsertAt(q, k, s.list[from])) = Len(list)
  <2>1. PICK x \in I : x = s.list[from]
    BY <1>1
  <2> HIDE DEF q, k
  <2>2. Len(InsertAt(q, k, x)) = Len(q) + 1
    BY <1>3, <1>4, WithOneMore
  <2>3. QED
    BY <1>1, <1>3, <2>1, <2>2
<1>6. QED
  BY <1>2, <1>5 DEF Kept

(* The rows of the selected items, and what there is between them.         *)
LEMMA PlacesOfPicked ==
  ASSUME NEW I, Sane(Here, I)
  PROVE  /\ list \in Seq(I) /\ Unequal(list) /\ DOMAIN list = 1..Len(list) /\ Len(list) \in Nat
         /\ Picked \in Seq(I) /\ Len(Picked) \in Nat /\ Range(Picked) = selected
         /\ Here \in Widget(I) /\ Here.list = list /\ selected \subseteq Range(list)
         /\ \E r : Places(list, selected, r)
<1>1. Here.list = list /\ Here.selected = selected
  BY DEF Here
<1>2. list \in Seq(I) /\ Unequal(list) /\ selected \subseteq Range(list) /\ Here \in Widget(I)
  BY <1>1 DEF Sane, Widget
<1>3. Picked \in Seq(I) /\ Range(Picked) = Range(list) \cap selected
  BY <1>2, RangeOfKeep DEF Picked
<1>4. \E r : Places(list, selected, r)
  BY <1>2, KeepHasPlaces
<1>5. QED
  BY <1>1, <1>2, <1>3, <1>4

(* What holds of rows: there are as many as selected items, they hold the  *)
(* selected items in their order, and no others do.                        *)
LEMMA RowsOfPicked ==
  ASSUME NEW I, Sane(Here, I), NEW r, Places(list, selected, r)
  PROVE  /\ \A i \in 1..Len(Picked) : r[i] \in 1..Len(list) /\ Picked[i] = list[r[i]] /\ list[r[i]] \in selected
         /\ \A i \in 1..Len(Picked) : i <= r[i] /\ r[i] - i <= Len(list) - Len(Picked)
         /\ \A i, j \in 1..Len(Picked) : i < j => r[i] < r[j]
         /\ \A p \in 1..Len(list) : list[p] \in selected => \E i \in 1..Len(Picked) : r[i] = p
         /\ Orderly(Here) /\ Kept(Here, I)
<1>1. DOMAIN list = 1..Len(list) /\ Here.list = list
  BY PlacesOfPicked
<1>2. Orderly(Here) /\ Kept(Here, I)
  BY <1>1 DEF Orderly, SameOrder, Kept
<1>3. QED
  BY <1>1, <1>2 DEF Places, Picked

(* A lifted item stays in order when it is the only one of its kind among  *)
(* those it passes.                                                        *)
LEMMA LiftIsOrderly ==
  ASSUME NEW I, Sane(Here, I), NEW s, Kept(s, I), Orderly(s),
         NEW from \in 1..Len(list), NEW to \in 1..from,
         \/ s.list[from] \in selected /\ \A p \in to..(from - 1) : s.list[p] \notin selected
         \/ s.list[from] \notin selected /\ \A p \in to..(from - 1) : s.list[p] \in selected
  PROVE  SameOrder(list, Lift(s.list, from, to), selected)
         /\ SameOrder(list, Lift(s.list, from, to), Range(list) \ selected)
<1>1. s.list \in Seq(I) /\ Len(s.list) = Len(list)
  BY DEF Kept, Sane, Widget
<1>2. s.list[from] \in selected => \A p \in to..(from - 1) : s.list[p] \notin selected
  OBVIOUS
<1>3. s.list[from] \in Range(list) \ selected => \A p \in to..(from - 1) : s.list[p] \notin Range(list) \ selected
  OBVIOUS
<1>4. from \in 1..Len(s.list)
  BY <1>1
<1>5. Keep(Lift(s.list, from, to), selected) = Keep(s.list, selected)
  BY <1>1, <1>2, <1>4, KeepOfLift
<1>6. Keep(Lift(s.list, from, to), Range(list) \ selected) = Keep(s.list, Range(list) \ selected)
  BY <1>1, <1>3, <1>4, KeepOfLift
<1>7. QED
  BY <1>5, <1>6 DEF Orderly, SameOrder

(* slotUp() loses no item, and keeps the order of the selected items and   *)
(* of the others.                                                          *)
LEMMA UpIsOrderly ==
  ASSUME NEW I, Sane(Here, I)
  PROVE  Kept(OneByOne("up", Here), I) /\ Orderly(OneByOne("up", Here))
<1>0. /\ list \in Seq(I) /\ DOMAIN list = 1..Len(list) /\ Len(list) \in Nat /\ Len(Picked) \in Nat
      /\ Here \in Widget(I) /\ Here.list = list
  BY PlacesOfPicked
<1>1. PICK r : Places(list, selected, r)
  BY PlacesOfPicked
<1> DEFINE n == Len(list)
           k == Len(Picked)
           Left(s, i) == i # 0 => r[i] = i \/ s.list[r[i]] \notin selected
           Good == [i \in 0..k |-> {s \in Widget(I) :
                      Kept(s, I) /\ Orderly(s) /\ Below(s, r, i) /\ Left(s, i)}]
<1>2. /\ \A i \in 1..k : r[i] \in 1..n /\ Picked[i] = list[r[i]] /\ list[r[i]] \in selected
      /\ \A i \in 1..k : i <= r[i]
      /\ \A i, j \in 1..k : i < j => r[i] < r[j]
      /\ \A p \in 1..n : list[p] \in selected => \E i \in 1..k : r[i] = p
      /\ Orderly(Here) /\ Kept(Here, I)
  BY <1>1, RowsOfPicked
<1>3. Here \in Good[0]
  BY <1>0, <1>2 DEF Below
<1>4. ASSUME NEW i \in 1..k, NEW s \in Good[i - 1] PROVE Step("up", s, i) \in Good[i]
  <2> DEFINE row == Row(s, Picked[i])
  <2>0. i - 1 \in 0..k /\ i \in 0..k
    BY <1>0
  <2>1. s \in Widget(I) /\ Kept(s, I) /\ Orderly(s) /\ Below(s, r, i - 1) /\ Left(s, i - 1)
    BY <2>0, <1>4
  <2>2. /\ s.list \in Seq(I) /\ Unequal(s.list) /\ Len(s.list) = n /\ DOMAIN s.list = 1..n
    BY <2>1 DEF Kept, Sane, Widget
  <2>3. r[i] \in 1..n /\ i <= r[i] /\ \A j \in 1..(i - 1) : r[j] < r[i]
    <3>1. \A j \in 1..(i - 1) : j \in 1..k /\ j < i
      BY <1>0
    <3>2. QED
      BY <3>1, <1>2
  <2>4. s.list[r[i]] = Picked[i] /\ s.list[r[i]] \in selected
    BY <2>1, <2>3, <1>0, <1>2 DEF Below
  <2>5. row = r[i]
    BY <2>2, <2>3, <2>4, RowIsPlace
  <2>6. Step("up", s, i) = IF row = i THEN s ELSE Moved(s, row - 1, row)
    BY DEF Step, OneUp
  <2>7. CASE row = i
    <3>1. Below(s, r, i)
      BY <2>1 DEF Below
    <3>2. QED
      BY <2>0, <2>1, <2>5, <2>6, <2>7, <3>1
  <2>8. CASE row # i
    <3> DEFINE q == r[i] - 1
               t == Moved(s, q, q + 1)
    <3>1. q \in 1..(n - 1) /\ q + 1 = r[i] /\ q \in 1..n /\ q + 1 \in 1..n /\ q + 1 \in Nat \ {0}
      BY <1>0, <2>3, <2>5, <2>8
    <3>2. Kept(t, I) /\ t.list = InsertAt(RemoveAt(s.list, q), q + 1, s.list[q])
      <4>1. ~(q + 1 > Len(list)) /\ list \in Seq(I) /\ q \in DOMAIN list
        BY <3>1, <1>0
      <4>2. Kept(s, I) /\ q + 1 \in Nat \ {0}
        BY <2>1, <3>1
      <4> HIDE DEF q
      <4>3. QED
        BY <4>1, <4>2, MovedIsKept
    <3>3. /\ t.list = Lift(s.list, q + 1, q) /\ t.list[q + 1] = s.list[q]
          /\ \A p \in DOMAIN list : p # q /\ p # q + 1 => t.list[p] = s.list[p]
      <4> HIDE DEF q, t
      <4>1. QED
        BY <3>1, <3>2, <2>2, <1>0, Neighbours
    <3>4. s.list[q] \notin selected
      <4>1. CASE \E j \in 1..(i - 1) : r[j] = q
        <5>1. PICK j \in 1..(i - 1) : r[j] = q
          BY <4>1
        <5>2. j = i - 1
          <6>1. j < i - 1 => i - 1 \in 1..k /\ j \in 1..k /\ i \in 1..k /\ i - 1 < i
            BY <1>0
          <6>2. j < i - 1 => r[j] < r[i - 1] /\ r[i - 1] < r[i]
            BY <6>1, <1>2
          <6>3. ~(j < i - 1)
            <7>1. SUFFICES ASSUME j < i - 1 PROVE FALSE
              OBVIOUS
            <7>2. r[i - 1] \in Int /\ r[j] < r[i - 1] /\ r[i - 1] < r[i]
              BY <7>1, <6>1, <6>2, <1>2
            <7>3. QED
              BY <7>2, <5>1, <3>1, <2>3
          <6>4. QED
            BY <6>3, <1>0
        <5>3. r[i - 1] # i - 1
          BY <5>1, <5>2, <2>5, <2>8, <3>1
        <5>4. QED
          BY <5>1, <5>2, <5>3, <2>1
      <4>2. CASE \A j \in 1..(i - 1) : r[j] # q
        <5>1. \A j \in 1..(i - 1) : r[j] < q
          <6>1. \A j \in 1..(i - 1) : j \in 1..k
            BY <1>0
          <6>2. \A j \in 1..(i - 1) : r[j] \in 1..n
            BY <6>1, <1>2
          <6>3. QED
            BY <6>2, <4>2, <2>3, <3>1
        <5>2. s.list[q] = list[q]
          BY <5>1, <2>1, <3>1, <1>0 DEF Below
        <5>3. list[q] \notin selected
          <6>1. SUFFICES ASSUME list[q] \in selected PROVE FALSE
            OBVIOUS
          <6>2. PICK j \in 1..k : r[j] = q
            BY <6>1, <3>1, <1>2
          <6>3. j \in 1..(i - 1) \/ j = i \/ i < j
            BY <1>0
          <6>4. i < j => r[i] < r[j]
            BY <1>2
          <6>5. QED
            BY <6>2, <6>3, <6>4, <4>2, <3>1, <2>3
        <5>4. QED
          BY <5>2, <5>3
      <4>3. QED
        BY <4>1, <4>2
    <3>5. Orderly(t)
      <4>1. \A p \in q..((q + 1) - 1) : p = q
        BY <3>1, <1>0
      <4>2. q \in 1..(q + 1)
        BY <3>1
      <4> HIDE DEF q, t
      <4>3. SameOrder(list, Lift(s.list, q + 1, q), selected)
            /\ SameOrder(list, Lift(s.list, q + 1, q), Range(list) \ selected)
        BY <4>1, <4>2, <2>1, <2>4, <3>1, <3>4, LiftIsOrderly
      <4>4. QED
        BY <4>3, <3>3 DEF Orderly
    <3>6. Below(t, r, i)
      <4> SUFFICES ASSUME NEW p \in DOMAIN list, \A j \in 1..i : r[j] < p PROVE t.list[p] = list[p]
        BY DEF Below
      <4>1. r[i] < p /\ \A j \in 1..(i - 1) : r[j] < p
        BY <1>0
      <4>2. p # q /\ p # q + 1
        BY <4>1, <3>1, <1>0
      <4> HIDE DEF t, q
      <4>3. QED
        BY <4>1, <4>2, <3>3, <2>1 DEF Below
    <3>7. t.list[r[i]] \notin selected
      BY <3>1, <3>3, <3>4
    <3>8. t \in Widget(I)
      BY <3>2 DEF Kept, Sane
    <3>9. Step("up", s, i) = t
      <4>1. row - 1 = q /\ row = q + 1
        BY <2>5, <3>1
      <4>2. QED
        BY <4>1, <2>6, <2>8
    <3> HIDE DEF t, q
    <3>10. QED
      BY <2>0, <3>2, <3>5, <3>6, <3>7, <3>8, <3>9
  <2>9. QED
    BY <2>7, <2>8
<1>5. OneByOne("up", Here) \in Good[k]
  <2> HIDE DEF Good
  <2>1. QED
    BY <1>0, <1>3, <1>4, StepsEndGood
<1>6. k \in 0..k
  BY <1>0
<1>7. QED
  BY <1>5, <1>6

(* slotTop() loses no item, and keeps the order of the selected items and  *)
(* of the others.                                                          *)
LEMMA TopIsOrderly ==
  ASSUME NEW I, Sane(Here, I)
  PROVE  Kept(OneByOne("top", Here), I) /\ Orderly(OneByOne("top", Here))
<1>0. /\ list \in Seq(I) /\ DOMAIN list = 1..Len(list) /\ Len(list) \in Nat /\ Len(Picked) \in Nat
      /\ Here \in Widget(I) /\ Here.list = list
  BY PlacesOfPicked
<1>1. PICK r : Places(list, selected, r)
  BY PlacesOfPicked
<1> DEFINE n == Len(list)
           k == Len(Picked)
           Passed(s, i) == \A p \in 1..n : i < p /\ (\E j \in 1..i : p <= r[j]) => s.list[p] \notin selected
           Good == [i \in 0..k |-> {s \in Widget(I) :
                      Kept(s, I) /\ Orderly(s) /\ Below(s, r, i) /\ Passed(s, i)}]
<1>2. /\ \A i \in 1..k : r[i] \in 1..n /\ Picked[i] = list[r[i]] /\ list[r[i]] \in selected
      /\ \A i \in 1..k : i <= r[i]
      /\ \A i, j \in 1..k : i < j => r[i] < r[j]
      /\ \A p \in 1..n : list[p] \in selected => \E i \in 1..k : r[i] = p
      /\ Orderly(Here) /\ Kept(Here, I)
  BY <1>1, RowsOfPicked
<1>3. Here \in Good[0]
  BY <1>0, <1>2 DEF Below
<1>4. ASSUME NEW i \in 1..k, NEW s \in Good[i - 1] PROVE Step("top", s, i) \in Good[i]
  <2> DEFINE row == Row(s, Picked[i])
  <2>0. i - 1 \in 0..k /\ i \in 0..k
    BY <1>0
  <2>1. s \in Widget(I) /\ Kept(s, I) /\ Orderly(s) /\ Below(s, r, i - 1) /\ Passed(s, i - 1)
    BY <2>0, <1>4
  <2>2. /\ s.list \in Seq(I) /\ Unequal(s.list) /\ Len(s.list) = n /\ DOMAIN s.list = 1..n
    BY <2>1 DEF Kept, Sane, Widget
  <2>3. r[i] \in 1..n /\ i <= r[i] /\ \A j \in 1..(i - 1) : r[j] \in 1..n /\ r[j] < r[i]
    <3>1. \A j \in 1..(i - 1) : j \in 1..k /\ j < i
      BY <1>0
    <3>2. QED
      BY <3>1, <1>2
  <2>4. s.list[r[i]] = Picked[i] /\ s.list[r[i]] \in selected
    BY <2>1, <2>3, <1>0, <1>2 DEF Below
  <2>5. row = r[i]
    BY <2>2, <2>3, <2>4, RowIsPlace
  <2>6. Step("top", s, i) = IF row = i THEN s ELSE Moved(s, row, i)
    BY DEF Step, ToTop
  <2>7. \A j \in 1..i : r[j] <= r[i] /\ r[j] \in 1..n
    <3> SUFFICES ASSUME NEW j \in 1..i PROVE r[j] <= r[i] /\ r[j] \in 1..n
      OBVIOUS
    <3>1. j = i \/ j \in 1..(i - 1)
      OBVIOUS
    <3>2. QED
      BY <3>1, <2>3
  <2>8. ASSUME NEW p \in 1..n, i <= p, p < r[i] PROVE s.list[p] \notin selected
    <3>1. CASE \E j \in 1..(i - 1) : p <= r[j]
      <4>1. i - 1 < p
        BY <2>8
      <4>2. QED
        BY <3>1, <4>1, <2>1
    <3>2. CASE \A j \in 1..(i - 1) : ~(p <= r[j])
      <4>1. \A j \in 1..(i - 1) : r[j] < p
        BY <3>2, <2>3
      <4>2. s.list[p] = list[p]
        BY <4>1, <2>1, <1>0 DEF Below
      <4>3. list[p] \notin selected
        <5>1. SUFFICES ASSUME list[p] \in selected PROVE FALSE
          OBVIOUS
        <5>2. PICK j \in 1..k : r[j] = p
          BY <5>1, <1>2
        <5>3. j \in 1..(i - 1) \/ j = i \/ i < j
          BY <1>0
        <5>4. i < j => r[i] < r[j]
          BY <1>2
        <5>5. QED
          BY <5>2, <5>3, <5>4, <4>1, <2>3, <2>8
      <4>4. QED
        BY <4>2, <4>3
    <3>3. QED
      BY <3>1, <3>2
  <2>9. CASE row = i
    <3>1. Below(s, r, i)
      BY <2>1 DEF Below
    <3>2. Passed(s, i)
      BY <2>5, <2>7, <2>9
    <3>3. QED
      BY <2>0, <2>1, <2>6, <2>9, <3>1, <3>2
  <2>10. CASE row # i
    <3> DEFINE q == r[i]
               t == Moved(s, q, i)
    <3>1. q \in 1..n /\ q \in DOMAIN list /\ i \in Nat \ {0} /\ i \in 1..q /\ ~(i > n) /\ i \in 1..n
      BY <1>0, <2>3
    <3>2. Kept(t, I) /\ t.list = Lift(s.list, q, i)
      <4> HIDE DEF q
      <4>1. QED
        BY <3>1, <2>1, <1>0, MovedIsKept DEF Lift
    <3>3. \A p \in 1..n : t.list[p] = IF p < i THEN s.list[p] ELSE IF p = i THEN s.list[q]
                                      ELSE IF p <= q THEN s.list[p - 1] ELSE s.list[p]
      <4> DEFINE a == RemoveAt(s.list, q)
                 b == InsertAt(a, i, s.list[q])
      <4>1. a \in Seq(I) /\ Len(a) = n - 1
            /\ \A p \in 1..(n - 1) : a[p] = IF p < q THEN s.list[p] ELSE s.list[p + 1]
        <5>1. q \in 1..Len(s.list)
          BY <2>2, <3>1
        <5> HIDE DEF q, n
        <5>2. QED
          BY <2>2, <5>1, WithoutOne
      <4>2. \A p \in 1..n : b[p] = IF p < i THEN a[p] ELSE IF p = i THEN s.list[q] ELSE a[p - 1]
        <5>1. i \in 1..(Len(a) + 1) /\ Len(a) + 1 = n
          <6> HIDE DEF a
          <6>1. QED
            BY <4>1, <3>1, <1>0
        <5>2. PICK x \in I : x = s.list[q]
          BY <2>2, <3>1
        <5> HIDE DEF a
        <5>3. \A p \in 1..(Len(a) + 1) : InsertAt(a, i, x)[p] = IF p < i THEN a[p] ELSE IF p = i THEN x ELSE a[p - 1]
          BY <4>1, <5>1, WithOneMore
        <5>4. QED
          BY <5>1, <5>2, <5>3
      <4>3. t.list = b
        BY <3>2 DEF Lift
      <4> HIDE DEF a, b, q, t
      <4>4. ASSUME NEW p \in 1..n
            PROVE t.list[p] = IF p < i THEN s.list[p] ELSE IF p = i THEN s.list[q]
                              ELSE IF p <= q THEN s.list[p - 1] ELSE s.list[p]
        <5>1. CASE p < i
          <6>1. p \in 1..(n - 1) /\ p < q
            BY <5>1, <3>1, <1>0
          <6>2. QED
            BY <5>1, <6>1, <4>1, <4>2, <4>3
        <5>2. CASE p = i
          BY <5>2, <4>2, <4>3
        <5>3. CASE i < p
          <6>1. p - 1 \in 1..(n - 1) /\ (p - 1 < q <=> p <= q) /\ (p - 1) + 1 = p /\ ~(p < i) /\ p # i
            BY <5>3, <3>1, <1>0
          <6>2. t.list[p] = a[p - 1]
            BY <6>1, <4>2, <4>3
          <6>3. QED
            BY <6>1, <6>2, <4>1
        <5>4. QED
          BY <5>1, <5>2, <5>3, <3>1
      <4>5. QED
        BY <4>4
    <3>4. Orderly(t)
      <4>1. \A p \in i..(q - 1) : s.list[p] \notin selected
        <5> SUFFICES ASSUME NEW p \in i..(q - 1) PROVE s.list[p] \notin selected
          OBVIOUS
        <5>1. p \in 1..n /\ i <= p /\ p < r[i]
          BY <3>1, <1>0
        <5>2. QED
          BY <5>1, <2>8
      <4>2. s.list[q] \in selected
        BY <2>4
      <4> HIDE DEF q, t
      <4>3. SameOrder(list, Lift(s.list, q, i), selected)
            /\ SameOrder(list, Lift(s.list, q, i), Range(list) \ selected)
        BY <4>1, <4>2, <2>1, <3>1, LiftIsOrderly
      <4>4. QED
        BY <4>3, <3>2 DEF Orderly
    <3>5. Below(t, r, i)
      <4> SUFFICES ASSUME NEW p \in DOMAIN list, \A j \in 1..i : r[j] < p PROVE t.list[p] = list[p]
        BY DEF Below
      <4>1. q < p /\ \A j \in 1..(i - 1) : r[j] < p
        BY <1>0
      <4>2. p \in 1..n /\ ~(p < i) /\ p # i /\ ~(p <= q)
        BY <4>1, <3>1, <1>0
      <4> HIDE DEF t, q
      <4>3. QED
        BY <4>1, <4>2, <3>3, <2>1 DEF Below
    <3>6. Passed(t, i)
      <4> SUFFICES ASSUME NEW p \in 1..n, i < p, \E j \in 1..i : p <= r[j] PROVE t.list[p] \notin selected
        OBVIOUS
      <4>1. p <= q
        BY <2>7, <3>1
      <4>2. p - 1 \in 1..n /\ i <= p - 1 /\ p - 1 < q /\ ~(p < i) /\ p # i
        BY <4>1, <3>1, <1>0
      <4>3. s.list[p - 1] \notin selected
        BY <4>2, <2>8
      <4> HIDE DEF t, q
      <4>4. QED
        BY <4>1, <4>2, <4>3, <3>3
    <3>7. t \in Widget(I)
      BY <3>2 DEF Kept, Sane
    <3>8. Step("top", s, i) = t
      BY <2>5, <2>6, <2>10
    <3> HIDE DEF t, q
    <3>9. QED
      BY <2>0, <3>2, <3>4, <3>5, <3>6, <3>7, <3>8
  <2>11. QED
    BY <2>9, <2>10
<1>5. OneByOne("top", Here) \in Good[k]
  <2> HIDE DEF Good
  <2>1. QED
    BY <1>0, <1>3, <1>4, StepsEndGood
<1>6. k \in 0..k
  BY <1>0
<1>7. QED
  BY <1>5, <1>6

(* slotDown() loses no item, and keeps the order of the selected items and *)
(* of the others.                                                          *)
LEMMA DownIsOrderly ==
  ASSUME NEW I, Sane(Here, I)
  PROVE  Kept(OneByOne("down", Here), I) /\ Orderly(OneByOne("down", Here))
<1>0. /\ list \in Seq(I) /\ DOMAIN list = 1..Len(list) /\ Len(list) \in Nat /\ Len(Picked) \in Nat
      /\ Here \in Widget(I) /\ Here.list = list
  BY PlacesOfPicked
<1>1. PICK r : Places(list, selected, r)
  BY PlacesOfPicked
<1> DEFINE n == Len(list)
           k == Len(Picked)
           Left(s, j) == j # 0 => r[k - j + 1] = n - j + 1 \/ s.list[r[k - j + 1]] \notin selected
           Good == [j \in 0..k |-> {s \in Widget(I) :
                      Kept(s, I) /\ Orderly(s) /\ Above(s, r, j) /\ Left(s, j)}]
<1>2. /\ \A i \in 1..k : r[i] \in 1..n /\ Picked[i] = list[r[i]] /\ list[r[i]] \in selected
      /\ \A i \in 1..k : r[i] - i <= n - k
      /\ \A i, j \in 1..k : i < j => r[i] < r[j]
      /\ \A p \in 1..n : list[p] \in selected => \E i \in 1..k : r[i] = p
      /\ Orderly(Here) /\ Kept(Here, I)
  BY <1>1, RowsOfPicked
<1>3. Here \in Good[0]
  BY <1>0, <1>2 DEF Above
<1>4. ASSUME NEW j \in 1..k, NEW s \in Good[j - 1] PROVE Step("down", s, j) \in Good[j]
  <2> DEFINE i == k - j + 1
             row == Row(s, Picked[i])
             last == n - j + 1
  <2>0. j - 1 \in 0..k /\ j \in 0..k /\ i \in 1..k /\ k - (j - 1) + 1 = i + 1 /\ n - (j - 1) + 1 = last + 1
    BY <1>0
  <2>1. s \in Widget(I) /\ Kept(s, I) /\ Orderly(s) /\ Above(s, r, j - 1) /\ Left(s, j - 1)
    BY <2>0, <1>4
  <2>2. /\ s.list \in Seq(I) /\ Unequal(s.list) /\ Len(s.list) = n /\ DOMAIN s.list = 1..n
    BY <2>1 DEF Kept, Sane, Widget
  <2>3. r[i] \in 1..n /\ r[i] <= last /\ \A m \in (i + 1)..k : r[m] \in 1..n /\ r[i] < r[m]
    <3>1. \A m \in (i + 1)..k : m \in 1..k /\ i < m
      BY <2>0
    <3> HIDE DEF i
    <3>2. r[i] \in 1..n /\ r[i] - i <= n - k /\ \A m \in (i + 1)..k : r[m] \in 1..n /\ r[i] < r[m]
      BY <3>1, <2>0, <1>2
    <3>3. r[i] <= last
      BY <3>2, <1>0 DEF i
    <3>4. QED
      BY <3>2, <3>3
  <2>A. \A p \in 1..n : (\A m \in (i + 1)..k : p < r[m]) => s.list[p] = list[p]
    BY <2>0, <2>1, <1>0 DEF Above
  <2>4. s.list[r[i]] = Picked[i] /\ s.list[r[i]] \in selected
    <3> HIDE DEF i
    <3>1. QED
      BY <2>A, <2>0, <2>3, <1>2
  <2>5. row = r[i]
    <3> HIDE DEF i
    <3>1. QED
      BY <2>2, <2>3, <2>4, RowIsPlace
  <2>6. Step("down", s, j) = IF row = last THEN s ELSE Moved(s, row + 1, row)
    BY DEF Step, OneDown
  <2>B. ASSUME NEW t, \A p \in 1..n : (\A m \in i..k : p < r[m]) => t.list[p] = list[p]
        PROVE  Above(t, r, j)
    BY <2>B, <1>0 DEF Above
  <2>7. CASE row = last
    <3>1. Above(s, r, j)
      <4>1. \A m \in (i + 1)..k : m \in i..k
        BY <2>0
      <4>2. QED
        BY <4>1, <2>A, <2>B
    <3>2. Left(s, j)
      BY <2>5, <2>7
    <3>3. QED
      BY <2>0, <2>1, <2>6, <2>7, <3>1, <3>2
  <2>8. CASE row # last
    <3> DEFINE q == r[i]
               t == Moved(s, q + 1, q)
    <3>1. q \in 1..(n - 1) /\ q \in 1..n /\ q + 1 \in 1..n /\ q \in Nat \ {0} /\ q + 1 \in Nat
      <4>1. last <= n
        BY <1>0
      <4>2. q \in 1..n /\ q <= last /\ q # last
        BY <2>3, <2>5, <2>8
      <4>3. last \in Int /\ n \in Nat
        BY <1>0
      <4> HIDE DEF q, last, n
      <4>4. QED
        BY <4>1, <4>2, <4>3
    <3>2. Kept(t, I) /\ t.list = Lift(s.list, q + 1, q)
      <4>1. ~(q > Len(list)) /\ list \in Seq(I) /\ q + 1 \in DOMAIN list
        BY <3>1, <1>0
      <4>2. Kept(s, I) /\ q \in Nat \ {0}
        BY <2>1, <3>1
      <4> HIDE DEF q
      <4>3. Kept(t, I) /\ t.list = InsertAt(RemoveAt(s.list, q + 1), q, s.list[q + 1])
        BY <4>1, <4>2, MovedIsKept
      <4>4. QED
        BY <4>3 DEF Lift
    <3>3. /\ t.list[q] = s.list[q + 1] /\ \A p \in DOMAIN list : p # q /\ p # q + 1 => t.list[p] = s.list[p]
      <4> HIDE DEF q, t
      <4>1. QED
        BY <3>1, <3>2, <2>2, <1>0, Neighbours
    <3>4. s.list[q + 1] \notin selected
      <4>1. CASE \E m \in (i + 1)..k : r[m] = q + 1
        <5>1. PICK m \in (i + 1)..k : r[m] = q + 1
          BY <4>1
        <5>2. m = i + 1
          <6>1. i + 1 < m => i + 1 \in 1..k /\ m \in 1..k /\ i < i + 1
            BY <2>0
          <6>2. ~(i + 1 < m)
            <7>1. SUFFICES ASSUME i + 1 < m PROVE FALSE
              OBVIOUS
            <7>2. r[i + 1] < r[m] /\ r[i] < r[i + 1] /\ r[i + 1] \in 1..n
              <8> HIDE DEF i
              <8>1. QED
                BY <7>1, <6>1, <2>0, <1>2
            <7> HIDE DEF i
            <7>3. QED
              BY <7>2, <5>1, <3>1, <2>3
          <6>3. QED
            BY <6>2, <2>0
        <5>3. r[i + 1] # last + 1 /\ j - 1 # 0
          <6>1. r[i + 1] # last + 1
            <7>1. q # last /\ q + 1 = r[i + 1] /\ q \in Int /\ last \in Int
              BY <5>1, <5>2, <2>5, <2>8, <3>1, <1>0
            <7> HIDE DEF q, last, i
            <7>2. QED
              BY <7>1
          <6>2. i < k
            <7> HIDE DEF i
            <7>1. QED
              BY <2>0
          <6>3. j # 1
            BY <6>2, <1>0
          <6>4. QED
            BY <6>1, <6>3
        <5>4. s.list[r[i + 1]] \notin selected
          BY <5>3, <2>0, <2>1
        <5>5. QED
          BY <5>1, <5>2, <5>4
      <4>2. CASE \A m \in (i + 1)..k : r[m] # q + 1
        <5>1. \A m \in (i + 1)..k : q + 1 < r[m]
          <6> HIDE DEF i
          <6>1. \A m \in (i + 1)..k : r[m] \in 1..n /\ q < r[m]
            BY <2>3
          <6> HIDE DEF q
          <6>2. QED
            BY <6>1, <4>2, <3>1
        <5>2. s.list[q + 1] = list[q + 1]
          BY <5>1, <2>A, <3>1
        <5>3. list[q + 1] \notin selected
          <6>1. SUFFICES ASSUME list[q + 1] \in selected PROVE FALSE
            OBVIOUS
          <6>2. PICK m \in 1..k : r[m] = q + 1
            BY <6>1, <3>1, <1>2
          <6>3. m \in (i + 1)..k \/ m = i \/ m < i
            BY <2>0
          <6>4. m < i => r[m] < r[i]
            <7> HIDE DEF i
            <7>1. QED
              BY <1>2, <2>0
          <6> HIDE DEF i
          <6>5. QED
            BY <6>2, <6>3, <6>4, <4>2, <3>1
        <5>4. QED
          BY <5>2, <5>3
      <4>3. QED
        BY <4>1, <4>2
    <3>5. Orderly(t)
      <4>1. \A p \in q..((q + 1) - 1) : s.list[p] \in selected
        BY <2>4, <3>1
      <4>2. q \in 1..(q + 1)
        BY <3>1
      <4> HIDE DEF q, t
      <4>3. SameOrder(list, Lift(s.list, q + 1, q), selected)
            /\ SameOrder(list, Lift(s.list, q + 1, q), Range(list) \ selected)
        BY <4>1, <4>2, <2>1, <3>1, <3>4, LiftIsOrderly
      <4>4. QED
        BY <4>3, <3>2 DEF Orderly
    <3>6. Above(t, r, j)
      <4>1. ASSUME NEW p \in 1..n, \A m \in i..k : p < r[m] PROVE t.list[p] = list[p]
        <5>1. p < r[i] /\ \A m \in (i + 1)..k : p < r[m]
          <6>1. i \in i..k /\ \A m \in (i + 1)..k : m \in i..k
            BY <2>0
          <6>2. QED
            BY <6>1, <4>1
        <5>2. p # q /\ p # q + 1
          BY <5>1, <3>1
        <5>3. p \in DOMAIN list
          BY <1>0
        <5> HIDE DEF t, q, i
        <5>4. QED
          BY <5>1, <5>2, <5>3, <3>3, <2>A
      <4> HIDE DEF t, q
      <4>2. QED
        BY <4>1, <2>B
    <3>7. Left(t, j)
      BY <3>3, <3>4
    <3>8. t \in Widget(I)
      BY <3>2 DEF Kept, Sane
    <3>9. Step("down", s, j) = t
      BY <2>5, <2>6, <2>8
    <3> HIDE DEF t, q
    <3>10. QED
      BY <2>0, <3>2, <3>5, <3>6, <3>7, <3>8, <3>9
  <2>9. QED
    BY <2>7, <2>8
<1>5. OneByOne("down", Here) \in Good[k]
  <2> HIDE DEF Good
  <2>1. QED
    BY <1>0, <1>3, <1>4, StepsEndGood
<1>6. k \in 0..k
  BY <1>0
<1>7. QED
  BY <1>5, <1>6

(* slotBottom() loses no item; the order it leaves is another matter.      *)
LEMMA BottomKeepsItems ==
  ASSUME NEW I, Sane(Here, I)
  PROVE  Kept(OneByOne("bottom", Here), I)
<1>0. /\ list \in Seq(I) /\ DOMAIN list = 1..Len(list) /\ Len(list) \in Nat /\ Len(Picked) \in Nat
      /\ Here \in Widget(I) /\ Here.list = list
  BY PlacesOfPicked
<1>1. PICK r : Places(list, selected, r)
  BY PlacesOfPicked
<1> DEFINE n == Len(list)
           k == Len(Picked)
           Good == [j \in 0..k |-> {s \in Widget(I) : Kept(s, I)}]
<1>2. /\ \A i \in 1..k : r[i] \in 1..n /\ i <= r[i] /\ Picked[i] = list[r[i]]
      /\ Kept(Here, I)
  BY <1>1, RowsOfPicked
<1>3. Here \in Good[0]
  BY <1>0, <1>2
<1>4. ASSUME NEW j \in 1..k, NEW s \in Good[j - 1] PROVE Step("bottom", s, j) \in Good[j]
  <2> DEFINE i == k - j + 1
             row == Row(s, Picked[i])
             last == n - j + 1
  <2>0. j - 1 \in 0..k /\ j \in 0..k /\ i \in 1..k /\ k \in 1..k
    BY <1>0
  <2>1. s \in Widget(I) /\ Kept(s, I)
    BY <2>0, <1>4
  <2>2. Unequal(s.list) /\ Len(s.list) = n /\ DOMAIN s.list = DOMAIN list /\ Range(s.list) = Range(list)
    BY <2>1, <1>0 DEF Kept, Sane, Widget
  <2>3. row \in DOMAIN list
    <3>1. Picked[i] \in Range(s.list)
      <4> HIDE DEF i
      <4>1. QED
        BY <2>0, <2>2, <1>2, <1>0 DEF Range
    <3> HIDE DEF i
    <3>2. QED
      BY <3>1, <2>2, RowIsPlace
  <2>4. last + 1 \in Nat \ {0}
    <3>1. k <= r[k] /\ r[k] \in 1..n
      BY <2>0, <1>2
    <3>2. QED
      BY <3>1, <1>0
  <2>5. Step("bottom", s, j) = IF row = last THEN s ELSE Moved(s, row, last + 1)
    BY DEF Step, ToBottom
  <2>6. Kept(Moved(s, row, last + 1), I)
    <3> HIDE DEF row, last
    <3>1. QED
      BY <2>1, <2>3, <2>4, <1>0, MovedIsKept
  <2> HIDE DEF row, last
  <2>7. Kept(Step("bottom", s, j), I)
    BY <2>1, <2>5, <2>6
  <2>8. QED
    BY <2>0, <2>7 DEF Kept, Sane
<1>5. OneByOne("bottom", Here) \in Good[k]
  <2> HIDE DEF Good
  <2>1. QED
    BY <1>0, <1>3, <1>4, StepsEndGood
<1>6. k \in 0..k
  BY <1>0
<1>7. QED
  BY <1>5, <1>6

(* slotDelete() takes the selected items out of the list, and only those.  *)
LEMMA DeleteTakesSelected ==
  ASSUME NEW I, Sane(Here, I)
  PROVE  LET left == OneByOne("delete", [Here EXCEPT !.edited = NoFilter])
         IN  /\ Sane(left, I) /\ Range(left.list) = Range(list) \ selected
             /\ selected = {} => left.list = list
<1>0. /\ list \in Seq(I) /\ DOMAIN list = 1..Len(list) /\ Len(list) \in Nat /\ Len(Picked) \in Nat
      /\ Unequal(list) /\ Here \in Widget(I) /\ Here.list = list
      /\ Range(Picked) = selected /\ selected \subseteq Range(list) /\ Picked \in Seq(I)
  BY PlacesOfPicked
<1>1. PICK r : Places(list, selected, r)
  BY PlacesOfPicked
<1> DEFINE n == Len(list)
           k == Len(Picked)
           Out(i) == {Picked[j] : j \in 1..i}
           first == [Here EXCEPT !.edited = NoFilter]
           Good == [i \in 0..k |-> {s \in Widget(I) :
                      /\ Sane(s, I) /\ Range(s.list) = Range(list) \ Out(i)
                      /\ i = 0 => s.list = list}]
<1>2. /\ \A i \in 1..k : r[i] \in 1..n /\ Picked[i] = list[r[i]]
      /\ \A i, j \in 1..k : i < j => r[i] < r[j]
  BY <1>1, RowsOfPicked
<1>3. first \in Good[0]
  <2>1. /\ first.list = list /\ first.current = Here.current /\ first.selected = Here.selected
        /\ first.edited = NoFilter /\ first \in Widget(I)
    BY <1>0 DEF Widget
  <2>2. Sane(first, I)
    <3> HIDE DEF first
    <3>1. QED
      BY <2>1, <1>0 DEF Sane
  <2>3. Out(0) = {}
    OBVIOUS
  <2> HIDE DEF first, Out
  <2>4. QED
    BY <1>0, <2>1, <2>2, <2>3
<1>4. ASSUME NEW i \in 1..k, NEW s \in Good[i - 1] PROVE Step("delete", s, i) \in Good[i]
  <2> DEFINE n0 == Picked[i]
             row == Row(s, n0)
  <2>0. i - 1 \in 0..k /\ i \in 0..k /\ i # 0
    BY <1>0
  <2>1. Sane(s, I) /\ Range(s.list) = Range(list) \ Out(i - 1)
    BY <2>0, <1>4
  <2>2. Unequal(s.list)
    BY <2>1 DEF Sane
  <2>3. n0 \in Range(list) /\ n0 \notin Out(i - 1)
    <3>1. n0 \in Range(list)
      BY <1>2, <1>0 DEF Range
    <3>2. ASSUME NEW j \in 1..(i - 1) PROVE Picked[j] # n0
      <4>1. j \in 1..k /\ j < i
        BY <1>0
      <4>2. r[j] < r[i] /\ r[j] \in 1..n /\ r[i] \in 1..n
        BY <4>1, <1>2
      <4>3. list[r[j]] # list[r[i]]
        BY <4>2, <1>0 DEF Unequal
      <4>4. QED
        BY <4>1, <4>3, <1>2
    <3>3. QED
      BY <3>1, <3>2
  <2>4. row \in DOMAIN s.list /\ s.list[row] = n0
    <3>1. n0 \in Range(s.list)
      BY <2>1, <2>3
    <3> HIDE DEF n0
    <3>2. QED
      BY <2>2, <3>1, RowIsPlace
  <2>5. Step("delete", s, i) = Taken(s, row)
    BY DEF Step, TakeOut
  <2>6. Sane(Taken(s, row), I) /\ Range(Taken(s, row).list) = Range(s.list) \ {s.list[row]}
    <3> HIDE DEF row
    <3>1. QED
      BY <2>1, <2>4, TakenIsSane
  <2>7. Out(i) = Out(i - 1) \cup {n0}
    <3>1. \A j : j \in 1..i <=> j \in 1..(i - 1) \/ j = i
      OBVIOUS
    <3>2. QED
      BY <3>1
  <2> HIDE DEF row, n0, Out
  <2>8. Sane(Step("delete", s, i), I) /\ Range(Step("delete", s, i).list) = Range(list) \ Out(i)
    BY <2>1, <2>4, <2>5, <2>6, <2>7
  <2>9. QED
    BY <2>0, <2>8 DEF Sane
<1>5. OneByOne("delete", first) \in Good[k]
  <2> HIDE DEF Good, first
  <2>1. QED
    BY <1>0, <1>3, <1>4, StepsEndGood
<1>6. k \in 0..k
  BY <1>0
<1>7. Out(k) = selected
  <2>1. DOMAIN Picked = 1..k
    BY <1>0
  <2>2. QED
    BY <2>1, <1>0 DEF Range
<1>8. selected = {} => k = 0
  <2>1. 1 \in 1..k => Picked[1] \in Range(Picked)
    BY <1>0 DEF Range
  <2>2. QED
    BY <2>1, <1>0
<1> HIDE DEF first, Out
<1>9. Sane(OneByOne("delete", first), I)
      /\ Range(OneByOne("delete", first).list) = Range(list) \ selected
      /\ (selected = {} => OneByOne("delete", first).list = list)
  BY <1>5, <1>6, <1>7, <1>8
<1>10. QED
  BY <1>9 DEF first

-----------------------------------------------------------------------------
(* The manager.                                                            *)

MenuFilters == {f \in FilterRecords : MenuFirst(f)}

ManagerInv ==
  /\ filters \in Seq(MenuFilters) /\ config \in Seq(MenuFilters) /\ agent \in Seq(MenuFilters)
  /\ agent = ReadFrom(config)
  /\ loaded => ReadFrom(config) = ReadFrom(filters)

(* A list of filters that fit the menus is a list of filters; what is read *)
(* and written of it fits the menus.                                       *)
LEMMA MenusStayInOrder ==
  ASSUME NEW fs \in Seq(MenuFilters)
  PROVE  /\ fs \in Seq(FilterRecords)
         /\ ReadFrom(fs) \in Seq(MenuFilters) /\ Written(fs) \in Seq(MenuFilters)
<1>1. fs \in Seq(FilterRecords)
  BY DEF MenuFilters
<1>2. MapsInto(Purify, MenuFilters, MenuFilters)
  BY PurifiedIsFilter DEF MapsInto, Purify, MenuFilters
<1>3. Image(Purify, fs) \in Seq(MenuFilters)
  <2>1. \A i \in DOMAIN fs : Purify[fs[i]] \in MenuFilters
    BY <1>2 DEF MapsInto
  <2>2. DOMAIN fs = 1..Len(fs) /\ Len(fs) \in Nat
    OBVIOUS
  <2>3. QED
    BY <2>1, <2>2 DEF Image
<1>4. ReadFrom(fs) = Keep(Image(Purify, fs), Worthwhile)
  BY <1>1, ReadIsKeep
<1>5. Keep(Image(Purify, fs), Worthwhile) \in Seq(MenuFilters) /\ Keep(fs, Worthwhile) \in Seq(MenuFilters)
  BY <1>3, RangeOfKeep
<1>6. QED
  BY <1>1, <1>4, <1>5 DEF Written

(* endUpdate() leaves the agent with what the manager has.                 *)
LEMMA WritingReachesAgent ==
  ASSUME NEW fs \in Seq(MenuFilters), filters' = fs, EndUpdate(fs)
  PROVE  ManagerInv'
<1>1. config' = Written(fs) /\ agent' = ReadFrom(config')
  BY DEF EndUpdate
<1>2. Written(fs) \in Seq(MenuFilters) /\ fs \in Seq(FilterRecords)
  BY MenusStayInOrder
<1>3. ReadFrom(Written(fs)) \in Seq(MenuFilters) /\ ReadFrom(Written(fs)) = ReadFrom(fs)
  BY <1>2, MenusStayInOrder, WritingLosesNothing
<1>4. QED
  BY <1>1, <1>2, <1>3 DEF ManagerInv

(* What appendFilters() leaves of a list comes from that list.             *)
LEMMA NamesakesComeFromList ==
  ASSUME NEW A, NEW fs \in Seq(A), NEW f
  PROVE  Namesakes(f, fs) \in Seq(A)
<1> DEFINE first == CHOOSE i \in DOMAIN fs : fs[i].name = f.name /\ \A j \in DOMAIN fs : fs[j].name = f.name => i <= j
           without == RemoveAt(fs, first)
           others == {g \in FilterRecords : g.name # f.name}
<1>1. CASE \A i \in DOMAIN fs : fs[i].name # f.name
  BY <1>1 DEF Namesakes
<1>2. CASE \E i \in DOMAIN fs : fs[i].name = f.name
  <2>1. first \in DOMAIN fs
    <3> DEFINE T == {i \in DOMAIN fs : fs[i].name = f.name}
    <3>1. T \in SUBSET Nat /\ T # {}
      BY <1>2
    <3>2. \E i \in T : \A j \in T : i <= j
      <4> HIDE DEF T
      <4>1. QED
        BY <3>1, LeastExists
    <3>3. \E i \in DOMAIN fs : fs[i].name = f.name /\ \A j \in DOMAIN fs : fs[j].name = f.name => i <= j
      BY <3>2
    <3>4. QED
      BY <3>3
  <2>2. without \in Seq(A)
    <3>1. first \in 1..Len(fs)
      <4> HIDE DEF first
      <4>1. QED
        BY <2>1
    <3> HIDE DEF first
    <3>2. QED
      BY <3>1, WithoutOne
  <2>3. Namesakes(f, fs) = IF without = << >> THEN << >> ELSE <<Head(without)>> \o Keep(Tail(without), others)
    <3>1. ~(\A i \in DOMAIN fs : fs[i].name # f.name)
      BY <1>2
    <3>2. QED
      BY <3>1 DEF Namesakes
  <2>4. CASE without = << >>
    BY <2>3, <2>4, EmptyList
  <2>5. CASE without # << >>
    <3> HIDE DEF without, others
    <3>1. Head(without) \in A /\ Tail(without) \in Seq(A)
      BY <2>2, <2>5, HeadTailProperties
    <3>2. Keep(Tail(without), others) \in Seq(A)
      BY <3>1, RangeOfKeep
    <3>3. <<Head(without)>> \in Seq(A)
      BY <3>1
    <3>4. <<Head(without)>> \o Keep(Tail(without), others) \in Seq(A)
      BY <3>2, <3>3, ConcatProperties
    <3>5. QED
      BY <3>4, <2>3, <2>5
  <2>6. QED
    BY <2>4, <2>5
<1>3. QED
  BY <1>1, <1>2

(* Other parts of the program leave the manager in order.                  *)
LEMMA OthersKeepManager ==
  ASSUME ManagerInv, OthersChange
  PROVE  ManagerInv' /\ loaded' = loaded
<1>1. CASE \E f \in Foreign, replace \in BOOLEAN : AppendFilters(f, replace)
  <2>1. PICK f \in Foreign, replace \in BOOLEAN : AppendFilters(f, replace)
    BY <1>1
  <2> DEFINE kept == IF replace THEN Namesakes(f, filters) ELSE filters
  <2>2. f \in MenuFilters
    BY FiltersAssumption DEF MenuFilters
  <2>3. kept \in Seq(MenuFilters)
    BY NamesakesComeFromList DEF ManagerInv
  <2>4. filters' = Append(kept, f) /\ EndUpdate(filters') /\ loaded' = loaded
    BY <2>1 DEF AppendFilters
  <2> HIDE DEF kept
  <2>5. Append(kept, f) \in Seq(MenuFilters)
    BY <2>2, <2>3, AppendProperties
  <2>6. QED
    <3>1. EndUpdate(Append(kept, f))
      BY <2>4
    <3>2. QED
      BY <3>1, <2>4, <2>5, WritingReachesAgent
<1>2. CASE \E i \in DOMAIN filters : RemoveFilter(i)
  <2>1. PICK i \in DOMAIN filters : RemoveFilter(i)
    BY <1>2
  <2>2. filters \in Seq(MenuFilters) /\ i \in 1..Len(filters)
    BY DEF ManagerInv
  <2>3. RemoveAt(filters, i) \in Seq(MenuFilters)
    BY <2>2, WithoutOne
  <2>4. filters' = RemoveAt(filters, i) /\ EndUpdate(RemoveAt(filters, i)) /\ loaded' = loaded
    BY <2>1 DEF RemoveFilter
  <2>5. QED
    BY <2>3, <2>4, WritingReachesAgent
<1>3. QED
  BY <1>1, <1>2 DEF OthersChange

(* Reading the configuration leaves the manager in order.                  *)
LEMMA ReadingKeepsManager ==
  ASSUME ManagerInv, ReadConfig
  PROVE  ManagerInv' /\ loaded' = TRUE
<1>1. filters' = ReadFrom(config) /\ config' = config /\ agent' = agent /\ loaded' = TRUE
  BY DEF ReadConfig
<1>2. ReadFrom(config) \in Seq(MenuFilters) /\ config \in Seq(FilterRecords)
  BY MenusStayInOrder DEF ManagerInv
<1>3. ReadFrom(ReadFrom(config)) = ReadFrom(config)
  BY <1>2, ReadingTwice
<1>4. QED
  BY <1>1, <1>2, <1>3 DEF ManagerInv

(* At the start the agent has read what is stored.                         *)
LEMMA ManagerStarts ==
  ASSUME ManagerInit
  PROVE  ManagerInv /\ loaded = FALSE
<1>1. Stored \in Seq(MenuFilters)
  BY FiltersAssumption DEF MenuFilters
<1>2. ReadFrom(Stored) \in Seq(MenuFilters) /\ << >> \in Seq(MenuFilters)
  BY <1>1, MenusStayInOrder
<1>3. QED
  BY <1>1, <1>2 DEF ManagerInit, ManagerInv

-----------------------------------------------------------------------------
(* The editors.                                                            *)

Names == {"unknown", "unnamed", "field", "own"}
Forms == [rules : BOOLEAN, actions : {"none", "unfit", "fit"}]
Boxes == [shortcut : BOOLEAN, toolbar : BOOLEAN]
Marks == [rules : BOOLEAN, actions : {"none", "unfit", "fit"}, shortcut : BOOLEAN, toolbar : BOOLEAN]

(* The check boxes leave a filter that fits the menus; setting them to     *)
(* what they are changes nothing.                                          *)
LEMMA BoxesFitMenus ==
  ASSUME NEW f \in MenuFilters, NEW b \in BOOLEAN
  PROVE  /\ SetShortcut(f, b) \in MenuFilters /\ SetToolbar(f, b) \in MenuFilters
         /\ SetShortcut(f, f.shortcut) = f /\ SetToolbar(f, f.toolbar) = f
         /\ \A g \in {SetShortcut(f, b), SetToolbar(f, b)} :
              g.rules = f.rules /\ g.actions = f.actions /\ g.name = f.name
<1>1. f \in FilterRecords /\ (f.toolbar => f.shortcut) /\ f.shortcut \in BOOLEAN /\ f.toolbar \in BOOLEAN
  BY DEF MenuFilters, MenuFirst, FilterRecords
<1>2. SetShortcut(f, b) = [f EXCEPT !.shortcut = b, !.toolbar = f.toolbar /\ b]
  BY DEF SetShortcut
<1>3. SetToolbar(f, b) = [f EXCEPT !.toolbar = b /\ f.shortcut]
  BY DEF SetToolbar
<1>4. (f.toolbar /\ b) \in BOOLEAN /\ (b /\ f.shortcut) \in BOOLEAN
  OBVIOUS
<1>5. SetShortcut(f, b) \in FilterRecords /\ SetToolbar(f, b) \in FilterRecords
  BY <1>1, <1>2, <1>3, <1>4 DEF FilterRecords
<1>6. MenuFirst(SetShortcut(f, b)) /\ MenuFirst(SetToolbar(f, b))
  <2>1. SetShortcut(f, b).shortcut = b /\ SetShortcut(f, b).toolbar = (f.toolbar /\ b)
    BY <1>1, <1>2 DEF FilterRecords
  <2>2. SetToolbar(f, b).shortcut = f.shortcut /\ SetToolbar(f, b).toolbar = (b /\ f.shortcut)
    BY <1>1, <1>3 DEF FilterRecords
  <2>3. QED
    BY <2>1, <2>2 DEF MenuFirst
<1>7. SetShortcut(f, f.shortcut) = f /\ SetToolbar(f, f.toolbar) = f
  <2>1. SetShortcut(f, f.shortcut) = [f EXCEPT !.shortcut = f.shortcut, !.toolbar = f.toolbar /\ f.shortcut]
    BY DEF SetShortcut
  <2>2. SetToolbar(f, f.toolbar) = [f EXCEPT !.toolbar = f.toolbar /\ f.shortcut]
    BY DEF SetToolbar
  <2>3. (f.toolbar /\ f.shortcut) = f.toolbar
    BY <1>1
  <2>4. f = [f EXCEPT !.shortcut = f.shortcut, !.toolbar = f.toolbar] /\ f = [f EXCEPT !.toolbar = f.toolbar]
    BY <1>1 DEF FilterRecords
  <2>5. QED
    BY <2>1, <2>2, <2>3, <2>4
<1>8. QED
  BY <1>1, <1>2, <1>3, <1>5, <1>6, <1>7 DEF MenuFilters, FilterRecords

(* Showing a filter in the editors does not change it.                     *)
LEMMA ShownAsItIs ==
  ASSUME NEW fs \in Seq(MenuFilters), NEW i \in DOMAIN fs, Show(fs, i)
  PROVE  /\ filter' = fs /\ edited' = i
         /\ form' \in Forms /\ checks' \in Boxes
         /\ form' = [rules |-> fs[i].rules, actions |-> fs[i].actions]
<1> DEFINE f    == fs[i]
           boxS == IF checks.shortcut # f.shortcut THEN SetShortcut(f, f.shortcut) ELSE f
           boxT == IF checks.toolbar # f.toolbar THEN SetToolbar(boxS, f.toolbar) ELSE boxS
<1>1. f \in MenuFilters /\ f \in FilterRecords
  BY DEF MenuFilters
<1>2. boxS = f
  BY <1>1, BoxesFitMenus
<1>3. boxT = f
  <2> HIDE DEF f, boxS
  <2>1. QED
    BY <1>1, <1>2, BoxesFitMenus
<1>4. /\ edited' = i /\ form' = [rules |-> f.rules, actions |-> f.actions]
      /\ checks' = [shortcut |-> f.shortcut, toolbar |-> f.toolbar]
      /\ filter' = [fs EXCEPT ![i] = boxT]
  BY DEF Show
<1>5. form' \in Forms /\ checks' \in Boxes
  BY <1>1, <1>4 DEF Forms, Boxes, FilterRecords
<1>6. filter' = fs
  <2> HIDE DEF boxT
  <2>1. [fs EXCEPT ![i] = fs[i]] = fs
    OBVIOUS
  <2>2. QED
    BY <1>3, <1>4, <2>1 DEF f
<1>7. QED
  BY <1>4, <1>5, <1>6

(* What the editors need: filters that fit the menus, and one of them, or  *)
(* none, to work on.                                                       *)
EditorsFit ==
  /\ filter \in Seq(MenuFilters) /\ form \in Forms /\ checks \in Boxes
  /\ edited \in Used \cup {NoFilter}

(* Writing back puts the rules and actions of the form into the filter     *)
(* that is edited and changes nothing else.                                *)
LEMMA WrittenBack ==
  ASSUME EditorsFit
  PROVE  /\ WriteBack(filter) \in Seq(MenuFilters) /\ Len(WriteBack(filter)) = Len(filter)
         /\ DOMAIN WriteBack(filter) = Used
         /\ \A i \in Used : Marked(WriteBack(filter)[i]) = Entered(i)
                            /\ WriteBack(filter)[i].name = filter[i].name
         /\ \A i \in Used : WriteBack(filter)[i] =
              IF i = edited THEN [filter[i] EXCEPT !.rules = form.rules, !.actions = form.actions]
              ELSE filter[i]
<1>1. NoFilter \notin Used /\ Used = 1..Len(filter) /\ Len(filter) \in Nat
  BY DialogAssumption DEF EditorsFit, Used
<1>2. CASE edited = NoFilter
  <2>1. WriteBack(filter) = filter
    BY <1>2 DEF WriteBack
  <2>2. QED
    BY <1>1, <1>2, <2>1 DEF Entered, EditorsFit, Used
<1>3. CASE edited # NoFilter
  <2> DEFINE f == filter[edited]
             g == [f EXCEPT !.rules = form.rules, !.actions = form.actions]
             fs == WriteBack(filter)
  <2>1. edited \in Used /\ f \in MenuFilters
    BY <1>1, <1>3 DEF EditorsFit
  <2>2. fs = [filter EXCEPT ![edited] = g]
    <3>1. fs = [filter EXCEPT ![edited].rules = form.rules, ![edited].actions = form.actions]
      BY <1>3 DEF WriteBack
    <3>2. QED
      BY <3>1, <2>1 DEF Used
  <2>3. g \in MenuFilters /\ Marked(g) = Entered(edited) /\ g.name = f.name
    <3>1. g \in FilterRecords /\ g.shortcut = f.shortcut /\ g.toolbar = f.toolbar
          /\ g.rules = form.rules /\ g.actions = form.actions /\ g.name = f.name
      BY <2>1 DEF MenuFilters, FilterRecords, EditorsFit, Forms
    <3> HIDE DEF g
    <3>2. g \in MenuFilters
      BY <3>1, <2>1 DEF MenuFilters, MenuFirst
    <3>3. Marked(g) = Entered(edited)
      BY <3>1 DEF Marked, Entered
    <3>4. QED
      BY <3>1, <3>2, <3>3
  <2> HIDE DEF g, f, fs
  <2>4. fs \in Seq(MenuFilters) /\ Len(fs) = Len(filter) /\ DOMAIN fs = Used
    BY <1>1, <2>1, <2>2, <2>3 DEF EditorsFit, Used
  <2>5. \A i \in Used : fs[i] = IF i = edited THEN g ELSE filter[i]
    BY <2>1, <2>2 DEF Used
  <2>6. ASSUME NEW i \in Used PROVE Marked(fs[i]) = Entered(i) /\ fs[i].name = filter[i].name
    BY <2>5, <2>3 DEF Entered, f
  <2>7. QED
    BY <2>4, <2>5, <2>6 DEF fs, g, f
<1>4. QED
  BY <1>2, <1>3

(* Being told what to show, the editors lose nothing of what was entered.  *)
LEMMA EditLosesNothing ==
  ASSUME EditorsFit, NEW i \in Used \cup {NoFilter}, Edit(i)
  PROVE  /\ EditorsFit' /\ edited' = i /\ Len(filter') = Len(filter) /\ Used' = Used
         /\ \A j \in Used : Entered(j)' = Entered(j) /\ filter'[j].name = filter[j].name
<1>1. CASE i = edited /\ UNCHANGED <<edited, form, checks, filter>>
  BY <1>1 DEF EditorsFit, Used, Entered
<1> DEFINE fs == WriteBack(filter)
<1>W. /\ fs \in Seq(MenuFilters) /\ Len(fs) = Len(filter) /\ DOMAIN fs = Used
      /\ \A j \in Used : Marked(fs[j]) = Entered(j) /\ fs[j].name = filter[j].name
  BY WrittenBack
<1>N. NoFilter \notin Used
  BY DialogAssumption DEF EditorsFit, Used
<1>2. CASE i = NoFilter /\ Reset(fs)
  <2> HIDE DEF fs
  <2>1. edited' = NoFilter /\ form' = Blank /\ filter' = fs /\ checks' = checks
    BY <1>2 DEF Reset
  <2>2. Used' = Used
    BY <2>1, <1>W DEF Used
  <2>3. EditorsFit'
    BY <2>1, <2>2, <1>W DEF EditorsFit, Blank, Forms
  <2>4. \A j \in Used : Entered(j)' = Marked(fs[j])
    BY <2>1, <1>N DEF Entered
  <2>5. QED
    BY <2>1, <2>2, <2>3, <2>4, <1>2, <1>W
<1>3. CASE i \in Used /\ Show(fs, i)
  <2> HIDE DEF fs
  <2>1. /\ filter' = fs /\ edited' = i /\ form' \in Forms /\ checks' \in Boxes
        /\ form' = [rules |-> fs[i].rules, actions |-> fs[i].actions]
    BY <1>3, <1>W, ShownAsItIs
  <2>2. Used' = Used
    BY <2>1, <1>W DEF Used
  <2>3. EditorsFit'
    BY <2>1, <2>2, <1>3, <1>W DEF EditorsFit
  <2>4. \A j \in Used : Entered(j)' = Marked(fs[j])
    BY <2>1 DEF Entered, Marked
  <2>5. QED
    BY <2>1, <2>2, <2>3, <2>4, <1>W
<1>4. QED
  BY <1>1, <1>2, <1>3 DEF Edit

-----------------------------------------------------------------------------
(* The dialog.                                                             *)

(* What the user wants for an item is what has been entered for it.        *)
ItemsFit == \A i \in Range(list) : Entered(i) = want[i] /\ text[i] = filter[i].name

DialogInv ==
  /\ phase \in {"closed", "open", "gone"} /\ EditorsFit
  /\ text \in Seq(Names) /\ Len(text) = Len(filter)
  /\ want \in Seq(Marks) /\ Len(want) = Len(filter)
  /\ Sane(Here, Used) /\ ItemsFit
  /\ phase # "closed" => loaded
  /\ phase = "closed" => list = << >>

(* Items are numbered from 1, a new one gets the next number.              *)
LEMMA ItemsAreNumbered ==
  ASSUME EditorsFit
  PROVE  /\ Used = 1..Len(filter) /\ Len(filter) \in Nat /\ NewItem = Len(filter) + 1
         /\ NoFilter \notin Nat /\ NoFilter \notin Used
<1>1. Used = 1..Len(filter) /\ Len(filter) \in Nat
  BY DEF EditorsFit, Used
<1>2. Cardinality(1..Len(filter)) = Len(filter)
  <2>1. Cardinality(1..Len(filter)) = IF 1 > Len(filter) THEN 0 ELSE Len(filter) - 1 + 1
    BY <1>1, FS_Interval
  <2>2. QED
    BY <1>1, <2>1
<1>3. QED
  BY <1>1, <1>2, DialogAssumption DEF NewItem

(* What the list widget holds in an orderly dialog.                        *)
LEMMA ListIsSane ==
  ASSUME DialogInv
  PROVE  /\ list \in Seq(Used) /\ Unequal(list) /\ Range(list) \subseteq Used
         /\ current \in Range(list) \cup {NoFilter} /\ selected \subseteq Range(list)
         /\ edited \in {current, NoFilter} /\ edited \in Used \cup {NoFilter}
         /\ DOMAIN text = Used /\ DOMAIN want = Used /\ Here.list = list
         /\ (current # NoFilter => Row(Here, current) \in DOMAIN list /\ list[Row(Here, current)] = current)
         /\ DOMAIN list = 1..Len(list) /\ Len(list) \in Nat
<1>1. /\ Here.list = list /\ Here.current = current /\ Here.selected = selected /\ Here.edited = edited
  BY DEF Here
<1>2. /\ list \in Seq(Used) /\ Unequal(list) /\ current \in Range(list) \cup {NoFilter}
      /\ selected \subseteq Range(list) /\ edited \in {current, NoFilter}
  BY <1>1 DEF DialogInv, Sane, Widget
<1>3. Range(list) \subseteq Used
  BY <1>2 DEF Range
<1>4. DOMAIN text = Used /\ DOMAIN want = Used
  BY ItemsAreNumbered DEF DialogInv
<1>5. current # NoFilter => Row(Here, current) \in DOMAIN list /\ list[Row(Here, current)] = current
  BY <1>1, <1>2, RowIsPlace
<1>6. QED
  BY <1>1, <1>2, <1>3, <1>4, <1>5

(* Conversely, a list widget is sane when its parts fit.                   *)
LEMMA PartsAreSane ==
  ASSUME NEW I, NEW l \in Seq(I), Unequal(l), NEW c \in Range(l) \cup {NoFilter},
         NEW some, some \subseteq Range(l), NEW e \in {c, NoFilter}
  PROVE  Sane([list |-> l, current |-> c, selected |-> some, edited |-> e], I)
<1>1. Range(l) \subseteq I
  BY DEF Range
<1>2. [list |-> l, current |-> c, selected |-> some, edited |-> e] \in Widget(I)
  BY <1>1 DEF Widget
<1>3. QED
  BY <1>2 DEF Sane

(* When the editors have lost nothing, an item may only leave the list.    *)
LEMMA ListOnly ==
  ASSUME DialogInv, phase = "open",
         EditorsFit', Len(filter') = Len(filter), Used' = Used,
         \A j \in Used : Entered(j)' = Entered(j) /\ filter'[j].name = filter[j].name,
         phase' \in {"open", "gone"}, text' = text, want' = want, loaded' = loaded,
         list' \in Seq(Used), Unequal(list'), Range(list') \subseteq Range(list),
         current' \in Range(list') \cup {NoFilter}, selected' \subseteq Range(list'),
         edited' \in {current', NoFilter}
  PROVE  DialogInv'
<1>1. Sane(Here, Used)'
  BY PartsAreSane DEF Here
<1>2. Range(list) \subseteq Used
  BY ListIsSane
<1>3. ItemsFit'
  BY <1>2 DEF ItemsFit, DialogInv
<1>4. QED
  BY <1>1, <1>3 DEF DialogInv

(* A click, with or without Ctrl, loses nothing.                           *)
LEMMA ClicksLoseNothing ==
  ASSUME DialogInv, phase = "open", NEW i \in Range(list), Click(i) \/ Select(i)
  PROVE  DialogInv'
<1>0. /\ i \in Used /\ i # NoFilter /\ EditorsFit
      /\ list \in Seq(Used) /\ Unequal(list) /\ selected \subseteq Range(list)
      /\ current \in Range(list) \cup {NoFilter} /\ edited \in {current, NoFilter}
  BY ListIsSane, ItemsAreNumbered DEF DialogInv
<1>1. /\ phase' = phase /\ text' = text /\ want' = want /\ loaded' = loaded /\ list' = list
      /\ current' = i /\ selected' \subseteq Range(list)
  BY <1>0 DEF Click, Select, managerVars
<1>2. \/ edited' = edited /\ form' = form /\ checks' = checks /\ filter' = filter /\ i = current
      \/ Edit(i) \/ Edit(NoFilter)
  BY DEF Click, Select
<1>3. /\ EditorsFit' /\ Len(filter') = Len(filter) /\ Used' = Used /\ edited' \in {i, NoFilter}
      /\ \A j \in Used : Entered(j)' = Entered(j) /\ filter'[j].name = filter[j].name
  <2>1. CASE edited' = edited /\ form' = form /\ checks' = checks /\ filter' = filter /\ i = current
    BY <1>0, <2>1 DEF EditorsFit, Used, Entered
  <2>2. CASE Edit(i)
    BY <1>0, <2>2, EditLosesNothing
  <2>3. CASE Edit(NoFilter)
    BY <1>0, <2>3, EditLosesNothing
  <2>4. QED
    BY <1>2, <2>1, <2>2, <2>3
<1>4. QED
  <2>1. current' \in Range(list') \cup {NoFilter} /\ edited' \in {current', NoFilter}
    BY <1>1, <1>3
  <2>2. list' \in Seq(Used) /\ Unequal(list') /\ Range(list') \subseteq Range(list) /\ selected' \subseteq Range(list')
    BY <1>0, <1>1
  <2>3. QED
    BY <1>1, <1>3, <2>1, <2>2, ListOnly

(* The buttons that move lose nothing either.                              *)
LEMMA MovesLoseNothing ==
  ASSUME DialogInv, phase = "open", NEW s, Kept(s, Used), MoveTo(s)
  PROVE  DialogInv'
<1>1. /\ s.list \in Seq(Used) /\ Unequal(s.list) /\ Range(s.list) = Range(list)
      /\ s.current \in Range(s.list) \cup {NoFilter} /\ s.selected \subseteq Range(s.list)
      /\ s.edited \in {s.current, NoFilter} /\ s.edited \in Used \cup {NoFilter}
  BY DEF Kept, Sane, Widget
<1>2. /\ list' = s.list /\ current' = s.current /\ selected' = s.selected /\ Edit(s.edited)
      /\ phase' = phase /\ text' = text /\ want' = want /\ loaded' = loaded
  BY DEF MoveTo, managerVars
<1>3. EditorsFit
  BY DEF DialogInv
<1>4. /\ EditorsFit' /\ Len(filter') = Len(filter) /\ Used' = Used /\ edited' = s.edited
      /\ \A j \in Used : Entered(j)' = Entered(j) /\ filter'[j].name = filter[j].name
  BY <1>1, <1>2, <1>3, EditLosesNothing
<1>5. /\ list' \in Seq(Used) /\ Unequal(list') /\ Range(list') \subseteq Range(list)
      /\ current' \in Range(list') \cup {NoFilter} /\ selected' \subseteq Range(list')
      /\ edited' \in {current', NoFilter}
  BY <1>1, <1>2, <1>4
<1>6. QED
  BY <1>2, <1>4, <1>5, ListOnly

(* Deleting loses nothing of the filters that stay.                        *)
LEMMA DeletingLosesNothing ==
  ASSUME DialogInv, phase = "open", Delete
  PROVE  DialogInv'
<1> DEFINE row  == Row(Here, current)
           left == OneByOne("delete", [Here EXCEPT !.edited = NoFilter])
           n    == Len(left.list)
           k    == IF n = 0 THEN NoFilter ELSE left.list[IF n < row THEN n ELSE row]
<1>0. EditorsFit /\ Sane(Here, Used) /\ Range(list) \subseteq Used /\ Len(list) \in Nat /\ DOMAIN list = 1..Len(list)
  BY ListIsSane DEF DialogInv
<1>1. /\ list' = left.list /\ current' = k /\ selected' = {k} \ {NoFilter}
      /\ IF k # left.current \/ row = 1 THEN Edit(k) ELSE Edit(left.edited)
      /\ phase' = phase /\ text' = text /\ want' = want /\ loaded' = loaded
  BY DEF Delete, managerVars
<1>2. Sane(left, Used) /\ Range(left.list) = Range(list) \ selected
  BY <1>0, DeleteTakesSelected
<1>3. row \in Nat \ {0}
  <2>1. current # NoFilter
    BY DEF Delete
  <2>2. row \in 1..Len(list)
    BY <2>1, <1>0, ListIsSane
  <2>3. QED
    BY <2>2, <1>0
<1> HIDE DEF left
<1>4. /\ left.list \in Seq(Used) /\ Unequal(left.list) /\ left.edited \in {left.current, NoFilter}
      /\ left.edited \in Used \cup {NoFilter} /\ Range(left.list) \subseteq Range(list)
      /\ n \in Nat /\ DOMAIN left.list = 1..n
  BY <1>2 DEF Sane, Widget
<1>5. k \in Range(left.list) \cup {NoFilter}
  <2> HIDE DEF row
  <2>1. CASE n = 0
    BY <2>1
  <2>2. CASE n # 0
    <3> DEFINE p == IF n < row THEN n ELSE row
    <3>1. p \in DOMAIN left.list
      <4> HIDE DEF n
      <4>1. QED
        BY <2>2, <1>3, <1>4
    <3> HIDE DEF p
    <3>2. left.list[p] \in Range(left.list)
      BY <3>1 DEF Range
    <3>3. QED
      BY <3>2, <2>2 DEF p
  <2>3. QED
    BY <2>1, <2>2
<1> HIDE DEF k, n, row
<1>6. PICK e \in {k, NoFilter} : Edit(e)
  <2>1. CASE k # left.current \/ row = 1
    BY <2>1, <1>1
  <2>2. CASE ~(k # left.current \/ row = 1)
    BY <2>2, <1>1, <1>4
  <2>3. QED
    BY <2>1, <2>2
<1>7. e \in Used \cup {NoFilter}
  BY <1>0, <1>4, <1>5
<1>8. /\ EditorsFit' /\ Len(filter') = Len(filter) /\ Used' = Used /\ edited' = e
      /\ \A j \in Used : Entered(j)' = Entered(j) /\ filter'[j].name = filter[j].name
  BY <1>0, <1>6, <1>7, EditLosesNothing
<1>9. /\ list' \in Seq(Used) /\ Unequal(list') /\ Range(list') \subseteq Range(list)
      /\ current' \in Range(list') \cup {NoFilter} /\ selected' \subseteq Range(list')
      /\ edited' \in {current', NoFilter}
  BY <1>1, <1>4, <1>5, <1>6, <1>8
<1>10. QED
  BY <1>1, <1>8, <1>9, ListOnly

(* A change to one filter, in the list or in the editors, reaches it and   *)
(* no other.                                                               *)
LEMMA OneFilterChanges ==
  ASSUME DialogInv, phase = "open", NEW e \in Range(list),
         NEW g \in MenuFilters, NEW w \in Marks,
         filter' = [filter EXCEPT ![e] = g], want' = [want EXCEPT ![e] = w],
         text' = [text EXCEPT ![e] = g.name],
         form' \in Forms, checks' \in Boxes, edited' = edited, e # edited => form' = form,
         list' = list, current' = current, selected' = selected, phase' = phase, loaded' = loaded,
         w = IF e = edited THEN [rules |-> form'.rules, actions |-> form'.actions,
                                 shortcut |-> g.shortcut, toolbar |-> g.toolbar]
             ELSE Marked(g)
  PROVE  DialogInv'
<1>0. /\ Range(list) \subseteq Used /\ e \in Used /\ EditorsFit /\ edited \in Used \cup {NoFilter}
      /\ DOMAIN text = Used /\ DOMAIN want = Used
      /\ list \in Seq(Used) /\ Unequal(list) /\ selected \subseteq Range(list)
      /\ current \in Range(list) \cup {NoFilter} /\ edited \in {current, NoFilter}
  BY ListIsSane DEF DialogInv
<1>1. /\ filter' \in Seq(MenuFilters) /\ Len(filter') = Len(filter) /\ Used' = Used
      /\ \A j \in Used : filter'[j] = IF j = e THEN g ELSE filter[j]
  BY <1>0 DEF EditorsFit, Used
<1>2. EditorsFit'
  BY <1>0, <1>1 DEF EditorsFit
<1>3. g.name \in Names
  BY DEF MenuFilters, FilterRecords, Names
<1>4. text' \in Seq(Names) /\ Len(text') = Len(text) /\ \A j \in Used : text'[j] = IF j = e THEN g.name ELSE text[j]
  BY <1>0, <1>3 DEF DialogInv
<1>5. want' \in Seq(Marks) /\ Len(want') = Len(want) /\ \A j \in Used : want'[j] = IF j = e THEN w ELSE want[j]
  BY <1>0 DEF DialogInv
<1>6. Sane(Here, Used)'
  BY <1>0, <1>1, PartsAreSane DEF Here
<1>7. ItemsFit'
  <2> SUFFICES ASSUME NEW j \in Range(list)
               PROVE  Entered(j)' = want'[j] /\ text'[j] = filter'[j].name
    BY DEF ItemsFit
  <2>0. j \in Used
    BY <1>0
  <2>1. CASE j = e
    BY <2>0, <2>1, <1>1, <1>4, <1>5 DEF Entered
  <2>2. CASE j # e
    <3>1. filter'[j] = filter[j] /\ want'[j] = want[j] /\ text'[j] = text[j]
      BY <2>0, <2>2, <1>1, <1>4, <1>5
    <3>2. j = edited => form' = form
      BY <2>2
    <3>3. Entered(j)' = Entered(j)
      BY <3>1, <3>2 DEF Entered
    <3>4. QED
      BY <3>1, <3>3 DEF DialogInv, ItemsFit
  <2>3. QED
    BY <2>1, <2>2
<1>8. QED
  BY <1>1, <1>2, <1>4, <1>5, <1>6, <1>7 DEF DialogInv

(* The automatic name, and the one the user gives, leave a filter.         *)
LEMMA NamedFits ==
  ASSUME NEW f \in MenuFilters
  PROVE  /\ \A v \in BOOLEAN : /\ Named([f EXCEPT !.rules = v]) \in MenuFilters
                               /\ Marked(Named([f EXCEPT !.rules = v])) = [Marked(f) EXCEPT !.rules = v]
         /\ \A name \in {"", "own", "blank"} :
              /\ Named([f EXCEPT !.name = name, !.auto = (name = "")]) \in MenuFilters
              /\ Marked(Named([f EXCEPT !.name = name, !.auto = (name = "")])) = Marked(f)
<1>0. f \in FilterRecords /\ (f.toolbar => f.shortcut)
  BY DEF MenuFilters, MenuFirst
<1>1. ASSUME NEW v \in BOOLEAN
      PROVE  /\ Named([f EXCEPT !.rules = v]) \in MenuFilters
             /\ Marked(Named([f EXCEPT !.rules = v])) = [Marked(f) EXCEPT !.rules = v]
  <2> DEFINE h == [f EXCEPT !.rules = v]
             auto == h.auto \/ h.name = "blank"
             name == IF ~auto THEN h.name ELSE IF h.rules THEN "field" ELSE "unnamed"
             g == Named(h)
  <2>1. h \in FilterRecords /\ h.rules = v /\ h.actions = f.actions /\ h.shortcut = f.shortcut /\ h.toolbar = f.toolbar
    BY <1>0 DEF FilterRecords
  <2>2. g = [h EXCEPT !.auto = auto, !.name = name]
    BY DEF Named
  <2>3. auto \in BOOLEAN /\ name \in Names
    BY <2>1 DEF FilterRecords, Names
  <2> HIDE DEF h, auto, name, g
  <2>4. g \in FilterRecords /\ g.rules = v /\ g.actions = f.actions /\ g.shortcut = f.shortcut /\ g.toolbar = f.toolbar
    BY <2>1, <2>2, <2>3 DEF FilterRecords, Names
  <2>5. g \in MenuFilters /\ Marked(g) = [Marked(f) EXCEPT !.rules = v]
    BY <1>0, <2>4 DEF MenuFilters, MenuFirst, Marked
  <2>6. QED
    BY <2>5 DEF g, h
<1>2. ASSUME NEW n \in {"", "own", "blank"}
      PROVE  /\ Named([f EXCEPT !.name = n, !.auto = (n = "")]) \in MenuFilters
             /\ Marked(Named([f EXCEPT !.name = n, !.auto = (n = "")])) = Marked(f)
  <2> DEFINE h == [f EXCEPT !.name = n, !.auto = (n = "")]
             auto == h.auto \/ h.name = "blank"
             name == IF ~auto THEN h.name ELSE IF h.rules THEN "field" ELSE "unnamed"
             g == Named(h)
  <2>1. /\ h.name = n /\ h.auto = (n = "")
        /\ h.rules = f.rules /\ h.actions = f.actions /\ h.shortcut = f.shortcut /\ h.toolbar = f.toolbar
    BY <1>0 DEF FilterRecords
  <2>2. g = [h EXCEPT !.auto = auto, !.name = name]
    BY DEF Named
  <2>3. auto \in BOOLEAN /\ name \in Names
    <3>1. auto = (n = "" \/ n = "blank")
      BY <2>1
    <3>2. ~auto => name = "own"
      BY <1>2, <2>1, <3>1
    <3>3. auto => name \in {"field", "unnamed"}
      OBVIOUS
    <3>4. QED
      BY <3>1, <3>2, <3>3 DEF Names
  <2>4. g = [f EXCEPT !.auto = auto, !.name = name]
    <3> HIDE DEF auto, name, g
    <3>1. QED
      BY <1>0, <2>2 DEF FilterRecords
  <2> HIDE DEF h, auto, name, g
  <2>5. /\ g \in FilterRecords /\ g.rules = f.rules /\ g.actions = f.actions
        /\ g.shortcut = f.shortcut /\ g.toolbar = f.toolbar
    BY <1>0, <2>3, <2>4 DEF FilterRecords, Names
  <2>6. g \in MenuFilters /\ Marked(g) = Marked(f)
    BY <1>0, <2>5 DEF MenuFilters, MenuFirst, Marked
  <2>7. QED
    BY <2>6 DEF g, h
<1>3. QED
  BY <1>1, <1>2

(* What the user changes in the editors reaches the filter they show.      *)
LEMMA EditingReachesFilter ==
  ASSUME DialogInv, phase = "open", EditShown
  PROVE  DialogInv'
<1> DEFINE e == edited
           f == filter[e]
           w == want[e]
<1>0. /\ e \in Range(list) /\ e \in Used /\ EditorsFit /\ DOMAIN text = Used /\ DOMAIN want = Used /\ DOMAIN filter = Used
  BY ListIsSane DEF EditShown, DialogInv, Used
<1>1. f \in MenuFilters /\ f \in FilterRecords /\ form \in Forms /\ checks \in Boxes /\ w \in Marks
  BY <1>0 DEF EditorsFit, MenuFilters, DialogInv
<1>2. /\ w = [rules |-> form.rules, actions |-> form.actions, shortcut |-> f.shortcut, toolbar |-> f.toolbar]
      /\ text[e] = f.name
  BY <1>0 DEF DialogInv, ItemsFit, Entered
<1>3. /\ filter = [filter EXCEPT ![e] = f] /\ want = [want EXCEPT ![e] = w] /\ text = [text EXCEPT ![e] = f.name]
  BY <1>0, <1>2 DEF DialogInv, EditorsFit
<1>4. ASSUME Changed PROVE phase' = phase /\ loaded' = loaded /\ edited' = edited
  BY <1>4 DEF Changed, managerVars
<1> DEFINE fits(g, u) ==
             /\ g \in MenuFilters /\ u \in Marks
             /\ filter' = [filter EXCEPT ![e] = g] /\ want' = [want EXCEPT ![e] = u]
             /\ text' = [text EXCEPT ![e] = g.name]
             /\ form' \in Forms /\ checks' \in Boxes /\ edited' = edited
             /\ list' = list /\ current' = current /\ selected' = selected /\ phase' = phase /\ loaded' = loaded
             /\ u = [rules |-> form'.rules, actions |-> form'.actions, shortcut |-> g.shortcut, toolbar |-> g.toolbar]
<1>5. ASSUME NEW g, NEW u, fits(g, u) PROVE DialogInv'
  BY <1>0, <1>5, OneFilterChanges
<1> HIDE DEF e, f, w
<1>6. ASSUME NEW v \in {"none", "unfit", "fit"}, EditActions(v) PROVE DialogInv'
  <2> DEFINE u == [w EXCEPT !.actions = v]
  <2>1. /\ form' = [form EXCEPT !.actions = v] /\ want' = [want EXCEPT ![e].actions = v] /\ Changed
        /\ filter' = filter /\ list' = list /\ current' = current /\ selected' = selected /\ text' = text /\ checks' = checks
    BY <1>6 DEF EditActions, listVars, e
  <2>2. want' = [want EXCEPT ![e] = u]
    BY <2>1 DEF w
  <2>3. form' \in Forms /\ form'.rules = form.rules /\ form'.actions = v
    BY <1>1, <2>1 DEF Forms
  <2>4. u \in Marks /\ u = [rules |-> form'.rules, actions |-> form'.actions, shortcut |-> f.shortcut, toolbar |-> f.toolbar]
    BY <1>1, <1>2, <2>3 DEF Marks
  <2> HIDE DEF u
  <2>5. fits(f, u)
    BY <1>1, <1>3, <1>4, <2>1, <2>2, <2>3, <2>4
  <2> HIDE DEF fits
  <2>6. QED
    BY <2>5, <1>5
<1>7. ASSUME RemoveRule PROVE DialogInv'
  <2> DEFINE u == [w EXCEPT !.rules = FALSE]
  <2>1. /\ form' = [form EXCEPT !.rules = FALSE] /\ want' = [want EXCEPT ![e].rules = FALSE] /\ Changed
        /\ filter' = filter /\ list' = list /\ current' = current /\ selected' = selected /\ text' = text /\ checks' = checks
    BY <1>7 DEF RemoveRule, listVars, e
  <2>2. want' = [want EXCEPT ![e] = u]
    BY <2>1 DEF w
  <2>3. form' \in Forms /\ form'.rules = FALSE /\ form'.actions = form.actions
    BY <1>1, <2>1 DEF Forms
  <2>4. u \in Marks /\ u = [rules |-> form'.rules, actions |-> form'.actions, shortcut |-> f.shortcut, toolbar |-> f.toolbar]
    <3>1. u \in Marks
      BY <1>1 DEF Marks
    <3>2. /\ u.rules = form'.rules /\ u.actions = form'.actions
          /\ u.shortcut = f.shortcut /\ u.toolbar = f.toolbar
      BY <1>1, <1>2, <2>3 DEF Marks
    <3> HIDE DEF u
    <3>3. QED
      BY <3>1, <3>2 DEF Marks
  <2> HIDE DEF u
  <2>5. fits(f, u)
    BY <1>1, <1>3, <1>4, <2>1, <2>2, <2>3, <2>4
  <2> HIDE DEF fits
  <2>6. QED
    BY <2>5, <1>5
<1>8. ASSUME NEW v \in BOOLEAN, EditRules(v) PROVE DialogInv'
  <2> DEFINE u == [w EXCEPT !.rules = v]
             g == Named([f EXCEPT !.rules = v])
  <2>1. /\ form' = [form EXCEPT !.rules = v] /\ want' = [want EXCEPT ![e].rules = v] /\ Changed
        /\ filter' = [filter EXCEPT ![e] = g] /\ text' = [text EXCEPT ![e] = g.name]
        /\ list' = list /\ current' = current /\ selected' = selected /\ checks' = checks
    BY <1>8 DEF EditRules, listVars, e, f
  <2>2. want' = [want EXCEPT ![e] = u]
    BY <2>1 DEF w
  <2>3. form' \in Forms /\ form'.rules = v /\ form'.actions = form.actions
    BY <1>1, <2>1 DEF Forms
  <2>4. g \in MenuFilters /\ Marked(g) = [Marked(f) EXCEPT !.rules = v]
    BY <1>1, NamedFits
  <2> HIDE DEF g
  <2>5. g.shortcut = f.shortcut /\ g.toolbar = f.toolbar
    BY <2>4 DEF Marked
  <2>6. u \in Marks /\ u = [rules |-> form'.rules, actions |-> form'.actions, shortcut |-> g.shortcut, toolbar |-> g.toolbar]
    BY <1>1, <1>2, <2>3, <2>5 DEF Marks
  <2> HIDE DEF u
  <2>7. fits(g, u)
    BY <1>1, <1>4, <2>1, <2>2, <2>3, <2>4, <2>6
  <2> HIDE DEF fits
  <2>8. QED
    BY <2>7, <1>5
<1>9. ASSUME NEW g \in FilterRecords, Update(g), checks' = checks, want' = want,
             g.name = f.name, g.shortcut = f.shortcut, g.toolbar = f.toolbar
      PROVE  DialogInv'
  <2>1. /\ filter' = [filter EXCEPT ![e] = g] /\ Changed /\ text' = text /\ form' = form
        /\ list' = list /\ current' = current /\ selected' = selected
    BY <1>9 DEF Update, listVars, e
  <2>2. g \in MenuFilters
    BY <1>1, <1>9 DEF MenuFilters, MenuFirst
  <2>3. fits(g, w)
    BY <1>1, <1>2, <1>3, <1>4, <1>9, <2>1, <2>2
  <2> HIDE DEF fits
  <2>4. QED
    BY <2>3, <1>5
<1>10. ASSUME NEW g \in MenuFilters, NEW boxes \in Boxes, Tick(g, boxes),
              g.name = f.name
       PROVE  DialogInv'
  <2> DEFINE u == [w EXCEPT !.shortcut = g.shortcut, !.toolbar = g.toolbar]
  <2>1. /\ filter' = [filter EXCEPT ![e] = g] /\ Changed /\ text' = text /\ form' = form
        /\ list' = list /\ current' = current /\ selected' = selected /\ checks' = boxes
        /\ want' = [want EXCEPT ![e].shortcut = g.shortcut, ![e].toolbar = g.toolbar]
    BY <1>10 DEF Tick, Update, listVars, e
  <2>2. want' = [want EXCEPT ![e] = u]
    BY <1>0, <2>1 DEF w, DialogInv
  <2>3. g.shortcut \in BOOLEAN /\ g.toolbar \in BOOLEAN
    BY DEF MenuFilters, FilterRecords
  <2>4. u \in Marks /\ u = [rules |-> form.rules, actions |-> form.actions, shortcut |-> g.shortcut, toolbar |-> g.toolbar]
    <3>1. u \in Marks
      BY <1>1, <2>3 DEF Marks
    <3>2. /\ u.rules = form.rules /\ u.actions = form.actions
          /\ u.shortcut = g.shortcut /\ u.toolbar = g.toolbar
      BY <1>1, <1>2 DEF Marks
    <3> HIDE DEF u
    <3>3. QED
      BY <3>1, <3>2 DEF Marks
  <2> HIDE DEF u
  <2>5. text = [text EXCEPT ![e] = g.name]
    BY <1>3, <1>10
  <2>6. fits(g, u)
    BY <1>1, <1>4, <1>10, <2>1, <2>2, <2>4, <2>5
  <2> HIDE DEF fits
  <2>7. QED
    BY <2>6, <1>5
<1>11. ASSUME NEW op \in {"and", "all"}, EditOperator(op) PROVE DialogInv'
  <2> DEFINE g == [f EXCEPT !.op = op]
  <2>1. Update(g) /\ checks' = checks /\ want' = want
    BY <1>11 DEF EditOperator, e, f
  <2>2. g \in FilterRecords /\ g.name = f.name /\ g.shortcut = f.shortcut /\ g.toolbar = f.toolbar
    BY <1>1 DEF FilterRecords
  <2> HIDE DEF g
  <2>3. QED
    BY <2>1, <2>2, <1>9
<1>12. ASSUME NEW inbound \in BOOLEAN, NEW who \in {"all", "checked"}, EditApplicability(inbound, who) PROVE DialogInv'
  <2> DEFINE a == IF who = "all" THEN {} ELSE f.accounts
             g == [f EXCEPT !.inbound = inbound, !.applicability = who, !.accounts = a]
  <2>1. Update(g) /\ checks' = checks /\ want' = want
    BY <1>12 DEF EditApplicability, e, f
  <2>2. a \in SUBSET (Accounts \cup OtherAccounts)
    BY <1>1 DEF FilterRecords
  <2> HIDE DEF a
  <2>3. g \in FilterRecords /\ g.name = f.name /\ g.shortcut = f.shortcut /\ g.toolbar = f.toolbar
    BY <1>1, <2>2 DEF FilterRecords
  <2> HIDE DEF g
  <2>4. QED
    BY <2>1, <2>3, <1>9
<1>13. ASSUME NEW x \in Accounts, EditAccount(x) PROVE DialogInv'
  <2> DEFINE a == IF x \in f.accounts THEN f.accounts \ {x} ELSE f.accounts \cup {x}
             g == [f EXCEPT !.accounts = a]
  <2>1. Update(g) /\ checks' = checks /\ want' = want
    BY <1>13 DEF EditAccount, e, f
  <2>2. a \in SUBSET (Accounts \cup OtherAccounts)
    <3>1. f.accounts \in SUBSET (Accounts \cup OtherAccounts)
      BY <1>1 DEF FilterRecords
    <3>2. QED
      BY <3>1
  <2> HIDE DEF a
  <2>3. g \in FilterRecords /\ g.name = f.name /\ g.shortcut = f.shortcut /\ g.toolbar = f.toolbar
    BY <1>1, <2>2 DEF FilterRecords
  <2> HIDE DEF g
  <2>4. QED
    BY <2>1, <2>3, <1>9
<1>14. ASSUME TickShortcut PROVE DialogInv'
  <2> DEFINE g == SetShortcut(f, ~checks.shortcut)
             boxes == [checks EXCEPT !.shortcut = ~@]
  <2>1. Tick(g, boxes)
    BY <1>14 DEF TickShortcut, e, f
  <2>2. (~checks.shortcut) \in BOOLEAN /\ boxes \in Boxes
    BY <1>1 DEF Boxes
  <2>3. g \in MenuFilters /\ g.name = f.name
    BY <1>1, <2>2, BoxesFitMenus
  <2> HIDE DEF g, boxes
  <2>4. QED
    BY <2>1, <2>2, <2>3, <1>10
<1>15. ASSUME TickToolbar PROVE DialogInv'
  <2> DEFINE g == SetToolbar(f, ~checks.toolbar)
             boxes == [checks EXCEPT !.toolbar = ~@]
  <2>1. Tick(g, boxes)
    BY <1>15 DEF TickToolbar, e, f
  <2>2. (~checks.toolbar) \in BOOLEAN /\ boxes \in Boxes
    BY <1>1 DEF Boxes
  <2>3. g \in MenuFilters /\ g.name = f.name
    BY <1>1, <2>2, BoxesFitMenus
  <2> HIDE DEF g, boxes
  <2>4. QED
    BY <2>1, <2>2, <2>3, <1>10
<1>16. QED
  BY <1>6, <1>7, <1>8, <1>11, <1>12, <1>13, <1>14, <1>15 DEF EditShown

(* Every item has its filter, its name and what is wanted of it.           *)
LEMMA ItemsHaveAll ==
  ASSUME DialogInv
  PROVE  /\ Range(list) \subseteq Used /\ EditorsFit /\ DOMAIN text = Used /\ DOMAIN want = Used /\ DOMAIN filter = Used
         /\ current \in Range(list) \cup {NoFilter} /\ form \in Forms /\ checks \in Boxes
         /\ \A j \in Used : filter[j] \in MenuFilters /\ want[j] \in Marks
         /\ \A j \in Used : want = [want EXCEPT ![j] = want[j]] /\ text = [text EXCEPT ![j] = text[j]]
<1>1. /\ Range(list) \subseteq Used /\ EditorsFit /\ DOMAIN text = Used /\ DOMAIN want = Used
      /\ current \in Range(list) \cup {NoFilter} /\ want \in Seq(Marks) /\ text \in Seq(Names)
  BY ListIsSane DEF DialogInv
<1>2. /\ DOMAIN filter = Used /\ form \in Forms /\ checks \in Boxes /\ filter \in Seq(MenuFilters)
  BY <1>1 DEF EditorsFit, Used
<1>3. ASSUME NEW A, NEW s \in Seq(A), DOMAIN s = Used
      PROVE  \A j \in Used : s[j] \in A /\ s = [s EXCEPT ![j] = s[j]]
  <2>1. Len(s) \in Nat /\ DOMAIN s = 1..Len(s) /\ \A j \in 1..Len(s) : s[j] \in A
    OBVIOUS
  <2>2. s = [j \in Used |-> s[j]]
    BY <1>3
  <2>3. ASSUME NEW j \in Used PROVE s = [s EXCEPT ![j] = s[j]]
    BY <2>2
  <2>4. QED
    BY <1>3, <2>1, <2>3
<1>4. \A j \in Used : filter[j] \in MenuFilters
  BY <1>2, <1>3
<1>5. \A j \in Used : want[j] \in Marks /\ want = [want EXCEPT ![j] = want[j]]
  BY <1>1, <1>3
<1>6. \A j \in Used : text = [text EXCEPT ![j] = text[j]]
  BY <1>1, <1>3
<1>7. QED
  BY <1>1, <1>2, <1>4, <1>5, <1>6

(* A change to a filter that concerns neither rules, actions nor boxes.    *)
LEMMA OthersOfFilterChange ==
  ASSUME DialogInv, phase = "open",
         NEW e \in Range(list), NEW g \in MenuFilters, Marked(g) = Marked(filter[e]),
         filter' = [filter EXCEPT ![e] = g], text' = [text EXCEPT ![e] = g.name],
         Changed, list' = list, current' = current, selected' = selected,
         form' = form, checks' = checks, want' = want
  PROVE  DialogInv'
<1> DEFINE w == want[e]
<1>1. e \in Used /\ w \in Marks /\ want' = [want EXCEPT ![e] = w]
  BY ItemsHaveAll
<1>2. w = Entered(e)
  BY DEF DialogInv, ItemsFit
<1>3. g.shortcut = filter[e].shortcut /\ g.toolbar = filter[e].toolbar
  BY DEF Marked
<1>4. w = IF e = edited THEN [rules |-> form'.rules, actions |-> form'.actions,
                              shortcut |-> g.shortcut, toolbar |-> g.toolbar]
          ELSE Marked(g)
  BY <1>2, <1>3 DEF Entered
<1>5. phase' = phase /\ loaded' = loaded /\ edited' = edited
  BY DEF Changed, managerVars
<1>6. form' \in Forms /\ checks' \in Boxes /\ (e # edited => form' = form)
  BY ItemsHaveAll
<1> HIDE DEF w
<1>7. QED
  BY <1>1, <1>4, <1>5, <1>6, OneFilterChanges

(* Enabling a filter of the list touches that filter only.                 *)
LEMMA EnablingReachesFilter ==
  ASSUME DialogInv, phase = "open", NEW i \in Range(list), Enable(i)
  PROVE  DialogInv'
<1> DEFINE f == filter[i]
           g == [f EXCEPT !.enabled = ~@]
<1>1. i \in Used /\ f \in MenuFilters /\ f \in FilterRecords
  BY ItemsHaveAll DEF MenuFilters
<1>2. /\ filter' = [filter EXCEPT ![i] = g] /\ text' = text /\ want' = want /\ form' = form /\ checks' = checks
      /\ Changed /\ list' = list /\ current' = current /\ selected' = selected
  BY DEF Enable, listVars
<1>3. g \in FilterRecords /\ g.name = f.name /\ g.rules = f.rules /\ g.actions = f.actions
      /\ g.shortcut = f.shortcut /\ g.toolbar = f.toolbar
  BY <1>1 DEF FilterRecords
<1> HIDE DEF g
<1>4. g \in MenuFilters /\ Marked(g) = Marked(f)
  BY <1>1, <1>3 DEF MenuFilters, MenuFirst, Marked
<1>5. text' = [text EXCEPT ![i] = g.name]
  <2>1. text[i] = f.name
    BY DEF DialogInv, ItemsFit
  <2>2. text = [text EXCEPT ![i] = text[i]]
    BY ItemsHaveAll, <1>1
  <2>3. QED
    BY <2>1, <2>2, <1>2, <1>3
<1>6. QED
  BY <1>2, <1>4, <1>5, OthersOfFilterChange

(* So does renaming one.                                                   *)
LEMMA RenamingReachesFilter ==
  ASSUME DialogInv, phase = "open", NEW name \in {"", "own", "blank"}, Rename(name)
  PROVE  DialogInv'
<1> DEFINE f == filter[current]
           g == Named([f EXCEPT !.name = name, !.auto = (name = "")])
<1>1. current \in Range(list) /\ f \in MenuFilters
  <2>1. current \in Range(list)
    BY ItemsHaveAll DEF Rename
  <2>2. QED
    BY <2>1, ItemsHaveAll
<1>2. /\ filter' = [filter EXCEPT ![current] = g] /\ text' = [text EXCEPT ![current] = g.name]
      /\ want' = want /\ form' = form /\ checks' = checks
      /\ Changed /\ list' = list /\ current' = current /\ selected' = selected
  BY DEF Rename, listVars
<1>3. g \in MenuFilters /\ Marked(g) = Marked(f)
  BY <1>1, NamedFits
<1> HIDE DEF g
<1>4. QED
  BY <1>1, <1>2, <1>3, OthersOfFilterChange

(* An item that joins the list brings its filter, its name and what is     *)
(* wanted of it; the others keep theirs.                                   *)
LEMMA OneMoreItem ==
  ASSUME DialogInv, phase = "open", NEW f \in MenuFilters, NEW n, n = NewItem,
         EditorsFit', Len(filter') = n, filter'[n].name = f.name,
         \A j \in Used : Entered(j)' = Entered(j) /\ filter'[j].name = filter[j].name,
         Entered(n)' = Marked(f),
         text' = Append(text, f.name), want' = Append(want, Marked(f)),
         list' \in Seq(Used \cup {n}), Unequal(list'), Range(list') = Range(list) \cup {n},
         current' \in Range(list') \cup {NoFilter}, selected' \subseteq Range(list'),
         edited' \in {current', NoFilter}, phase' = phase, loaded' = loaded
  PROVE  DialogInv'
<1>0. /\ Used = 1..Len(filter) /\ Len(filter) \in Nat /\ n = Len(filter) + 1
      /\ Range(list) \subseteq Used
      /\ text \in Seq(Names) /\ Len(text) = Len(filter) /\ want \in Seq(Marks) /\ Len(want) = Len(filter)
  BY ItemsAreNumbered, ListIsSane DEF DialogInv
<1>1. Used' = Used \cup {n}
  <2>1. Used' = 1..Len(filter')
    BY DEF EditorsFit, Used
  <2>2. QED
    BY <2>1, <1>0
<1>2. f.name \in Names /\ Marked(f) \in Marks
  BY DEF MenuFilters, FilterRecords, Names, Marked, Marks
<1>3. /\ text' \in Seq(Names) /\ Len(text') = n /\ text'[n] = f.name
      /\ \A j \in Used : text'[j] = text[j]
  BY <1>0, <1>2, AppendProperties
<1>4. /\ want' \in Seq(Marks) /\ Len(want') = n /\ want'[n] = Marked(f)
      /\ \A j \in Used : want'[j] = want[j]
  <2>1. PICK m \in Marks : m = Marked(f)
    BY <1>2
  <2>2. want' = Append(want, m)
    BY <2>1
  <2>3. QED
    BY <1>0, <2>1, <2>2, AppendProperties
<1>5. Sane(Here, Used)'
  <2>1. list' \in Seq(Used')
    BY <1>1
  <2>2. QED
    BY <2>1, PartsAreSane DEF Here
<1>6. ItemsFit'
  <2> SUFFICES ASSUME NEW j \in Range(list) \cup {n}
               PROVE  Entered(j)' = want'[j] /\ text'[j] = filter'[j].name
    BY DEF ItemsFit
  <2>1. CASE j = n
    BY <2>1, <1>3, <1>4
  <2>2. CASE j \in Range(list)
    <3>1. j \in Used
      BY <1>0, <2>2
    <3>2. Entered(j) = want[j] /\ text[j] = filter[j].name
      BY <2>2 DEF DialogInv, ItemsFit
    <3>3. QED
      BY <3>1, <3>2, <1>3, <1>4
  <2>3. QED
    BY <2>1, <2>2
<1>7. QED
  BY <1>3, <1>4, <1>5, <1>6 DEF DialogInv

(* insertFilter() shows the new filter after what was entered has been     *)
(* written back.                                                           *)
LEMMA InsertingLosesNothing ==
  ASSUME DialogInv, phase = "open", NEW f \in MenuFilters, Insert(f, WriteBack(filter))
  PROVE  DialogInv'
<1>N. PICK n : n = NewItem
  OBVIOUS
<1> DEFINE m  == Len(filter)
           fs == WriteBack(filter)
           gs == Append(fs, f)
           i  == IF current = NoFilter THEN 1 ELSE Row(Here, current)
           k  == IF current = NoFilter THEN Last(InsertAt(list, 1, n)) ELSE n
           l  == InsertAt(list, i, n)
<1>0. /\ Used = 1..m /\ m \in Nat /\ n = m + 1 /\ n \notin Used /\ NoFilter \notin Nat
      /\ Range(list) \subseteq Used /\ list \in Seq(Used) /\ Unequal(list)
      /\ DOMAIN list = 1..Len(list) /\ Len(list) \in Nat
  BY <1>N, ItemsAreNumbered, ListIsSane DEF DialogInv
<1>1. /\ fs \in Seq(MenuFilters) /\ Len(fs) = m
      /\ \A j \in Used : Marked(fs[j]) = Entered(j) /\ fs[j].name = filter[j].name
  BY WrittenBack DEF DialogInv
<1>2. /\ list' = l /\ current' = k /\ selected' = {k} /\ text' = Append(text, f.name)
      /\ want' = Append(want, Marked(f)) /\ Show(gs, k) /\ phase' = phase /\ loaded' = loaded
  BY <1>N DEF Insert, managerVars
<1>3. i \in 1..(Len(list) + 1)
  <2>1. current # NoFilter => Row(Here, current) \in 1..Len(list)
    BY <1>0, ListIsSane
  <2>2. QED
    BY <2>1, <1>0
<1>4. /\ list \in Seq(Used \cup {n}) /\ n \in Used \cup {n} /\ n \notin Range(list)
  BY <1>0
<1> HIDE DEF i, m
<1>5. l \in Seq(Used \cup {n}) /\ Unequal(l) /\ Range(l) = Range(list) \cup {n} /\ Len(l) = Len(list) + 1
  <2>0. PICK A : A = Used \cup {n}
    OBVIOUS
  <2>1. l \in Seq(Used \cup {n}) /\ Len(l) = Len(list) + 1
    <3>1. l \in Seq(A) /\ Len(l) = Len(list) + 1
      BY <1>3, <1>4, <2>0, WithOneMore
    <3>2. QED
      BY <3>1, <2>0
  <2>2. Unequal(l)
    BY <1>0, <1>3, <1>4, StaysUnequal
  <2>3. Range(l) = Range(list) \cup {n}
    BY <1>3, <1>4, <2>0, RangeOfTwo
  <2>4. QED
    BY <2>1, <2>2, <2>3
<1>6. k \in Range(l)
  <2>1. CASE current = NoFilter
    <3>1. i = 1 /\ k = Last(l)
      BY <2>1 DEF i
    <3>2. Len(l) \in DOMAIN l
      <4> HIDE DEF l
      <4>1. QED
        BY <1>0, <1>5
    <3>3. l[Len(l)] \in Range(l)
      <4> HIDE DEF l
      <4>1. QED
        BY <3>2 DEF Range
    <3>4. QED
      BY <3>1, <3>3 DEF Last
  <2>2. CASE current # NoFilter
    BY <2>2, <1>5
  <2>3. QED
    BY <2>1, <2>2
<1>7. /\ gs \in Seq(MenuFilters) /\ Len(gs) = n /\ gs[n] = f /\ \A j \in Used : gs[j] = fs[j]
  <2> HIDE DEF fs
  <2>1. /\ gs \in Seq(MenuFilters) /\ Len(gs) = Len(fs) + 1 /\ gs[Len(fs) + 1] = f
        /\ \A j \in 1..Len(fs) : gs[j] = fs[j]
    BY <1>1, AppendProperties
  <2>2. QED
    BY <2>1, <1>0, <1>1
<1>8. k \in DOMAIN gs /\ DOMAIN gs = Used \cup {n}
  <2> HIDE DEF gs, k, l
  <2>1. DOMAIN gs = 1..n
    BY <1>7
  <2>2. 1..n = Used \cup {n}
    BY <1>0
  <2>3. QED
    BY <2>1, <2>2, <1>0, <1>5, <1>6
<1> HIDE DEF gs, k, l, fs
<1>9. /\ filter' = gs /\ edited' = k /\ form' \in Forms /\ checks' \in Boxes
      /\ form' = [rules |-> gs[k].rules, actions |-> gs[k].actions]
  BY <1>2, <1>7, <1>8, ShownAsItIs
<1>10. EditorsFit'
  BY <1>7, <1>8, <1>9 DEF EditorsFit, Used
<1>11. \A j \in Used \cup {n} : Entered(j)' = Marked(gs[j])
  BY <1>9 DEF Entered, Marked
<1>12. /\ \A j \in Used : Entered(j)' = Entered(j) /\ filter'[j].name = filter[j].name
       /\ Entered(n)' = Marked(f) /\ Len(filter') = n /\ filter'[n].name = f.name
  BY <1>1, <1>7, <1>9, <1>11
<1>13. QED
  BY <1>2, <1>5, <1>6, <1>9, <1>10, <1>12, <1>N, OneMoreItem

(* New filters, copies and imported ones are filters that fit the menus.   *)
LEMMA AddingLosesNothing ==
  ASSUME DialogInv, phase = "open", New \/ Copy \/ Import
  PROVE  DialogInv'
<1>0. /\ EditorsFit /\ Used = 1..Len(filter) /\ Len(filter) \in Nat /\ NewItem = Len(filter) + 1 /\ NewItem \in Nat
      /\ NewItem \notin Used /\ NewItem # NoFilter /\ NoFilter \notin Used
      /\ Range(list) \subseteq Used /\ list \in Seq(Used) /\ Unequal(list)
      /\ current \in Range(list) \cup {NoFilter} /\ selected \subseteq Range(list)
      /\ edited \in {current, NoFilter} /\ edited \in Used \cup {NoFilter}
  BY ItemsAreNumbered, ListIsSane DEF DialogInv
<1>1. CASE New
  <2>1. \A i \in Nat : /\ NewFilter(i) \in MenuFilters
                       /\ [NewFilter(i) EXCEPT !.name = "field", !.rules = TRUE, !.actions = "unfit"] \in MenuFilters
    BY DEF NewFilter, MenuFilters, FilterRecords, MenuFirst
  <2>2. QED
    BY <1>0, <1>1, <2>1, InsertingLosesNothing DEF New
<1>2. CASE Copy
  <2> DEFINE f == WriteBack(filter)[current]
             g == [f EXCEPT !.id = NewItem]
  <2>1. current \in Used /\ Insert(g, WriteBack(filter))
    BY <1>0, <1>2 DEF Copy
  <2>2. f \in MenuFilters
    <3>1. WriteBack(filter) \in Seq(MenuFilters) /\ DOMAIN WriteBack(filter) = Used
      BY <1>0, WrittenBack
    <3> HIDE DEF f
    <3>2. QED
      BY <2>1, <3>1 DEF f
  <2>3. g \in MenuFilters
    <3> HIDE DEF f
    <3>1. g \in FilterRecords /\ g.shortcut = f.shortcut /\ g.toolbar = f.toolbar
      BY <1>0, <2>2 DEF MenuFilters, FilterRecords
    <3>2. QED
      BY <3>1, <2>2 DEF MenuFilters, MenuFirst
  <2> HIDE DEF g
  <2>4. QED
    BY <2>1, <2>3, InsertingLosesNothing
<1>3. CASE Import
  <2>N. PICK n : n = NewItem
    OBVIOUS
  <2>1. PICK f \in Imported : /\ list' = Append(list, n) /\ filter' = Append(filter, f)
                              /\ text' = Append(text, f.name) /\ want' = Append(want, Marked(f))
    BY <1>3, <2>N DEF Import
  <2>2. /\ current' = current /\ selected' = selected /\ form' = form /\ checks' = checks
        /\ phase' = phase /\ loaded' = loaded /\ edited' = edited
    BY <1>3 DEF Import, Changed, managerVars
  <2>3. f \in MenuFilters
    BY DialogAssumption DEF MenuFilters
  <2>4. /\ filter' \in Seq(MenuFilters) /\ Len(filter') = n /\ filter'[n] = f
        /\ \A j \in Used : filter'[j] = filter[j]
    BY <1>0, <2>N, <2>1, <2>3, AppendProperties DEF EditorsFit
  <2>5. Used' = Used \cup {n}
    <3>1. Used' = 1..n
      BY <2>4 DEF Used
    <3>2. QED
      BY <3>1, <1>0, <2>N
  <2>6. EditorsFit'
    BY <1>0, <2>N, <2>2, <2>4, <2>5 DEF EditorsFit
  <2>7. /\ \A j \in Used : Entered(j)' = Entered(j) /\ filter'[j].name = filter[j].name
        /\ Entered(n)' = Marked(f)
    <3>1. n # edited
      BY <1>0, <2>N
    <3>2. QED
      BY <2>2, <2>4, <3>1 DEF Entered
  <2>8. /\ list' \in Seq(Used \cup {n}) /\ Unequal(list') /\ Range(list') = Range(list) \cup {n}
    <3>1. list \in Seq(Used \cup {n}) /\ n \in Used \cup {n} /\ n \notin Range(list)
          /\ Len(list) + 1 \in 1..(Len(list) + 1)
      BY <1>0, <2>N
    <3>2. list' = InsertAt(list, Len(list) + 1, n)
      BY <3>1, <2>1, InsertInAppend
    <3>3. Unequal(InsertAt(list, Len(list) + 1, n))
      BY <1>0, <2>N, <3>1, StaysUnequal
    <3>4. Append(list, n) \in Seq(Used \cup {n}) /\ Range(Append(list, n)) = Range(list) \cup {n}
      BY <3>1, RangeOfAppend, AppendProperties
    <3>5. QED
      BY <2>1, <3>2, <3>3, <3>4
  <2>9. current' \in Range(list') \cup {NoFilter} /\ selected' \subseteq Range(list') /\ edited' \in {current', NoFilter}
    BY <1>0, <2>N, <2>2, <2>8
  <2>10. QED
    BY <2>1, <2>2, <2>3, <2>4, <2>6, <2>7, <2>8, <2>9, <2>N, OneMoreItem
<1>4. QED
  BY <1>1, <1>2, <1>3

(* The filter of an item as it would be after writing back.                *)
Now(i) ==
  IF i = edited THEN [filter[i] EXCEPT !.rules = form.rules, !.actions = form.actions] ELSE filter[i]

(* Having its own rules and actions written to it leaves a filter alone.   *)
LEMMA OwnForm ==
  ASSUME NEW f \in MenuFilters
  PROVE  [f EXCEPT !.rules = f.rules, !.actions = f.actions] = f
BY DEF MenuFilters, FilterRecords

(* What the editors are told to show does not change what writing back     *)
(* would leave.                                                            *)
LEMMA EditKeepsNow ==
  ASSUME EditorsFit, NEW i \in Used \cup {NoFilter}, Edit(i)
  PROVE  \A j \in Used : Now(j)' = Now(j)
<1>1. CASE i = edited /\ UNCHANGED <<edited, form, checks, filter>>
  BY <1>1 DEF Now
<1> DEFINE fs == WriteBack(filter)
<1>W. /\ fs \in Seq(MenuFilters) /\ DOMAIN fs = Used /\ \A j \in Used : fs[j] = Now(j)
  BY WrittenBack DEF Now
<1>2. CASE i = NoFilter /\ Reset(fs)
  <2> HIDE DEF fs
  <2>1. edited' = NoFilter /\ filter' = fs
    BY <1>2 DEF Reset
  <2>2. \A j \in Used : Now(j)' = fs[j]
    BY <2>1, ItemsAreNumbered DEF Now
  <2>3. QED
    BY <2>2, <1>W
<1>3. CASE i \in Used /\ Show(fs, i)
  <2> HIDE DEF fs
  <2>1. /\ filter' = fs /\ edited' = i
        /\ form' = [rules |-> fs[i].rules, actions |-> fs[i].actions]
    BY <1>3, <1>W, ShownAsItIs
  <2>2. fs[i] \in MenuFilters
    BY <1>3, <1>W
  <2>3. \A j \in Used : Now(j)' = fs[j]
    BY <2>1, <2>2, OwnForm DEF Now
  <2>4. QED
    BY <2>3, <1>W
<1>4. QED
  BY <1>1, <1>2, <1>3 DEF Edit

(* loadFilterList() shows the manager's filters, or a new one.             *)
LEMMA OpeningFits ==
  ASSUME ManagerInv, Open
  PROVE  DialogInv' /\ (filters # << >> => filter' = filters) /\ \A j \in Used' : Now(j)' = filter'[j]
<1> DEFINE fs == IF filters = << >> THEN <<NewFilter(1)>> ELSE filters
           n  == Len(fs)
<1>1. fs \in Seq(MenuFilters) /\ n \in Nat /\ n >= 1 /\ DOMAIN fs = 1..n
  <2>1. CASE filters = << >>
    <3>1. NewFilter(1) \in MenuFilters
      BY DEF NewFilter, MenuFilters, FilterRecords, MenuFirst
    <3>2. QED
      BY <2>1, <3>1
  <2>2. CASE filters # << >>
    BY <2>2 DEF ManagerInv
  <2>3. QED
    BY <2>1, <2>2
<1>2. /\ phase' = "open" /\ loaded' = loaded /\ loaded
      /\ list' = Numbers(n) /\ text' = [i \in DOMAIN fs |-> fs[i].name]
      /\ want' = [i \in DOMAIN fs |-> Marked(fs[i])]
      /\ current' = 1 /\ selected' = {1} /\ Show(fs, 1)
  BY DEF Open, managerVars
<1> HIDE DEF fs, n
<1>3. 1 \in DOMAIN fs
  BY <1>1
<1>4. /\ filter' = fs /\ edited' = 1 /\ form' \in Forms /\ checks' \in Boxes
      /\ form' = [rules |-> fs[1].rules, actions |-> fs[1].actions]
  BY <1>1, <1>2, <1>3, ShownAsItIs
<1>5. Used' = 1..n
  BY <1>1, <1>4 DEF Used
<1>6. EditorsFit'
  BY <1>1, <1>3, <1>4, <1>5 DEF EditorsFit
<1>7. \A j \in 1..n : fs[j] \in MenuFilters /\ fs[j].name \in Names /\ Marked(fs[j]) \in Marks
  <2>1. \A f \in MenuFilters : f.name \in Names /\ Marked(f) \in Marks
    BY DEF MenuFilters, FilterRecords, Names, Marked, Marks
  <2>2. QED
    BY <1>1, <2>1
<1>8. text' \in Seq(Names) /\ Len(text') = n /\ \A j \in 1..n : text'[j] = fs[j].name
  BY <1>1, <1>2, <1>7
<1>9. want' \in Seq(Marks) /\ Len(want') = n /\ \A j \in 1..n : want'[j] = Marked(fs[j])
  BY <1>1, <1>2, <1>7
<1>10. Len(filter') = n
  BY <1>4 DEF n
<1>11. list' \in Seq(1..n) /\ Unequal(list') /\ Range(list') = 1..n
  <2>1. list' = [i \in 1..n |-> i]
    BY <1>2 DEF Numbers
  <2>2. QED
    BY <1>1, <2>1 DEF Unequal, Range
<1>12. Sane(Here, Used)'
  <2>1. current' \in Range(list') \cup {NoFilter} /\ selected' \subseteq Range(list') /\ edited' \in {current', NoFilter}
    BY <1>1, <1>2, <1>4, <1>11
  <2>2. QED
    BY <2>1, <1>5, <1>11, PartsAreSane DEF Here
<1>13. ItemsFit'
  <2> SUFFICES ASSUME NEW j \in 1..n PROVE Entered(j)' = want'[j] /\ text'[j] = filter'[j].name
    BY <1>11 DEF ItemsFit
  <2>1. Entered(j)' = Marked(fs[j])
    BY <1>4 DEF Entered, Marked
  <2>2. QED
    BY <2>1, <1>4, <1>8, <1>9
<1>14. \A j \in 1..n : Now(j)' = filter'[j]
  BY <1>4, <1>7, OwnForm DEF Now
<1>15. DialogInv'
  BY <1>2, <1>6, <1>8, <1>9, <1>10, <1>12, <1>13 DEF DialogInv
<1>16. QED
  BY <1>4, <1>5, <1>14, <1>15 DEF fs

-----------------------------------------------------------------------------
(* Saving.                                                                 *)

(* What is saved is what is valid of the list, purified.                   *)
LEMMA SavedFilters ==
  ASSUME DialogInv, NEW fs \in Seq(MenuFilters), DOMAIN fs = Used
  PROVE  /\ SoundFilters(fs) \in Seq(MenuFilters)
         /\ \A f \in Range(SoundFilters(fs)) :
              \E i \in Range(list) : NothingToSay(fs[i]) /\ ~IsEmpty(Purified(fs[i])) /\ f = Purified(fs[i])
         /\ \A i \in Range(list) :
              NothingToSay(fs[i]) /\ ~IsEmpty(Purified(fs[i])) => Purified(fs[i]) \in Range(SoundFilters(fs))
<1> DEFINE copies == [i \in DOMAIN list |-> fs[list[i]]]
           ok(f)  == NothingToSay(f) /\ ~IsEmpty(Purified(f))
           Valid  == {f \in FilterRecords : ok(f)}
           good   == Keep(copies, Valid)
<1>0. /\ list \in Seq(Used) /\ DOMAIN list = 1..Len(list) /\ Len(list) \in Nat /\ Range(list) \subseteq Used
      /\ \A i \in Used : fs[i] \in MenuFilters
  BY ListIsSane
<1>1. copies \in Seq(MenuFilters)
  BY <1>0
<1>2. Range(copies) = {fs[i] : i \in Range(list)}
  BY DEF Range
<1> HIDE DEF copies, Valid
<1>3. good \in Seq(MenuFilters) /\ Range(good) = Range(copies) \cap Valid
  BY <1>1, RangeOfKeep
<1>4. SoundFilters(fs) = [i \in DOMAIN good |-> Purified(good[i])]
  BY DEF SoundFilters, copies, Valid
<1> HIDE DEF good
<1>5. \A f \in MenuFilters : Purified(f) \in MenuFilters
  BY PurifiedIsFilter DEF MenuFilters
<1>6. SoundFilters(fs) \in Seq(MenuFilters)
  <2>1. DOMAIN good = 1..Len(good) /\ Len(good) \in Nat /\ \A i \in DOMAIN good : Purified(good[i]) \in MenuFilters
    BY <1>3, <1>5
  <2>2. QED
    BY <2>1, <1>4
<1>7. Range(SoundFilters(fs)) = {Purified(f) : f \in Range(good)}
  BY <1>4 DEF Range
<1>8. \A f \in MenuFilters : f \in Valid <=> NothingToSay(f) /\ ~IsEmpty(Purified(f))
  BY DEF Valid, MenuFilters
<1>9. \A i \in Range(list) : fs[i] \in MenuFilters
  BY <1>0
<1>10. \A f \in Range(good) : \E i \in Range(list) : f = fs[i] /\ f \in Valid
  BY <1>2, <1>3
<1>11. \A i \in Range(list) : fs[i] \in Valid => fs[i] \in Range(good)
  BY <1>2, <1>3
<1>12. QED
  BY <1>6, <1>7, <1>8, <1>9, <1>10, <1>11

(* applyFilterChanged() writes back what was entered, and shows the same   *)
(* filter again; the manager gets what is valid or stays as it was.        *)
LEMMA SavingLosesNothing ==
  ASSUME ManagerInv, DialogInv, NEW accepted \in BOOLEAN, Save(accepted)
  PROVE  /\ ManagerInv' /\ loaded' = loaded
         /\ EditorsFit' /\ Len(filter') = Len(filter) /\ Used' = Used /\ edited' \in {current, NoFilter}
         /\ \A j \in Used : Entered(j)' = Entered(j) /\ filter'[j].name = filter[j].name
         /\ \A j \in Used : Now(j)' = WriteBack(filter)[j]
<1> DEFINE fs == WriteBack(filter)
<1>0. /\ EditorsFit /\ Range(list) \subseteq Used /\ current \in Range(list) \cup {NoFilter}
      /\ edited \in {current, NoFilter}
  BY ListIsSane DEF DialogInv
<1>1. /\ fs \in Seq(MenuFilters) /\ Len(fs) = Len(filter) /\ DOMAIN fs = Used
      /\ \A j \in Used : Marked(fs[j]) = Entered(j) /\ fs[j].name = filter[j].name
  BY <1>0, WrittenBack
<1>2. /\ IF current = NoFilter THEN filter' = fs /\ UNCHANGED <<edited, form, checks>> ELSE Show(fs, current)
      /\ IF accepted THEN SetFilters(SoundFilters(fs)) ELSE UNCHANGED managerVars
  BY DEF Save
<1> HIDE DEF fs
<1>3. ManagerInv' /\ loaded' = loaded
  <2>1. CASE accepted
    <3>1. filters' = SoundFilters(fs) /\ EndUpdate(SoundFilters(fs)) /\ loaded' = loaded
      BY <1>2, <2>1 DEF SetFilters
    <3>2. SoundFilters(fs) \in Seq(MenuFilters)
      BY <1>1, SavedFilters
    <3>3. QED
      BY <3>1, <3>2, WritingReachesAgent
  <2>2. CASE ~accepted
    BY <1>2, <2>2 DEF managerVars, ManagerInv
  <2>3. QED
    BY <2>1, <2>2
<1>4. CASE current = NoFilter
  <2>1. filter' = fs /\ edited' = edited /\ form' = form /\ checks' = checks /\ edited = NoFilter
    BY <1>0, <1>2, <1>4
  <2>2. Used' = Used
    BY <2>1, <1>1 DEF Used
  <2>3. EditorsFit'
    BY <2>1, <2>2, <1>0, <1>1 DEF EditorsFit
  <2>4. \A j \in Used : j # NoFilter
    BY <1>0, ItemsAreNumbered
  <2>5. \A j \in Used : Entered(j)' = Marked(fs[j]) /\ Now(j)' = fs[j]
    BY <2>1, <2>4 DEF Entered, Now
  <2>6. QED
    BY <1>1, <1>3, <2>1, <2>2, <2>3, <2>5 DEF fs
<1>5. CASE current # NoFilter
  <2>0. current \in Used
    BY <1>0, <1>5
  <2>1. /\ filter' = fs /\ edited' = current /\ form' \in Forms /\ checks' \in Boxes
        /\ form' = [rules |-> fs[current].rules, actions |-> fs[current].actions]
    BY <2>0, <1>1, <1>2, <1>5, ShownAsItIs
  <2>2. Used' = Used
    BY <2>1, <1>1 DEF Used
  <2>3. EditorsFit'
    BY <2>0, <2>1, <2>2, <1>1 DEF EditorsFit
  <2>4. fs[current] \in MenuFilters
    BY <2>0, <1>1
  <2>5. \A j \in Used : Entered(j)' = Marked(fs[j]) /\ Now(j)' = fs[j]
    BY <2>1, <2>4, OwnForm DEF Entered, Marked, Now
  <2>6. QED
    BY <1>1, <1>3, <2>1, <2>2, <2>3, <2>5 DEF fs
<1>6. QED
  BY <1>4, <1>5

-----------------------------------------------------------------------------
(* The specification.                                                      *)

(* A dialog that is not there shows nothing.                               *)
LEMMA DialogStarts ==
  ASSUME Init
  PROVE  ManagerInv /\ DialogInv
<1>1. ManagerInv /\ loaded = FALSE
  BY ManagerStarts DEF Init
<1>2. /\ phase = "closed" /\ filter = << >> /\ list = << >> /\ current = NoFilter /\ selected = {}
      /\ text = << >> /\ edited = NoFilter /\ form = Blank /\ want = << >>
      /\ checks = [shortcut |-> FALSE, toolbar |-> FALSE]
  BY DEF Init, DialogInit
<1>3. EditorsFit
  BY <1>2 DEF EditorsFit, Forms, Boxes, Blank
<1>4. list \in Seq(Used) /\ Unequal(list) /\ Range(list) = {}
  BY <1>2 DEF Unequal, Range
<1>5. Sane(Here, Used)
  BY <1>2, <1>4, PartsAreSane DEF Here
<1>6. ItemsFit
  BY <1>4 DEF ItemsFit
<1>7. QED
  BY <1>1, <1>2, <1>3, <1>5, <1>6 DEF DialogInv

(* The dialog does not mind what becomes of the manager.                   *)
LEMMA DialogStays ==
  ASSUME DialogInv, phase' = phase, filter' = filter, list' = list, current' = current, selected' = selected,
         text' = text, edited' = edited, form' = form, checks' = checks, want' = want,
         loaded => loaded'
  PROVE  DialogInv' /\ Range(list') = Range(list) /\ \A i : Now(i)' = Now(i)
BY DEF DialogInv, EditorsFit, Used, Sane, Widget, Here, ItemsFit, Entered, Now

(* The buttons that move.                                                  *)
LEMMA ButtonsLoseNothing ==
  ASSUME DialogInv, phase = "open", Up \/ Top \/ Down \/ Bottom
  PROVE  DialogInv'
<1>1. Sane(Here, Used)
  BY DEF DialogInv
<1>2. PICK how \in {"up", "top", "down", "bottom"} : MoveTo(OneByOne(how, Here))
  BY DEF Up, Top, Down, Bottom
<1>3. Kept(OneByOne(how, Here), Used)
  BY <1>1, UpIsOrderly, TopIsOrderly, DownIsOrderly, BottomKeepsItems
<1>4. QED
  BY <1>2, <1>3, MovesLoseNothing

(* Changes to the list do not concern the manager and are marked.          *)
LEMMA ListLeavesManager ==
  ASSUME EditList
  PROVE  /\ filters' = filters /\ config' = config /\ agent' = agent /\ loaded' = loaded
         /\ apply' = TRUE
BY DEF EditList, Enable, Rename, New, Copy, Insert, Delete, Import, Up, Top, Down, Bottom,
       MoveTo, Changed, managerVars

(* Neither do changes in the editors.                                      *)
LEMMA EditorsLeaveManager ==
  ASSUME EditShown
  PROVE  /\ filters' = filters /\ config' = config /\ agent' = agent /\ loaded' = loaded
         /\ apply' = TRUE
BY DEF EditShown, EditActions, EditRules, RemoveRule, Update, EditOperator, EditApplicability,
       EditAccount, Tick, TickShortcut, TickToolbar, Changed, managerVars

(* Changes to the list keep the dialog in order.                           *)
LEMMA ListLosesNothing ==
  ASSUME DialogInv, phase = "open", EditList
  PROVE  DialogInv'
<1>1. CASE \E i \in Range(list) : Enable(i)
  BY <1>1, EnablingReachesFilter
<1>2. CASE \E name \in {"", "own", "blank"} : Rename(name)
  BY <1>2, RenamingReachesFilter, Zenon
<1>3. CASE New \/ Copy \/ Import
  BY <1>3, AddingLosesNothing
<1>4. CASE Delete
  BY <1>4, DeletingLosesNothing
<1>5. CASE Up \/ Top \/ Down \/ Bottom
  BY <1>5, ButtonsLoseNothing
<1>6. QED
  BY <1>1, <1>2, <1>3, <1>4, <1>5, Zenon DEF EditList

(* Saving keeps the dialog in order.                                       *)
LEMMA SavingKeepsDialog ==
  ASSUME ManagerInv, DialogInv, phase = "open", NEW accepted \in BOOLEAN, Save(accepted),
         phase' \in {"open", "gone"}, list' = list, current' = current, selected' = selected,
         text' = text, want' = want
  PROVE  ManagerInv' /\ DialogInv'
<1>1. /\ ManagerInv' /\ loaded' = loaded
      /\ EditorsFit' /\ Len(filter') = Len(filter) /\ Used' = Used /\ edited' \in {current, NoFilter}
      /\ \A j \in Used : Entered(j)' = Entered(j) /\ filter'[j].name = filter[j].name
  BY SavingLosesNothing
<1>2. /\ list \in Seq(Used) /\ Unequal(list) /\ current \in Range(list) \cup {NoFilter} /\ selected \subseteq Range(list)
  BY ListIsSane
<1>3. QED
  BY <1>1, <1>2, ListOnly

(* The invariants are inductive.                                           *)
LEMMA DialogSteps ==
  ASSUME ManagerInv, DialogInv, [Next]_vars
  PROVE  ManagerInv' /\ DialogInv'
<1>1. CASE ReadConfig /\ UNCHANGED dialogVars
  <2>1. ManagerInv' /\ loaded' = TRUE
    BY <1>1, ReadingKeepsManager
  <2>2. DialogInv'
    BY <2>1, <1>1, DialogStays DEF dialogVars
  <2>3. QED
    BY <2>1, <2>2
<1>2. CASE Others
  <2>1. ManagerInv' /\ loaded' = loaded
    BY <1>2, OthersKeepManager DEF Others
  <2>2. DialogInv'
    BY <2>1, <1>2, DialogStays DEF Others, listVars
  <2>3. QED
    BY <2>1, <2>2
<1>3. CASE Open
  <2>1. ManagerInv'
    BY <1>3 DEF Open, ManagerInv, managerVars
  <2>2. QED
    BY <2>1, <1>3, OpeningFits
<1>4. CASE phase = "open" /\ \E i \in Range(list) : Click(i) \/ Select(i)
  <2>1. ManagerInv'
    BY <1>4 DEF Click, Select, ManagerInv, managerVars
  <2>2. QED
    BY <2>1, <1>4, ClicksLoseNothing
<1>5. CASE phase = "open" /\ EditShown
  <2>1. ManagerInv'
    BY <1>5, EditorsLeaveManager DEF ManagerInv
  <2>2. QED
    BY <2>1, <1>5, EditingReachesFilter
<1>6. CASE phase = "open" /\ EditList
  <2>1. ManagerInv'
    BY <1>6, ListLeavesManager DEF ManagerInv
  <2>2. QED
    BY <2>1, <1>6, ListLosesNothing
<1>7. CASE phase = "open" /\ Apply
  <2>1. PICK accepted \in BOOLEAN : Save(accepted)
    BY <1>7 DEF Apply
  <2>2. phase' = phase /\ list' = list /\ current' = current /\ selected' = selected /\ text' = text /\ want' = want
    BY <1>7 DEF Apply, listVars
  <2>3. QED
    BY <2>1, <2>2, <1>7, SavingKeepsDialog
<1>8. CASE phase = "open" /\ Cancel
  <2>1. ManagerInv'
    BY <1>8 DEF Cancel, ManagerInv, managerVars
  <2>2. /\ phase' = "gone" /\ filter' = filter /\ list' = list /\ current' = current /\ selected' = selected
        /\ text' = text /\ edited' = edited /\ form' = form /\ checks' = checks /\ want' = want /\ loaded' = loaded
    BY <1>8 DEF Cancel, listVars, managerVars
  <2>3. QED
    BY <2>1, <2>2, <1>8 DEF DialogInv, EditorsFit, Used, Sane, Widget, Here, ItemsFit, Entered
<1>9. CASE phase = "open" /\ \E accepted \in BOOLEAN : Ok(accepted)
  <2>1. PICK accepted \in BOOLEAN : Ok(accepted)
    BY <1>9
  <2>2. /\ Save(accepted) /\ phase' \in {"open", "gone"}
        /\ list' = list /\ current' = current /\ selected' = selected /\ text' = text /\ want' = want
    BY <2>1 DEF Ok, listVars
  <2>3. QED
    BY <2>2, <1>9, SavingKeepsDialog
<1>10. CASE UNCHANGED vars
  <2>1. ManagerInv'
    BY <1>10 DEF vars, managerVars, ManagerInv
  <2>2. DialogInv'
    BY <1>10, DialogStays DEF vars, managerVars, dialogVars
  <2>3. QED
    BY <2>1, <2>2
<1>11. QED
  BY <1>1, <1>2, <1>3, <1>4, <1>5, <1>6, <1>7, <1>8, <1>9, <1>10 DEF Next

(* Whatever the dialog and the rest of the program do, the agent works     *)
(* with the manager's filters: endUpdate() tells it after the file has     *)
(* been written.                                                           *)
THEOREM AgentAlwaysFollows == Spec => []AgentFollows
<1>1. Init => ManagerInv /\ DialogInv
  BY DialogStarts
<1>2. (ManagerInv /\ DialogInv) /\ [Next]_vars => (ManagerInv /\ DialogInv)'
  BY DialogSteps
<1>3. ManagerInv /\ DialogInv => AgentFollows
  BY DEF ManagerInv, AgentFollows
<1>4. QED
  BY <1>1, <1>2, <1>3, PTL DEF Spec

(* Whatever is clicked, moved, copied, deleted or saved, what the user     *)
(* enters is kept for the filter it was entered for, by slotFilterSelected *)
(* and slotReset() writing back what is in the editors.                    *)
THEOREM EditsAlwaysReachTheirFilter == Spec => []EditsReachTheirFilter
<1>1. Init => ManagerInv /\ DialogInv
  BY DialogStarts
<1>2. (ManagerInv /\ DialogInv) /\ [Next]_vars => (ManagerInv /\ DialogInv)'
  BY DialogSteps
<1>3. ManagerInv /\ DialogInv => EditsReachTheirFilter
  <2> SUFFICES ASSUME ManagerInv, DialogInv PROVE EditsReachTheirFilter
    OBVIOUS
  <2>1. /\ filters \in Seq(FilterRecords) /\ config \in Seq(FilterRecords) /\ agent \in Seq(FilterRecords)
        /\ filter \in Seq(FilterRecords)
    BY MenusStayInOrder DEF ManagerInv, DialogInv, EditorsFit
  <2>2. TypeOK
    BY <2>1, ListIsSane DEF TypeOK, DialogInv, EditorsFit, Forms, Boxes
  <2>3. edited \in {current, NoFilter}
    BY ListIsSane
  <2>4. QED
    BY <2>2, <2>3 DEF EditsReachTheirFilter, DialogInv, ItemsFit
<1>4. QED
  BY <1>1, <1>2, <1>3, PTL DEF Spec

-----------------------------------------------------------------------------
(* What is saved.                                                          *)

Valid(f)  == NothingToSay(f) /\ ~IsEmpty(Purified(f))
HasSaved(s, f) == \E g \in Range(s) : Purified(g) = Purified(f)

(* The filters that the manager may have: those the dialog saves, those of *)
(* the file at the start, and those of others.                             *)
Usable ==
  {f \in FilterRecords :
     f \in Range(ReadFrom(Stored)) \/ (\E g \in Foreign : Purified(f) = Purified(g)) \/
     (f.actions = "fit" /\ (f.inbound /\ f.applicability = "checked" => f.accounts \cap Accounts # {}))}

SavedInv ==
  /\ filters \in Seq(Usable)
  /\ ~loaded => config = Stored
  /\ (phase = "open" /\ ~apply /\ ~excused) => \A i \in Range(list) : Valid(Now(i)) => HasSaved(filters, Now(i))

(* That is what the property says.                                         *)
LEMMA SavedInvIsEnough ==
  ASSUME SavedInv
  PROVE  SavedSoundly
<1>1. DOMAIN filters = 1..Len(filters) /\ \A i \in DOMAIN filters : filters[i] \in Usable
  BY DEF SavedInv
<1>2. SavesOnlyValid
  BY <1>1 DEF SavesOnlyValid, Usable
<1>3. ASSUME phase = "open", ~apply, ~excused, NEW i \in Range(list), NEW f, f = Now(i),
             NothingToSay(f), ~IsEmpty(Purified(f))
      PROVE  \E j \in DOMAIN filters : Purified(filters[j]) = Purified(f)
  BY <1>3 DEF SavedInv, Valid, HasSaved, Range
<1>4. UnsavedIsMarked
  BY <1>3 DEF UnsavedIsMarked, Now
<1>5. QED
  BY <1>2, <1>4 DEF SavedSoundly

(* What is read again of usable filters is usable, ...                     *)
LEMMA UsableWhenRead ==
  ASSUME NEW fs \in Seq(FilterRecords), Range(fs) \subseteq Usable
  PROVE  ReadFrom(fs) \in Seq(Usable)
<1>1. ReadFrom(fs) \in Seq(FilterRecords) /\ Range(ReadFrom(fs)) = {Purified(f) : f \in Range(fs)} \cap Worthwhile
  BY ReadIsList
<1>2. ASSUME NEW f \in Usable PROVE Purified(f) \in Usable
  <2>0. f \in FilterRecords
    BY DEF Usable
  <2>1. Purified(f) \in FilterRecords /\ Purified(Purified(f)) = Purified(f)
    BY <2>0, PurifiedIsFilter
  <2>2. CASE f \in Range(ReadFrom(Stored))
    <3>1. Stored \in Seq(FilterRecords)
      BY FiltersAssumption
    <3>2. Range(ReadFrom(Stored)) = {Purified(g) : g \in Range(Stored)} \cap Worthwhile
      BY <3>1, ReadIsList
    <3>3. PICK g \in Range(Stored) : f = Purified(g)
      BY <2>2, <3>2
    <3>4. g \in FilterRecords
      BY <3>1 DEF Range
    <3>5. Purified(f) = f
      BY <3>3, <3>4, PurifiedIsFilter
    <3>6. QED
      BY <3>5
  <2>3. CASE \E g \in Foreign : Purified(f) = Purified(g)
    BY <2>1, <2>3 DEF Usable
  <2>4. CASE f.actions = "fit" /\ (f.inbound /\ f.applicability = "checked" => f.accounts \cap Accounts # {})
    <3>1. /\ Purified(f).actions = "fit" /\ Purified(f).accounts = f.accounts \cap Accounts
          /\ Purified(f).inbound = f.inbound /\ Purified(f).applicability = f.applicability
      BY <2>0, <2>4 DEF Purified, FilterRecords
    <3>2. QED
      BY <2>1, <2>4, <3>1 DEF Usable
  <2>5. QED
    BY <2>2, <2>3, <2>4 DEF Usable
<1>3. Range(ReadFrom(fs)) \subseteq Usable
  BY <1>1, <1>2
<1>4. QED
  BY <1>1, <1>3 DEF Range

(* ... and nothing that has been saved gets lost.                          *)
LEMMA SavedWhenRead ==
  ASSUME NEW fs \in Seq(FilterRecords), NEW f, Valid(f), HasSaved(fs, f)
  PROVE  HasSaved(ReadFrom(fs), f)
<1>1. Range(ReadFrom(fs)) = {Purified(g) : g \in Range(fs)} \cap Worthwhile
  BY ReadIsList
<1>2. PICK g \in Range(fs) : Purified(g) = Purified(f)
  BY DEF HasSaved
<1>3. g \in FilterRecords
  BY DEF Range
<1>4. Purified(g) \in FilterRecords /\ Purified(Purified(g)) = Purified(g)
  BY <1>3, PurifiedIsFilter
<1>5. Purified(g) \in Worthwhile
  BY <1>2, <1>4 DEF Worthwhile, Valid
<1>6. QED
  BY <1>1, <1>2, <1>4, <1>5 DEF HasSaved

(* At the start the manager has nothing yet.                               *)
LEMMA NothingToSaveYet ==
  ASSUME Init
  PROVE  SavedInv
BY DEF Init, ManagerInit, DialogInit, SavedInv

(* Reading the configuration does not lose what has been saved.            *)
LEMMA ReadingKeepsSaved ==
  ASSUME ManagerInv, DialogInv, SavedInv, ReadConfig, UNCHANGED dialogVars
  PROVE  SavedInv'
<1>1. filters' = ReadFrom(config) /\ loaded' = TRUE
  BY DEF ReadConfig
<1>2. filters \in Seq(FilterRecords) /\ Stored \in Seq(FilterRecords)
  BY MenusStayInOrder, FiltersAssumption DEF ManagerInv
<1>3. CASE loaded
  <2>1. filters' = ReadFrom(filters)
    BY <1>1, <1>3 DEF ManagerInv
  <2>2. Range(filters) \subseteq Usable
    BY DEF SavedInv, Range
  <2>3. filters' \in Seq(Usable)
    BY <2>1, <2>2, <1>2, UsableWhenRead
  <2>4. ASSUME phase = "open", ~apply, ~excused, NEW i \in Range(list), Valid(Now(i))
        PROVE  HasSaved(filters', Now(i))
    <3>1. HasSaved(filters, Now(i))
      BY <2>4 DEF SavedInv
    <3>2. HasSaved(ReadFrom(filters), Now(i))
      BY <3>1, <2>4, <1>2, SavedWhenRead
    <3>3. QED
      BY <3>2, <2>1
  <2>5. /\ phase' = phase /\ apply' = apply /\ excused' = excused /\ list' = list
        /\ \A i : Now(i)' = Now(i)
    BY DEF dialogVars, Now
  <2>6. QED
    BY <1>1, <2>3, <2>4, <2>5 DEF SavedInv
<1>4. CASE ~loaded
  <2>1. filters' = ReadFrom(Stored)
    BY <1>1, <1>4 DEF SavedInv
  <2>2. ReadFrom(Stored) \in Seq(FilterRecords)
    BY <1>2, ReadIsList
  <2>3. filters' \in Seq(Usable)
    BY <2>1, <2>2 DEF Usable, Range
  <2>4. phase' # "open"
    BY <1>4 DEF DialogInv, dialogVars
  <2>5. QED
    BY <1>1, <2>3, <2>4 DEF SavedInv
<1>5. QED
  BY <1>3, <1>4

(* What others add is usable as far as it is theirs, and the dialog no     *)
(* longer claims that everything is saved.                                 *)
LEMMA OthersKeepSaved ==
  ASSUME ManagerInv, DialogInv, SavedInv, Others
  PROVE  SavedInv'
<1>1. excused' = TRUE /\ loaded /\ OthersChange
  BY DEF Others, OthersChange
<1>2. loaded' = loaded
  BY <1>1, OthersKeepManager
<1>3. CASE \E f \in Foreign, replace \in BOOLEAN : AppendFilters(f, replace)
  <2>1. PICK f \in Foreign, replace \in BOOLEAN : AppendFilters(f, replace)
    BY <1>3
  <2> DEFINE kept == IF replace THEN Namesakes(f, filters) ELSE filters
  <2>2. f \in Usable
    BY FiltersAssumption DEF Usable
  <2>3. kept \in Seq(Usable)
    BY NamesakesComeFromList DEF SavedInv
  <2>4. filters' = Append(kept, f)
    BY <2>1 DEF AppendFilters
  <2> HIDE DEF kept
  <2>5. filters' \in Seq(Usable)
    BY <2>2, <2>3, <2>4, AppendProperties
  <2>6. QED
    BY <1>1, <1>2, <2>5 DEF SavedInv
<1>4. CASE \E i \in DOMAIN filters : RemoveFilter(i)
  <2>1. PICK i \in DOMAIN filters : RemoveFilter(i)
    BY <1>4
  <2>2. filters \in Seq(Usable) /\ i \in 1..Len(filters)
    BY DEF SavedInv
  <2>3. filters' \in Seq(Usable)
    BY <2>1, <2>2, WithoutOne DEF RemoveFilter
  <2>4. QED
    BY <1>1, <1>2, <2>3 DEF SavedInv
<1>5. QED
  BY <1>1, <1>3, <1>4 DEF OthersChange

(* The list starts with what is saved.                                     *)
LEMMA OpeningIsSaved ==
  ASSUME ManagerInv, DialogInv, SavedInv, Open
  PROVE  SavedInv'
<1>1. /\ DialogInv' /\ (filters # << >> => filter' = filters) /\ \A j \in Used' : Now(j)' = filter'[j]
  BY OpeningFits
<1>2. filters' = filters /\ config' = config /\ loaded' = loaded /\ excused' = (filters = << >>)
  BY DEF Open, managerVars
<1>3. ASSUME filters # << >>, NEW i \in Range(list'), NEW f, f = Now(i)'
      PROVE  HasSaved(filters', f)
  <2>1. i \in Used'
    <3>1. Range(list)' \subseteq Used'
      BY <1>1 DEF DialogInv, Sane, Widget, Here, Range
    <3>2. QED
      BY <3>1, <1>3 DEF Range
  <2>2. f = filters[i] /\ i \in DOMAIN filters
    BY <1>1, <1>3, <2>1 DEF Used
  <2>3. f \in Range(filters)
    BY <2>2 DEF Range
  <2>4. QED
    BY <1>2, <2>3 DEF HasSaved
<1>4. QED
  BY <1>2, <1>3 DEF SavedInv

(* Clicks change nothing that could be saved.                              *)
LEMMA ClicksKeepSaved ==
  ASSUME DialogInv, SavedInv, phase = "open", NEW i \in Range(list), Click(i) \/ Select(i)
  PROVE  SavedInv'
<1>0. /\ i \in Used /\ EditorsFit /\ Range(list) \subseteq Used
  BY ListIsSane DEF DialogInv
<1>1. /\ phase' = phase /\ filters' = filters /\ config' = config /\ loaded' = loaded /\ list' = list
      /\ excused' = excused /\ (apply' = apply \/ apply' = TRUE)
  BY DEF Click, Select, managerVars
<1>2. \/ edited' = edited /\ form' = form /\ filter' = filter
      \/ Edit(i) \/ Edit(NoFilter)
  BY DEF Click, Select
<1>3. \A j \in Used : Now(j)' = Now(j)
  <2>1. CASE edited' = edited /\ form' = form /\ filter' = filter
    BY <2>1 DEF Now
  <2>2. CASE Edit(i)
    BY <1>0, <2>2, EditKeepsNow
  <2>3. CASE Edit(NoFilter)
    BY <1>0, <2>3, EditKeepsNow
  <2>4. QED
    BY <1>2, <2>1, <2>2, <2>3
<1>4. QED
  BY <1>0, <1>1, <1>3 DEF SavedInv

(* After saving, what is valid is there and what is there is valid, unless *)
(* the user has refused.                                                   *)
LEMMA SavingSaves ==
  ASSUME ManagerInv, DialogInv, SavedInv, phase = "open", NEW accepted \in BOOLEAN, Save(accepted), list' = list
  PROVE  SavedInv'
<1> DEFINE fs == WriteBack(filter)
<1>0. /\ loaded /\ EditorsFit /\ Range(list) \subseteq Used
  BY ListIsSane DEF DialogInv
<1>1. loaded' = loaded /\ \A j \in Used : Now(j)' = fs[j]
  BY SavingLosesNothing
<1>2. /\ fs \in Seq(MenuFilters) /\ DOMAIN fs = Used
  BY <1>0, WrittenBack
<1>3. excused' = ~accepted /\ IF accepted THEN SetFilters(SoundFilters(fs)) ELSE UNCHANGED managerVars
  BY DEF Save
<1> HIDE DEF fs
<1>4. CASE ~accepted
  <2>1. excused' = TRUE /\ filters' = filters
    BY <1>3, <1>4 DEF managerVars
  <2>2. QED
    BY <2>1, <1>0, <1>1 DEF SavedInv
<1>5. CASE accepted
  <2>1. filters' = SoundFilters(fs)
    BY <1>3, <1>5 DEF SetFilters
  <2>2. /\ filters' \in Seq(MenuFilters)
        /\ \A f \in Range(filters') : \E i \in Range(list) : Valid(fs[i]) /\ f = Purified(fs[i])
        /\ \A i \in Range(list) : Valid(fs[i]) => Purified(fs[i]) \in Range(filters')
    BY <2>1, <1>2, SavedFilters DEF Valid
  <2>3. \A i \in Range(list) : fs[i] \in FilterRecords
    BY <1>0, <1>2 DEF MenuFilters
  <2>4. ASSUME NEW g \in FilterRecords, Valid(g) PROVE Purified(g) \in Usable
    <3>1. /\ Purified(g).actions = "fit" /\ Purified(g).accounts = g.accounts \cap Accounts
          /\ Purified(g).inbound = g.inbound /\ Purified(g).applicability = g.applicability
          /\ Purified(g) \in FilterRecords
      BY <2>4, PurifiedIsFilter DEF Purified, FilterRecords, Valid, NothingToSay
    <3>2. QED
      BY <2>4, <3>1 DEF Usable, Valid, IsEmpty
  <2>5. filters' \in Seq(Usable)
    <3>1. Range(filters') \subseteq Usable
      BY <2>2, <2>3, <2>4
    <3>2. QED
      BY <2>2, <3>1 DEF Range
  <2>6. ASSUME NEW i \in Range(list), NEW f, f = Now(i)', Valid(f) PROVE HasSaved(filters', f)
    <3>1. f = fs[i] /\ f \in FilterRecords
      BY <2>6, <2>3, <1>0, <1>1
    <3>2. Purified(f) \in Range(filters') /\ Purified(Purified(f)) = Purified(f)
      BY <3>1, <2>2, <2>6, PurifiedIsFilter
    <3>3. QED
      BY <3>2 DEF HasSaved
  <2>7. \A i \in Range(list') : Valid(Now(i)') => HasSaved(filters', Now(i)')
    <3> SUFFICES ASSUME NEW i \in Range(list') PROVE Valid(Now(i)') => HasSaved(filters', Now(i)')
      OBVIOUS
    <3>1. i \in Range(list)
      OBVIOUS
    <3>2. QED
      BY <3>1, <2>6
  <2>8. QED
    BY <1>0, <1>1, <2>5, <2>7 DEF SavedInv
<1>6. QED
  BY <1>4, <1>5

(* The invariant of saving is inductive.                                   *)
LEMMA SavedSteps ==
  ASSUME ManagerInv, DialogInv, SavedInv, [Next]_vars
  PROVE  SavedInv'
<1>1. CASE ReadConfig /\ UNCHANGED dialogVars
  BY <1>1, ReadingKeepsSaved
<1>2. CASE Others
  BY <1>2, OthersKeepSaved
<1>3. CASE Open
  BY <1>3, OpeningIsSaved
<1>4. CASE phase = "open" /\ \E i \in Range(list) : Click(i) \/ Select(i)
  BY <1>4, ClicksKeepSaved
<1>5. CASE phase = "open" /\ (EditShown \/ EditList)
  <2>1. filters' = filters /\ config' = config /\ loaded' = loaded /\ apply' = TRUE
    BY <1>5, EditorsLeaveManager, ListLeavesManager
  <2>2. QED
    BY <2>1 DEF SavedInv
<1>6. CASE phase = "open" /\ Apply
  BY <1>6, SavingSaves DEF Apply, listVars
<1>7. CASE phase = "open" /\ Cancel
  BY <1>7 DEF Cancel, SavedInv, managerVars
<1>8. CASE phase = "open" /\ \E accepted \in BOOLEAN : Ok(accepted)
  BY <1>8, SavingSaves DEF Ok, listVars
<1>9. CASE UNCHANGED vars
  BY <1>9 DEF vars, managerVars, dialogVars, SavedInv, Now
<1>10. QED
  BY <1>1, <1>2, <1>3, <1>4, <1>5, <1>6, <1>7, <1>8, <1>9 DEF Next

(* What is valid in the dialog is saved as it is shown, or the Apply       *)
(* button says that it is not, and filtersForSaving() lets nothing else    *)
(* pass.                                                                   *)
THEOREM AlwaysSavedSoundly == Spec => []SavedSoundly
<1> DEFINE Inv == ManagerInv /\ DialogInv /\ SavedInv
<1>1. Init => Inv
  BY DialogStarts, NothingToSaveYet
<1>2. Inv /\ [Next]_vars => Inv'
  BY DialogSteps, SavedSteps
<1>3. Inv => SavedSoundly
  BY SavedInvIsEnough
<1>4. QED
  BY <1>1, <1>2, <1>3, PTL DEF Spec

-----------------------------------------------------------------------------
(* The order of the list.                                                  *)

(* An item that joins the list was not there before.                       *)
LEMMA InsertedIsNew ==
  ASSUME DialogInv, NEW f, NEW fs, Insert(f, fs)
  PROVE  Range(list') # Range(list)
<1> DEFINE i == IF current = NoFilter THEN 1 ELSE Row(Here, current)
<1>1. PICK n : n = NewItem
  OBVIOUS
<1>2. /\ n \notin Used /\ Range(list) \subseteq Used /\ list \in Seq(Used) /\ Unequal(list)
      /\ DOMAIN list = 1..Len(list) /\ Len(list) \in Nat
  BY <1>1, ItemsAreNumbered, ListIsSane DEF DialogInv
<1>3. i \in 1..(Len(list) + 1)
  <2>1. CASE current = NoFilter
    BY <2>1, <1>2
  <2>2. CASE current # NoFilter
    <3>1. i \in 1..Len(list)
      BY <2>2, <1>2, ListIsSane
    <3>2. QED
      BY <3>1, <1>2
  <2>3. QED
    BY <2>1, <2>2
<1>4. list' = InsertAt(list, i, n)
  BY <1>1 DEF Insert
<1> HIDE DEF i
<1>5. Range(list') = Range(list) \cup {n}
  <2>1. PICK A : A = Used \cup {n}
    OBVIOUS
  <2>2. list \in Seq(A) /\ n \in A
    BY <2>1, <1>2
  <2>3. QED
    BY <2>2, <1>3, <1>4, RangeOfTwo
<1>6. QED
  BY <1>2, <1>5

(* Every step but those of the Bottom button keeps the order.              *)
LEMMA StepsKeepOrder ==
  ASSUME ManagerInv, DialogInv, [Next]_vars, Range(list') = Range(list), ~Bottom
  PROVE  SameOrder(list, list', selected) /\ SameOrder(list, list', Range(list) \ selected)
<1>0. Sane(Here, Used) /\ Here.list = list /\ selected \subseteq Range(list) /\ Range(list) \subseteq Used
  BY ListIsSane DEF DialogInv
<1>1. CASE list' = list
  BY <1>1 DEF SameOrder
<1>2. CASE Open
  <2>1. DialogInv' /\ current' = 1 /\ list = << >>
    BY <1>2, OpeningFits DEF Open, DialogInv
  <2>2. current' \in Range(list') \cup {NoFilter}
    BY <2>1 DEF DialogInv, Sane, Widget, Here
  <2>3. Range(list) = {} /\ NoFilter # 1
    BY <2>1, EmptyList, DialogAssumption
  <2>4. QED
    BY <2>1, <2>2, <2>3
<1>3. CASE New \/ Copy
  BY <1>3, InsertedIsNew DEF New, Copy
<1>4. CASE Import
  <2>1. PICK n : n = NewItem
    OBVIOUS
  <2>2. list' = Append(list, n) /\ list \in Seq(Used) /\ n \notin Used
    BY <1>4, <2>1, ListIsSane, ItemsAreNumbered DEF Import, DialogInv
  <2>3. list \in Seq(Used \cup {n})
    BY <2>2
  <2>4. n \in Range(list')
    BY <2>2, <2>3, RangeOfAppend
  <2>5. QED
    BY <2>2, <2>4, <1>0
<1>5. CASE Delete
  <2> DEFINE left == OneByOne("delete", [Here EXCEPT !.edited = NoFilter])
  <2>1. Range(left.list) = Range(list) \ selected /\ (selected = {} => left.list = list)
    BY <1>0, DeleteTakesSelected
  <2>2. list' = left.list
    BY <1>5 DEF Delete
  <2> HIDE DEF left
  <2>3. selected = {}
    BY <2>1, <2>2, <1>0
  <2>4. QED
    BY <2>1, <2>2, <2>3, <1>1
<1>6. CASE Up \/ Top \/ Down
  <2>1. PICK how \in {"up", "top", "down"} : list' = OneByOne(how, Here).list
    BY <1>6 DEF Up, Top, Down, MoveTo
  <2>2. Orderly(OneByOne(how, Here))
    BY <1>0, UpIsOrderly, TopIsOrderly, DownIsOrderly
  <2>3. QED
    BY <2>1, <2>2 DEF Orderly
<1>7. CASE phase = "open" /\ EditList
  <2>1. CASE \E i \in Range(list) : Enable(i)
    BY <2>1, <1>1 DEF Enable, listVars
  <2>2. CASE \E name \in {"", "own", "blank"} : Rename(name)
    <3>1. list' = list
      BY <2>2, Zenon DEF Rename, listVars
    <3>2. QED
      BY <3>1, <1>1
  <2>3. QED
    BY <1>7, <2>1, <2>2, <1>3, <1>4, <1>5, <1>6, Zenon DEF EditList
<1>8. CASE (ReadConfig /\ UNCHANGED dialogVars) \/ Others \/ UNCHANGED vars
  BY <1>1, <1>8 DEF Others, dialogVars, vars, listVars
<1>9. CASE phase = "open" /\ \E i \in Range(list) : Click(i) \/ Select(i)
  BY <1>1, <1>9 DEF Click, Select
<1>10. CASE phase = "open" /\ (Apply \/ Cancel \/ \E accepted \in BOOLEAN : Ok(accepted))
  BY <1>1, <1>10 DEF Apply, Cancel, Ok, listVars
<1>11. CASE phase = "open" /\ EditShown
  BY <1>1, <1>11 DEF EditShown, EditActions, EditRules, RemoveRule, Update, EditOperator,
       EditApplicability, EditAccount, Tick, TickShortcut, TickToolbar, listVars
<1>12. QED
  BY <1>2, <1>7, <1>8, <1>9, <1>10, <1>11 DEF Next

(* slotUp(), slotTop() and slotDown() move the selected filters without    *)
(* changing their order or that of the others, however many are selected   *)
(* and wherever they are.                                                  *)
THEOREM MovesAlwaysKeepOrder == Spec => MovesKeepOrder
<1>1. Init => ManagerInv /\ DialogInv
  BY DialogStarts
<1>2. (ManagerInv /\ DialogInv) /\ [Next]_vars => (ManagerInv /\ DialogInv)'
  BY DialogSteps
<1>3. ManagerInv /\ DialogInv /\ [Next]_vars =>
        [(Range(list') = Range(list) /\ ~Bottom) =>
           SameOrder(list, list', selected) /\ SameOrder(list, list', Range(list) \ selected)]_vars
  BY StepsKeepOrder
<1>4. QED
  BY <1>1, <1>2, <1>3, PTL DEF Spec, MovesKeepOrder
=============================================================================
