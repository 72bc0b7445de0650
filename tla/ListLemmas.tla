----------------------------- MODULE ListLemmas -----------------------------
(***************************************************************************)
(* Lemmas about lists, whatever they are lists of: induction and recursion *)
(* first, then what is kept, taken out and put in.  What has to hold       *)
(* of all numbers up to n, or of all sequences, is given as a set, so that *)
(* no lemma has an operator for a parameter.  A recursive function         *)
(* f[i \in S] == e is some function that satisfies its equation, so the    *)
(* first thing to know is that there is one.                               *)
(***************************************************************************)
EXTENDS Integers, Sequences, SequencesExt, Lists, SequenceTheorems, WellFoundedInduction, FiniteSetTheorems, TLAPS

(* The order of the numbers is well-founded. *)
LEMMA SmallerIsWellFounded ==
  IsWellFoundedOn({pair \in Nat \X Nat : pair[1] < pair[2]}, Nat)
BY NatLessThanWellFounded DEF OpToRel

(* Some number of a set that is not empty is the least one. *)
LEMMA LeastExists ==
  ASSUME NEW T \in SUBSET Nat, T # {}
  PROVE  \E x \in T : \A y \in T : x <= y
<1> DEFINE R == {pair \in Nat \X Nat : pair[1] < pair[2]}
<1>1. PICK x \in T : \A y \in T : <<y, x>> \notin R
  BY WFMin, SmallerIsWellFounded
<1>2. ASSUME NEW y \in T, ~(x <= y) PROVE FALSE
  <2>1. y \in Nat /\ x \in Nat /\ y < x
    BY <1>2
  <2>2. <<y, x>> \in R
    BY <2>1
  <2>3. QED
    BY <2>2, <1>1
<1>3. QED
  BY <1>2

(* Induction up to n. *)
LEMMA Upwards ==
  ASSUME NEW n \in Nat, NEW T, 0 \in T,
         \A i \in 0..(n - 1) : i \in T => i + 1 \in T
  PROVE  \A i \in 0..n : i \in T
<1> SUFFICES ASSUME NEW j \in 0..n, j \notin T PROVE FALSE
  OBVIOUS
<1> DEFINE U == {i \in 0..n : i \notin T}
<1>1. U \in SUBSET Nat /\ U # {}
  OBVIOUS
<1>2. PICK x \in U : \A y \in U : x <= y
  <2> HIDE DEF U
  <2>1. QED
    BY <1>1, LeastExists
<1>3. x # 0 /\ x - 1 \in 0..(n - 1)
  BY <1>2
<1>4. x - 1 \in T
  BY <1>2, <1>3
<1>5. QED
  BY <1>2, <1>3, <1>4

(* Induction over sequences. *)
LEMMA ByAppending ==
  ASSUME NEW A, NEW T, << >> \in T,
         \A t \in Seq(A), x \in A : t \in T => Append(t, x) \in T
  PROVE  \A s \in Seq(A) : s \in T
<1> DEFINE L == {n \in Nat : \A s \in Seq(A) : Len(s) = n => s \in T}
<1> SUFFICES ASSUME NEW s \in Seq(A) PROVE Len(s) \in L
  OBVIOUS
<1>1. 0 \in L
  BY EmptySeq
<1>2. ASSUME NEW n \in Nat, n \in L PROVE n + 1 \in L
  <2> SUFFICES ASSUME NEW u \in Seq(A), Len(u) = n + 1 PROVE u \in T
    OBVIOUS
  <2>1. u # << >>
    OBVIOUS
  <2>2. PICK t \in Seq(A), x \in A : u = Append(t, x)
    BY <2>1, SequenceEmptyOrAppend
  <2>3. Len(t) = n
    BY <2>2, AppendProperties
  <2>4. QED
    BY <2>2, <2>3, <1>2
<1>3. \A i \in 0..Len(s) : i \in L
  <2> HIDE DEF L
  <2>1. QED
    BY <1>1, <1>2, Upwards
<1>4. QED
  BY <1>3

(* The values of F follow one from the other.                              *)
Follows(F, a, n, G) == F[0] = a /\ \A i \in 1..n : F[i] = G[i][F[i - 1]]

(* There is a function whose values follow one from the other.  When what  *)
(* is good before a step leads to what is good after it, all are good.     *)
LEMMA RecursionExists ==
  ASSUME NEW n \in Nat, NEW Good, NEW a \in Good[0], NEW G,
         \A i \in 1..n : \A x \in Good[i - 1] : G[i][x] \in Good[i]
  PROVE  \E F : F = [i \in 0..n |-> F[i]] /\ Follows(F, a, n, G) /\ \A i \in 0..n : F[i] \in Good[i]
<1> DEFINE Upto(k, F) == /\ F = [i \in 0..k |-> F[i]] /\ F[0] = a
                         /\ \A i \in 1..k : F[i] = G[i][F[i - 1]]
                         /\ \A i \in 0..k : F[i] \in Good[i]
           T == {k \in 0..n : \E F : Upto(k, F)}
<1>1. 0 \in T
  <2>1. Upto(0, [i \in 0..0 |-> a])
    OBVIOUS
  <2>2. \E F : Upto(0, F)
    <3> HIDE DEF Upto
    <3>1. QED
      BY <2>1
  <2>3. QED
    BY <2>2
<1>2. ASSUME NEW k \in 0..(n - 1), k \in T PROVE k + 1 \in T
  <2>1. PICK F : Upto(k, F)
    BY <1>2
  <2> DEFINE H == [i \in 0..(k + 1) |-> IF i = k + 1 THEN G[k + 1][F[k]] ELSE F[i]]
  <2>2. G[k + 1][F[k]] \in Good[k + 1]
    <3>1. k + 1 \in 1..n /\ (k + 1) - 1 = k /\ F[k] \in Good[k]
      BY <2>1
    <3>2. QED
      BY <3>1
  <2>3. /\ H = [i \in 0..(k + 1) |-> H[i]] /\ H[0] = a /\ H[k + 1] = G[k + 1][H[k]]
        /\ H[k + 1] \in Good[k + 1]
    BY <2>1, <2>2
  <2>4. ASSUME NEW i \in 1..k PROVE H[i] = G[i][H[i - 1]]
    <3>1. H[i] = F[i] /\ H[i - 1] = F[i - 1]
      OBVIOUS
    <3>2. F[i] = G[i][F[i - 1]]
      BY <2>1
    <3>3. QED
      BY <3>1, <3>2
  <2>5. ASSUME NEW i \in 1..(k + 1) PROVE H[i] = G[i][H[i - 1]]
    <3>1. CASE i \in 1..k
      BY <3>1, <2>4
    <3>2. CASE i = k + 1
      <4>1. (k + 1) - 1 = k
        OBVIOUS
      <4> HIDE DEF H
      <4>2. QED
        BY <3>2, <4>1, <2>3
    <3>3. QED
      BY <3>1, <3>2
  <2>6. ASSUME NEW i \in 0..(k + 1) PROVE H[i] \in Good[i]
    <3>1. CASE i \in 0..k
      <4>1. H[i] = F[i] /\ F[i] \in Good[i]
        BY <3>1, <2>1
      <4>2. QED
        BY <4>1
    <3>2. CASE i = k + 1
      BY <3>2, <2>3
    <3>3. QED
      BY <3>1, <3>2
  <2>7. Upto(k + 1, H)
    BY <2>3, <2>5, <2>6
  <2>8. \E E : Upto(k + 1, E)
    <3> HIDE DEF Upto, H
    <3>1. QED
      BY <2>7
  <2>9. k + 1 \in 0..n
    OBVIOUS
  <2> HIDE DEF Upto
  <2>10. QED
    BY <2>8, <2>9
<1>3. \A i \in 0..n : i \in T
  <2> HIDE DEF T
  <2>1. QED
    BY <1>1, <1>2, Upwards
<1>4. n \in T
  BY <1>3
<1>5. QED
  BY <1>4 DEF Follows

-----------------------------------------------------------------------------
(* What is kept of a list.                                                 *)

(* F is the list of the lists that Keep(s, S) builds from the left.        *)
Builds(F, s, S) ==
  /\ F[0] = << >> /\ F[Len(s)] = Keep(s, S)
  /\ \A i \in 1..Len(s) : F[i] = IF s[i] \in S THEN Append(F[i - 1], s[i]) ELSE F[i - 1]

(* Keep(s, S) is the last of the lists that it builds.                     *)
LEMMA KeepIsBuilt ==
  ASSUME NEW A, NEW s \in Seq(A), NEW S
  PROVE  \E F \in [0..Len(s) -> Seq(A)] : Builds(F, s, S)
<1> DEFINE n == Len(s)
           Add(t, i) == IF s[i] \in S THEN Append(t, s[i]) ELSE t
           G == [i \in 1..n |-> [t \in Seq(A) |-> Add(t, i)]]
           Built(f) == f = [i \in 0..n |-> IF i = 0 THEN << >> ELSE Add(f[i - 1], i)]
           K == CHOOSE f : Built(f)
<1>0. n \in Nat /\ << >> \in Seq(A) /\ \A i \in 1..n : s[i] \in A
  OBVIOUS
<1>1. \A i \in 1..n : \A t \in Seq(A) : G[i][t] = Add(t, i) /\ Add(t, i) \in Seq(A)
  BY <1>0
<1>2. PICK F \in [0..n -> Seq(A)] : F[0] = << >> /\ \A i \in 1..n : F[i] = G[i][F[i - 1]]
  <2> DEFINE Lists == [i \in 0..n |-> Seq(A)]
  <2>1. << >> \in Lists[0] /\ \A i \in 1..n : \A t \in Lists[i - 1] : G[i][t] \in Lists[i]
    <3>1. Lists[0] = Seq(A) /\ (\A i \in 0..n : Lists[i] = Seq(A)) /\ \A i \in 1..n : i - 1 \in 0..n /\ i \in 0..n
      BY <1>0
    <3> HIDE DEF G, n, Lists, Add
    <3>2. << >> \in Lists[0]
      BY <1>0, <3>1
    <3>3. ASSUME NEW i \in 1..n, NEW t \in Lists[i - 1] PROVE G[i][t] \in Lists[i]
      <4>1. t \in Seq(A) /\ Lists[i] = Seq(A)
        BY <3>1
      <4>2. QED
        BY <4>1, <1>1
    <3>4. QED
      BY <3>2, <3>3
  <2> HIDE DEF G, n, Lists
  <2>2. PICK F : F = [i \in 0..n |-> F[i]] /\ Follows(F, << >>, n, G) /\ \A i \in 0..n : F[i] \in Lists[i]
    BY <1>0, <2>1, RecursionExists
  <2>3. F \in [0..n -> Seq(A)]
    BY <2>2 DEF Lists
  <2>4. QED
    BY <2>2, <2>3 DEF Follows
<1>3. \A i \in 1..n : F[i] = Add(F[i - 1], i)
  <2> SUFFICES ASSUME NEW i \in 1..n PROVE F[i] = Add(F[i - 1], i)
    OBVIOUS
  <2>1. i - 1 \in 0..n
    BY <1>0
  <2>2. F[i - 1] \in Seq(A)
    BY <2>1
  <2> HIDE DEF G, Add
  <2>3. QED
    BY <2>2, <1>1, <1>2
<1>4. Built(K)
  <2>1. Built(F)
    <3> HIDE DEF Add
    <3>1. QED
      BY <1>2, <1>3
  <2>2. \E f : Built(f)
    <3> HIDE DEF Built
    <3>1. QED
      BY <2>1
  <2> HIDE DEF Built
  <2>3. QED
    BY <2>2
<1>5. \A i \in 0..n : i \in {k \in 0..n : K[k] = F[k]}
  <2> DEFINE T == {k \in 0..n : K[k] = F[k]}
  <2>0. K[0] = << >> /\ \A i \in 1..n : K[i] = Add(K[i - 1], i)
    <3> HIDE DEF K, Add
    <3>1. \A i \in 0..n : K[i] = IF i = 0 THEN << >> ELSE Add(K[i - 1], i)
      BY <1>4
    <3>2. QED
      BY <3>1, <1>0
  <2>1. 0 \in T
    BY <2>0, <1>2, <1>0
  <2>2. ASSUME NEW k \in 0..(n - 1), k \in T PROVE k + 1 \in T
    <3>1. k + 1 \in 1..n /\ (k + 1) - 1 = k /\ K[k] = F[k]
      BY <2>2, <1>0
    <3>2. K[k + 1] = F[k + 1]
      <4> HIDE DEF K, Add
      <4>1. QED
        BY <3>1, <2>0, <1>3
    <3>3. QED
      BY <3>1, <3>2
  <2> HIDE DEF T
  <2>3. \A i \in 0..n : i \in T
    BY <1>0, <2>1, <2>2, Upwards
  <2>4. QED
    BY <2>3 DEF T
<1>6. Keep(s, S) = F[n]
  <2>1. Keep(s, S) = K[n]
    BY DEF Keep
  <2>2. QED
    BY <2>1, <1>5, <1>0
<1>7. QED
  BY <1>2, <1>3, <1>6 DEF Builds

(* What Keep does to a list with one element more.                         *)
LEMMA KeepOfAppend ==
  ASSUME NEW A, NEW s \in Seq(A), NEW x \in A, NEW S
  PROVE  Keep(Append(s, x), S) = IF x \in S THEN Append(Keep(s, S), x) ELSE Keep(s, S)
<1> DEFINE n == Len(s)
           u == Append(s, x)
<1>0. n \in Nat /\ u \in Seq(A) /\ Len(u) = n + 1 /\ u[n + 1] = x /\ \A i \in 1..n : u[i] = s[i]
  BY AppendProperties
<1>1. PICK F \in [0..n -> Seq(A)] : Builds(F, s, S)
  BY KeepIsBuilt
<1>2. PICK H \in [0..(n + 1) -> Seq(A)] : Builds(H, u, S)
  <2>1. PICK H \in [0..Len(u) -> Seq(A)] : Builds(H, u, S)
    <3> HIDE DEF u
    <3>1. QED
      BY <1>0, KeepIsBuilt
  <2>2. QED
    BY <2>1, <1>0
<1>F. /\ F[0] = << >> /\ F[n] = Keep(s, S)
      /\ \A i \in 1..n : F[i] = IF s[i] \in S THEN Append(F[i - 1], s[i]) ELSE F[i - 1]
  BY <1>1 DEF Builds
<1>H. /\ H[0] = << >> /\ H[n + 1] = Keep(u, S)
      /\ \A i \in 1..(n + 1) : H[i] = IF u[i] \in S THEN Append(H[i - 1], u[i]) ELSE H[i - 1]
  <2> HIDE DEF u
  <2>1. QED
    BY <1>2, <1>0 DEF Builds
<1>3. \A i \in 0..n : i \in {k \in 0..n : H[k] = F[k]}
  <2> DEFINE T == {k \in 0..n : H[k] = F[k]}
  <2>1. 0 \in T
    BY <1>0, <1>F, <1>H
  <2>2. ASSUME NEW k \in 0..(n - 1), k \in T PROVE k + 1 \in T
    <3>1. k + 1 \in 1..n /\ k + 1 \in 1..(n + 1) /\ (k + 1) - 1 = k /\ H[k] = F[k]
      BY <2>2, <1>0
    <3>2. u[k + 1] = s[k + 1]
      BY <3>1, <1>0
    <3> HIDE DEF n, u
    <3>3. H[k + 1] = F[k + 1]
      BY <3>1, <3>2, <1>F, <1>H
    <3>4. QED
      BY <3>1, <3>3
  <2> HIDE DEF T, n
  <2>3. \A i \in 0..n : i \in T
    BY <1>0, <2>1, <2>2, Upwards
  <2>4. QED
    BY <2>3 DEF T
<1>4. H[n] = F[n]
  BY <1>3, <1>0
<1>5. Keep(u, S) = IF x \in S THEN Append(Keep(s, S), x) ELSE Keep(s, S)
  <2>1. n + 1 \in 1..(n + 1) /\ (n + 1) - 1 = n
    BY <1>0
  <2> HIDE DEF n, u
  <2>2. QED
    BY <1>0, <1>F, <1>H, <1>4, <2>1
<1>6. QED
  BY <1>5

(* Of the empty list nothing is kept.                                      *)
LEMMA EmptyList ==
  /\ \A S : Keep(<< >>, S) = << >>
  /\ Range(<< >>) = {} /\ \A A : << >> \in Seq(A)
<1>1. ASSUME NEW S PROVE Keep(<< >>, S) = << >>
  <2>1. << >> \in Seq({}) /\ Len(<< >>) = 0
    OBVIOUS
  <2>2. PICK E \in [0..Len(<< >>) -> Seq({})] : Builds(E, << >>, S)
    BY <2>1, KeepIsBuilt
  <2>3. E[0] = << >> /\ E[Len(<< >>)] = Keep(<< >>, S)
    BY <2>2 DEF Builds
  <2>4. QED
    BY <2>1, <2>3
<1>2. QED
  BY <1>1 DEF Range

(* The range of a list with one element more.                              *)
LEMMA RangeOfAppend ==
  ASSUME NEW A, NEW s \in Seq(A), NEW x \in A
  PROVE  Range(Append(s, x)) = Range(s) \cup {x} /\ Range(<< >>) = {}
<1>1. /\ DOMAIN s = 1..Len(s) /\ Len(s) \in Nat
      /\ DOMAIN Append(s, x) = 1..(Len(s) + 1)
      /\ \A i \in 1..Len(s) : Append(s, x)[i] = s[i]
      /\ Append(s, x)[Len(s) + 1] = x
  BY AppendProperties
<1>2. \A y : y \in Range(Append(s, x)) <=> y \in Range(s) \cup {x}
  <2> SUFFICES ASSUME NEW y PROVE y \in Range(Append(s, x)) <=> y \in Range(s) \cup {x}
    OBVIOUS
  <2>1. ASSUME y \in Range(Append(s, x)) PROVE y \in Range(s) \cup {x}
    <3>1. PICK i \in 1..(Len(s) + 1) : y = Append(s, x)[i]
      BY <2>1, <1>1 DEF Range
    <3>2. QED
      BY <3>1, <1>1 DEF Range
  <2>2. ASSUME y \in Range(s) PROVE y \in Range(Append(s, x))
    <3>1. PICK i \in 1..Len(s) : y = s[i]
      BY <2>2, <1>1 DEF Range
    <3>2. i \in 1..(Len(s) + 1) /\ Append(s, x)[i] = y
      BY <3>1, <1>1
    <3>3. QED
      BY <3>2, <1>1 DEF Range
  <2>3. x \in Range(Append(s, x))
    <3>1. Len(s) + 1 \in 1..(Len(s) + 1)
      BY <1>1
    <3>2. QED
      BY <3>1, <1>1 DEF Range
  <2>4. QED
    BY <2>1, <2>2, <2>3
<1>3. QED
  BY <1>2 DEF Range

(* What is kept is what there is of S.                                     *)
LEMMA RangeOfKeep ==
  ASSUME NEW A, NEW s \in Seq(A), NEW S
  PROVE  Keep(s, S) \in Seq(A) /\ Range(Keep(s, S)) = Range(s) \cap S
<1> DEFINE T == {t \in Seq(A) : Keep(t, S) \in Seq(A) /\ Range(Keep(t, S)) = Range(t) \cap S}
<1>1. << >> \in T
  <2>1. << >> \in Seq(A) /\ Range(<< >>) = {} /\ Keep(<< >>, S) = << >>
    BY EmptyList
  <2>2. QED
    BY <2>1
<1>2. ASSUME NEW t \in Seq(A), NEW x \in A, t \in T PROVE Append(t, x) \in T
  <2>1. Append(t, x) \in Seq(A)
    BY AppendProperties
  <2>2. Keep(t, S) \in Seq(A) /\ Range(Keep(t, S)) = Range(t) \cap S
    BY <1>2
  <2>3. Range(Append(t, x)) = Range(t) \cup {x}
    BY RangeOfAppend
  <2>4. CASE x \in S
    <3>1. Keep(Append(t, x), S) = Append(Keep(t, S), x)
      BY <2>4, KeepOfAppend
    <3>2. Append(Keep(t, S), x) \in Seq(A) /\ Range(Append(Keep(t, S), x)) = Range(Keep(t, S)) \cup {x}
      BY <2>2, RangeOfAppend, AppendProperties
    <3>3. QED
      BY <2>1, <2>2, <2>3, <2>4, <3>1, <3>2
  <2>5. CASE x \notin S
    <3>1. Keep(Append(t, x), S) = Keep(t, S)
      BY <2>5, KeepOfAppend
    <3>2. QED
      BY <2>1, <2>2, <2>3, <2>5, <3>1
  <2>6. QED
    BY <2>4, <2>5
<1>3. s \in T
  <2> HIDE DEF T
  <2>1. QED
    BY <1>1, <1>2, ByAppending
<1>4. QED
  BY <1>3

-----------------------------------------------------------------------------
(* Lists of which one element is taken out, or where one is put in.        *)

Unequal(s) == \A i, j \in DOMAIN s : s[i] = s[j] => i = j

(* A list without its i-th element.                                        *)
LEMMA WithoutOne ==
  ASSUME NEW A, NEW s \in Seq(A), NEW i \in 1..Len(s)
  PROVE  /\ RemoveAt(s, i) \in Seq(A) /\ Len(RemoveAt(s, i)) = Len(s) - 1
         /\ DOMAIN RemoveAt(s, i) = 1..(Len(s) - 1)
         /\ \A j \in 1..(Len(s) - 1) : RemoveAt(s, i)[j] = IF j < i THEN s[j] ELSE s[j + 1]
<1> DEFINE a == SubSeq(s, 1, i - 1)
           b == SubSeq(s, i + 1, Len(s))
<1>1. Len(s) \in Nat /\ DOMAIN s = 1..Len(s) /\ \A j \in 1..Len(s) : s[j] \in A
  OBVIOUS
<1>2. a \in Seq(A) /\ Len(a) = i - 1 /\ \A j \in 1..(i - 1) : a[j] = s[j]
  BY <1>1, SubSeqProperties
<1>3. b \in Seq(A) /\ Len(b) = Len(s) - i /\ \A j \in 1..(Len(s) - i) : b[j] = s[i + j]
  <2>1. PICK n \in Nat : Len(s) = n
    BY <1>1
  <2>2. i + 1 \in Int /\ n \in Int /\ \A j \in (i + 1)..n : s[j] \in A
    BY <1>1, <2>1
  <2>3. /\ b \in Seq(A) /\ Len(b) = IF i + 1 <= n THEN n - (i + 1) + 1 ELSE 0
        /\ \A j \in 1..(n - (i + 1) + 1) : b[j] = s[(i + 1) + j - 1]
    BY <2>1, <2>2, SubSeqProperties
  <2> HIDE DEF b
  <2>4. i \in 1..n
    BY <2>1
  <2>5. QED
    BY <2>1, <2>3, <2>4
<1>4. /\ a \o b \in Seq(A) /\ Len(a \o b) = Len(s) - 1
      /\ \A j \in 1..(Len(s) - 1) : (a \o b)[j] = IF j <= i - 1 THEN a[j] ELSE b[j - (i - 1)]
  <2> HIDE DEF a, b
  <2>1. Len(a) + Len(b) = Len(s) - 1
    BY <1>1, <1>2, <1>3
  <2>2. /\ a \o b \in Seq(A) /\ Len(a \o b) = Len(a) + Len(b)
        /\ \A j \in 1..(Len(a) + Len(b)) : (a \o b)[j] = IF j <= Len(a) THEN a[j] ELSE b[j - Len(a)]
    BY <1>2, <1>3, ConcatProperties
  <2>3. QED
    BY <1>2, <2>1, <2>2
<1>5. RemoveAt(s, i) = a \o b
  BY DEF RemoveAt
<1>6. ASSUME NEW j \in 1..(Len(s) - 1) PROVE (a \o b)[j] = IF j < i THEN s[j] ELSE s[j + 1]
  <2> HIDE DEF a, b
  <2>1. CASE j < i
    BY <1>1, <1>2, <1>4, <2>1
  <2>2. CASE ~(j < i)
    <3>1. j - (i - 1) \in 1..(Len(s) - i) /\ i + (j - (i - 1)) = j + 1
      BY <1>1, <2>2
    <3>2. QED
      BY <1>1, <1>3, <1>4, <2>2, <3>1
  <2>3. QED
    BY <2>1, <2>2
<1>7. QED
  <2> DEFINE r == RemoveAt(s, i)
  <2>1. /\ r \in Seq(A) /\ Len(r) = Len(s) - 1
        /\ \A j \in 1..(Len(s) - 1) : r[j] = IF j < i THEN s[j] ELSE s[j + 1]
    <3> HIDE DEF a, b
    <3>1. QED
      BY <1>4, <1>5, <1>6
  <2> HIDE DEF r
  <2>2. DOMAIN r = 1..(Len(s) - 1)
    BY <2>1
  <2>3. QED
    BY <2>1, <2>2 DEF r

(* A list with an element put in as the i-th.                              *)
LEMMA WithOneMore ==
  ASSUME NEW A, NEW s \in Seq(A), NEW i \in 1..(Len(s) + 1), NEW x \in A
  PROVE  /\ InsertAt(s, i, x) \in Seq(A) /\ Len(InsertAt(s, i, x)) = Len(s) + 1
         /\ DOMAIN InsertAt(s, i, x) = 1..(Len(s) + 1)
         /\ \A j \in 1..(Len(s) + 1) :
              InsertAt(s, i, x)[j] = IF j < i THEN s[j] ELSE IF j = i THEN x ELSE s[j - 1]
<1> DEFINE a == SubSeq(s, 1, i - 1)
           b == SubSeq(s, i, Len(s))
           ax == a \o <<x>>
<1>1. Len(s) \in Nat /\ DOMAIN s = 1..Len(s) /\ \A j \in 1..Len(s) : s[j] \in A
  OBVIOUS
<1>2. a \in Seq(A) /\ Len(a) = i - 1 /\ \A j \in 1..(i - 1) : a[j] = s[j]
  BY <1>1, SubSeqProperties
<1>3. b \in Seq(A) /\ Len(b) = Len(s) - i + 1 /\ \A j \in 1..(Len(s) - i + 1) : b[j] = s[i + j - 1]
  BY <1>1, SubSeqProperties
<1>4. /\ ax \in Seq(A) /\ Len(ax) = i
      /\ \A j \in 1..i : ax[j] = IF j <= i - 1 THEN a[j] ELSE x
  <2>1. <<x>> \in Seq(A) /\ Len(<<x>>) = 1 /\ <<x>>[1] = x
    OBVIOUS
  <2> HIDE DEF a
  <2>2. /\ ax \in Seq(A) /\ Len(ax) = Len(a) + 1
        /\ \A j \in 1..(Len(a) + 1) : ax[j] = IF j <= Len(a) THEN a[j] ELSE <<x>>[j - Len(a)]
    BY <1>2, <2>1, ConcatProperties
  <2> HIDE DEF ax
  <2>3. \A j \in 1..i : ~(j <= i - 1) => j - Len(a) = 1
    BY <1>1, <1>2
  <2>4. QED
    BY <1>1, <1>2, <2>1, <2>2, <2>3
<1>5. /\ ax \o b \in Seq(A) /\ Len(ax \o b) = Len(s) + 1
      /\ \A j \in 1..(Len(s) + 1) : (ax \o b)[j] = IF j <= i THEN ax[j] ELSE b[j - i]
  <2> HIDE DEF ax, b
  <2>1. Len(ax) + Len(b) = Len(s) + 1
    BY <1>1, <1>4, <1>3
  <2>2. /\ ax \o b \in Seq(A) /\ Len(ax \o b) = Len(ax) + Len(b)
        /\ \A j \in 1..(Len(ax) + Len(b)) : (ax \o b)[j] = IF j <= Len(ax) THEN ax[j] ELSE b[j - Len(ax)]
    BY <1>4, <1>3, ConcatProperties
  <2>3. QED
    BY <1>4, <2>1, <2>2
<1>6. InsertAt(s, i, x) = ax \o b
  BY DEF InsertAt
<1>7. ASSUME NEW j \in 1..(Len(s) + 1)
      PROVE  (ax \o b)[j] = IF j < i THEN s[j] ELSE IF j = i THEN x ELSE s[j - 1]
  <2> HIDE DEF a, b, ax
  <2>1. CASE j < i
    BY <1>1, <1>2, <1>4, <1>5, <2>1
  <2>2. CASE j = i
    BY <1>1, <1>4, <1>5, <2>2
  <2>3. CASE i < j
    <3>1. j - i \in 1..(Len(s) - i + 1) /\ i + (j - i) - 1 = j - 1
      BY <1>1, <2>3
    <3>2. QED
      BY <1>1, <1>3, <1>5, <2>3, <3>1
  <2>4. j < i \/ j = i \/ i < j
    BY <1>1
  <2> HIDE DEF a, b, ax
  <2>5. QED
    BY <2>1, <2>2, <2>3, <2>4
<1>8. QED
  <2> DEFINE r == InsertAt(s, i, x)
  <2>1. /\ r \in Seq(A) /\ Len(r) = Len(s) + 1
        /\ \A j \in 1..(Len(s) + 1) : r[j] = IF j < i THEN s[j] ELSE IF j = i THEN x ELSE s[j - 1]
    <3> HIDE DEF a, b, ax
    <3>1. QED
      BY <1>5, <1>6, <1>7
  <2> HIDE DEF r
  <2>2. DOMAIN r = 1..(Len(s) + 1)
    BY <2>1
  <2>3. QED
    BY <2>1, <2>2 DEF r

(* What is in a list that has lost an element, or got one.                 *)
LEMMA RangeOfTwo ==
  ASSUME NEW A, NEW s \in Seq(A)
  PROVE  /\ \A i \in DOMAIN s : Range(RemoveAt(s, i)) \subseteq Range(s)
         /\ \A i \in DOMAIN s : Range(s) \subseteq Range(RemoveAt(s, i)) \cup {s[i]}
         /\ \A i \in 1..(Len(s) + 1), x \in A : Range(InsertAt(s, i, x)) = Range(s) \cup {x}
<1>0. DOMAIN s = 1..Len(s) /\ Len(s) \in Nat
  OBVIOUS
<1>1. ASSUME NEW i \in DOMAIN s PROVE Range(RemoveAt(s, i)) \subseteq Range(s)
  <2> DEFINE r == RemoveAt(s, i)
  <2>1. DOMAIN r = 1..(Len(s) - 1) /\ \A j \in 1..(Len(s) - 1) : r[j] = IF j < i THEN s[j] ELSE s[j + 1]
    BY <1>0, WithoutOne
  <2>2. \A j \in 1..(Len(s) - 1) : j \in DOMAIN s /\ j + 1 \in DOMAIN s
    BY <1>0
  <2> HIDE DEF r
  <2>3. Range(r) \subseteq Range(s)
    BY <2>1, <2>2 DEF Range
  <2>4. QED
    BY <2>3 DEF r
<1>2. ASSUME NEW i \in DOMAIN s, NEW j \in DOMAIN s, j # i PROVE s[j] \in Range(RemoveAt(s, i))
  <2> DEFINE k == IF j < i THEN j ELSE j - 1
             r == RemoveAt(s, i)
  <2>1. k \in 1..(Len(s) - 1) /\ (j < i => k = j) /\ (~(j < i) => ~(k < i) /\ k + 1 = j)
    BY <1>0, <1>2
  <2>2. DOMAIN r = 1..(Len(s) - 1) /\ r[k] = IF k < i THEN s[k] ELSE s[k + 1]
    <3> HIDE DEF k
    <3>1. QED
      BY <2>1, <1>0, WithoutOne
  <2>3. k \in DOMAIN r /\ r[k] = s[j]
    <3> HIDE DEF k, r
    <3>1. QED
      BY <2>1, <2>2
  <2>4. QED
    BY <2>3 DEF Range
<1>3. ASSUME NEW i \in 1..(Len(s) + 1), NEW x \in A
      PROVE  Range(InsertAt(s, i, x)) = Range(s) \cup {x}
  <2> DEFINE r == InsertAt(s, i, x)
  <2>1. /\ DOMAIN r = 1..(Len(s) + 1)
        /\ \A j \in 1..(Len(s) + 1) : r[j] = IF j < i THEN s[j] ELSE IF j = i THEN x ELSE s[j - 1]
    BY WithOneMore
  <2> HIDE DEF r
  <2>2. ASSUME NEW j \in DOMAIN r PROVE r[j] \in Range(s) \cup {x}
    <3>1. CASE j < i
      BY <3>1, <2>1, <1>0 DEF Range
    <3>2. CASE j = i
      BY <3>2, <2>1, <1>0
    <3>3. CASE i < j
      <4>1. r[j] = s[j - 1] /\ j - 1 \in 1..Len(s)
        BY <3>3, <2>1, <1>0
      <4>2. QED
        BY <4>1, <1>0 DEF Range
    <3>4. QED
      BY <3>1, <3>2, <3>3, <2>1, <1>0
  <2>3. x \in Range(r)
    <3>1. i \in DOMAIN r /\ r[i] = x
      BY <2>1, <1>0
    <3>2. QED
      BY <3>1 DEF Range
  <2>4. ASSUME NEW j \in DOMAIN s PROVE s[j] \in Range(r)
    <3>1. CASE j < i
      <4>1. j \in DOMAIN r /\ r[j] = s[j]
        BY <3>1, <2>1, <1>0
      <4>2. QED
        BY <4>1 DEF Range
    <3>2. CASE ~(j < i)
      <4>1. j + 1 \in DOMAIN r /\ r[j + 1] = s[j]
        BY <3>2, <2>1, <1>0
      <4>2. QED
        BY <4>1 DEF Range
    <3>3. QED
      BY <3>1, <3>2
  <2>5. Range(r) = Range(s) \cup {x}
    BY <2>2, <2>3, <2>4 DEF Range
  <2>6. QED
    BY <2>5 DEF r
<1>4. ASSUME NEW i \in DOMAIN s PROVE Range(s) \subseteq Range(RemoveAt(s, i)) \cup {s[i]}
  BY <1>2 DEF Range
<1>5. QED
  BY <1>1, <1>3, <1>4

(* The elements of a list stay different when one is taken out, and when   *)
(* one is put in that is not there yet.                                    *)
LEMMA StaysUnequal ==
  ASSUME NEW A, NEW s \in Seq(A), Unequal(s)
  PROVE  /\ \A i \in DOMAIN s : Unequal(RemoveAt(s, i)) /\ Range(RemoveAt(s, i)) = Range(s) \ {s[i]}
         /\ \A i \in 1..(Len(s) + 1), x \in A : x \notin Range(s) => Unequal(InsertAt(s, i, x))
<1>0. DOMAIN s = 1..Len(s) /\ Len(s) \in Nat
  OBVIOUS
<1>1. ASSUME NEW i \in DOMAIN s PROVE Unequal(RemoveAt(s, i)) /\ s[i] \notin Range(RemoveAt(s, i))
  <2> DEFINE r == RemoveAt(s, i)
             at(j) == IF j < i THEN j ELSE j + 1
  <2>1. DOMAIN r = 1..(Len(s) - 1) /\ \A j \in 1..(Len(s) - 1) : r[j] = IF j < i THEN s[j] ELSE s[j + 1]
    BY <1>0, WithoutOne
  <2>2. \A j \in DOMAIN r : at(j) \in DOMAIN s /\ r[j] = s[at(j)] /\ at(j) # i
    <3> HIDE DEF r
    <3>1. QED
      BY <1>0, <2>1
  <2>3. \A j, k \in DOMAIN r : at(j) = at(k) => j = k
    <3> HIDE DEF r
    <3>1. QED
      BY <1>0, <2>1
  <2>4. \A j, k \in DOMAIN s : s[j] = s[k] => j = k
    BY DEF Unequal
  <2> HIDE DEF r, at
  <2>5. Unequal(r) /\ s[i] \notin Range(r)
    BY <2>2, <2>3, <2>4 DEF Unequal, Range
  <2>6. QED
    BY <2>5 DEF r
<1>2. ASSUME NEW i \in 1..(Len(s) + 1), NEW x \in A, x \notin Range(s) PROVE Unequal(InsertAt(s, i, x))
  <2> DEFINE r == InsertAt(s, i, x)
             at(j) == IF j < i THEN j ELSE j - 1
  <2>1. /\ DOMAIN r = 1..(Len(s) + 1)
        /\ \A j \in 1..(Len(s) + 1) : r[j] = IF j < i THEN s[j] ELSE IF j = i THEN x ELSE s[j - 1]
    BY WithOneMore
  <2>2. \A j \in DOMAIN r : j # i => at(j) \in DOMAIN s /\ r[j] = s[at(j)]
    <3> HIDE DEF r
    <3>1. QED
      BY <1>0, <2>1
  <2>3. \A j, k \in DOMAIN r : j # i /\ k # i /\ at(j) = at(k) => j = k
    <3> HIDE DEF r
    <3>1. QED
      BY <1>0, <2>1
  <2>4. i \in DOMAIN r /\ r[i] = x
    BY <1>0, <2>1
  <2>5. \A j, k \in DOMAIN s : s[j] = s[k] => j = k
    BY DEF Unequal
  <2>6. \A j \in DOMAIN s : s[j] # x
    BY <1>2 DEF Range
  <2> HIDE DEF r, at
  <2>7. Unequal(r)
    BY <2>2, <2>3, <2>4, <2>5, <2>6 DEF Unequal
  <2>8. QED
    BY <2>7 DEF r
<1>3. ASSUME NEW i \in DOMAIN s PROVE Range(RemoveAt(s, i)) = Range(s) \ {s[i]}
  BY <1>1, RangeOfTwo
<1>4. QED
  BY <1>1, <1>2, <1>3

(* What follows two lists of different elements one after the other.       *)
LEMMA JoinedLists ==
  ASSUME NEW A, NEW s \in Seq(A), NEW t \in Seq(A)
  PROVE  /\ s \o t \in Seq(A) /\ Range(s \o t) = Range(s) \cup Range(t)
         /\ Unequal(s) /\ Unequal(t) /\ Range(s) \cap Range(t) = {} => Unequal(s \o t)
<1> DEFINE u == s \o t
<1>1. /\ Len(s) \in Nat /\ Len(t) \in Nat /\ u \in Seq(A) /\ Len(u) = Len(s) + Len(t)
      /\ \A i \in 1..Len(u) : u[i] = IF i <= Len(s) THEN s[i] ELSE t[i - Len(s)]
  BY ConcatProperties
<1>2. DOMAIN s = 1..Len(s) /\ DOMAIN t = 1..Len(t) /\ DOMAIN u = 1..(Len(s) + Len(t))
  BY <1>1
<1> HIDE DEF u
<1>3. ASSUME NEW i \in DOMAIN s PROVE i \in DOMAIN u /\ u[i] = s[i]
  BY <1>1, <1>2
<1>4. ASSUME NEW i \in DOMAIN t PROVE Len(s) + i \in DOMAIN u /\ u[Len(s) + i] = t[i]
  BY <1>1, <1>2
<1>5. ASSUME NEW i \in DOMAIN u
      PROVE  \/ i \in DOMAIN s /\ u[i] = s[i]
             \/ i - Len(s) \in DOMAIN t /\ u[i] = t[i - Len(s)] /\ i \notin DOMAIN s
  BY <1>1, <1>2
<1>6. Range(u) = Range(s) \cup Range(t)
  BY <1>3, <1>4, <1>5 DEF Range
<1>7. ASSUME Unequal(s), Unequal(t), Range(s) \cap Range(t) = {} PROVE Unequal(u)
  <2> SUFFICES ASSUME NEW i \in DOMAIN u, NEW j \in DOMAIN u, u[i] = u[j] PROVE i = j
    BY DEF Unequal
  <2>1. i \in Int /\ j \in Int
    BY <1>2
  <2>2. CASE i \in DOMAIN s /\ j \in DOMAIN s
    BY <1>5, <1>7, <2>2 DEF Unequal
  <2>3. CASE i \notin DOMAIN s /\ j \notin DOMAIN s
    <3>1. i - Len(s) = j - Len(s)
      BY <1>5, <1>7, <2>3 DEF Unequal
    <3>2. QED
      BY <3>1, <2>1, <1>1
  <2>4. CASE i \in DOMAIN s /\ j \notin DOMAIN s
    BY <1>5, <1>7, <2>4 DEF Range
  <2>5. CASE i \notin DOMAIN s /\ j \in DOMAIN s
    BY <1>5, <1>7, <2>5 DEF Range
  <2>6. QED
    BY <2>2, <2>3, <2>4, <2>5
<1>8. QED
  BY <1>1, <1>6, <1>7 DEF u

(* What is kept of different elements are different elements.              *)
LEMMA KeepsUnequal ==
  ASSUME NEW A, NEW s \in Seq(A), NEW S, Unequal(s)
  PROVE  Unequal(Keep(s, S))
<1> DEFINE T == {t \in Seq(A) : Unequal(t) => Unequal(Keep(t, S))}
<1>1. << >> \in T
  <2>1. Keep(<< >>, S) = << >> /\ << >> \in Seq(A)
    BY EmptyList
  <2>2. QED
    BY <2>1
<1>2. ASSUME NEW t \in Seq(A), NEW x \in A, t \in T PROVE Append(t, x) \in T
  <2>0. Append(t, x) \in Seq(A)
    OBVIOUS
  <2> SUFFICES ASSUME Unequal(Append(t, x)) PROVE Unequal(Keep(Append(t, x), S))
    BY <2>0
  <2>1. /\ DOMAIN t = 1..Len(t) /\ Len(t) \in Nat /\ DOMAIN Append(t, x) = 1..(Len(t) + 1)
        /\ \A i \in 1..Len(t) : Append(t, x)[i] = t[i]
        /\ Append(t, x)[Len(t) + 1] = x
    BY AppendProperties
  <2>2. Unequal(t)
    BY <2>1 DEF Unequal
  <2>3. x \notin Range(t)
    BY <2>1 DEF Unequal, Range
  <2> DEFINE k == Keep(t, S)
  <2>4. k \in Seq(A) /\ Range(k) = Range(t) \cap S /\ Unequal(k)
    BY <2>2, <1>2, RangeOfKeep
  <2>5. Keep(Append(t, x), S) = IF x \in S THEN Append(k, x) ELSE k
    BY KeepOfAppend
  <2> HIDE DEF k
  <2>6. /\ DOMAIN k = 1..Len(k) /\ Len(k) \in Nat /\ DOMAIN Append(k, x) = 1..(Len(k) + 1)
        /\ \A i \in 1..Len(k) : Append(k, x)[i] = k[i]
        /\ Append(k, x)[Len(k) + 1] = x
    BY <2>4, AppendProperties
  <2>7. \A i \in DOMAIN k : k[i] # x
    BY <2>3, <2>4 DEF Range
  <2>8. Unequal(Append(k, x))
    BY <2>4, <2>6, <2>7 DEF Unequal
  <2>9. QED
    BY <2>4, <2>5, <2>8
<1>3. s \in T
  <2> HIDE DEF T
  <2>1. QED
    BY <1>1, <1>2, ByAppending
<1>4. QED
  BY <1>3

(* A list of different elements is as long as they are many.               *)
LEMMA AsLongAsMany ==
  ASSUME NEW A, NEW s \in Seq(A), Unequal(s)
  PROVE  IsFiniteSet(Range(s)) /\ Len(s) = Cardinality(Range(s))
<1>1. DOMAIN s = 1..Len(s) /\ Len(s) \in Nat
  OBVIOUS
<1>2. s = [i \in 1..Len(s) |-> s[i]]
  BY <1>1
<1>3. s \in Bijection(1..Len(s), Range(s))
  BY <1>1, <1>2 DEF Bijection, Injection, Surjection, IsInjective, Range, Unequal
<1>4. ExistsBijection(1..Len(s), Range(s))
  BY <1>3 DEF ExistsBijection
<1>5. IsFiniteSet(1..Len(s)) /\ Cardinality(1..Len(s)) = Len(s)
  BY <1>1, FS_Interval
<1>6. QED
  BY <1>4, <1>5, FS_Bijection
=============================================================================
