----------------------------- MODULE FoldLemmas -----------------------------
(***************************************************************************)
(* Induction over numbers and sequences, and what a fold from the left     *)
(* computes.  The provers cannot apply a theorem whose parameter is an     *)
(* operator.  So an induction is stated with the set S of those for which  *)
(* something holds, and here the operator that is folded is a constant:    *)
(* whoever folds one instantiates the module with it.  p is passed on to   *)
(* each step.                                                              *)
(***************************************************************************)
EXTENDS Integers, Sequences, FiniteSetsExt, WellFoundedInduction, TLAPS

CONSTANT Op(_, _, _)

-----------------------------------------------------------------------------
(* Induction.                                                               *)

LEMMA SetInduction ==
  ASSUME NEW S \in SUBSET Nat, 0 \in S, \A n \in S : n + 1 \in S
  PROVE  S = Nat
<1> SUFFICES ASSUME Nat \ S # {} PROVE FALSE
  OBVIOUS
<1> DEFINE R == OpToRel(<, Nat)
           T == Nat \ S
<1>1. IsWellFoundedOn(R, Nat)
  BY NatLessThanWellFounded
<1>2. T \subseteq Nat /\ T # {}
  OBVIOUS
<1>3. \A m, n \in Nat : m < n => <<m, n>> \in R
  BY DEF OpToRel
<1> HIDE DEF R, T
<1>4. PICK n \in T : \A m \in T : ~(<<m, n>> \in R)
  BY <1>1, <1>2, WFMin
<1>5. n \in Nat /\ n \notin S /\ n # 0
  BY <1>4 DEF T
<1>6. n - 1 \in Nat /\ n - 1 < n
  BY <1>5
<1>7. n - 1 \in S
  BY <1>3, <1>4, <1>5, <1>6 DEF T
<1> QED
  BY <1>5, <1>6, <1>7

\* A nonempty set of numbers has a least one.
LEMMA LeastExists ==
  ASSUME NEW S \in SUBSET Nat, S # {}
  PROVE  \E n \in S : \A m \in S : n <= m
<1> DEFINE R == OpToRel(<, Nat)
<1>1. IsWellFoundedOn(R, Nat)
  BY NatLessThanWellFounded
<1>2. \A m, n \in Nat : m < n => <<m, n>> \in R
  BY DEF OpToRel
<1> HIDE DEF R
<1>3. PICK n \in S : \A m \in S : ~(<<m, n>> \in R)
  BY <1>1, WFMin
<1>4. \A m \in S : n <= m
  <2> SUFFICES ASSUME NEW m \in S PROVE ~(m < n)
    OBVIOUS
  <2>1. m \in Nat /\ n \in Nat
    OBVIOUS
  <2> QED
    BY <1>2, <1>3, <2>1
<1> QED
  BY <1>3, <1>4

\* A set of sequences that has the empty one and with each the longer ones.
LEMMA SeqInduction ==
  ASSUME NEW X, NEW S, <<>> \in S, \A s \in Seq(X), x \in X : s \in S => Append(s, x) \in S
  PROVE  Seq(X) \subseteq S
<1> DEFINE T == { n \in Nat : \A s \in Seq(X) : Len(s) = n => s \in S }
<1>1. 0 \in T
  OBVIOUS
<1>2. ASSUME NEW n \in T PROVE n + 1 \in T
  <2> SUFFICES ASSUME NEW s \in Seq(X), Len(s) = n + 1 PROVE s \in S
    OBVIOUS
  <2> DEFINE r == SubSeq(s, 1, n)
  <2>1. n \in Nat /\ r \in Seq(X) /\ Len(r) = n /\ s[n + 1] \in X
    OBVIOUS
  <2>2. r \in S
    BY <1>2, <2>1
  <2>3. s = Append(r, s[n + 1])
    OBVIOUS
  <2> HIDE DEF r
  <2> QED
    BY <2>1, <2>2, <2>3
<1>3. T \in SUBSET Nat /\ \A n \in T : n + 1 \in T
  BY <1>2
<1> HIDE DEF T
<1>4. T = Nat
  BY <1>1, <1>3, SetInduction
<1> QED
  BY <1>4 DEF T

-----------------------------------------------------------------------------
(* Folds.                                                                   *)

Greatest(S) == CHOOSE x \in S : \A y \in S : x >= y

\* FoldLeft of SequencesExt, with the definitions it rests on expanded.
Fold(p, base, s) ==
  LET iter[S \in SUBSET DOMAIN s] ==
        IF S = {} THEN base
        ELSE LET x == Greatest(S) IN Op(p, iter[S \ {x}], s[x])
  IN  iter[DOMAIN s]

\* iter, for the first n elements.
Iterates(p, base, s, n, h) ==
  h = [S \in SUBSET (1..n) |->
         IF S = {} THEN base ELSE Op(p, h[S \ {Greatest(S)}], s[Greatest(S)])]

LEMMA GreatestIs ==
  ASSUME NEW S \in SUBSET Nat, NEW x \in S, \A y \in S : x >= y
  PROVE  Greatest(S) = x
<1>1. Greatest(S) \in S /\ \A y \in S : Greatest(S) >= y
  BY DEF Greatest
<1>2. Greatest(S) \in Nat /\ x \in Nat /\ Greatest(S) >= x /\ x >= Greatest(S)
  BY <1>1
<1> QED
  BY <1>2

LEMMA IterationStep ==
  ASSUME NEW p, NEW base, NEW s, NEW n \in Nat, NEW h, Iterates(p, base, s, n, h)
  PROVE  \E k : Iterates(p, base, s, n + 1, k)
<1> DEFINE k == [S \in SUBSET (1..(n + 1)) |->
                   IF n + 1 \in S THEN Op(p, h[S \ {n + 1}], s[n + 1]) ELSE h[S]]
           Value(f, S) == IF S = {} THEN base
                          ELSE Op(p, f[S \ {Greatest(S)}], s[Greatest(S)])
<1>1. \A S \in SUBSET (1..n) : h[S] = Value(h, S)
  BY DEF Iterates
<1>2. \A S \in SUBSET (1..n) : S \in SUBSET (1..(n + 1)) /\ n + 1 \notin S
  OBVIOUS
<1>3. \A S \in SUBSET (1..n) : k[S] = h[S]
  BY <1>2
<1>4. ASSUME NEW S \in SUBSET (1..(n + 1)) PROVE k[S] = Value(k, S)
  <2>1. CASE n + 1 \in S
    <3>1. S \in SUBSET Nat /\ \A y \in S : n + 1 >= y
      OBVIOUS
    <3>2. Greatest(S) = n + 1
      BY <2>1, <3>1, GreatestIs
    <3>3. S \ {n + 1} \in SUBSET (1..n)
      OBVIOUS
    <3>4. k[S \ {n + 1}] = h[S \ {n + 1}]
      BY <1>3, <3>3
    <3> QED
      BY <2>1, <3>2, <3>4
  <2>2. CASE n + 1 \notin S
    <3>1. S \in SUBSET (1..n)
      BY <2>2
    <3>2. S \ {Greatest(S)} \in SUBSET (1..n)
      BY <3>1
    <3>3. k[S] = Value(h, S) /\ k[S \ {Greatest(S)}] = h[S \ {Greatest(S)}]
      BY <1>1, <1>3, <3>1, <3>2
    <3> QED
      BY <3>3
  <2> QED
    BY <2>1, <2>2
<1>5. k = [S \in SUBSET (1..(n + 1)) |-> k[S]]
  OBVIOUS
<1> HIDE DEF k
<1>6. k = [S \in SUBSET (1..(n + 1)) |-> Value(k, S)]
  BY <1>4, <1>5
<1> QED
  BY <1>6 DEF Iterates

LEMMA IterationExists ==
  ASSUME NEW p, NEW base, NEW s
  PROVE  \A n \in Nat : \E h : Iterates(p, base, s, n, h)
<1> DEFINE T == { n \in Nat : \E h : Iterates(p, base, s, n, h) }
           first == [S \in SUBSET (1..0) |-> base]
<1>1. Iterates(p, base, s, 0, first)
  <2>1. \A S \in SUBSET (1..0) : S = {}
    OBVIOUS
  <2> QED
    BY <2>1 DEF Iterates
<1> HIDE DEF first
<1>2. T \in SUBSET Nat /\ 0 \in T /\ \A n \in T : n + 1 \in T
  BY <1>1, IterationStep
<1> HIDE DEF T
<1>3. T = Nat
  BY <1>2, SetInduction
<1> QED
  BY <1>3 DEF T

-----------------------------------------------------------------------------
\* r[i] is what the first i elements are folded to.
Steps(p, base, s, n, r) ==
  /\ r[0] = base
  /\ \A i \in 1..n : r[i] = Op(p, r[i - 1], s[i])

LEMMA FoldSteps ==
  ASSUME NEW p, NEW base, NEW s, NEW n \in Nat, DOMAIN s = 1..n
  PROVE  \E r : Steps(p, base, s, n, r) /\ Fold(p, base, s) = r[n]
<1> DEFINE iter == CHOOSE h : Iterates(p, base, s, n, h)
<1>1. Iterates(p, base, s, n, iter)
  BY IterationExists
<1>2. Fold(p, base, s) = iter[1..n]
  BY DEF Fold, Iterates
<1> HIDE DEF iter
<1> DEFINE r == [i \in 0..n |-> iter[1..i]]
<1>3. r[0] = base
  <2>1. 1..0 = {} /\ {} \in SUBSET (1..n)
    OBVIOUS
  <2> QED
    BY <1>1, <2>1 DEF Iterates
<1>4. ASSUME NEW i \in 1..n PROVE r[i] = Op(p, r[i - 1], s[i])
  <2>1. 1..i \in SUBSET (1..n) /\ 1..i # {} /\ i \in 1..i /\ 1..i \in SUBSET Nat
    <3>1. i \in Nat /\ i <= n /\ 1 <= i
      OBVIOUS
    <3>2. i \in 1..i
      BY <3>1
    <3>3. \A j \in 1..i : j \in 1..n /\ j \in Nat
      BY <3>1
    <3> QED
      BY <3>2, <3>3
  <2>2. \A y \in 1..i : i >= y
    OBVIOUS
  <2>3. Greatest(1..i) = i
    BY <2>1, <2>2, GreatestIs
  <2>4. (1..i) \ {i} = 1..(i - 1) /\ i \in 0..n /\ i - 1 \in 0..n
    OBVIOUS
  <2>5. iter[1..i] = Op(p, iter[(1..i) \ {i}], s[i])
    BY <1>1, <2>1, <2>3 DEF Iterates
  <2> QED
    BY <2>4, <2>5
<1>5. r[n] = iter[1..n]
  OBVIOUS
<1> HIDE DEF r
<1> QED
  BY <1>2, <1>3, <1>4, <1>5 DEF Steps

LEMMA StepsAgree ==
  ASSUME NEW p, NEW base, NEW s, NEW t, NEW n \in Nat, \A i \in 1..n : s[i] = t[i],
         NEW q, NEW r, Steps(p, base, s, n, q), Steps(p, base, t, n, r)
  PROVE  q[n] = r[n]
<1> DEFINE T == { i \in Nat : i <= n => q[i] = r[i] }
<1>1. 0 \in T
  BY DEF Steps
<1>2. ASSUME NEW i \in T, i + 1 <= n PROVE q[i + 1] = r[i + 1]
  <2>1. i + 1 \in 1..n /\ (i + 1) - 1 = i /\ q[i] = r[i]
    BY <1>2
  <2> QED
    BY <2>1 DEF Steps
<1>3. T \in SUBSET Nat /\ \A i \in T : i + 1 \in T
  BY <1>2
<1> HIDE DEF T
<1>4. T = Nat
  BY <1>1, <1>3, SetInduction
<1> QED
  BY <1>4 DEF T

\* What each step keeps, the fold keeps.
LEMMA FoldType ==
  ASSUME NEW A, NEW p, NEW base \in A, NEW s, NEW n \in Nat, DOMAIN s = 1..n,
         \A a \in A : \A i \in 1..n : Op(p, a, s[i]) \in A
  PROVE  Fold(p, base, s) \in A
<1>1. PICK r : Steps(p, base, s, n, r) /\ Fold(p, base, s) = r[n]
  BY FoldSteps
<1> DEFINE T == { i \in Nat : i <= n => r[i] \in A }
<1>2. 0 \in T
  BY <1>1 DEF Steps
<1>3. ASSUME NEW i \in T, i + 1 <= n PROVE r[i + 1] \in A
  <2>1. i + 1 \in 1..n /\ (i + 1) - 1 = i /\ r[i] \in A
    BY <1>3
  <2> QED
    BY <1>1, <2>1 DEF Steps
<1>4. T \in SUBSET Nat /\ \A i \in T : i + 1 \in T
  BY <1>3
<1> HIDE DEF T
<1>5. T = Nat
  BY <1>2, <1>4, SetInduction
<1>6. n \in T
  BY <1>5
<1> QED
  BY <1>1, <1>6 DEF T

-----------------------------------------------------------------------------
(* The equations of a fold.                                                *)

LEMMA FoldEmpty ==
  ASSUME NEW p, NEW base
  PROVE  Fold(p, base, <<>>) = base
<1>1. DOMAIN <<>> = 1..0
  OBVIOUS
<1> QED
  BY <1>1, FoldSteps DEF Steps

LEMMA FoldAppend ==
  ASSUME NEW X, NEW p, NEW base, NEW s \in Seq(X), NEW x \in X
  PROVE  Fold(p, base, Append(s, x)) = Op(p, Fold(p, base, s), x)
<1> DEFINE n == Len(s)
           t == Append(s, x)
<1>1. n \in Nat /\ n + 1 \in Nat /\ DOMAIN s = 1..n /\ DOMAIN t = 1..(n + 1)
  OBVIOUS
<1>2. \A i \in 1..n : t[i] = s[i] /\ i \in 1..(n + 1)
  OBVIOUS
<1>3. t[n + 1] = x /\ n + 1 \in 1..(n + 1) /\ (n + 1) - 1 = n
  OBVIOUS
<1> HIDE DEF n, t
<1>4. PICK q : Steps(p, base, s, n, q) /\ Fold(p, base, s) = q[n]
  BY <1>1, FoldSteps
<1>5. PICK r : Steps(p, base, t, n + 1, r) /\ Fold(p, base, t) = r[n + 1]
  BY <1>1, FoldSteps
<1>6. Steps(p, base, t, n, r)
  BY <1>2, <1>5 DEF Steps
<1>7. q[n] = r[n]
  BY <1>1, <1>2, <1>4, <1>6, StepsAgree
<1>8. r[n + 1] = Op(p, r[n], x)
  BY <1>3, <1>5 DEF Steps
<1> QED
  BY <1>4, <1>5, <1>7, <1>8 DEF t

LEMMA FoldConcat ==
  ASSUME NEW X, NEW p, NEW base, NEW s \in Seq(X), NEW t \in Seq(X)
  PROVE  Fold(p, base, s \o t) = Fold(p, Fold(p, base, s), t)
<1> DEFINE S == { u \in Seq(X) : Fold(p, base, s \o u) = Fold(p, Fold(p, base, s), u) }
<1>1. <<>> \in S
  <2>1. s \o <<>> = s /\ <<>> \in Seq(X)
    OBVIOUS
  <2> QED
    BY <2>1, FoldEmpty
<1>2. ASSUME NEW u \in Seq(X), NEW x \in X, u \in S PROVE Append(u, x) \in S
  <2>1. s \o Append(u, x) = Append(s \o u, x) /\ s \o u \in Seq(X) /\ Append(u, x) \in Seq(X)
    OBVIOUS
  <2>2. Fold(p, base, Append(s \o u, x)) = Op(p, Fold(p, base, s \o u), x)
    <3> DEFINE v == s \o u
    <3>1. v \in Seq(X)
      BY <2>1
    <3> HIDE DEF v
    <3>2. Fold(p, base, Append(v, x)) = Op(p, Fold(p, base, v), x)
      BY <3>1, FoldAppend
    <3> QED
      BY <3>2 DEF v
  <2>3. Fold(p, Fold(p, base, s), Append(u, x)) = Op(p, Fold(p, Fold(p, base, s), u), x)
    BY FoldAppend
  <2> QED
    BY <1>2, <2>1, <2>2, <2>3
<1> HIDE DEF S
<1>3. Seq(X) \subseteq S
  BY <1>1, <1>2, SeqInduction
<1> QED
  BY <1>3 DEF S
=============================================================================
