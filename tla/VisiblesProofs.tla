---------------------------- MODULE VisiblesProofs ----------------------------
(***************************************************************************)
(* Whatever is enabled, disabled, queried again, closed and deleted within *)
(* the walks through the lists of visibles: no iterator and no pointer to  *)
(* a column is left behind, and in the end everybody has been told.  This  *)
(* is for careful scripts; for others it is not true of the code.          *)
(***************************************************************************)
EXTENDS Visibles, FiniteSetTheorems, WellFoundedInduction, TLAPS

LEMMA SetInduction ==
  ASSUME NEW S \in SUBSET Nat, 0 \in S, \A n \in S : n + 1 \in S
  PROVE  S = Nat
<1> SUFFICES ASSUME Nat \ S # {} PROVE FALSE
  OBVIOUS
<1> DEFINE R == OpToRel(<, Nat)
           T == Nat \ S
<1>1. IsWellFoundedOn(R, Nat)
  BY NatLessThanWellFounded
<1>2. T \subseteq Nat /\ T # {}
  OBVIOUS
<1>3. \A m, n \in Nat : m < n => <<m, n>> \in R
  BY DEF OpToRel
<1> HIDE DEF R, T
<1>4. PICK n \in T : \A m \in T : ~(<<m, n>> \in R)
  BY <1>1, <1>2, WFMin
<1>5. n \in Nat /\ n \notin S /\ n # 0
  BY <1>4 DEF T
<1>6. n - 1 \in Nat /\ n - 1 < n
  BY <1>5
<1>7. n - 1 \in S
  BY <1>3, <1>4, <1>5, <1>6 DEF T
<1> QED
  BY <1>5, <1>6, <1>7

\* A nonempty set of numbers has a least one.
LEMMA Least ==
  ASSUME NEW S \in SUBSET Nat, S # {}
  PROVE  Min(S) \in S /\ \A n \in S : Min(S) <= n
<1> DEFINE R == OpToRel(<, Nat)
<1>1. IsWellFoundedOn(R, Nat)
  BY NatLessThanWellFounded
<1>2. \A m, n \in Nat : m < n => <<m, n>> \in R
  BY DEF OpToRel
<1> HIDE DEF R
<1>3. PICK n \in S : \A m \in S : ~(<<m, n>> \in R)
  BY <1>1, WFMin
<1>4. \A m \in S : n <= m
  <2> SUFFICES ASSUME NEW m \in S PROVE ~(m < n)
    OBVIOUS
  <2>1. m \in Nat /\ n \in Nat
    OBVIOUS
  <2> QED
    BY <1>2, <1>3, <2>1
<1> QED
  BY <1>3, <1>4 DEF Min

-----------------------------------------------------------------------------
(* A function defined by recursion over numbers exists.                    *)

\* h has the first n values of it.
Partial(S, b, g, n, h) ==
  /\ h \in [0..n -> S] /\ h[0] = b
  /\ \A i \in 0..(n - 1) : h[i + 1] = g[<<i, h[i]>>]

\* All that have the i-th value have the same one.
Unique(S, b, g) ==
  \A i, m, n \in Nat : i <= m /\ i <= n =>
    \A h, k : Partial(S, b, g, m, h) /\ Partial(S, b, g, n, k) => h[i] = k[i]

LEMMA PartialUnique ==
  ASSUME NEW S, NEW b \in S, NEW g \in [Nat \X S -> S]
  PROVE  Unique(S, b, g)
<1> DEFINE Agree(i) == \A m, n \in Nat : i <= m /\ i <= n =>
             \A h, k : Partial(S, b, g, m, h) /\ Partial(S, b, g, n, k) => h[i] = k[i]
           T == { i \in Nat : Agree(i) }
<1>1. Agree(0)
  BY DEF Partial
<1>2. ASSUME NEW i \in Nat, Agree(i) PROVE Agree(i + 1)
  <2> SUFFICES ASSUME NEW m \in Nat, NEW n \in Nat, i + 1 <= m, i + 1 <= n, NEW h, NEW k,
                      Partial(S, b, g, m, h), Partial(S, b, g, n, k)
               PROVE  h[i + 1] = k[i + 1]
    OBVIOUS
  <2>1. h[i] = k[i]
    BY <1>2
  <2>2. i \in 0..(m - 1) /\ i \in 0..(n - 1)
    OBVIOUS
  <2> QED
    BY <2>1, <2>2 DEF Partial
<1>3. T \in SUBSET Nat /\ 0 \in T /\ \A i \in T : i + 1 \in T
  BY <1>1, <1>2
<1> HIDE DEF T
<1>4. T = Nat
  BY <1>3, SetInduction
<1> QED
  BY <1>4 DEF T, Unique

LEMMA PartialExists ==
  ASSUME NEW S, NEW b \in S, NEW g \in [Nat \X S -> S]
  PROVE  \A n \in Nat : \E h : Partial(S, b, g, n, h)
<1> DEFINE T == { n \in Nat : \E h : Partial(S, b, g, n, h) }
<1>1. Partial(S, b, g, 0, [i \in 0..0 |-> b])
  BY DEF Partial
<1>2. ASSUME NEW n \in Nat, NEW h, Partial(S, b, g, n, h)
      PROVE  \E k : Partial(S, b, g, n + 1, k)
  <2> DEFINE k == [i \in 0..(n + 1) |-> IF i = n + 1 THEN g[<<n, h[n]>>] ELSE h[i]]
  <2>1. h \in [0..n -> S] /\ h[0] = b
        /\ \A i \in 0..(n - 1) : h[i + 1] = g[<<i, h[i]>>]
    BY <1>2 DEF Partial
  <2>2. g[<<n, h[n]>>] \in S
    <3>1. h[n] \in S
      BY <2>1
    <3> QED
      BY <3>1
  <2>3. k \in [0..(n + 1) -> S] /\ k[0] = b
    BY <2>1, <2>2
  <2>4. ASSUME NEW i \in 0..n PROVE k[i + 1] = g[<<i, k[i]>>]
    <3>0. n \in Nat /\ n # n + 1 /\ n \in 0..(n + 1) /\ n + 1 \in 0..(n + 1)
      OBVIOUS
    <3>1. CASE i = n
      <4>1. k[n + 1] = g[<<n, h[n]>>] /\ k[n] = h[n]
        BY <3>0
      <4> QED
        BY <3>1, <4>1
    <3>2. CASE i # n
      <4>1. i \in 0..(n - 1) /\ i + 1 \in 0..n
        BY <3>2
      <4> QED
        BY <2>1, <4>1
    <3> QED
      BY <3>1, <3>2
  <2>5. (n + 1) - 1 = n
    OBVIOUS
  <2> HIDE DEF k
  <2> QED
    BY <2>3, <2>4, <2>5 DEF Partial
<1>3. T \in SUBSET Nat /\ 0 \in T /\ \A n \in T : n + 1 \in T
  BY <1>1, <1>2
<1> HIDE DEF T
<1>4. T = Nat
  BY <1>3, SetInduction
<1> QED
  BY <1>4 DEF T

\* f has all of them.
Total(S, b, g, f) ==
  f \in [Nat -> S] /\ f[0] = b /\ \A n \in Nat : f[n + 1] = g[<<n, f[n]>>]

LEMMA Recursion ==
  ASSUME NEW S, NEW b \in S, NEW g \in [Nat \X S -> S]
  PROVE  \E f : Total(S, b, g, f)
<1> DEFINE H(n) == CHOOSE h : Partial(S, b, g, n, h)
           f == [n \in Nat |-> H(n)[n]]
<1>1. \A n \in Nat : Partial(S, b, g, n, H(n))
  BY PartialExists
<1> HIDE DEF H
<1>2. f \in [Nat -> S] /\ f[0] = b
  BY <1>1 DEF Partial
<1>3. ASSUME NEW n \in Nat PROVE f[n + 1] = g[<<n, f[n]>>]
  <2>1. H(n + 1)[n + 1] = g[<<n, H(n + 1)[n]>>]
    <3>1. Partial(S, b, g, n + 1, H(n + 1)) /\ n \in 0..((n + 1) - 1)
      BY <1>1
    <3> QED
      BY <3>1 DEF Partial
  <2>2. H(n + 1)[n] = H(n)[n]
    <3>1. Partial(S, b, g, n + 1, H(n + 1)) /\ Partial(S, b, g, n, H(n))
      BY <1>1
    <3>2. n \in Nat /\ n + 1 \in Nat /\ n <= n /\ n <= n + 1
      OBVIOUS
    <3> HIDE DEF f
    <3>3. Unique(S, b, g)
      BY PartialUnique
    <3> QED
      BY <3>1, <3>2, <3>3 DEF Unique
  <2> QED
    BY <2>1, <2>2
<1> HIDE DEF f
<1> QED
  BY <1>2, <1>3 DEF Total

-----------------------------------------------------------------------------
(* Lists.                                                                  *)

\* kept[i] is what Without leaves of the first i items.
Keeping(list, V, kept) ==
  /\ Without(list, V) = kept[Len(list)]
  /\ kept[0] = <<>>
  /\ \A i \in Nat : kept[i + 1] = IF list[i + 1] \in V THEN kept[i]
                                  ELSE Append(kept[i], list[i + 1])

\* The function by which Without is defined exists.
LEMMA WithoutRecursion ==
  ASSUME NEW list \in Seq(Visibles), NEW V
  PROVE  \E kept : Keeping(list, V, kept)
<1> DEFINE X == { list[i] : i \in Nat }
           S == Seq(X)
           g == [p \in Nat \X S |-> IF list[p[1] + 1] \in V THEN p[2]
                                    ELSE Append(p[2], list[p[1] + 1])]
           Body(f, i) == IF i = 0 THEN <<>>
                         ELSE IF list[i] \in V THEN f[i - 1]
                         ELSE Append(f[i - 1], list[i])
           IsKept(f) == f = [i \in Nat |-> Body(f, i)]
<1>1. <<>> \in S
  OBVIOUS
<1>2. g \in [Nat \X S -> S]
  <2> SUFFICES ASSUME NEW i \in Nat, NEW q \in S
               PROVE  Append(q, list[i + 1]) \in S
    OBVIOUS
  <2>1. list[i + 1] \in X
    <3>1. i + 1 \in Nat
      OBVIOUS
    <3> QED
      BY <3>1
  <2> HIDE DEF X
  <2> QED
    BY <2>1
<1>3. PICK f \in [Nat -> S] : f[0] = <<>> /\ \A n \in Nat : f[n + 1] = g[<<n, f[n]>>]
  <2> DEFINE e == <<>>
  <2>1. e \in S
    BY <1>1
  <2> HIDE DEF g, S, e
  <2>2. \E f : Total(S, e, g, f)
    BY <2>1, <1>2, Recursion
  <2> QED
    BY <2>2 DEF e, Total
<1>4. \A n \in Nat : f[n + 1] = IF list[n + 1] \in V THEN f[n] ELSE Append(f[n], list[n + 1])
  <2> SUFFICES ASSUME NEW n \in Nat
               PROVE  f[n + 1] = IF list[n + 1] \in V THEN f[n] ELSE Append(f[n], list[n + 1])
    OBVIOUS
  <2>1. f[n] \in S
    BY <1>3
  <2>2. g[<<n, f[n]>>] = IF list[n + 1] \in V THEN f[n] ELSE Append(f[n], list[n + 1])
    <3> HIDE DEF S
    <3> QED
      BY <2>1
  <2> QED
    BY <1>3, <2>2
<1>5. IsKept(f)
  <2>1. \A i \in Nat : f[i] = Body(f, i)
    <3> SUFFICES ASSUME NEW i \in Nat PROVE f[i] = Body(f, i)
      OBVIOUS
    <3>1. CASE i = 0
      BY <1>3, <3>1
    <3>2. CASE i # 0
      <4>1. i - 1 \in Nat /\ (i - 1) + 1 = i
        BY <3>2
      <4> HIDE DEF g, S
      <4> QED
        BY <1>4, <3>2, <4>1, Zenon
    <3> QED
      BY <3>1, <3>2
  <2> HIDE DEF S, g
  <2> QED
    BY <1>3, <2>1
<1> DEFINE kept == CHOOSE h : IsKept(h)
<1>6. IsKept(kept)
  BY <1>5, Zenon
<1>7. Without(list, V) = kept[Len(list)]
  BY DEF Without
<1> HIDE DEF kept, S, g
<1>8. kept[0] = <<>>
  BY <1>6
<1>9. \A i \in Nat : kept[i + 1] = IF list[i + 1] \in V THEN kept[i] ELSE Append(kept[i], list[i + 1])
  <2> SUFFICES ASSUME NEW i \in Nat
               PROVE  kept[i + 1] = IF list[i + 1] \in V THEN kept[i] ELSE Append(kept[i], list[i + 1])
    OBVIOUS
  <2>1. i + 1 \in Nat /\ i + 1 # 0 /\ (i + 1) - 1 = i
    OBVIOUS
  <2>2. kept[i + 1] = Body(kept, i + 1)
    BY <1>6, <2>1
  <2> QED
    BY <2>1, <2>2
<1> QED
  BY <1>7, <1>8, <1>9 DEF Keeping

\* What Without leaves: the others, each as often as before.
LEMMA WithoutIs ==
  ASSUME NEW list \in Seq(Visibles), NEW V
  PROVE  /\ Without(list, V) \in Seq(Visibles)
         /\ Range(Without(list, V)) = Range(list) \ V
         /\ IsInjective(list) => IsInjective(Without(list, V))
<1>0. PICK kept : Keeping(list, V, kept)
  BY WithoutRecursion
<1>1. /\ Without(list, V) = kept[Len(list)]
      /\ kept[0] = <<>>
      /\ \A i \in Nat : kept[i + 1] = IF list[i + 1] \in V THEN kept[i]
                                      ELSE Append(kept[i], list[i + 1])
  BY <1>0 DEF Keeping
<1> DEFINE First(i) == { list[j] : j \in 1..i }
           Right(i) == /\ kept[i] \in Seq(Visibles)
                       /\ Range(kept[i]) = First(i) \ V
                       /\ IsInjective(list) => IsInjective(kept[i])
           T == { i \in Nat : i <= Len(list) => Right(i) }
<1>2. 0 \in T
  <2>1. First(0) = {} /\ DOMAIN <<>> = {} /\ <<>> \in Seq(Visibles)
    OBVIOUS
  <2>2. Range(<<>>) = {} /\ IsInjective(<<>>)
    BY <2>1 DEF Range, IsInjective
  <2> HIDE DEF First
  <2>3. Right(0)
    BY <1>1, <2>1, <2>2
  <2> QED
    BY <2>3
<1>3. ASSUME NEW i \in T, i + 1 <= Len(list) PROVE Right(i + 1)
  <2>1. i \in Nat /\ Right(i) /\ i + 1 \in DOMAIN list /\ list[i + 1] \in Visibles
    BY <1>3
  <2>2. First(i + 1) = First(i) \cup {list[i + 1]}
    <3>1. 1..(i + 1) = (1..i) \cup {i + 1}
      BY <2>1
    <3> QED
      BY <3>1
  <2>3. CASE list[i + 1] \in V
    <3>1. kept[i + 1] = kept[i]
      BY <1>1, <2>1, <2>3
    <3>2. First(i + 1) \ V = First(i) \ V
      BY <2>2, <2>3
    <3> HIDE DEF First
    <3> QED
      BY <2>1, <3>1, <3>2
  <2>4. CASE list[i + 1] \notin V
    <3> DEFINE q == kept[i]
               r == Append(q, list[i + 1])
    <3>1. kept[i + 1] = r
      BY <1>1, <2>1, <2>4
    <3>2. q \in Seq(Visibles) /\ Range(q) = First(i) \ V /\ (IsInjective(list) => IsInjective(q))
      BY <2>1
    <3> HIDE DEF q
    <3>3. /\ r \in Seq(Visibles) /\ Len(r) = Len(q) + 1
          /\ \A j \in 1..Len(q) : r[j] = q[j]
          /\ r[Len(q) + 1] = list[i + 1]
      BY <2>1, <3>2
    <3>4. DOMAIN r = 1..(Len(q) + 1) /\ DOMAIN q = 1..Len(q) /\ Len(q) \in Nat
      BY <3>2, <3>3
    <3> HIDE DEF r
    <3>5. Range(r) = Range(q) \cup {list[i + 1]}
      <4>1. \A x \in Range(r) : x \in Range(q) \cup {list[i + 1]}
        BY <3>3, <3>4 DEF Range
      <4>2. \A x \in Range(q) : x \in Range(r)
        BY <3>3, <3>4 DEF Range
      <4>3. list[i + 1] \in Range(r)
        BY <3>3, <3>4 DEF Range
      <4> QED
        BY <4>1, <4>2, <4>3
    <3>6. Range(r) = First(i + 1) \ V
      <4> HIDE DEF First
      <4> QED
        BY <2>2, <2>4, <3>2, <3>5
    <3>7. ASSUME IsInjective(list) PROVE IsInjective(r)
      <4>1. list[i + 1] \notin Range(q)
        <5> SUFFICES list[i + 1] \notin First(i)
          BY <3>2
        <5>1. \A j \in 1..i : list[j] # list[i + 1]
          BY <2>1, <3>7 DEF IsInjective
        <5> QED
          BY <5>1
      <4>2. IsInjective(q)
        BY <3>2, <3>7
      <4> SUFFICES ASSUME NEW a \in DOMAIN r, NEW b \in DOMAIN r, r[a] = r[b], a # b
                   PROVE  FALSE
        BY DEF IsInjective
      <4>3. \A j \in 1..Len(q) : q[j] \in Range(q)
        BY <3>4 DEF Range
      <4>4. a \in 1..Len(q) /\ b \in 1..Len(q)
        BY <3>3, <3>4, <4>1, <4>3
      <4> QED
        BY <3>3, <3>4, <4>2, <4>4 DEF IsInjective
    <3> HIDE DEF First
    <3> QED
      BY <3>1, <3>3, <3>6, <3>7
  <2> QED
    BY <2>3, <2>4
<1>4. T = Nat
  <2> HIDE DEF Right
  <2>1. T \in SUBSET Nat /\ \A i \in T : i + 1 \in T
    BY <1>3
  <2> HIDE DEF T
  <2> QED
    BY <1>2, <2>1, SetInduction
<1>5. Right(Len(list))
  <2> HIDE DEF Right
  <2>1. Len(list) \in T
    BY <1>4
  <2> QED
    BY <2>1
<1>6. First(Len(list)) = Range(list)
  BY DEF Range
<1> HIDE DEF First
<1> QED
  BY <1>1, <1>5, <1>6

\* SetToSeq enumerates a finite set.
LEMMA Enumerated ==
  ASSUME NEW S, IsFiniteSet(S)
  PROVE  /\ Cardinality(S) \in Nat
         /\ SetToSeq(S) \in [1..Cardinality(S) -> S]
         /\ IsInjective(SetToSeq(S))
         /\ \A x \in S : \E i \in 1..Cardinality(S) : SetToSeq(S)[i] = x
<1> DEFINE n == Cardinality(S)
           IsOrder(f) == f \in [1..n -> S] /\ IsInjective(f)
<1>1. n \in Nat /\ ExistsBijection(1..n, S)
  BY FS_CardinalityType
<1>2. \E f : IsOrder(f)
  BY <1>1 DEF ExistsBijection, Bijection, Injection
<1>3. IsOrder(SetToSeq(S))
  BY <1>2 DEF SetToSeq
<1> DEFINE q == SetToSeq(S)
<1>4. q \in [1..n -> S] /\ IsInjective(q)
  BY <1>3
<1> HIDE DEF q
<1>5. q \in Injection(1..n, S)
  BY <1>4 DEF Injection, IsInjective
<1>6. IsFiniteSet(1..n) /\ Cardinality(1..n) = n
  BY <1>1, FS_Interval
<1>7. q \in Surjection(1..n, S)
  <2> DEFINE I == { q[i] : i \in 1..n }
  <2>1. I \in SUBSET S
    BY <1>4
  <2>2. q \in Surjection(1..n, I) /\ q \in Injection(1..n, I)
    BY <1>4, <1>5 DEF Surjection, Injection
  <2> HIDE DEF I
  <2>3. IsFiniteSet(I) /\ Cardinality(I) = n
    BY <1>6, <2>2, FS_Surjection
  <2>4. I = S
    BY <2>1, <2>3, FS_Subset
  <2> QED
    BY <2>2, <2>4
<1> QED
  BY <1>1, <1>4, <1>7 DEF Surjection, q
-----------------------------------------------------------------------------
(* The invariant.                                                          *)

Iterators == {Start, Begin, End} \cup Visibles

Dos == {"enable", "disable", "delete_columns", "query", "destroy"} \cup Walks

Items == [do : Dos, d : Datasources, it : Iterators]

Pointers == {Null, Freed} \cup (Datasources \X Names)

Vis == [list : [Datasources -> Seq(Visibles)],
        of : [Visibles -> Datasources \cup {NoSource}],
        column : [DataVisibles -> Pointers], view : Pointers,
        cols : SUBSET Names, handled : SUBSET Visibles]

Types ==
  /\ inForm \in BOOLEAN /\ automatic \in BOOLEAN
  /\ alive \in SUBSET Datasources
  /\ enabled \in [Datasources -> BOOLEAN]
  /\ columns \in [Datasources -> SUBSET Names]
  /\ vis \in Vis
  /\ todo \in Seq(Items)

\* The lists of the datasources hold the visibles that point to them.
Linked(s) ==
  \A d \in Datasources :
    /\ IsInjective(s.list[d])
    /\ Range(s.list[d]) = { v \in Visibles : s.of[v] = d }

\* The list of the combobox is alone with its datasource; a column of the grid
\* that has a datasource is one of its present columns.
Placed(s) ==
  /\ \A v \in Visibles : s.of[v] \in {NoSource, IF v = ListPart THEN Listed ELSE Main}
  /\ \A name \in Names : s.of[GridColumn(name)] # NoSource => name \in s.cols

Then(q, i, what) == i + 1 \in DOMAIN q /\ q[i + 1] = Item(what, q[i].d)

Behind(q, i, what) == i > 1 /\ q[i - 1].do = what /\ q[i - 1].d = q[i].d

\* What stands where on the stack: enable() goes by columns gone, delete
\* columns, query, columns created and enabled; ~hk_datasource by deleted, delete
\* columns and destroy; a walk that is interrupted is one of the first datasource,
\* by calls of the other.
Resting(q, i) ==
  LET do == q[i].do
  IN  /\ do \notin Walks => q[i].it = Start
      /\ do \in Restarting => q[i].it \in {Start, Begin}

Enabling(q, i) ==
  LET do == q[i].do
  IN  /\ do = "columns_gone" => i = 1 /\ Then(q, 1, "delete_columns") /\ Then(q, 2, "query")
      /\ do = "delete_columns" =>
           /\ Then(q, i, "query") \/ Then(q, i, "destroy")
           /\ i = 1 \/ (i = 2 /\ (Behind(q, i, "columns_gone") \/ Behind(q, i, "deleted")))
      /\ do = "query" => i = 1 \/ Behind(q, i, "delete_columns")
      /\ do = "destroy" => i = Len(q) /\ (i = 1 \/ Behind(q, i, "delete_columns"))
      /\ do = "columns_created" => i = 1 /\ Then(q, 1, "enabled")
      /\ do = "deleted" => i = 1 /\ Then(q, 1, "delete_columns") /\ Then(q, 2, "destroy")

Walked(q, i) ==
  LET do == q[i].do
  IN  /\ do = "vanishes" => i = Len(q) - 1 /\ Then(q, i, "disable")
      /\ do = "row_changed" => i = Len(q) /\ q[i].d = Main
      /\ i > 1 /\ do \in {"enabled", "disabled", "vanishes"} =>
           \/ i = 2 /\ q[2] = Item("enabled", q[1].d) /\ q[1].do = "columns_created"
           \/ q[i].d = Main /\ \A j \in 1..(i - 1) : q[j].d = Listed

Chained(q, i) == Resting(q, i) /\ Enabling(q, i) /\ Walked(q, i)

Stacked(q) == \A i \in DOMAIN q : Chained(q, i)

\* Iterators are at visibles of their lists.  While the grid makes its columns
\* anew, no walk below stands at one of them.
Undisturbed(a, q, s) ==
  /\ \A i \in DOMAIN q : q[i].it \in {Start, Begin, End} \cup Range(s.list[q[i].d])
  /\ a /\ s.of[Grid] = Main =>
       \A i \in DOMAIN q : q[i].do = "row_changed" => \A j \in 1..(i - 1) : q[j].d = Listed

\* What an iterator has before it.
Ahead(list, it) == { list[i] : i \in Position(list, it)..Len(list) }

\* The pointers of v are given up.
Cleared(s, v) ==
  /\ v \in DataVisibles => s.column[v] = Null
  /\ v = ListPart => s.view = Null

\* How far a call has come that deletes columns.
Working(e, c, q, s) ==
  /\ \A i \in DOMAIN q : q[i].do = "query" => ~e[q[i].d]
  /\ \A i \in DOMAIN q : q[i].do = "destroy" /\ i < 3 => \A v \in Visibles : s.of[v] # q[i].d
  /\ q # <<>> =>
       LET d == q[1].d
           list == s.list[d]
       IN  /\ q[1].do = "columns_gone" /\ q[1].it # Start =>
                \A v \in Range(list) \ Ahead(list, q[1].it) : Cleared(s, v)
           /\ q[1].do = "delete_columns" =>
                \A v \in Visibles : s.of[v] = d => Cleared(s, v)
           /\ q[1].do = "query" => c[d] = {}
           /\ q[1].do = "deleted" /\ q[1].it # Start => s.handled \cap Range(list) = {}

Pointing(c, d) == {Null} \cup ({d} \X c[d])

\* The pointers of a visible lead to columns of its datasource.
Alive(c, s, v) ==
  \A d \in Datasources :
    s.of[v] = d => /\ s.column[v] \in Pointing(c, d)
                   /\ v = ListPart => s.view \in Pointing(c, d)

AllAlive(c, s) == \A v \in DataVisibles : Alive(c, s, v)

Safe ==
  /\ Types /\ Linked(vis) /\ Placed(vis) /\ Stacked(todo)
  /\ Undisturbed(automatic, todo, vis) /\ Working(enabled, columns, todo, vis)
  /\ AllAlive(columns, vis)

-----------------------------------------------------------------------------
(* Constants, lists and iterators.                                         *)

LEMMA Kinds ==
  /\ Datasources = {Main, Listed} /\ Main # Listed /\ NoSource \notin Datasources
  /\ Grid \notin DataVisibles /\ ListPart \in DataVisibles /\ Combo \in DataVisibles
  /\ ListPart # Combo /\ Combo # Grid /\ ListPart # Grid
  /\ GridColumns \subseteq DataVisibles /\ ListPart \notin GridColumns
  /\ Combo \notin GridColumns /\ Fields \subseteq DataVisibles /\ ListPart \notin Fields
  /\ Visibles = DataVisibles \cup {Grid}
  /\ Null # Freed /\ Null \in Pointers /\ Freed \in Pointers
  /\ Null \notin Datasources \X Names /\ Freed \notin Datasources \X Names
  /\ Start # Begin /\ Start # End /\ Begin # End
  /\ Start \notin Visibles /\ Begin \notin Visibles /\ End \notin Visibles
BY VisiblesAssumption DEF Datasources, DataVisibles, Visibles, Pointers

LEMMA GridColumnKinds ==
  /\ \A name \in Names : GridColumn(name) \in GridColumns
  /\ \A m, n \in Names : GridColumn(m) = GridColumn(n) => m = n
  /\ \A v \in GridColumns : \E name \in Names : v = GridColumn(name)
  /\ \A name \in Names : ShownName(GridColumn(name)) = name
  /\ \A v \in DataVisibles : ShownName(v) \in Names
<1>1. \A name \in Names : GridColumn(name) \in GridColumns /\ GridColumn(name).gridcolumn = name
  BY DEF GridColumns, GridColumn
<1>2. \A v \in GridColumns : \E name \in Names : v = GridColumn(name)
  BY DEF GridColumns
<1>3. \A v \in DataVisibles \ GridColumns : NameOf[v] \in Names
  BY VisiblesAssumption DEF DataVisibles
<1> QED
  BY <1>1, <1>2, <1>3 DEF ShownName

LEMMA PositionIs ==
  ASSUME NEW list \in Seq(Visibles), IsInjective(list)
  PROVE  /\ Position(list, Begin) = 1 /\ Position(list, End) = Len(list) + 1
         /\ \A v \in Range(list) : /\ Position(list, v) \in 1..Len(list)
                                   /\ list[Position(list, v)] = v
         /\ \A i \in 1..Len(list) : Position(list, list[i]) = i
<1>1. \A i \in 1..Len(list) : list[i] \in Visibles
  OBVIOUS
<1>2. \A v \in Range(list) : v \in Visibles /\ \E i \in 1..Len(list) : list[i] = v
  BY <1>1 DEF Range
<1>3. Begin # End /\ Begin \notin Visibles /\ End \notin Visibles
  BY Kinds
<1>4. ASSUME NEW v \in Range(list)
      PROVE  Position(list, v) \in 1..Len(list) /\ list[Position(list, v)] = v
  <2>1. v # Begin /\ v # End
    BY <1>2, <1>3
  <2>2. Position(list, v) = CHOOSE i \in DOMAIN list : list[i] = v
    BY <2>1 DEF Position
  <2>3. \E i \in DOMAIN list : list[i] = v
    BY <1>2
  <2> QED
    BY <2>2, <2>3
<1>5. ASSUME NEW i \in 1..Len(list) PROVE Position(list, list[i]) = i
  <2>1. list[i] \in Range(list)
    BY DEF Range
  <2>2. Position(list, list[i]) \in DOMAIN list /\ list[Position(list, list[i])] = list[i]
    BY <1>4, <2>1
  <2> QED
    BY <2>2 DEF IsInjective
<1> QED
  BY <1>3, <1>4, <1>5 DEF Position

LEMMA AheadIs ==
  ASSUME NEW list \in Seq(Visibles), IsInjective(list)
  PROVE  Ahead(list, Begin) = Range(list) /\ Ahead(list, End) = {}
<1>1. DOMAIN list = 1..Len(list) /\ Len(list) \in Nat
  OBVIOUS
<1>2. Ahead(list, Begin) = Range(list)
  BY <1>1, PositionIs DEF Ahead, Range
<1>3. (Len(list) + 1)..Len(list) = {}
  BY <1>1
<1>4. Ahead(list, End) = {}
  BY <1>3, PositionIs DEF Ahead
<1> QED
  BY <1>2, <1>4

\* The next node of a list.
LEMMA AfterIs ==
  ASSUME NEW list \in Seq(Visibles), IsInjective(list), NEW i \in 1..Len(list)
  PROVE  /\ After(list, list[i]) \in {End} \cup Range(list)
         /\ Position(list, After(list, list[i])) = i + 1
         /\ { list[j] : j \in i..Len(list) } \subseteq Ahead(list, After(list, list[i])) \cup {list[i]}
<1> DEFINE k == CHOOSE j \in DOMAIN list : list[j] = list[i]
<1>1. DOMAIN list = 1..Len(list) /\ Len(list) \in Nat
  OBVIOUS
<1>0. i \in Nat /\ i <= Len(list) /\ Len(list) \in Nat /\ 1 <= i
  OBVIOUS
<1>2. k = i
  <2>1. k \in DOMAIN list /\ list[k] = list[i]
    BY <1>1
  <2> QED
    BY <1>1, <2>1 DEF IsInjective
<1>3. After(list, list[i]) = IF i = Len(list) THEN End ELSE list[i + 1]
  <2>1. After(list, list[i]) = IF k = Len(list) THEN End ELSE list[k + 1]
    BY DEF After
  <2> HIDE DEF k
  <2> QED
    BY <1>2, <2>1
<1> HIDE DEF k
<1>4. After(list, list[i]) \in {End} \cup Range(list)
  <2>1. i # Len(list) => i + 1 \in 1..Len(list)
    BY <1>0
  <2>2. i # Len(list) => list[i + 1] \in Range(list)
    BY <1>1, <2>1, Zenon DEF Range
  <2> QED
    BY <1>3, <2>2
<1>5. Position(list, After(list, list[i])) = i + 1
  <2>1. CASE i = Len(list)
    BY <1>3, <2>1, PositionIs
  <2>2. CASE i # Len(list)
    <3>1. i + 1 \in 1..Len(list)
      BY <1>0, <2>2
    <3> QED
      BY <1>3, <2>2, <3>1, PositionIs
  <2> QED
    BY <2>1, <2>2
<1>6. i..Len(list) = {i} \cup ((i + 1)..Len(list))
  BY <1>1
<1> QED
  BY <1>4, <1>5, <1>6 DEF Ahead

LEMMA ConcatIs ==
  ASSUME NEW p \in Seq(Visibles), NEW q \in Seq(Visibles), IsInjective(p), IsInjective(q),
         Range(p) \cap Range(q) = {}
  PROVE  /\ p \o q \in Seq(Visibles) /\ IsInjective(p \o q)
         /\ Range(p \o q) = Range(p) \cup Range(q)
<1> DEFINE m == Len(p)
           n == Len(q)
           r == p \o q
<1>1. /\ m \in Nat /\ n \in Nat /\ DOMAIN p = 1..m /\ DOMAIN q = 1..n
      /\ r \in Seq(Visibles) /\ DOMAIN r = 1..(m + n)
      /\ \A i \in 1..m : r[i] = p[i]
      /\ \A i \in (m + 1)..(m + n) : r[i] = q[i - m]
  OBVIOUS
<1> HIDE DEF m, n, r
<1>2. \A i \in 1..n : r[m + i] = q[i]
  <2> TAKE i \in 1..n
  <2>1. m + i \in (m + 1)..(m + n) /\ (m + i) - m = i
    BY <1>1
  <2> QED
    BY <1>1, <2>1
<1>3. \A i \in 1..(m + n) : i \in 1..m \/ (i \in (m + 1)..(m + n) /\ i - m \in 1..n)
  BY <1>1
<1>4. \A i \in 1..m : p[i] \in Range(p)
  BY <1>1 DEF Range
<1>5. \A i \in 1..n : q[i] \in Range(q)
  BY <1>1 DEF Range
<1>6. Range(r) = Range(p) \cup Range(q)
  <2>1. \A i \in 1..(m + n) : r[i] \in Range(p) \cup Range(q)
    BY <1>1, <1>3, <1>4, <1>5
  <2>2. \A i \in 1..m : i \in 1..(m + n)
    BY <1>1
  <2>3. \A i \in 1..n : m + i \in 1..(m + n)
    BY <1>1
  <2>4. \A x \in Range(p) : x \in Range(r)
    BY <1>1, <2>2 DEF Range
  <2>5. \A x \in Range(q) : x \in Range(r)
    <3> SUFFICES ASSUME NEW i \in 1..n PROVE q[i] \in Range(r)
      BY <1>1 DEF Range
    <3>1. r[m + i] = q[i] /\ m + i \in DOMAIN r
      BY <1>1, <1>2, <2>3
    <3> QED
      BY <3>1 DEF Range
  <2>6. \A x \in Range(r) : x \in Range(p) \cup Range(q)
    BY <1>1, <2>1 DEF Range
  <2> QED
    BY <2>4, <2>5, <2>6
<1>7. IsInjective(r)
  <2> SUFFICES ASSUME NEW i \in 1..(m + n), NEW j \in 1..(m + n), r[i] = r[j]
               PROVE  i = j
    BY <1>1 DEF IsInjective
  <2>1. CASE i \in 1..m /\ j \in 1..m
    BY <1>1, <2>1 DEF IsInjective
  <2>2. CASE i \in 1..m /\ j \notin 1..m
    BY <1>1, <1>3, <1>4, <1>5, <2>2
  <2>3. CASE i \notin 1..m /\ j \in 1..m
    BY <1>1, <1>3, <1>4, <1>5, <2>3
  <2>4. CASE i \notin 1..m /\ j \notin 1..m
    <3>1. i - m \in 1..n /\ j - m \in 1..n /\ q[i - m] = q[j - m]
      BY <1>1, <1>3, <2>4
    <3>2. i - m = j - m
      BY <1>1, <3>1 DEF IsInjective
    <3> QED
      BY <1>1, <3>2
  <2> QED
    BY <2>1, <2>2, <2>3, <2>4
<1> QED
  BY <1>1, <1>6, <1>7 DEF r

-----------------------------------------------------------------------------
(* What the visibles do.                                                   *)

\* Nothing happens to visibles other than V.
Same(s, t, V) ==
  /\ \A u \in Visibles \ V :
       t.of[u] = s.of[u] /\ (u \in DataVisibles => t.column[u] = s.column[u])
  /\ ListPart \notin V => t.view = s.view

In(c, d, name) == IF name \in c[d] THEN <<d, name>> ELSE Null

\* The column a visible should show.
Shown(e, c, s, v) ==
  LET d == s.of[v]
      own == In(c, d, ShownName(v))
  IN  IF ~e[d] THEN Null
      ELSE IF v = ListPart /\ own = Null THEN In(c, d, ViewName) ELSE own

LEMMA InIs ==
  ASSUME Types, NEW d \in Datasources, NEW name \in Names
  PROVE  /\ In(columns, d, name) = ColumnByName(d, name)
         /\ ColumnByName(d, name) \in Pointers
         /\ ColumnByName(d, name) \in Pointing(columns, d)
BY DEF Types, In, ColumnByName, Pointers, Pointing

LEMMA VisIs ==
  ASSUME NEW s \in Vis
  PROVE  /\ s.list \in [Datasources -> Seq(Visibles)]
         /\ s.of \in [Visibles -> Datasources \cup {NoSource}]
         /\ s.column \in [DataVisibles -> Pointers]
         /\ s.view \in Pointers /\ s.cols \in SUBSET Names /\ s.handled \in SUBSET Visibles
BY DEF Vis

LEMMA DetachedIs ==
  ASSUME NEW s \in Vis, Linked(s), NEW V \in SUBSET Visibles
  PROVE  LET t == Detached(s, V)
         IN  /\ t \in Vis /\ Linked(t) /\ Same(s, t, V)
             /\ \A u \in V : t.of[u] = NoSource /\ (u \in DataVisibles => t.column[u] = Null)
             /\ ListPart \in V => t.view = Null
             /\ t.cols = s.cols /\ t.handled = s.handled \ V
<1> DEFINE W(d) == { v \in V : s.of[v] = d }
           lists == [d \in Datasources |-> Without(s.list[d], W(d))]
           ofs == [v \in Visibles |-> IF v \in V THEN NoSource ELSE s.of[v]]
           pointers == [v \in DataVisibles |-> IF v \in V THEN Null ELSE s.column[v]]
           view == IF ListPart \in V THEN Null ELSE s.view
           t == Detached(s, V)
<1>0. s = [list |-> s.list, of |-> s.of, column |-> s.column, view |-> s.view,
           cols |-> s.cols, handled |-> s.handled]
  BY DEF Vis
<1>1. /\ t = [list |-> lists, of |-> ofs, column |-> pointers, view |-> view,
              cols |-> s.cols, handled |-> s.handled \ V]
      /\ t.list = lists /\ t.of = ofs /\ t.column = pointers /\ t.view = view
      /\ t.cols = s.cols /\ t.handled = s.handled \ V
  <2>1. t = [s EXCEPT !.list = lists, !.of = ofs, !.column = pointers, !.view = view,
                      !.handled = s.handled \ V]
    BY DEF Detached
  <2> HIDE DEF t, lists, ofs, pointers, view
  <2>2. t = [list |-> lists, of |-> ofs, column |-> pointers, view |-> view,
             cols |-> s.cols, handled |-> s.handled \ V]
    BY <1>0, <2>1
  <2> QED
    BY <2>2
<1>2. \A d \in Datasources :
         /\ lists[d] \in Seq(Visibles) /\ IsInjective(lists[d])
         /\ Range(lists[d]) = Range(s.list[d]) \ W(d)
  <2> SUFFICES ASSUME NEW d \in Datasources
               PROVE  /\ Without(s.list[d], W(d)) \in Seq(Visibles)
                      /\ IsInjective(Without(s.list[d], W(d)))
                      /\ Range(Without(s.list[d], W(d))) = Range(s.list[d]) \ W(d)
    OBVIOUS
  <2>1. s.list[d] \in Seq(Visibles) /\ IsInjective(s.list[d])
    BY VisIs DEF Linked
  <2> HIDE DEF W
  <2> QED
    BY <2>1, WithoutIs
<1>3. lists \in [Datasources -> Seq(Visibles)]
  <2>1. \A d \in Datasources : lists[d] \in Seq(Visibles)
    BY <1>2
  <2>2. lists = [d \in Datasources |-> lists[d]]
    OBVIOUS
  <2> HIDE DEF lists
  <2> QED
    BY <2>1, <2>2
<1>4. /\ ofs \in [Visibles -> Datasources \cup {NoSource}]
      /\ pointers \in [DataVisibles -> Pointers] /\ view \in Pointers
  BY VisIs, Kinds
<1>5. \A v \in Visibles : ofs[v] = IF v \in V THEN NoSource ELSE s.of[v]
  OBVIOUS
<1>6. \A v \in DataVisibles : pointers[v] = IF v \in V THEN Null ELSE s.column[v]
  OBVIOUS
<1> HIDE DEF lists, ofs, pointers, t
<1>7. t \in Vis
  BY <1>1, <1>3, <1>4, VisIs DEF Vis
<1>8. Linked(t)
  <2> SUFFICES ASSUME NEW d \in Datasources
               PROVE  /\ IsInjective(lists[d])
                      /\ Range(lists[d]) = { v \in Visibles : ofs[v] = d }
    BY <1>1 DEF Linked
  <2>1. Range(s.list[d]) = { v \in Visibles : s.of[v] = d }
    BY DEF Linked
  <2>2. Range(lists[d]) = { v \in Visibles : s.of[v] = d } \ W(d)
    BY <1>2, <2>1
  <2>3. \A v \in Visibles : v \in { u \in Visibles : s.of[u] = d } \ W(d) <=> ofs[v] = d
    BY <1>5, Kinds
  <2> HIDE DEF W
  <2> QED
    BY <1>2, <2>2, <2>3
<1>9. Same(s, t, V)
  BY <1>1, <1>5, <1>6 DEF Same
<1> QED
  BY <1>1, <1>5, <1>6, <1>7, <1>8, <1>9, Kinds DEF t

LEMMA AppendedIs ==
  ASSUME NEW s \in Vis, Linked(s), NEW d \in Datasources,
         NEW new \in Seq(Visibles), IsInjective(new), \A u \in Range(new) : s.of[u] = NoSource
  PROVE  LET t == Appended(s, new, d)
         IN  /\ t \in Vis /\ Linked(t)
             /\ \A u \in Visibles : t.of[u] = IF u \in Range(new) THEN d ELSE s.of[u]
             /\ t.column = s.column /\ t.view = s.view /\ t.cols = s.cols
             /\ t.handled = s.handled
<1> DEFINE lists == [s.list EXCEPT ![d] = @ \o new]
           ofs == [v \in Visibles |-> IF v \in Range(new) THEN d ELSE s.of[v]]
           t == Appended(s, new, d)
<1>0. s = [list |-> s.list, of |-> s.of, column |-> s.column, view |-> s.view,
           cols |-> s.cols, handled |-> s.handled]
  BY DEF Vis
<1>1. /\ t = [list |-> lists, of |-> ofs, column |-> s.column, view |-> s.view,
              cols |-> s.cols, handled |-> s.handled]
      /\ t.list = lists /\ t.of = ofs /\ t.column = s.column /\ t.view = s.view
      /\ t.cols = s.cols /\ t.handled = s.handled
  <2>1. t = [s EXCEPT !.list = lists, !.of = ofs]
    BY <1>0 DEF Appended
  <2> HIDE DEF t, lists, ofs
  <2>2. t = [list |-> lists, of |-> ofs, column |-> s.column, view |-> s.view,
             cols |-> s.cols, handled |-> s.handled]
    BY <1>0, <2>1
  <2> QED
    BY <2>2
<1>2. s.list \in [Datasources -> Seq(Visibles)]
      /\ \A e \in Datasources : IsInjective(s.list[e])
                                /\ Range(s.list[e]) = { v \in Visibles : s.of[v] = e }
  BY VisIs DEF Linked
<1>3. Range(s.list[d]) \cap Range(new) = {}
  BY <1>2, Kinds
<1>4. /\ s.list[d] \o new \in Seq(Visibles) /\ IsInjective(s.list[d] \o new)
      /\ Range(s.list[d] \o new) = Range(s.list[d]) \cup Range(new)
  BY <1>2, <1>3, ConcatIs
<1>5. /\ lists \in [Datasources -> Seq(Visibles)]
      /\ lists[d] = s.list[d] \o new
      /\ \A e \in Datasources : e # d => lists[e] = s.list[e]
  BY <1>2, <1>4
<1>6. \A v \in Visibles : ofs[v] = IF v \in Range(new) THEN d ELSE s.of[v]
  OBVIOUS
<1>7. ofs \in [Visibles -> Datasources \cup {NoSource}]
  BY VisIs
<1>8. Range(new) \subseteq Visibles
  BY DEF Range
<1> HIDE DEF lists, ofs, t
<1>9. t \in Vis
  BY <1>1, <1>5, <1>7, VisIs DEF Vis
<1>10. Linked(t)
  <2> SUFFICES ASSUME NEW e \in Datasources
               PROVE  /\ IsInjective(lists[e])
                      /\ Range(lists[e]) = { v \in Visibles : ofs[v] = e }
    BY <1>1 DEF Linked
  <2>1. CASE e = d
    BY <1>2, <1>4, <1>5, <1>6, <1>8, <2>1
  <2>2. CASE e # d
    <3>1. \A v \in Visibles : ofs[v] = e <=> s.of[v] = e
      BY <1>6, <2>2, Kinds
    <3> QED
      BY <1>2, <1>5, <2>2, <3>1
  <2> QED
    BY <2>1, <2>2
<1> QED
  BY <1>1, <1>6, <1>9, <1>10 DEF t

\* Nothing happens but that v shows other columns.
Repointed(s, t, v) ==
  /\ t \in Vis
  /\ t.list = s.list /\ t.of = s.of /\ t.cols = s.cols /\ t.handled = s.handled
  /\ \A u \in DataVisibles : u # v => t.column[u] = s.column[u]
  /\ v # ListPart => t.view = s.view

LEMMA RepointedIs ==
  ASSUME NEW s \in Vis, NEW v, NEW t, Repointed(s, t, v)
  PROVE  /\ Same(s, t, {v})
         /\ Linked(s) => Linked(t)
         /\ Placed(s) => Placed(t)
<1>1. \A u \in Visibles \ {v} :
        t.of[u] = s.of[u] /\ (u \in DataVisibles => t.column[u] = s.column[u])
  BY DEF Repointed
<1>2. Same(s, t, {v})
  BY <1>1 DEF Repointed, Same
<1>3. Linked(s) => Linked(t)
  BY DEF Repointed, Linked
<1>4. Placed(s) => Placed(t)
  BY DEF Repointed, Placed
<1> QED
  BY <1>2, <1>3, <1>4

\* A pointer is changed, and that to what the list shows besides.
Pointed(s, v, p) == [s EXCEPT !.column[v] = p]

PointedTwice(s, v, p, w) == [s EXCEPT !.column[v] = p, !.view = w]

LEMMA PointedIs ==
  ASSUME NEW s \in Vis, NEW v \in DataVisibles, NEW p \in Pointers
  PROVE  LET t == Pointed(s, v, p)
         IN  Repointed(s, t, v) /\ t.column[v] = p /\ t.view = s.view
<1> DEFINE pointers == [s.column EXCEPT ![v] = p]
           t == Pointed(s, v, p)
<1>1. s = [list |-> s.list, of |-> s.of, column |-> s.column, view |-> s.view,
           cols |-> s.cols, handled |-> s.handled]
  BY DEF Vis
<1>2. /\ pointers \in [DataVisibles -> Pointers] /\ pointers[v] = p
      /\ \A u \in DataVisibles : u # v => pointers[u] = s.column[u]
  BY VisIs
<1>3. t = [s EXCEPT !.column = pointers]
  BY DEF Pointed
<1> HIDE DEF pointers, t
<1>4. t = [list |-> s.list, of |-> s.of, column |-> pointers, view |-> s.view,
           cols |-> s.cols, handled |-> s.handled]
  BY <1>1, <1>3
<1>5. t \in Vis
  BY <1>2, <1>4, VisIs DEF Vis
<1>6. /\ t.list = s.list /\ t.of = s.of /\ t.cols = s.cols /\ t.handled = s.handled
      /\ t.column = pointers /\ t.view = s.view
  BY <1>4
<1> QED
  BY <1>2, <1>5, <1>6 DEF Repointed, t

LEMMA PointedTwiceIs ==
  ASSUME NEW s \in Vis, NEW v \in DataVisibles, NEW p \in Pointers, NEW w \in Pointers,
         v = ListPart \/ w = s.view
  PROVE  LET t == PointedTwice(s, v, p, w)
         IN  Repointed(s, t, v) /\ t.column[v] = p /\ t.view = w
<1> DEFINE pointers == [s.column EXCEPT ![v] = p]
           t == PointedTwice(s, v, p, w)
<1>1. s = [list |-> s.list, of |-> s.of, column |-> s.column, view |-> s.view,
           cols |-> s.cols, handled |-> s.handled]
  BY DEF Vis
<1>2. /\ pointers \in [DataVisibles -> Pointers] /\ pointers[v] = p
      /\ \A u \in DataVisibles : u # v => pointers[u] = s.column[u]
  BY VisIs
<1>3. t = [s EXCEPT !.column = pointers, !.view = w]
  BY DEF PointedTwice
<1> HIDE DEF pointers, t
<1>4. t = [list |-> s.list, of |-> s.of, column |-> pointers, view |-> w,
           cols |-> s.cols, handled |-> s.handled]
  BY <1>1, <1>3
<1>5. t \in Vis
  BY <1>2, <1>4, VisIs DEF Vis
<1>6. /\ t.list = s.list /\ t.of = s.of /\ t.cols = s.cols /\ t.handled = s.handled
      /\ t.column = pointers /\ t.view = w
  BY <1>4
<1> QED
  BY <1>2, <1>5, <1>6 DEF Repointed, t

LEMMA FetchedIs ==
  ASSUME Types, NEW s \in Vis, NEW v \in DataVisibles
  PROVE  LET t == Fetched(s, v)
             d == s.of[v]
             p == ColumnByName(d, ShownName(v))
         IN  /\ Repointed(s, t, v) /\ t.view = s.view
             /\ t.column[v] = IF s.column[v] = Null /\ d # NoSource /\ enabled[d] THEN p
                              ELSE s.column[v]
<1> DEFINE t == Fetched(s, v)
           d == s.of[v]
           p == ColumnByName(d, ShownName(v))
<1>1. CASE s.column[v] = Null /\ d # NoSource /\ enabled[d]
  <2>1. d \in Datasources
    BY <1>1, VisIs DEF Visibles
  <2>2. p \in Pointers
    BY <2>1, InIs, GridColumnKinds
  <2>3. t = Pointed(s, v, p)
    BY <1>1 DEF Fetched, Pointed
  <2> HIDE DEF t, p
  <2>5. Repointed(s, t, v) /\ t.column[v] = p /\ t.view = s.view
    BY <2>2, <2>3, PointedIs
  <2> QED
    BY <1>1, <2>5 DEF t, p
<1>2. CASE ~(s.column[v] = Null /\ d # NoSource /\ enabled[d])
  <2>1. t = s
    BY <1>2 DEF Fetched
  <2> QED
    BY <1>2, <2>1 DEF Repointed
<1> QED
  BY <1>1, <1>2

LEMMA EnabledIs ==
  ASSUME Types, NEW s \in Vis, NEW v \in Visibles, NEW d \in Datasources, s.of[v] = d
  PROVE  LET t == Enabled(s, v)
         IN  /\ Repointed(s, t, v)
             /\ v \in DataVisibles => Alive(columns, t, v)
             /\ v \in DataVisibles /\ enabled[d] => t.column[v] = Shown(enabled, columns, t, v)
<1> DEFINE t == Enabled(s, v)
           p == ColumnByName(d, ShownName(v))
           s1 == Pointed(s, v, Null)
           s2 == Fetched(s1, v)
<1>1. CASE v = Grid
  BY <1>1, Kinds DEF Enabled, Repointed
<1>2. ASSUME v # Grid
      PROVE  /\ Repointed(s, s2, v) /\ s2.view = s.view
             /\ s2.column[v] = IF enabled[d] THEN p ELSE Null
             /\ v \in DataVisibles /\ s2.column[v] \in Pointers
             /\ p \in Pointers /\ p = In(columns, d, ShownName(v)) /\ p \in Pointing(columns, d)
  <2>1. v \in DataVisibles
    BY <1>2, Kinds
  <2>2. /\ Repointed(s, s1, v) /\ s1.column[v] = Null /\ s1.view = s.view
    BY <2>1, Kinds, PointedIs
  <2> HIDE DEF s1
  <2>6. s1 \in Vis /\ s1.of = s.of /\ d # NoSource
    BY <2>2, Kinds DEF Repointed
  <2>3. /\ Repointed(s1, s2, v) /\ s2.view = s1.view
        /\ s2.column[v] = IF enabled[d] THEN p ELSE Null
    BY <2>1, <2>2, <2>6, FetchedIs
  <2>4. Repointed(s, s2, v)
    BY <2>2, <2>3 DEF Repointed
  <2>5. /\ p \in Pointers /\ p = In(columns, d, ShownName(v)) /\ p \in Pointing(columns, d)
    BY <2>1, InIs, GridColumnKinds
  <2> HIDE DEF p, s2
  <2> QED
    BY <2>1, <2>2, <2>3, <2>4, <2>5, Kinds
<1>3. CASE v # Grid /\ v # ListPart
  <2>1. t = s2
    BY <1>3 DEF Enabled, Pointed
  <2> HIDE DEF s2, p
  <2>2. t.of[v] = d /\ t.column[v] \in Pointing(columns, d)
    BY <1>2, <1>3, <2>1, Kinds DEF Repointed, Pointing
  <2>3. Alive(columns, t, v)
    BY <1>3, <2>2 DEF Alive
  <2>4. enabled[d] => t.column[v] = Shown(enabled, columns, t, v)
    BY <1>2, <1>3, <2>1, <2>2 DEF Shown
  <2>5. Repointed(s, t, v)
    BY <1>2, <1>3, <2>1
  <2> HIDE DEF t
  <2> QED
    BY <2>3, <2>4, <2>5 DEF t
<1>4. CASE v = ListPart
  <2> DEFINE named == ColumnByName(d, ViewName)
             view == IF named = Null THEN s2.column[v] ELSE named
             own == IF s2.column[v] = Null THEN view ELSE s2.column[v]
  <2>0. v # Grid
    BY <1>4, Kinds
  <2>1. /\ named \in Pointers /\ named = In(columns, d, ViewName)
        /\ named \in Pointing(columns, d)
    BY InIs, VisiblesAssumption
  <2>2. s2.of[v] = d
    BY <1>2, <2>0 DEF Repointed
  <2>3. s2 \in Vis /\ s2.column \in [DataVisibles -> Pointers] /\ v \in DataVisibles
    BY <1>2, <2>0, VisIs DEF Repointed
  <2>4. t = [s2 EXCEPT !.view = view, !.column[v] = own]
    <3>1. t = ListEnabled(s)
      BY <1>4, <2>0 DEF Enabled
    <3>2. t = [s2 EXCEPT !.view = view, !.column[v] = IF @ = Null THEN view ELSE @]
      BY <1>4, <2>2, <3>1 DEF ListEnabled, Pointed
    <3> HIDE DEF s2, t, named, view
    <3> QED
      BY <2>3, <3>2
  <2>5. [s2 EXCEPT !.view = view, !.column[v] = own] = PointedTwice(s2, v, own, view)
    <3> HIDE DEF s2, view, own
    <3> QED
      BY <2>3 DEF Vis, PointedTwice
  <2> HIDE DEF s2, t, named, p
  <2>6. view \in Pointers /\ own \in Pointers
    BY <1>2, <2>0, <2>1
  <2> HIDE DEF view, own
  <2>7. Repointed(s2, t, v) /\ t.column[v] = own /\ t.view = view
    BY <1>4, <2>3, <2>4, <2>5, <2>6, PointedTwiceIs
  <2>8. Repointed(s, t, v) /\ t.of[v] = d
    BY <1>2, <2>0, <2>2, <2>7 DEF Repointed
  <2>9. s2.column[v] \in Pointing(columns, d) /\ view \in Pointing(columns, d)
        /\ own \in Pointing(columns, d)
    BY <1>2, <2>0, <2>1 DEF view, own, Pointing
  <2>10. Alive(columns, t, v)
    BY <2>7, <2>8, <2>9 DEF Alive
  <2>11. enabled[d] => own = Shown(enabled, columns, t, v)
    BY <1>2, <1>4, <2>0, <2>1, <2>8 DEF own, view, Shown
  <2> QED
    BY <2>7, <2>8, <2>10, <2>11 DEF t
<1> QED
  BY <1>1, <1>3, <1>4

-----------------------------------------------------------------------------
(* What is attached, detached and told of something.                       *)

\* The visible shows what it should.
Fits(e, c, s, v) == v \in DataVisibles /\ s.of[v] # NoSource => s.column[v] = Shown(e, c, s, v)

\* Nothing happens but to V.
Changed(s, t, V) ==
  /\ t \in Vis /\ Linked(t) /\ Same(s, t, V) /\ t.handled = s.handled \ V

\* Each of V is at d now and shows what it should.
Arrived(e, c, t, V, d) ==
  \A u \in V : /\ t.of[u] = d
               /\ u \in DataVisibles => Alive(c, t, u) /\ Fits(e, c, t, u)

\* Each of V is alone.
Gone(t, V) ==
  \A u \in V : /\ t.of[u] = NoSource
               /\ u \in DataVisibles => t.column[u] = Null

LEMMA SameIs ==
  ASSUME NEW e, NEW c, NEW s, NEW t, NEW V, Same(s, t, V), NEW u \in DataVisibles \ V
  PROVE  /\ Alive(c, t, u) <=> Alive(c, s, u)
         /\ Fits(e, c, t, u) <=> Fits(e, c, s, u)
         /\ Cleared(t, u) <=> Cleared(s, u)
<1>1. u \in Visibles \ V /\ t.of[u] = s.of[u] /\ t.column[u] = s.column[u]
      /\ (u = ListPart => t.view = s.view)
  BY DEF Same, Visibles
<1> QED
  BY <1>1 DEF Alive, Fits, Shown, Cleared

LEMMA SameTwice ==
  ASSUME NEW r, NEW s, NEW t, NEW V, NEW W, Same(r, s, V), Same(s, t, W)
  PROVE  Same(r, t, V \cup W)
BY DEF Same

LEMMA AttachedAloneIs ==
  ASSUME Types, NEW s \in Vis, Linked(s), NEW v \in Visibles, NEW d \in Datasources
  PROVE  LET t == AttachedAlone(s, v, d)
         IN  /\ Changed(s, t, {v}) /\ Arrived(enabled, columns, t, {v}, d)
             /\ t.cols = s.cols
<1> DEFINE s1 == Detached(s, {v})
           s2 == Appended(s1, <<v>>, d)
           t == AttachedAlone(s, v, d)
<1>1. /\ s1 \in Vis /\ Linked(s1) /\ Same(s, s1, {v})
      /\ s1.of[v] = NoSource /\ (v \in DataVisibles => s1.column[v] = Null)
      /\ v = ListPart => s1.view = Null
      /\ s1.cols = s.cols /\ s1.handled = s.handled \ {v}
  <2>1. {v} \in SUBSET Visibles /\ v \in {v}
    OBVIOUS
  <2>2. v = ListPart => ListPart \in {v}
    OBVIOUS
  <2> HIDE DEF s1
  <2> QED
    BY <2>1, <2>2, DetachedIs DEF s1
<1>2. <<v>> \in Seq(Visibles) /\ IsInjective(<<v>>) /\ Range(<<v>>) = {v}
  <2>1. DOMAIN <<v>> = {1} /\ <<v>>[1] = v /\ <<v>> \in Seq(Visibles)
    OBVIOUS
  <2> QED
    BY <2>1 DEF IsInjective, Range
<1> HIDE DEF s1
<1>3. /\ s2 \in Vis /\ Linked(s2)
      /\ \A u \in Visibles : s2.of[u] = IF u \in {v} THEN d ELSE s1.of[u]
      /\ s2.column = s1.column /\ s2.view = s1.view /\ s2.cols = s1.cols
      /\ s2.handled = s1.handled
  <2> DEFINE new == <<v>>
  <2>1. new \in Seq(Visibles) /\ IsInjective(new) /\ Range(new) = {v}
    BY <1>2
  <2>2. s2 = Appended(s1, new, d)
    OBVIOUS
  <2> HIDE DEF new, s2
  <2>3. \A u \in Range(new) : s1.of[u] = NoSource
    BY <1>1, <2>1
  <2> QED
    BY <1>1, <2>1, <2>2, <2>3, AppendedIs
<1>4. t = IF enabled[d] THEN Enabled(s2, v) ELSE s2
  BY DEF AttachedAlone, s1
<1> HIDE DEF s2, t
<1>5. Same(s, s2, {v}) /\ s2.of[v] = d /\ s2.handled = s.handled \ {v} /\ s2.cols = s.cols
  BY <1>1, <1>3 DEF Same
<1>6. CASE enabled[d]
  <2>1. /\ Repointed(s2, t, v)
        /\ v \in DataVisibles => Alive(columns, t, v)
        /\ v \in DataVisibles => t.column[v] = Shown(enabled, columns, t, v)
    BY <1>3, <1>4, <1>5, <1>6, EnabledIs
  <2>2. Same(s2, t, {v}) /\ Linked(t)
    BY <1>3, <2>1, RepointedIs
  <2>3. Same(s, t, {v})
    BY <1>5, <2>2 DEF Same
  <2>4. t \in Vis /\ t.of[v] = d /\ t.cols = s.cols /\ t.handled = s.handled \ {v}
    BY <1>5, <2>1 DEF Repointed
  <2> QED
    BY <2>1, <2>2, <2>3, <2>4 DEF Changed, Arrived, Fits, t
<1>7. CASE ~enabled[d]
  <2>1. t = s2
    BY <1>4, <1>7
  <2>2. v \in DataVisibles => t.column[v] = Null
    BY <1>1, <1>3, <2>1
  <2>3. v = ListPart => t.view = Null
    BY <1>1, <1>3, <2>1
  <2>4. v \in DataVisibles => Alive(columns, t, v) /\ Fits(enabled, columns, t, v)
    BY <1>5, <1>7, <2>1, <2>2, <2>3 DEF Alive, Fits, Shown, Pointing
  <2> QED
    BY <1>3, <1>5, <2>1, <2>4 DEF Changed, Arrived, t
<1> QED
  BY <1>6, <1>7

ColumnsNamed(names) == { GridColumn(name) : name \in names }

LEMMA ColumnsNamedIs ==
  ASSUME NEW names \in SUBSET Names
  PROVE  /\ ColumnsNamed(names) \in SUBSET DataVisibles
         /\ ColumnsNamed(names) \in SUBSET Visibles
         /\ ListPart \notin ColumnsNamed(names) /\ Grid \notin ColumnsNamed(names)
         /\ ColumnsNamed(names) \in SUBSET GridColumns
         /\ \A name \in Names : GridColumn(name) \in ColumnsNamed(names) <=> name \in names
<1>1. ColumnsNamed(names) \in SUBSET GridColumns
  BY GridColumnKinds DEF ColumnsNamed
<1>2. \A name \in Names : GridColumn(name) \in ColumnsNamed(names) <=> name \in names
  BY GridColumnKinds DEF ColumnsNamed
<1> QED
  BY <1>1, <1>2, Kinds

LEMMA GridColumnsAttachedIs ==
  ASSUME Types, NEW s \in Vis, Linked(s), NEW names \in SUBSET Names, NEW d \in Datasources
  PROVE  LET t == GridColumnsAttached(s, names, d)
         IN  /\ Changed(s, t, ColumnsNamed(names))
             /\ Arrived(enabled, columns, t, ColumnsNamed(names), d)
             /\ t.cols = s.cols
<1> DEFINE order == SetToSeq(names)
           n == Cardinality(names)
           new == [i \in 1..n |-> GridColumn(order[i])]
           V == ColumnsNamed(names)
           s1 == Detached(s, Range(new))
           s2 == Appended(s1, new, d)
           pointers == [v \in DataVisibles |->
                          IF v \in Range(new) THEN ColumnByName(d, ShownName(v)) ELSE s2.column[v]]
           t == GridColumnsAttached(s, names, d)
<1>1. /\ n \in Nat /\ order \in [1..n -> names] /\ IsInjective(order)
      /\ \A x \in names : \E i \in 1..n : order[i] = x
  <2>1. IsFiniteSet(names)
    BY VisiblesAssumption, FS_Subset
  <2> QED
    BY <2>1, Enumerated
<1> HIDE DEF order, n
<1>2. /\ new \in Seq(Visibles) /\ IsInjective(new) /\ Range(new) = V
  <2>1. \A i \in 1..n : order[i] \in Names /\ new[i] = GridColumn(order[i])
    BY <1>1
  <2>2. \A i \in 1..n : new[i] \in Visibles
    BY <2>1, GridColumnKinds, Kinds
  <2>3. DOMAIN new = 1..n /\ DOMAIN order = 1..n
    BY <1>1
  <2>4. new \in [1..n -> Visibles]
    BY <2>2
  <2>5. new \in Seq(Visibles)
    <3> HIDE DEF new
    <3> QED
      BY <1>1, <2>4
  <2>6. IsInjective(new)
    <3> HIDE DEF new
    <3> QED
      BY <1>1, <2>1, <2>3, GridColumnKinds DEF IsInjective
  <2>7. Range(new) = V
    <3> HIDE DEF new
    <3>1. \A x \in Range(new) : x \in V
      BY <1>1, <2>1, <2>3 DEF Range, ColumnsNamed
    <3>2. \A x \in V : x \in Range(new)
      BY <1>1, <2>1, <2>3 DEF Range, ColumnsNamed
    <3> QED
      BY <3>1, <3>2
  <2> QED
    BY <2>5, <2>6, <2>7
<1>3. /\ V \in SUBSET Visibles /\ V \in SUBSET DataVisibles
      /\ ListPart \notin V /\ Grid \notin V
  BY ColumnsNamedIs
<1>4. t = IF ~enabled[d] THEN s2 ELSE [s2 EXCEPT !.column = pointers]
  BY DEF GridColumnsAttached, order, n
<1> HIDE DEF new, V
<1>5. /\ s1 \in Vis /\ Linked(s1) /\ Same(s, s1, V)
      /\ \A u \in V : s1.of[u] = NoSource /\ (u \in DataVisibles => s1.column[u] = Null)
      /\ s1.cols = s.cols /\ s1.handled = s.handled \ V
  <2>1. s1 = Detached(s, V)
    BY <1>2
  <2> HIDE DEF s1
  <2> QED
    BY <1>3, <2>1, DetachedIs
<1> HIDE DEF s1
<1>6. /\ s2 \in Vis /\ Linked(s2)
      /\ \A u \in Visibles : s2.of[u] = IF u \in V THEN d ELSE s1.of[u]
      /\ s2.column = s1.column /\ s2.view = s1.view /\ s2.cols = s1.cols
      /\ s2.handled = s1.handled
  <2>1. \A u \in Range(new) : s1.of[u] = NoSource
    BY <1>2, <1>5
  <2> HIDE DEF s2
  <2> QED
    BY <1>2, <1>5, <2>1, AppendedIs DEF s2
<1> HIDE DEF s2, t
<1>7. /\ Same(s, s2, V) /\ \A u \in V : s2.of[u] = d /\ s2.column[u] = Null
      /\ s2.handled = s.handled \ V /\ s2.cols = s.cols
  <2>1. Same(s, s2, V)
    BY <1>5, <1>6 DEF Same
  <2> QED
    BY <1>3, <1>5, <1>6, <2>1
<1>8. CASE ~enabled[d]
  <2>1. t = s2
    BY <1>4, <1>8
  <2>2. \A u \in V : Alive(columns, t, u) /\ Fits(enabled, columns, t, u)
    BY <1>3, <1>7, <1>8, <2>1 DEF Alive, Fits, Shown, Pointing
  <2> QED
    BY <1>6, <1>7, <2>1, <2>2 DEF Changed, Arrived, t, V
<1>9. CASE enabled[d]
  <2>1. t = [s2 EXCEPT !.column = pointers]
    BY <1>4, <1>9
  <2>2. \A u \in DataVisibles : pointers[u] =
          IF u \in V THEN ColumnByName(d, ShownName(u)) ELSE s2.column[u]
    BY <1>2
  <2>3. \A u \in V : /\ ColumnByName(d, ShownName(u)) \in Pointers
                     /\ ColumnByName(d, ShownName(u)) \in Pointing(columns, d)
                     /\ ColumnByName(d, ShownName(u)) = In(columns, d, ShownName(u))
    BY <1>3, GridColumnKinds, InIs
  <2>4. pointers \in [DataVisibles -> Pointers]
    <3>1. \A u \in DataVisibles : pointers[u] \in Pointers
      BY <1>6, <2>2, <2>3, VisIs
    <3>2. pointers = [u \in DataVisibles |-> pointers[u]]
      OBVIOUS
    <3> HIDE DEF pointers
    <3> QED
      BY <3>1, <3>2
  <2> HIDE DEF pointers
  <2>5. /\ t.list = s2.list /\ t.of = s2.of /\ t.cols = s2.cols /\ t.handled = s2.handled
        /\ t.column = pointers /\ t.view = s2.view /\ t \in Vis
    <3>1. s2 = [list |-> s2.list, of |-> s2.of, column |-> s2.column, view |-> s2.view,
                cols |-> s2.cols, handled |-> s2.handled]
      BY <1>6 DEF Vis
    <3>2. t = [list |-> s2.list, of |-> s2.of, column |-> pointers, view |-> s2.view,
               cols |-> s2.cols, handled |-> s2.handled]
      BY <2>1, <3>1
    <3> QED
      BY <1>6, <2>4, <3>2, VisIs DEF Vis
  <2>6. Linked(t)
    BY <1>6, <2>5 DEF Linked
  <2>7. Same(s, t, V)
    BY <1>7, <2>2, <2>5 DEF Same
  <2>8. \A u \in V : /\ t.of[u] = d /\ t.column[u] = In(columns, d, ShownName(u))
                     /\ t.column[u] \in Pointing(columns, d) /\ u # ListPart
    BY <1>3, <1>7, <2>2, <2>3, <2>5
  <2>9. \A u \in V : Alive(columns, t, u) /\ Fits(enabled, columns, t, u)
    BY <1>9, <2>8 DEF Alive, Fits, Shown
  <2> QED
    BY <1>7, <2>5, <2>6, <2>7, <2>8, <2>9 DEF Changed, Arrived, t, V
<1> QED
  BY <1>8, <1>9

LEMMA GridColumnsDetachedIs ==
  ASSUME NEW s \in Vis, Linked(s), NEW names \in SUBSET Names
  PROVE  LET t == GridColumnsDetached(s, names)
         IN  /\ Changed(s, t, ColumnsNamed(names)) /\ Gone(t, ColumnsNamed(names))
             /\ t.cols = s.cols
<1>1. GridColumnsDetached(s, names) = Detached(s, ColumnsNamed(names))
  BY DEF GridColumnsDetached, ColumnsNamed
<1>2. ColumnsNamed(names) \in SUBSET Visibles
  BY ColumnsNamedIs
<1> QED
  BY <1>1, <1>2, DetachedIs DEF Changed, Gone

\* The visible and, for a grid, its columns.
Shell(v) == IF v = Grid THEN {Grid} \cup GridColumns ELSE {v}

\* Nothing happens but to V, and all remains as it has to be.
Moved(c, s, t, V) ==
  /\ t \in Vis /\ Linked(t) /\ Placed(t) /\ Same(s, t, V) /\ t.handled \subseteq s.handled
  /\ AllAlive(c, s) => AllAlive(c, t)

\* The visible shows nothing.
Blank(t, u) == u \in DataVisibles /\ t.of[u] # NoSource => t.column[u] = Null

LEMMA SameMore ==
  ASSUME NEW s, NEW t, NEW V, NEW W, Same(s, t, V), V \subseteq W
  PROVE  Same(s, t, W)
BY DEF Same

LEMMA MovedTwice ==
  ASSUME NEW c, NEW r, NEW s, NEW t, NEW V, Moved(c, r, s, V), Moved(c, s, t, V)
  PROVE  Moved(c, r, t, V)
<1>1. Same(r, t, V)
  BY SameTwice DEF Moved
<1> QED
  BY <1>1 DEF Moved

\* What is changed shows a column of its datasource or is alone.
LEMMA ChangedIs ==
  ASSUME NEW c, NEW s, NEW t, NEW V, Changed(s, t, V), Placed(t),
         \A u \in V : u \in DataVisibles => Alive(c, t, u)
  PROVE  Moved(c, s, t, V)
<1>1. ASSUME AllAlive(c, s) PROVE AllAlive(c, t)
  <2> SUFFICES ASSUME NEW u \in DataVisibles PROVE Alive(c, t, u)
    BY DEF AllAlive
  <2>1. CASE u \in V
    BY <2>1
  <2>2. CASE u \notin V
    BY <1>1, <2>2, SameIs DEF Changed, AllAlive
  <2> QED
    BY <2>1, <2>2
<1>2. t.handled \subseteq s.handled
  BY DEF Changed
<1> QED
  BY <1>1, <1>2 DEF Changed, Moved

LEMMA GoneIs ==
  ASSUME NEW e, NEW c, NEW t, NEW V \in SUBSET Visibles, Gone(t, V)
  PROVE  /\ \A u \in V : u \in DataVisibles => Alive(c, t, u) /\ Fits(e, c, t, u)
         /\ \A u \in V : Blank(t, u)
BY Kinds DEF Gone, Alive, Fits, Blank

\* Who is alone is in place.
LEMMA GonePlaced ==
  ASSUME NEW s, NEW t, NEW V, Same(s, t, V), Gone(t, V), Placed(s), t.cols = s.cols
  PROVE  Placed(t)
<1>1. \A u \in Visibles : t.of[u] = s.of[u] \/ t.of[u] = NoSource
  BY DEF Same, Gone
<1>2. \A u \in Visibles : t.of[u] \in {NoSource, IF u = ListPart THEN Listed ELSE Main}
  BY <1>1 DEF Placed
<1>3. \A name \in Names : GridColumn(name) \in Visibles
  BY GridColumnKinds, Kinds
<1>4. \A name \in Names : t.of[GridColumn(name)] # NoSource => name \in t.cols
  BY <1>1, <1>3 DEF Placed
<1> QED
  BY <1>2, <1>4 DEF Placed

\* Only the columns of the grid are named anew.
Regridded(s, names) == [s EXCEPT !.cols = names]

LEMMA RegriddedIs ==
  ASSUME NEW s \in Vis, NEW names \in SUBSET Names
  PROVE  LET t == Regridded(s, names)
         IN  /\ t \in Vis /\ t.list = s.list /\ t.of = s.of /\ t.column = s.column
             /\ t.view = s.view /\ t.handled = s.handled /\ t.cols = names
<1> DEFINE t == Regridded(s, names)
<1>1. s = [list |-> s.list, of |-> s.of, column |-> s.column, view |-> s.view,
           cols |-> s.cols, handled |-> s.handled]
  BY DEF Vis
<1>2. t = [s EXCEPT !.cols = names]
  BY DEF Regridded
<1> HIDE DEF t
<1>3. t = [list |-> s.list, of |-> s.of, column |-> s.column, view |-> s.view,
           cols |-> names, handled |-> s.handled]
  BY <1>1, <1>2
<1>4. t \in Vis
  BY <1>3, VisIs DEF Vis
<1> QED
  BY <1>3, <1>4 DEF t

LEMMA RegriddedSame ==
  ASSUME NEW e, NEW c, NEW s \in Vis, NEW names \in SUBSET Names, NEW r, NEW V
  PROVE  LET t == Regridded(s, names)
         IN  /\ Changed(r, s, V) => Changed(r, t, V)
             /\ \A d : Arrived(e, c, s, V, d) => Arrived(e, c, t, V, d)
             /\ Gone(s, V) => Gone(t, V)
             /\ \A u : Alive(c, s, u) => Alive(c, t, u)
             /\ \A u : Fits(e, c, s, u) => Fits(e, c, t, u)
<1> DEFINE t == Regridded(s, names)
<1>1. /\ t \in Vis /\ t.list = s.list /\ t.of = s.of /\ t.column = s.column
      /\ t.view = s.view /\ t.handled = s.handled /\ t.cols = names
  BY RegriddedIs
<1> HIDE DEF t
<1>2. Changed(r, s, V) => Changed(r, t, V)
  BY <1>1 DEF Changed, Same, Linked
<1>3. Gone(s, V) => Gone(t, V)
  BY <1>1 DEF Gone
<1>4. \A u : Alive(c, s, u) => Alive(c, t, u)
  BY <1>1 DEF Alive
<1>5. \A u : Fits(e, c, s, u) => Fits(e, c, t, u)
  BY <1>1 DEF Fits, Shown
<1>6. \A d : Arrived(e, c, s, V, d) => Arrived(e, c, t, V, d)
  BY <1>1, <1>4, <1>5 DEF Arrived
<1> QED
  BY <1>2, <1>3, <1>4, <1>5, <1>6 DEF t

\* Without its columns.
LEMMA ColsClearedIs ==
  ASSUME NEW c, NEW s \in Vis, Linked(s), Placed(s)
  PROVE  LET t == ColsCleared(s)
         IN  /\ Moved(c, s, t, GridColumns) /\ t.cols = {}
             /\ Changed(s, t, ColumnsNamed(s.cols))
             /\ \A u \in GridColumns : t.of[u] = NoSource
<1> DEFINE s1 == GridColumnsDetached(s, s.cols)
           t == ColsCleared(s)
           V == ColumnsNamed(s.cols)
<1>1. s.cols \in SUBSET Names
  BY VisIs
<1>2. Changed(s, s1, V) /\ Gone(s1, V) /\ s1.cols = s.cols
  BY <1>1, GridColumnsDetachedIs
<1>3. V \in SUBSET GridColumns /\ V \in SUBSET Visibles
  BY <1>1, ColumnsNamedIs
<1>4. t = Regridded(s1, {})
  BY DEF ColsCleared, Regridded
<1> HIDE DEF s1, t
<1>5. s1 \in Vis /\ {} \in SUBSET Names
  BY <1>2 DEF Changed
<1>6. Changed(s, t, V) /\ Gone(t, V) /\ t.cols = {}
  BY <1>2, <1>4, <1>5, RegriddedSame, RegriddedIs
<1>7. \A name \in Names : GridColumn(name) \in V <=> name \in s.cols
  BY <1>1, ColumnsNamedIs
<1>8. \A name \in Names : GridColumn(name) \in Visibles
  BY GridColumnKinds, Kinds
<1> HIDE DEF V
<1>9. \A name \in Names : t.of[GridColumn(name)] = NoSource
  <2> SUFFICES ASSUME NEW name \in Names PROVE t.of[GridColumn(name)] = NoSource
    OBVIOUS
  <2>1. CASE name \in s.cols
    BY <1>6, <1>7, <2>1 DEF Gone
  <2>2. CASE name \notin s.cols
    <3>1. s.of[GridColumn(name)] = NoSource
      BY <2>2 DEF Placed
    <3> QED
      BY <1>6, <1>7, <1>8, <2>2, <3>1 DEF Changed, Same
  <2> QED
    BY <2>1, <2>2
<1>10. Placed(t)
  <2>1. \A u \in Visibles : t.of[u] = s.of[u] \/ t.of[u] = NoSource
    BY <1>6 DEF Changed, Same, Gone
  <2> QED
    BY <1>9, <2>1 DEF Placed
<1>11. Moved(c, s, t, V)
  <2>1. \A u \in V : u \in DataVisibles => Alive(c, t, u)
    BY <1>3, <1>6, GoneIs
  <2> QED
    BY <1>6, <1>10, <2>1, ChangedIs
<1>12. Moved(c, s, t, GridColumns)
  BY <1>3, <1>11, SameMore DEF Moved
<1>13. \A u \in GridColumns : t.of[u] = NoSource
  BY <1>9, GridColumnKinds
<1> QED
  BY <1>6, <1>12, <1>13 DEF t, V

\* With the columns of the last query.
LEMMA ColsCreatedIs ==
  ASSUME Types, NEW s \in Vis, Linked(s), Placed(s)
  PROVE  LET t == ColsCreated(s)
             d == s.of[Grid]
         IN  /\ Moved(columns, s, t, GridColumns)
             /\ ~automatic => t = s
             /\ automatic => /\ t.cols = IF d = NoSource THEN {} ELSE columns[d]
                             /\ \A u \in GridColumns : Fits(enabled, columns, t, u)
<1> DEFINE d == s.of[Grid]
           s1 == ColsCleared(s)
           s2 == GridColumnsAttached(s1, columns[d], d)
           t == ColsCreated(s)
<1>0. Grid \in Visibles /\ Grid \notin GridColumns /\ d \in {NoSource, Main} /\ Main \in Datasources
      /\ NoSource \notin Datasources /\ GridColumns \in SUBSET DataVisibles
      /\ GridColumns \in SUBSET Visibles
  BY Kinds DEF Placed
<1>1. CASE ~automatic
  <2>1. t = s
    BY <1>1 DEF ColsCreated
  <2>2. Same(s, s, GridColumns)
    BY DEF Same
  <2> QED
    BY <1>1, <2>1, <2>2 DEF Moved
<1>2. CASE automatic
  <2>1. Moved(columns, s, s1, GridColumns) /\ s1.cols = {}
        /\ \A u \in GridColumns : s1.of[u] = NoSource
    BY ColsClearedIs
  <2>2. s1.of[Grid] = d /\ s1 \in Vis /\ Linked(s1) /\ Placed(s1)
    BY <1>0, <2>1 DEF Moved, Same
  <2>3. t = IF d = NoSource THEN s1 ELSE Regridded(s2, columns[d])
    BY <1>2 DEF ColsCreated, Regridded
  <2>4. CASE d = NoSource
    <3>1. t = s1
      BY <2>3, <2>4
    <3>2. \A u \in GridColumns : Fits(enabled, columns, s1, u)
      BY <2>1 DEF Fits
    <3> HIDE DEF t, s1
    <3> QED
      BY <1>2, <2>1, <2>4, <3>1, <3>2 DEF t
  <2>5. CASE d # NoSource
    <3> DEFINE V == ColumnsNamed(columns[d])
    <3>1. d \in Datasources /\ d = Main
      BY <1>0, <2>5
    <3>2. columns[d] \in SUBSET Names
      BY <3>1 DEF Types
    <3> HIDE DEF s1
    <3>3. Changed(s1, s2, V) /\ Arrived(enabled, columns, s2, V, d)
      BY <2>2, <3>1, <3>2, GridColumnsAttachedIs
    <3>4. t = Regridded(s2, columns[d])
      BY <2>3, <2>5
    <3> HIDE DEF s2, t
    <3>5. Changed(s1, t, V) /\ Arrived(enabled, columns, t, V, d) /\ t.cols = columns[d]
      <4>1. s2 \in Vis
        BY <3>3 DEF Changed
      <4>2. Changed(s1, Regridded(s2, columns[d]), V)
        BY <3>2, <3>3, <4>1, RegriddedSame
      <4>3. Arrived(enabled, columns, Regridded(s2, columns[d]), V, d)
        BY <3>2, <3>3, <4>1, RegriddedSame
      <4>4. Regridded(s2, columns[d]).cols = columns[d]
        BY <3>2, <4>1, RegriddedIs
      <4> QED
        BY <3>4, <4>2, <4>3, <4>4
    <3>6. /\ V \in SUBSET GridColumns /\ ListPart \notin V
          /\ \A name \in Names : GridColumn(name) \in V <=> name \in columns[d]
      BY <3>2, ColumnsNamedIs
    <3> HIDE DEF V
    <3>7. Placed(t)
      <4>1. \A u \in Visibles \ V : t.of[u] = s1.of[u]
        BY <3>5 DEF Changed, Same
      <4>2. \A u \in V : t.of[u] = Main
        BY <3>1, <3>5 DEF Arrived
      <4>3. \A u \in Visibles : t.of[u] \in {NoSource, IF u = ListPart THEN Listed ELSE Main}
        BY <2>2, <3>6, <4>1, <4>2 DEF Placed
      <4>4. \A name \in Names : GridColumn(name) \in GridColumns
        BY GridColumnKinds
      <4>5. \A name \in Names : t.of[GridColumn(name)] # NoSource => name \in t.cols
        BY <1>0, <2>1, <3>5, <3>6, <4>1, <4>4
      <4> QED
        BY <4>3, <4>5 DEF Placed
    <3>8. Moved(columns, s1, t, V)
      BY <3>5, <3>7, ChangedIs DEF Arrived
    <3>9. Moved(columns, s, t, GridColumns)
      <4>1. Moved(columns, s1, t, GridColumns)
        BY <3>6, <3>8, SameMore DEF Moved
      <4> QED
        BY <2>1, <4>1, MovedTwice
    <3>10. \A u \in GridColumns : Fits(enabled, columns, t, u)
      <4> SUFFICES ASSUME NEW u \in GridColumns PROVE Fits(enabled, columns, t, u)
        OBVIOUS
      <4>1. CASE u \in V
        BY <1>0, <3>5, <4>1 DEF Arrived
      <4>2. CASE u \notin V
        <5>1. t.of[u] = NoSource
          BY <1>0, <2>1, <3>5, <4>2 DEF Changed, Same
        <5> QED
          BY <5>1 DEF Fits
      <4> QED
        BY <4>1, <4>2
    <3> QED
      BY <1>2, <2>5, <3>5, <3>9, <3>10 DEF t
  <2> QED
    BY <2>4, <2>5
<1> QED
  BY <1>1, <1>2

\* A visible gets its datasource.
LEMMA AttachedIs ==
  ASSUME Types, NEW s \in Vis, Linked(s), Placed(s), NEW v \in Visibles, NEW d \in Datasources,
         (v = ListPart) = (d = Listed), v \notin GridColumns
  PROVE  LET t == Attached(s, v, d)
         IN  /\ Moved(columns, s, t, Shell(v)) /\ t.of[v] = d
             /\ \A u \in Shell(v) : Fits(enabled, columns, t, u)
             /\ v # Grid \/ ~automatic \/ ~enabled[d] => t.cols = s.cols
             /\ v = Grid /\ automatic /\ enabled[d] => t.cols = columns[d]
<1> DEFINE s1 == AttachedAlone(s, v, d)
           s2 == GridColumnsAttached(s1, s1.cols, d)
           V == ColumnsNamed(s.cols)
           t == Attached(s, v, d)
<1>0. /\ d = IF v = ListPart THEN Listed ELSE Main
      /\ d # NoSource /\ Grid \in Visibles /\ Grid \notin GridColumns /\ Grid # ListPart
      /\ GridColumns \in SUBSET DataVisibles /\ GridColumns \in SUBSET Visibles
      /\ ListPart \notin GridColumns /\ Grid \notin DataVisibles
  BY Kinds
<1>1. Changed(s, s1, {v}) /\ Arrived(enabled, columns, s1, {v}, d) /\ s1.cols = s.cols
  BY AttachedAloneIs
<1>2. t = IF v # Grid THEN s1 ELSE IF enabled[d] THEN ColsCreated(s2) ELSE s2
  BY DEF Attached
<1> HIDE DEF s1
<1>3. Placed(s1)
  <2>1. \A u \in Visibles : u # v => s1.of[u] = s.of[u]
    BY <1>1 DEF Changed, Same
  <2>2. s1.of[v] = d
    BY <1>1 DEF Arrived
  <2>3. \A u \in Visibles : s1.of[u] \in {NoSource, IF u = ListPart THEN Listed ELSE Main}
    BY <1>0, <2>1, <2>2 DEF Placed
  <2>4. \A name \in Names : GridColumn(name) \in Visibles /\ GridColumn(name) # v
    BY <1>0, GridColumnKinds
  <2>5. \A name \in Names : s1.of[GridColumn(name)] # NoSource => name \in s1.cols
    BY <1>1, <2>1, <2>4 DEF Placed
  <2> QED
    BY <2>3, <2>5 DEF Placed
<1>4. Moved(columns, s, s1, {v})
  BY <1>1, <1>3, ChangedIs DEF Arrived
<1>5. CASE v # Grid
  <2>1. t = s1 /\ Shell(v) = {v}
    BY <1>2, <1>5 DEF Shell
  <2>2. s1.of[v] = d /\ Fits(enabled, columns, s1, v)
    BY <1>1 DEF Arrived, Fits
  <2> HIDE DEF t
  <2> QED
    BY <1>1, <1>4, <1>5, <2>1, <2>2 DEF t
<1>6. CASE v = Grid
  <2>0. Shell(v) = {Grid} \cup GridColumns
    BY <1>6 DEF Shell
  <2>1. s1 \in Vis /\ Linked(s1) /\ s1.of[Grid] = d
    BY <1>1, <1>6 DEF Changed, Arrived
  <2>2. s.cols \in SUBSET Names /\ s1.cols \in SUBSET Names
    BY <1>1, VisIs
  <2>3. /\ Changed(s1, s2, V) /\ Arrived(enabled, columns, s2, V, d) /\ s2.cols = s.cols
    BY <1>1, <2>1, <2>2, GridColumnsAttachedIs
  <2>4. /\ V \in SUBSET GridColumns
        /\ \A name \in Names : GridColumn(name) \in V <=> name \in s.cols
    BY <2>2, ColumnsNamedIs
  <2> HIDE DEF s2, V
  <2>5. /\ \A u \in Visibles \ V : s2.of[u] = s1.of[u]
        /\ \A u \in V : s2.of[u] = d
    BY <2>3 DEF Changed, Same, Arrived
  <2>6. Placed(s2)
    <3>1. \A u \in Visibles : s2.of[u] \in {NoSource, IF u = ListPart THEN Listed ELSE Main}
      BY <1>0, <1>3, <1>6, <2>4, <2>5 DEF Placed
    <3>2. \A name \in Names : GridColumn(name) \in Visibles
      BY <1>0, GridColumnKinds
    <3>3. \A name \in Names : s2.of[GridColumn(name)] # NoSource => name \in s2.cols
      BY <1>1, <1>3, <2>3, <2>4, <2>5, <3>2 DEF Placed
    <3> QED
      BY <3>1, <3>3 DEF Placed
  <2>7. Moved(columns, s, s2, Shell(v))
    <3>1. Moved(columns, s1, s2, V)
      BY <2>3, <2>6, ChangedIs DEF Arrived
    <3>2. Moved(columns, s1, s2, Shell(v))
      BY <2>0, <2>4, <3>1, SameMore DEF Moved
    <3>3. Moved(columns, s, s1, Shell(v))
      BY <1>4, <1>6, <2>0, SameMore DEF Moved
    <3> QED
      BY <3>2, <3>3, MovedTwice
  <2>8. \A u \in Shell(v) : Fits(enabled, columns, s2, u)
    <3>1. \A u \in V : Fits(enabled, columns, s2, u)
      BY <2>3 DEF Arrived, Fits
    <3>2. Fits(enabled, columns, s2, Grid)
      BY <1>0 DEF Fits
    <3>3. \A u \in GridColumns \ V : s2.of[u] = NoSource
      <4> SUFFICES ASSUME NEW name \in Names, GridColumn(name) \notin V
                   PROVE  s2.of[GridColumn(name)] = NoSource
        BY GridColumnKinds
      <4>1. name \notin s.cols
        BY <2>4
      <4> QED
        BY <2>3, <2>6, <4>1 DEF Placed
    <3>4. \A u \in GridColumns \ V : Fits(enabled, columns, s2, u)
      BY <3>3 DEF Fits
    <3> QED
      BY <2>0, <3>1, <3>2, <3>4
  <2>9. s2.of[Grid] = d
    BY <1>0, <2>1, <2>4, <2>5
  <2>10. CASE ~enabled[d]
    <3>1. t = s2
      BY <1>2, <1>6, <2>10
    <3> HIDE DEF t
    <3> QED
      BY <1>6, <2>3, <2>7, <2>8, <2>9, <2>10, <3>1 DEF t
  <2>11. CASE enabled[d]
    <3>1. t = ColsCreated(s2)
      BY <1>2, <1>6, <2>11
    <3>2. s2 \in Vis /\ Linked(s2)
      BY <2>3 DEF Changed
    <3> HIDE DEF t
    <3>3. /\ Moved(columns, s2, t, GridColumns)
          /\ ~automatic => t = s2
          /\ automatic => /\ t.cols = columns[d]
                          /\ \A u \in GridColumns : Fits(enabled, columns, t, u)
      BY <1>0, <2>6, <2>9, <3>1, <3>2, ColsCreatedIs
    <3>4. Moved(columns, s, t, Shell(v))
      <4>1. Moved(columns, s2, t, Shell(v))
        BY <2>0, <3>3, SameMore DEF Moved
      <4> QED
        BY <2>7, <4>1, MovedTwice
    <3>5. Fits(enabled, columns, t, Grid) /\ t.of[Grid] = d
      BY <1>0, <2>9, <3>3 DEF Fits, Moved, Same
    <3>6. \A u \in Shell(v) : Fits(enabled, columns, t, u)
      BY <2>0, <2>8, <3>3, <3>5
    <3> QED
      BY <1>6, <2>3, <2>11, <3>3, <3>4, <3>5, <3>6 DEF t
  <2> QED
    BY <2>10, <2>11
<1> QED
  BY <1>5, <1>6

\* Nobody gets a datasource.
Fewer(s, t, V) == \A u \in V : t.of[u] \in {s.of[u], NoSource}

\* A visible gives up a pointer.
LEMMA RepointedMoved ==
  ASSUME NEW c, NEW s \in Vis, Linked(s), Placed(s), NEW v \in Visibles, NEW t, Repointed(s, t, v),
         v \in DataVisibles => Alive(c, t, v)
  PROVE  Moved(c, s, t, {v}) /\ Fewer(s, t, {v}) /\ t.cols = s.cols
<1>1. Same(s, t, {v}) /\ Linked(t) /\ Placed(t)
  BY RepointedIs
<1>2. AllAlive(c, s) => AllAlive(c, t)
  BY <1>1, SameIs DEF AllAlive
<1> QED
  BY <1>1, <1>2 DEF Moved, Repointed, Fewer

\* set_datasource(NULL)
LEMMA ReleasedIs ==
  ASSUME NEW c, NEW s \in Vis, Linked(s), Placed(s), NEW v \in Visibles
  PROVE  LET t == Released(s, v)
         IN  /\ Moved(c, s, t, Shell(v)) /\ Fewer(s, t, Shell(v)) /\ t.cols = s.cols
             /\ \A u \in Shell(v) : Blank(t, u)
<1> DEFINE own == v \in Fields \cup {Grid, Combo} /\ inForm
           s1 == IF ~own THEN Detached(s, {v})
                 ELSE IF v = Grid THEN s ELSE Pointed(s, v, Null)
           s2 == GridColumnsDetached(s1, s1.cols)
           V == ColumnsNamed(s.cols)
           t == Released(s, v)
<1>0. /\ Grid \in Visibles /\ Grid \notin GridColumns /\ Grid \notin DataVisibles
      /\ GridColumns \in SUBSET Visibles /\ Null \in Pointers
      /\ ListPart \notin Fields \cup {Grid, Combo} /\ NoSource \notin Datasources
      /\ v # Grid => v \in DataVisibles
  BY Kinds
<1>1. t = IF v = Grid THEN s2 ELSE s1
  BY DEF Released, Pointed
<1>2. /\ Moved(c, s, s1, {v}) /\ Fewer(s, s1, {v}) /\ s1.cols = s.cols /\ Blank(s1, v)
  <2>1. CASE ~own
    <3>1. s1 = Detached(s, {v}) /\ {v} \in SUBSET Visibles
      BY <2>1
    <3> HIDE DEF s1, own
    <3>2. Changed(s, s1, {v}) /\ Gone(s1, {v}) /\ s1.cols = s.cols
      BY <3>1, DetachedIs DEF Changed, Gone
    <3>3. Placed(s1)
      BY <3>2, GonePlaced DEF Changed
    <3>4. Moved(c, s, s1, {v})
      BY <3>1, <3>2, <3>3, GoneIs, ChangedIs
    <3> QED
      BY <3>2, <3>4 DEF Gone, Fewer, Blank
  <2>2. CASE own /\ v = Grid
    <3>1. s1 = s
      BY <2>2
    <3> HIDE DEF s1, own
    <3> QED
      BY <1>0, <2>2, <3>1 DEF Moved, Same, Fewer, Blank
  <2>3. CASE own /\ v # Grid
    <3>1. s1 = Pointed(s, v, Null) /\ v \in DataVisibles /\ v # ListPart
      BY <1>0, <2>3
    <3> HIDE DEF s1, own
    <3>2. Repointed(s, s1, v) /\ s1.column[v] = Null
      BY <1>0, <3>1, PointedIs
    <3>3. Alive(c, s1, v)
      BY <3>1, <3>2 DEF Alive, Pointing
    <3> QED
      BY <3>2, <3>3, RepointedMoved DEF Blank
  <2> QED
    BY <2>1, <2>2, <2>3
<1> HIDE DEF own, s1
<1>3. CASE v # Grid
  <2>1. t = s1 /\ Shell(v) = {v}
    BY <1>1, <1>3 DEF Shell
  <2> HIDE DEF t
  <2> QED
    BY <1>2, <2>1 DEF t
<1>4. CASE v = Grid
  <2>0. t = s2 /\ Shell(v) = {Grid} \cup GridColumns
    BY <1>1, <1>4 DEF Shell
  <2>1. s1 \in Vis /\ Linked(s1) /\ Placed(s1) /\ s1.cols \in SUBSET Names
    BY <1>2, VisIs DEF Moved
  <2>2. Changed(s1, s2, V) /\ Gone(s2, V) /\ s2.cols = s.cols
    BY <1>2, <2>1, GridColumnsDetachedIs
  <2>3. /\ V \in SUBSET GridColumns /\ V \in SUBSET Visibles
        /\ \A name \in Names : GridColumn(name) \in V <=> name \in s.cols
    BY <1>2, <2>1, ColumnsNamedIs
  <2> HIDE DEF s2, V, t
  <2>4. Placed(s2)
    BY <1>2, <2>1, <2>2, GonePlaced DEF Changed
  <2>5. Moved(c, s1, s2, V)
    BY <2>2, <2>3, <2>4, GoneIs, ChangedIs
  <2>6. Moved(c, s, s2, Shell(v))
    <3>1. Moved(c, s1, s2, Shell(v))
      BY <2>0, <2>3, <2>5, SameMore DEF Moved
    <3>2. Moved(c, s, s1, Shell(v))
      BY <1>2, <1>4, <2>0, SameMore DEF Moved
    <3> QED
      BY <3>1, <3>2, MovedTwice
  <2>7. \A u \in GridColumns : s2.of[u] = NoSource
    <3> SUFFICES ASSUME NEW name \in Names PROVE s2.of[GridColumn(name)] = NoSource
      BY GridColumnKinds
    <3>1. CASE name \in s.cols
      BY <2>2, <2>3, <3>1 DEF Gone
    <3>2. CASE name \notin s.cols
      BY <2>2, <2>4, <3>2 DEF Placed
    <3> QED
      BY <3>1, <3>2
  <2>8. s2.of[Grid] = s1.of[Grid]
    BY <1>0, <2>2, <2>3 DEF Changed, Same
  <2>9. Fewer(s, s2, Shell(v))
    BY <1>2, <1>4, <2>0, <2>7, <2>8 DEF Fewer
  <2>10. \A u \in Shell(v) : Blank(s2, u)
    BY <1>0, <2>0, <2>7 DEF Blank
  <2> QED
    BY <2>0, <2>2, <2>6, <2>9, <2>10 DEF t
<1> QED
  BY <1>3, <1>4

LEMMA DisabledIs ==
  ASSUME NEW c, NEW s \in Vis, Linked(s), Placed(s), NEW v \in Visibles
  PROVE  LET t == Disabled(s, v)
         IN  /\ Moved(c, s, t, Shell(v)) /\ Fewer(s, t, Shell(v))
             /\ v # Grid => Blank(t, v)
             /\ v # Grid \/ ~automatic => Repointed(s, t, v)
             /\ v = Grid /\ automatic => t.cols = {} /\ \A u \in GridColumns : Blank(t, u)
<1> DEFINE t == Disabled(s, v)
<1>0. /\ Grid \in Visibles /\ Grid \notin GridColumns /\ Grid \notin DataVisibles
      /\ GridColumns \in SUBSET Visibles /\ Null \in Pointers /\ ListPart \in DataVisibles
      /\ Grid # ListPart
      /\ v # Grid => v \in DataVisibles
  BY Kinds
<1>1. CASE v = Grid /\ automatic
  <2>0. t = ColsCleared(s) /\ Shell(v) = {Grid} \cup GridColumns
    BY <1>0, <1>1 DEF Disabled, Shell
  <2> HIDE DEF t
  <2>1. Moved(c, s, t, GridColumns) /\ t.cols = {} /\ \A u \in GridColumns : t.of[u] = NoSource
    BY <2>0, ColsClearedIs
  <2>2. Moved(c, s, t, Shell(v))
    BY <2>0, <2>1, SameMore DEF Moved
  <2>3. t.of[Grid] = s.of[Grid]
    BY <1>0, <2>1 DEF Moved, Same
  <2>4. Fewer(s, t, Shell(v)) /\ \A u \in GridColumns : Blank(t, u)
    BY <2>0, <2>1, <2>3 DEF Fewer, Blank
  <2> QED
    BY <1>1, <2>1, <2>2, <2>4 DEF t
<1>2. CASE v = Grid /\ ~automatic
  <2>0. t = s
    BY <1>0, <1>2 DEF Disabled
  <2> HIDE DEF t
  <2> QED
    BY <1>2, <2>0 DEF Moved, Same, Fewer, Repointed, t
<1>3. CASE v # Grid
  <2>0. Shell(v) = {v}
    BY <1>3 DEF Shell
  <2>1. Repointed(s, t, v) /\ t.column[v] = Null /\ (v = ListPart => t.view = Null)
    <3>1. CASE v = ListPart
      <4>1. t = PointedTwice(s, v, Null, Null)
        BY <1>3, <3>1 DEF Disabled, PointedTwice
      <4> HIDE DEF t
      <4> QED
        BY <1>0, <1>3, <3>1, <4>1, PointedTwiceIs
    <3>2. CASE v # ListPart
      <4>1. t = Pointed(s, v, Null)
        BY <1>3, <3>2 DEF Disabled, Pointed
      <4> HIDE DEF t
      <4> QED
        BY <1>0, <1>3, <3>2, <4>1, PointedIs
    <3> QED
      BY <3>1, <3>2
  <2> HIDE DEF t
  <2>2. Alive(c, t, v)
    BY <2>1 DEF Alive, Pointing
  <2> QED
    BY <1>3, <2>0, <2>1, <2>2, RepointedMoved DEF Blank, t
<1> QED
  BY <1>1, <1>2, <1>3

\* datasource_delete
LEMMA DeletedIs ==
  ASSUME NEW c, NEW s \in Vis, Linked(s), Placed(s), NEW v \in Visibles
  PROVE  LET t == Deleted(s, v)
         IN  /\ Moved(c, s, t, {v}) /\ Fewer(s, t, {v}) /\ t.cols = s.cols
             /\ t.of[v] = NoSource
<1> DEFINE s1 == Detached(s, {v})
           t == Deleted(s, v)
<1>0. {v} \in SUBSET Visibles
  OBVIOUS
<1>1. t = [s1 EXCEPT !.view = s.view]
  BY DEF Deleted
<1>2. Changed(s, s1, {v}) /\ Gone(s1, {v}) /\ s1.cols = s.cols
  <2> HIDE DEF s1
  <2> QED
    BY <1>0, DetachedIs DEF Changed, Gone, s1
<1> HIDE DEF s1, t
<1>3. /\ t.list = s1.list /\ t.of = s1.of /\ t.cols = s1.cols /\ t.handled = s1.handled
      /\ t.column = s1.column /\ t.view = s.view /\ t \in Vis
  <2>1. s1 = [list |-> s1.list, of |-> s1.of, column |-> s1.column, view |-> s1.view,
              cols |-> s1.cols, handled |-> s1.handled] /\ s1 \in Vis
    BY <1>2 DEF Vis, Changed
  <2>2. t = [list |-> s1.list, of |-> s1.of, column |-> s1.column, view |-> s.view,
             cols |-> s1.cols, handled |-> s1.handled]
    BY <1>1, <2>1
  <2> QED
    BY <2>1, <2>2, VisIs DEF Vis
<1>4. Linked(t)
  BY <1>2, <1>3 DEF Changed, Linked
<1>5. Same(s, t, {v})
  BY <1>2, <1>3 DEF Changed, Same
<1>6. Gone(t, {v}) /\ t.of[v] = NoSource
  BY <1>2, <1>3 DEF Gone
<1>7. Placed(t)
  BY <1>2, <1>3, <1>5, <1>6, GonePlaced
<1>8. Changed(s, t, {v})
  BY <1>2, <1>3, <1>4, <1>5 DEF Changed
<1>9. Moved(c, s, t, {v})
  BY <1>0, <1>6, <1>7, <1>8, GoneIs, ChangedIs
<1> QED
  BY <1>2, <1>3, <1>6, <1>9 DEF Fewer, t

\* before_columns_deleted
LEMMA ColumnsGoneIs ==
  ASSUME NEW c, NEW s \in Vis, Linked(s), Placed(s), NEW v \in Visibles
  PROVE  LET t == ColumnsGone(s, v)
         IN  /\ Repointed(s, t, v) /\ Moved(c, s, t, {v}) /\ Fewer(s, t, {v})
             /\ Cleared(t, v) /\ Blank(t, v)
<1> DEFINE t == ColumnsGone(s, v)
<1>0. /\ Grid \notin DataVisibles /\ Null \in Pointers /\ ListPart # Grid
      /\ v # Grid => v \in DataVisibles
  BY Kinds
<1>1. CASE v = Grid
  <2>1. t = s
    BY <1>1 DEF ColumnsGone
  <2> HIDE DEF t
  <2> QED
    BY <1>0, <1>1, <2>1 DEF Repointed, Moved, Same, Fewer, Cleared, Blank, t
<1>2. CASE v # Grid
  <2> DEFINE w == IF v = ListPart THEN Null ELSE s.view
  <2>1. t = PointedTwice(s, v, Null, w)
    BY <1>2 DEF ColumnsGone, PointedTwice
  <2>2. w \in Pointers /\ (v = ListPart \/ w = s.view)
    BY <1>0, VisIs
  <2> HIDE DEF t
  <2>3. Repointed(s, t, v) /\ t.column[v] = Null /\ t.view = w
    BY <1>0, <1>2, <2>1, <2>2, PointedTwiceIs
  <2>4. Alive(c, t, v) /\ Cleared(t, v)
    BY <2>3 DEF Alive, Pointing, Cleared
  <2> QED
    BY <2>3, <2>4, RepointedMoved DEF Blank, t
<1> QED
  BY <1>1, <1>2

-----------------------------------------------------------------------------
(* What is still to do.                                                    *)

LEMMA ItemIs ==
  ASSUME NEW what \in Dos, NEW d \in Datasources
  PROVE  /\ Item(what, d) \in Items
         /\ Item(what, d).do = what /\ Item(what, d).d = d /\ Item(what, d).it = Start
BY DEF Item, Items, Iterators

LEMMA ItemsAre ==
  ASSUME NEW q \in Seq(Items)
  PROVE  /\ Len(q) \in Nat /\ DOMAIN q = 1..Len(q)
         /\ \A i \in 1..Len(q) : /\ q[i] \in Items /\ q[i].do \in Dos
                                 /\ q[i].d \in Datasources /\ q[i].it \in Iterators
         /\ q # <<>> => Len(q) > 0 /\ 1 \in DOMAIN q
<1>1. Len(q) \in Nat /\ DOMAIN q = 1..Len(q) /\ \A i \in 1..Len(q) : q[i] \in Items
  OBVIOUS
<1>2. q # <<>> => Len(q) > 0 /\ 1 \in DOMAIN q
  BY <1>1
<1> QED
  BY <1>1, <1>2 DEF Items

\* When a call returns, those below are in place.
LEMMA TailStacked ==
  ASSUME NEW q \in Seq(Items), q # <<>>, Stacked(q)
  PROVE  Stacked(Tail(q))
<1> DEFINE p == Tail(q)
<1>1. /\ Len(q) \in Nat /\ Len(q) > 0 /\ DOMAIN q = 1..Len(q)
      /\ p \in Seq(Items) /\ Len(p) = Len(q) - 1 /\ DOMAIN p = 1..(Len(q) - 1)
      /\ \A i \in 1..(Len(q) - 1) : p[i] = q[i + 1]
  BY ItemsAre
<1> HIDE DEF p
<1> SUFFICES ASSUME NEW i \in 1..(Len(q) - 1) PROVE Chained(p, i)
  BY <1>1 DEF Stacked, p
<1>2. /\ i \in Nat /\ i > 0 /\ i + 1 \in DOMAIN q /\ p[i] = q[i + 1] /\ Chained(q, i + 1)
      /\ i + 1 > 1 /\ (i + 1) - 1 = i
  BY <1>1 DEF Stacked
<1>3. \A what : Then(q, i + 1, what) => Then(p, i, what)
  <2> SUFFICES ASSUME NEW what, Then(q, i + 1, what) PROVE Then(p, i, what)
    OBVIOUS
  <2>1. (i + 1) + 1 \in DOMAIN q /\ q[(i + 1) + 1] = Item(what, q[i + 1].d)
    BY DEF Then
  <2>2. i + 1 \in 1..(Len(q) - 1) /\ p[i + 1] = q[(i + 1) + 1]
    BY <1>1, <1>2, <2>1
  <2> QED
    BY <1>1, <1>2, <2>1, <2>2 DEF Then
<1>4. \A what : Behind(q, i + 1, what) => i = 1 \/ Behind(p, i, what)
  <2> SUFFICES ASSUME NEW what, Behind(q, i + 1, what), i # 1 PROVE Behind(p, i, what)
    OBVIOUS
  <2>1. i - 1 \in 1..(Len(q) - 1) /\ p[i - 1] = q[(i - 1) + 1] /\ (i - 1) + 1 = i
    BY <1>1, <1>2
  <2> QED
    BY <1>2, <2>1 DEF Behind
<1>5. i = Len(q) - 1 <=> i + 1 = Len(q)
  BY <1>1, <1>2
<1>6. i > 1 /\ p[i].do \in {"enabled", "disabled", "vanishes"} =>
        p[i].d = Main /\ \A j \in 1..(i - 1) : p[j].d = Listed
  <2> SUFFICES ASSUME i > 1, p[i].do \in {"enabled", "disabled", "vanishes"}
               PROVE  p[i].d = Main /\ \A j \in 1..(i - 1) : p[j].d = Listed
    OBVIOUS
  <2>0. i + 1 # 2 /\ q[i + 1].do = p[i].do /\ Walked(q, i + 1)
    BY <1>2 DEF Chained
  <2>1. q[i + 1].d = Main /\ \A j \in 1..i : q[j].d = Listed
    BY <1>2, <2>0 DEF Walked
  <2>2. \A j \in 1..(i - 1) : j + 1 \in 1..i /\ p[j] = q[j + 1]
    BY <1>1, <1>2
  <2> QED
    BY <1>2, <2>1, <2>2
<1>7. i = Len(q) - 2 => i = Len(p) - 1
  BY <1>1, <1>2
<1>8. i + 1 = Len(q) - 1 => i = Len(p) - 1
  BY <1>1, <1>2, Zenon
<1>9. Resting(q, i + 1) /\ Enabling(q, i + 1) /\ Walked(q, i + 1)
  BY <1>2 DEF Chained
<1>10. Resting(p, i)
  BY <1>2, <1>9 DEF Resting
<1>11. Enabling(p, i)
  <2>1. /\ p[i].do # "columns_gone" /\ p[i].do # "columns_created" /\ p[i].do # "deleted"
        /\ p[i].do = "delete_columns" => i = 1
    BY <1>2, <1>9 DEF Enabling
  <2>2. /\ p[i].do = "delete_columns" => Then(p, i, "query") \/ Then(p, i, "destroy")
        /\ p[i].do = "query" => i = 1 \/ Behind(p, i, "delete_columns")
        /\ p[i].do = "destroy" => i = 1 \/ Behind(p, i, "delete_columns")
    BY <1>2, <1>3, <1>4, <1>9 DEF Enabling
  <2>3. p[i].do = "destroy" => i = Len(p)
    BY <1>1, <1>2, <1>5, <1>9 DEF Enabling
  <2> QED
    BY <2>1, <2>2, <2>3 DEF Enabling
<1>12. Walked(p, i)
  <2>1. /\ p[i].do = "vanishes" => i = Len(p) - 1 /\ Then(p, i, "disable")
        /\ p[i].do = "row_changed" => i = Len(p) /\ p[i].d = Main
    BY <1>1, <1>2, <1>3, <1>8, <1>9, Zenon DEF Walked
  <2> QED
    BY <1>6, <2>1 DEF Walked
<1> QED
  BY <1>10, <1>11, <1>12 DEF Chained

\* The iterator of the topmost walk moves.
Iterated(q, it) == [q EXCEPT ![1].it = it]

LEMMA IteratedIs ==
  ASSUME NEW q \in Seq(Items), q # <<>>, NEW it \in Iterators
  PROVE  LET p == Iterated(q, it)
         IN  /\ p \in Seq(Items) /\ Len(p) = Len(q) /\ DOMAIN p = DOMAIN q /\ p # <<>>
             /\ p[1].do = q[1].do /\ p[1].d = q[1].d /\ p[1].it = it
             /\ \A i \in 2..Len(q) : p[i] = q[i]
             /\ \A i \in 1..Len(q) : p[i].do = q[i].do /\ p[i].d = q[i].d
<1> DEFINE p == Iterated(q, it)
           first == [q[1] EXCEPT !.it = it]
<1>1. /\ Len(q) \in Nat /\ Len(q) > 0 /\ 1 \in DOMAIN q /\ DOMAIN q = 1..Len(q) /\ q[1] \in Items
  BY ItemsAre
<1>2. first \in Items /\ first.do = q[1].do /\ first.d = q[1].d /\ first.it = it
  BY <1>1 DEF Items
<1>3. p = [q EXCEPT ![1] = first]
  BY DEF Iterated
<1> HIDE DEF p, first
<1>4. /\ p \in Seq(Items) /\ Len(p) = Len(q) /\ DOMAIN p = DOMAIN q
      /\ p[1] = first /\ \A i \in DOMAIN q : i # 1 => p[i] = q[i]
  BY <1>1, <1>2, <1>3
<1>5. \A i \in 2..Len(q) : p[i] = q[i]
  BY <1>1, <1>4
<1>6. p # <<>>
  BY <1>1, <1>4
<1>7. \A i \in 1..Len(q) : p[i].do = q[i].do /\ p[i].d = q[i].d
  BY <1>1, <1>2, <1>4
<1> QED
  BY <1>2, <1>4, <1>5, <1>6, <1>7 DEF p

LEMMA IteratedStacked ==
  ASSUME NEW q \in Seq(Items), q # <<>>, Stacked(q), NEW it \in Iterators,
         q[1].do \in Walks, q[1].do \in Restarting => it \in {Start, Begin}
  PROVE  Stacked(Iterated(q, it))
<1> DEFINE p == Iterated(q, it)
<1>1. /\ p \in Seq(Items) /\ Len(p) = Len(q) /\ DOMAIN p = DOMAIN q
      /\ p[1].do = q[1].do /\ p[1].d = q[1].d /\ p[1].it = it
      /\ \A i \in 2..Len(q) : p[i] = q[i]
      /\ \A i \in 1..Len(q) : p[i].do = q[i].do /\ p[i].d = q[i].d
  BY IteratedIs
<1>2. Len(q) \in Nat /\ DOMAIN q = 1..Len(q)
  BY ItemsAre
<1> HIDE DEF p
<1> SUFFICES ASSUME NEW i \in 1..Len(q) PROVE Chained(p, i)
  BY <1>1, <1>2 DEF Stacked, p
<1>3. /\ p[i].do = q[i].do /\ p[i].d = q[i].d /\ i \in Nat /\ i > 0
      /\ Resting(q, i) /\ Enabling(q, i) /\ Walked(q, i)
  BY <1>1, <1>2 DEF Stacked, Chained
<1>4. Resting(p, i)
  <2>1. CASE i = 1
    BY <1>1, <2>1 DEF Resting
  <2>2. CASE i # 1
    <3>1. p[i] = q[i]
      BY <1>1, <1>2, <1>3, <2>2
    <3> QED
      BY <1>3, <3>1 DEF Resting
  <2> QED
    BY <2>1, <2>2
<1>5. \A what : \A j \in 1..Len(q) : Then(q, j, what) => Then(p, j, what)
  <2> SUFFICES ASSUME NEW what, NEW j \in 1..Len(q), Then(q, j, what) PROVE Then(p, j, what)
    OBVIOUS
  <2>1. j + 1 \in 2..Len(q)
    BY <1>2 DEF Then
  <2> QED
    BY <1>1, <2>1 DEF Then
<1>6. \A what : Behind(q, i, what) => Behind(p, i, what)
  <2> SUFFICES ASSUME NEW what, Behind(q, i, what) PROVE Behind(p, i, what)
    OBVIOUS
  <2>1. i - 1 \in 1..Len(q)
    BY <1>2, <1>3 DEF Behind
  <2> QED
    BY <1>1, <1>3, <2>1 DEF Behind
<1>7. \A j \in 1..(i - 1) : p[j].d = q[j].d
  BY <1>1, <1>2
<1>8. \A what : Then(q, 1, what) => 1 \in 1..Len(q) /\ 2 \in 1..Len(q) /\ 2 \in 2..Len(q)
  BY <1>2 DEF Then
<1>9. Enabling(p, i)
  <2>1. p[i].do = "columns_gone" => i = 1 /\ Then(p, 1, "delete_columns") /\ Then(p, 2, "query")
    BY <1>3, <1>5, <1>8 DEF Enabling
  <2>2. p[i].do = "deleted" => i = 1 /\ Then(p, 1, "delete_columns") /\ Then(p, 2, "destroy")
    BY <1>3, <1>5, <1>8 DEF Enabling
  <2>3. p[i].do = "columns_created" => i = 1 /\ Then(p, 1, "enabled")
    BY <1>3, <1>5, <1>8 DEF Enabling
  <2>4. p[i].do = "delete_columns" =>
            /\ Then(p, i, "query") \/ Then(p, i, "destroy")
            /\ i = 1 \/ (i = 2 /\ (Behind(p, i, "columns_gone") \/ Behind(p, i, "deleted")))
    BY <1>3, <1>5, <1>6 DEF Enabling
  <2>5. /\ p[i].do = "query" => i = 1 \/ Behind(p, i, "delete_columns")
        /\ p[i].do = "destroy" => i = Len(p) /\ (i = 1 \/ Behind(p, i, "delete_columns"))
    BY <1>1, <1>3, <1>6, Zenon DEF Enabling
  <2> QED
    BY <2>1, <2>2, <2>3, <2>4, <2>5 DEF Enabling
<1>10. Walked(p, i)
  <2>1. /\ p[i].do = "vanishes" => i = Len(p) - 1 /\ Then(p, i, "disable")
        /\ p[i].do = "row_changed" => i = Len(p) /\ p[i].d = Main
    BY <1>1, <1>3, <1>5, Zenon DEF Walked
  <2>2. i > 1 => p[2] = q[2] /\ p[1].do = q[1].do /\ p[1].d = q[1].d
    BY <1>1, <1>2, <1>3
  <2>3. i > 1 /\ p[i].do \in {"enabled", "disabled", "vanishes"} =>
         \/ i = 2 /\ p[2] = Item("enabled", p[1].d) /\ p[1].do = "columns_created"
         \/ p[i].d = Main /\ \A j \in 1..(i - 1) : p[j].d = Listed
    BY <1>3, <1>7, <2>2 DEF Walked
  <2> QED
    BY <2>1, <2>3 DEF Walked
<1> QED
  BY <1>4, <1>9, <1>10 DEF Chained

\* Nobody below the top is enabled or deleted.
Calm(q) ==
  \A i \in 2..Len(q) :
    /\ q[i].do \in {"enable", "disable", "enabled", "disabled", "vanishes", "row_changed"}
    /\ q[i].do \in {"enabled", "disabled", "vanishes"} =>
         q[i].d = Main /\ \A j \in 1..(i - 1) : q[j].d = Listed

LEMMA CalmIs ==
  ASSUME NEW q \in Seq(Items), q # <<>>, Stacked(q),
         q[1].do \notin {"columns_gone", "delete_columns", "deleted", "columns_created"}
  PROVE  Calm(q)
<1>1. Len(q) \in Nat /\ DOMAIN q = 1..Len(q) /\ \A i \in 1..Len(q) : q[i].do \in Dos
  BY ItemsAre
<1>2. \A i \in 1..Len(q) : Chained(q, i)
  BY <1>1 DEF Stacked
<1>3. ASSUME NEW i \in 1..Len(q) PROVE q[i].do # "delete_columns"
  <2>1. Enabling(q, i) /\ 1 \in 1..Len(q)
    BY <1>1, <1>2 DEF Chained
  <2>2. i = 2 => i - 1 = 1
    OBVIOUS
  <2> QED
    BY <2>1, <2>2 DEF Enabling, Behind
<1> SUFFICES ASSUME NEW i \in 2..Len(q)
             PROVE  /\ q[i].do \in {"enable", "disable", "enabled", "disabled", "vanishes", "row_changed"}
                    /\ q[i].do \in {"enabled", "disabled", "vanishes"} =>
                         q[i].d = Main /\ \A j \in 1..(i - 1) : q[j].d = Listed
  BY DEF Calm
<1>4. /\ i \in Nat /\ i > 1 /\ i # 1 /\ i \in 1..Len(q) /\ i - 1 \in 1..Len(q)
      /\ q[i].do \in Dos /\ Enabling(q, i) /\ Walked(q, i)
  <2>1. i \in Nat /\ i > 1 /\ i # 1 /\ i \in 1..Len(q) /\ i - 1 \in 1..Len(q)
    BY <1>1
  <2> QED
    BY <1>1, <1>2, <2>1 DEF Chained
<1>5. ~Behind(q, i, "delete_columns")
  BY <1>3, <1>4 DEF Behind
<1>6. q[i].do \notin {"columns_gone", "delete_columns", "query", "destroy", "columns_created", "deleted"}
  BY <1>3, <1>4, <1>5 DEF Enabling
<1>7. q[i].do \in {"enable", "disable", "enabled", "disabled", "vanishes", "row_changed"}
  BY <1>4, <1>6 DEF Dos, Walks, Restarting
<1>8. q[i].do \in {"enabled", "disabled", "vanishes"} =>
        q[i].d = Main /\ \A j \in 1..(i - 1) : q[j].d = Listed
  BY <1>4 DEF Walked
<1> QED
  BY <1>7, <1>8

\* p has n items in the place of the top of q.
Over(q, p, n) ==
  /\ p \in Seq(Items) /\ n \in Nat /\ Len(p) = (Len(q) - 1) + n
  /\ \A i \in 2..Len(q) : p[(i - 1) + n] = q[i]
  /\ \A j \in 1..n : q[1].d = Listed => p[j].d = Listed

LEMMA OverStacked ==
  ASSUME NEW q \in Seq(Items), q # <<>>, Stacked(q), Calm(q), NEW p, NEW n, Over(q, p, n),
         \A i \in 1..n : Chained(p, i)
  PROVE  Stacked(p)
<1>1. /\ Len(q) \in Nat /\ DOMAIN q = 1..Len(q) /\ Len(q) > 0
      /\ n \in Nat /\ Len(p) = (Len(q) - 1) + n /\ DOMAIN p = 1..Len(p)
  BY ItemsAre DEF Over
<1>2. ASSUME NEW i \in 2..Len(q) PROVE Chained(p, (i - 1) + n)
  <2> DEFINE m == (i - 1) + n
  <2>1. /\ i \in Nat /\ i > 1 /\ m \in Nat /\ m \in 1..Len(p) /\ p[m] = q[i] /\ Chained(q, i)
    BY <1>1 DEF Over, Stacked
  <2>2. p[m].do \in {"enable", "disable", "enabled", "disabled", "vanishes", "row_changed"}
    BY <2>1 DEF Calm
  <2>3. p[m].do \in {"enabled", "disabled", "vanishes"} =>
          p[m].d = Main /\ \A j \in 1..(m - 1) : p[j].d = Listed
    <3> SUFFICES ASSUME p[m].do \in {"enabled", "disabled", "vanishes"}, NEW j \in 1..(m - 1)
                 PROVE  p[m].d = Main /\ p[j].d = Listed
      BY <2>1 DEF Calm
    <3>1. q[i].d = Main /\ \A k \in 1..(i - 1) : q[k].d = Listed
      BY <2>1 DEF Calm
    <3>2. q[1].d = Listed
      BY <2>1, <3>1
    <3>3. CASE j \in 1..n
      BY <2>1, <3>1, <3>2, <3>3 DEF Over
    <3>4. CASE j \notin 1..n
      <4>1. (j - n) + 1 \in 2..Len(q) /\ (j - n) + 1 \in 1..(i - 1) /\ (((j - n) + 1) - 1) + n = j
        BY <1>1, <2>1, <3>4
      <4>2. p[j] = q[(j - n) + 1]
        BY <4>1 DEF Over
      <4> QED
        BY <2>1, <3>1, <4>1, <4>2
    <3> QED
      BY <3>3, <3>4
  <2>4. p[m].do = "vanishes" => m = Len(p) - 1 /\ Then(p, m, "disable")
    <3> SUFFICES ASSUME q[i].do = "vanishes" PROVE m = Len(p) - 1 /\ Then(p, m, "disable")
      BY <2>1
    <3>1. i = Len(q) - 1 /\ Then(q, i, "disable")
      BY <2>1 DEF Chained, Walked
    <3>2. i + 1 \in 2..Len(q) /\ ((i + 1) - 1) + n = m + 1 /\ m = Len(p) - 1 /\ m + 1 \in 1..Len(p)
      BY <1>1, <2>1, <3>1
    <3>3. p[m + 1] = q[i + 1]
      <4>1. p[((i + 1) - 1) + n] = q[i + 1]
        BY <3>2 DEF Over
      <4> QED
        BY <3>2, <4>1
    <3> QED
      BY <1>1, <2>1, <3>1, <3>2, <3>3 DEF Then
  <2>5. p[m].do = "row_changed" => m = Len(p) /\ p[m].d = Main
    BY <1>1, <2>1 DEF Chained, Walked
  <2>6. /\ p[m].do \notin Walks => p[m].it = Start
        /\ p[m].do \in Restarting => p[m].it \in {Start, Begin}
    BY <2>1 DEF Chained, Resting
  <2> HIDE DEF m
  <2>7. Chained(p, m)
    BY <2>2, <2>3, <2>4, <2>5, <2>6 DEF Chained, Resting, Enabling, Walked
  <2> QED
    BY <2>7 DEF m
<1> SUFFICES ASSUME NEW j \in 1..Len(p) PROVE Chained(p, j)
  BY <1>1 DEF Stacked
<1>3. CASE j \in 1..n
  BY <1>3
<1>4. CASE j \notin 1..n
  <2>1. (j - n) + 1 \in 2..Len(q) /\ (((j - n) + 1) - 1) + n = j
    BY <1>1, <1>4
  <2>2. Chained(p, (((j - n) + 1) - 1) + n)
    BY <1>2, <2>1
  <2> QED
    BY <2>1, <2>2
<1> QED
  BY <1>3, <1>4

\* The walks below are where they were.
LEMMA OverUndisturbed ==
  ASSUME NEW q \in Seq(Items), q # <<>>, NEW p, NEW n, Over(q, p, n), NEW a, NEW s, NEW t,
         Undisturbed(a, q, s), t.of[Grid] = Main => s.of[Grid] = Main,
         \A i \in 2..Len(q) : q[i].it \in Visibles => t.list = s.list,
         \A i \in 1..n : /\ p[i].it \in {Start, Begin, End} \cup Range(t.list[p[i].d])
                         /\ p[i].do = "row_changed" => i = 1
  PROVE  Undisturbed(a, p, t)
<1>1. /\ Len(q) \in Nat /\ DOMAIN q = 1..Len(q) /\ Len(q) > 0
      /\ n \in Nat /\ Len(p) = (Len(q) - 1) + n /\ DOMAIN p = 1..Len(p)
      /\ \A i \in 1..Len(q) : q[i].it \in Iterators
  BY ItemsAre DEF Over
<1>2. ASSUME NEW j \in 1..Len(p), j \notin 1..n
      PROVE  (j - n) + 1 \in 2..Len(q) /\ (j - n) + 1 \in 1..Len(q) /\ p[j] = q[(j - n) + 1]
  <2>0. j \in Nat /\ j > n /\ j <= (Len(q) - 1) + n
    BY <1>1, <1>2
  <2>1. /\ (j - n) + 1 \in 2..Len(q) /\ (j - n) + 1 \in 1..Len(q)
        /\ (((j - n) + 1) - 1) + n = j
    BY <1>1, <2>0
  <2>2. p[(((j - n) + 1) - 1) + n] = q[(j - n) + 1]
    BY <2>1 DEF Over
  <2> QED
    BY <2>1, <2>2
<1>3. \A j \in 1..Len(p) : p[j].it \in {Start, Begin, End} \cup Range(t.list[p[j].d])
  <2> SUFFICES ASSUME NEW j \in 1..Len(p), j \notin 1..n
               PROVE  p[j].it \in {Start, Begin, End} \cup Range(t.list[p[j].d])
    OBVIOUS
  <2> DEFINE i == (j - n) + 1
  <2>1. i \in 2..Len(q) /\ p[j] = q[i] /\ i \in 1..Len(q)
    BY <1>2
  <2> HIDE DEF i
  <2>2. q[i].it \in {Start, Begin, End} \cup Range(s.list[q[i].d]) /\ q[i].it \in Iterators
    BY <1>1, <2>1 DEF Undisturbed
  <2> QED
    BY <2>1, <2>2 DEF Iterators
<1>4. ASSUME a, t.of[Grid] = Main, NEW j \in 1..Len(p), p[j].do = "row_changed",
             NEW k \in 1..(j - 1)
      PROVE  p[k].d = Listed
  <2>1. CASE j \in 1..n
    <3>1. j = 1 /\ 1..(j - 1) = {}
      BY <1>4, <2>1
    <3> QED
      BY <3>1
  <2>2. CASE j \notin 1..n
    <3> DEFINE i == (j - n) + 1
    <3>1. i \in 2..Len(q) /\ p[j] = q[i] /\ i \in 1..Len(q) /\ i = (j - n) + 1
      BY <1>2, <2>2
    <3> HIDE DEF i
    <3>2. \A m \in 1..(i - 1) : q[m].d = Listed
      BY <1>1, <1>4, <3>1 DEF Undisturbed
    <3>3. CASE k \in 1..n
      <4>0. 1 \in 1..(i - 1)
        BY <3>1
      <4>1. q[1].d = Listed
        BY <3>2, <4>0
      <4> QED
        BY <3>3, <4>1 DEF Over
    <3>4. CASE k \notin 1..n
      <4>0. k \in Nat /\ k <= j - 1 /\ k > n /\ j \in Nat /\ j <= Len(p)
        BY <1>1, <3>4
      <4>1. k \in 1..Len(p) /\ (k - n) + 1 \in 1..(i - 1)
        BY <1>1, <3>1, <4>0
      <4>2. p[k] = q[(k - n) + 1]
        BY <1>2, <3>4, <4>1
      <4> QED
        BY <3>2, <4>1, <4>2
    <3> QED
      BY <3>3, <3>4
  <2> QED
    BY <2>1, <2>2
<1> QED
  BY <1>1, <1>3, <1>4 DEF Undisturbed

-----------------------------------------------------------------------------
(* A visible is told.                                                      *)

\* Nothing happens but that visibles are marked.
Rehandled(s, t) ==
  /\ t \in Vis /\ t.list = s.list /\ t.of = s.of /\ t.column = s.column /\ t.view = s.view
  /\ t.cols = s.cols

LEMMA RehandledIs ==
  ASSUME NEW s \in Vis, NEW handled \in SUBSET Visibles
  PROVE  LET t == [s EXCEPT !.handled = handled]
         IN  Rehandled(s, t) /\ t.handled = handled
<1> DEFINE t == [s EXCEPT !.handled = handled]
<1>1. s = [list |-> s.list, of |-> s.of, column |-> s.column, view |-> s.view,
           cols |-> s.cols, handled |-> s.handled]
  BY DEF Vis
<1>2. t = [s EXCEPT !.handled = handled]
  OBVIOUS
<1> HIDE DEF t
<1>3. t = [list |-> s.list, of |-> s.of, column |-> s.column, view |-> s.view,
           cols |-> s.cols, handled |-> handled]
  BY <1>1, <1>2
<1>4. t \in Vis
  BY <1>3, VisIs DEF Vis
<1> QED
  BY <1>3, <1>4 DEF Rehandled, t

LEMMA RehandledSame ==
  ASSUME NEW e, NEW c, NEW s, NEW t, Rehandled(s, t)
  PROVE  /\ Linked(s) => Linked(t)
         /\ Placed(s) => Placed(t)
         /\ AllAlive(c, s) => AllAlive(c, t)
         /\ \A u : Cleared(s, u) <=> Cleared(t, u)
         /\ \A u : Fits(e, c, s, u) <=> Fits(e, c, t, u)
<1>1. Linked(s) => Linked(t)
  BY DEF Rehandled, Linked
<1>2. Placed(s) => Placed(t)
  BY DEF Rehandled, Placed
<1>3. AllAlive(c, s) => AllAlive(c, t)
  BY DEF Rehandled, AllAlive, Alive
<1>4. \A u : Cleared(s, u) <=> Cleared(t, u)
  BY DEF Rehandled, Cleared
<1>5. \A u : Fits(e, c, s, u) <=> Fits(e, c, t, u)
  BY DEF Rehandled, Fits, Shown
<1> QED
  BY <1>1, <1>2, <1>3, <1>4, <1>5

\* Where a walk is.
LEMMA AtIteratorIs ==
  ASSUME NEW list \in Seq(Visibles), IsInjective(list), list = vis.list[todo[1].d],
         todo[1].it \in {Begin, End} \cup Range(list)
  PROVE  LET k == Position(list, todo[1].it)
         IN  /\ k \in Nat /\ k >= 1
             /\ AtIterator # End =>
                  \E i \in 1..Len(list) :
                    /\ i >= k /\ AtIterator = list[i]
                    /\ todo[1].do \in Restarting => list[i] \notin vis.handled
                    /\ todo[1].do \notin Restarting => i = k
             /\ AtIterator = End =>
                  \A i \in k..Len(list) : todo[1].do \in Restarting /\ list[i] \in vis.handled
<1> DEFINE k == Position(list, todo[1].it)
           due == { i \in k..Len(list) : todo[1].do \in Restarting => list[i] \notin vis.handled }
<1>1. Len(list) \in Nat /\ \A i \in 1..Len(list) : list[i] \in Visibles
  OBVIOUS
<1>2. k \in Nat /\ k >= 1
  <2>1. CASE todo[1].it = Begin
    BY <2>1, PositionIs
  <2>2. CASE todo[1].it = End
    BY <1>1, <2>2, PositionIs
  <2>3. CASE todo[1].it \in Range(list)
    BY <1>1, <2>3, PositionIs
  <2> QED
    BY <2>1, <2>2, <2>3
<1> HIDE DEF k
<1>3. AtIterator = IF due = {} THEN End ELSE list[Min(due)]
  BY DEF AtIterator, k
<1>4. due \in SUBSET Nat
  BY <1>1, <1>2
<1>5. CASE due = {}
  <2>1. \A i \in k..Len(list) : todo[1].do \in Restarting /\ list[i] \in vis.handled
    BY <1>5
  <2>2. AtIterator = End
    BY <1>3, <1>5
  <2> QED
    BY <1>2, <2>1, <2>2 DEF k
<1>6. CASE due # {}
  <2> DEFINE i == Min(due)
  <2>1. AtIterator = list[i]
    BY <1>3, <1>6
  <2>2. i \in due /\ \A j \in due : i <= j
    <3> HIDE DEF due
    <3> QED
      BY <1>4, <1>6, Least
  <2> HIDE DEF i
  <2>3. i \in k..Len(list) /\ (todo[1].do \in Restarting => list[i] \notin vis.handled)
    BY <2>2
  <2>4. i \in 1..Len(list) /\ i >= k
    BY <1>1, <1>2, <2>3
  <2>5. todo[1].do \notin Restarting => i = k
    <3> SUFFICES ASSUME todo[1].do \notin Restarting PROVE i = k
      OBVIOUS
    <3>1. k \in due
      BY <1>1, <1>2, <2>4
    <3>2. i <= k
      BY <2>2, <3>1
    <3> QED
      BY <1>2, <2>4, <3>2
  <2>6. AtIterator # End
    BY <1>1, <2>1, <2>4, Kinds
  <2> QED
    BY <1>2, <2>1, <2>3, <2>4, <2>5, <2>6 DEF k
<1> QED
  BY <1>5, <1>6

LEMMA ToldIs ==
  ASSUME Types, NEW s \in Vis, Linked(s), Placed(s), NEW v \in Visibles, NEW do \in Walks,
         s.of[v] \in Datasources
  PROVE  LET t == Told(do, s, v)
         IN  /\ Moved(columns, s, t, Shell(v))
             /\ t.of[Grid] \in {s.of[Grid], NoSource}
             /\ do \notin {"vanishes", "deleted"} /\ (v # Grid \/ ~automatic) => t.list = s.list
             /\ do \in {"columns_gone", "row_changed"} => t.list = s.list
             /\ do \notin {"vanishes", "deleted"} => t.of[v] = s.of[v]
             /\ do = "deleted" => Fewer(s, t, Visibles)
<1> DEFINE t == Told(do, s, v)
<1>0. /\ Grid \in Visibles /\ Grid \notin GridColumns /\ Grid \notin DataVisibles
      /\ v \in Shell(v) /\ GridColumns \in SUBSET Visibles
      /\ v # Grid => v \in DataVisibles /\ Shell(v) = {v}
  BY Kinds DEF Shell
<1>1. CASE do = "enabled"
  <2>1. t = Enabled(s, v)
    BY <1>1 DEF Told
  <2> HIDE DEF t
  <2>2. Repointed(s, t, v) /\ (v \in DataVisibles => Alive(columns, t, v))
    BY <2>1, EnabledIs
  <2>3. Moved(columns, s, t, {v})
    BY <2>2, RepointedMoved
  <2>4. Moved(columns, s, t, Shell(v))
    BY <1>0, <2>3, SameMore DEF Moved
  <2> QED
    BY <1>1, <2>2, <2>4 DEF Repointed, t
<1>2. CASE do = "disabled"
  <2>1. t = Disabled(s, v)
    BY <1>2 DEF Told
  <2> HIDE DEF t
  <2>2. /\ Moved(columns, s, t, Shell(v)) /\ Fewer(s, t, Shell(v))
        /\ v # Grid \/ ~automatic => Repointed(s, t, v)
    BY <2>1, DisabledIs
  <2>5. v = Grid /\ automatic => t = ColsCleared(s)
    BY <2>1, Kinds DEF Disabled
  <2>3. v = Grid /\ automatic => t.of[Grid] = s.of[Grid]
    BY <1>0, <2>5, ColsClearedIs DEF Moved, Same
  <2>4. v # Grid \/ ~automatic => t.of = s.of /\ t.list = s.list
    BY <2>2 DEF Repointed
  <2> QED
    BY <1>2, <2>2, <2>3, <2>4 DEF t
<1>3. CASE do = "vanishes"
  <2>1. t = Released(s, v)
    BY <1>3 DEF Told
  <2> HIDE DEF t
  <2>2. Moved(columns, s, t, Shell(v)) /\ Fewer(s, t, Shell(v))
    BY <2>1, ReleasedIs
  <2>3. t.of[Grid] \in {s.of[Grid], NoSource}
    BY <1>0, <2>2 DEF Moved, Same, Fewer
  <2> QED
    BY <1>3, <2>2, <2>3 DEF t
<1>4. CASE do = "deleted"
  <2>1. t = Deleted(s, v)
    BY <1>4 DEF Told
  <2> HIDE DEF t
  <2>2. Moved(columns, s, t, {v}) /\ Fewer(s, t, {v})
    BY <2>1, DeletedIs
  <2>3. Moved(columns, s, t, Shell(v))
    BY <1>0, <2>2, SameMore DEF Moved
  <2>4. Fewer(s, t, Visibles)
    BY <2>2 DEF Moved, Same, Fewer
  <2> QED
    BY <1>0, <1>4, <2>3, <2>4 DEF Fewer, t
<1>5. CASE do = "columns_gone"
  <2>1. t = ColumnsGone(s, v)
    BY <1>5 DEF Told
  <2> HIDE DEF t
  <2>2. Moved(columns, s, t, {v}) /\ Repointed(s, t, v)
    BY <2>1, ColumnsGoneIs
  <2>3. Moved(columns, s, t, Shell(v))
    BY <1>0, <2>2, SameMore DEF Moved
  <2> QED
    BY <1>5, <2>2, <2>3 DEF Repointed, t
<1>6. CASE do = "columns_created" /\ v = Grid
  <2>1. t = ColsCreated(s) /\ Shell(v) = {Grid} \cup GridColumns
    BY <1>6 DEF Told, Shell
  <2> HIDE DEF t
  <2>2. Moved(columns, s, t, GridColumns) /\ (~automatic => t = s)
    BY <2>1, ColsCreatedIs
  <2>3. Moved(columns, s, t, Shell(v))
    BY <2>1, <2>2, SameMore DEF Moved
  <2>4. t.of[Grid] = s.of[Grid]
    BY <1>0, <2>2 DEF Moved, Same
  <2> QED
    BY <1>6, <2>2, <2>3, <2>4 DEF t
<1>7. CASE do = "row_changed" \/ (do = "columns_created" /\ v # Grid)
  <2>1. t = s
    BY <1>7 DEF Told
  <2> HIDE DEF t
  <2>2. Same(s, s, Shell(v))
    BY DEF Same
  <2> QED
    BY <1>7, <2>1, <2>2 DEF Moved, t
<1> QED
  BY <1>1, <1>2, <1>3, <1>4, <1>5, <1>6, <1>7 DEF Walks, Restarting

\* What a visible calls on its way out.
LEMMA CallsAre ==
  ASSUME Types, Placed(vis), NEW do, NEW v
  PROVE  \/ CallsOf(do, v) = <<>>
         \/ /\ do \in {"enabled", "disabled", "vanishes"} /\ v = Combo
            /\ \E what \in {"enable", "disable"} : CallsOf(do, v) = <<Item(what, Listed)>>
<1>1. vis.of[ListPart] \in {NoSource, Listed}
  BY Kinds DEF Placed
<1>2. CASE v # Combo \/ vis.of[ListPart] = NoSource
  BY <1>2 DEF CallsOf
<1>3. CASE v = Combo /\ vis.of[ListPart] = Listed /\ Listed # NoSource
  BY <1>3 DEF CallsOf
<1> QED
  BY <1>1, <1>2, <1>3, Kinds

\* The walk that tells v: v is at d, and it is at the iterator or behind it.
LEMMA WalkIs ==
  ASSUME Safe, Walking, AtIterator # End
  PROVE  LET d == todo[1].d
             list == vis.list[d]
         IN  /\ todo \in Seq(Items) /\ todo # <<>> /\ todo[1].do \in Walks /\ d \in Datasources
             /\ list \in Seq(Visibles) /\ IsInjective(list)
             /\ todo[1].it \in {Begin, End} \cup Range(list)
             /\ AtIterator \in Visibles /\ vis.of[AtIterator] = d /\ AtIterator \in Range(list)
             /\ d = (IF AtIterator = ListPart THEN Listed ELSE Main)
             /\ \E i \in 1..Len(list) :
                  /\ i >= Position(list, todo[1].it) /\ AtIterator = list[i]
                  /\ todo[1].do \in Restarting => AtIterator \notin vis.handled
                  /\ todo[1].do \notin Restarting => i = Position(list, todo[1].it)
<1> DEFINE d == todo[1].d
           list == vis.list[d]
<1>1. todo \in Seq(Items) /\ todo # <<>> /\ todo[1].do \in Walks /\ todo[1].it # Start
  BY DEF Safe, Types, Walking
<1>2. d \in Datasources /\ 1 \in DOMAIN todo
  BY <1>1, ItemsAre
<1>3. /\ list \in Seq(Visibles) /\ IsInjective(list)
      /\ Range(list) = { v \in Visibles : vis.of[v] = d }
  BY <1>2, VisIs DEF Safe, Types, Linked
<1>4. todo[1].it \in {Begin, End} \cup Range(list)
  BY <1>1, <1>2 DEF Safe, Undisturbed
<1> HIDE DEF list
<1>5. \E i \in 1..Len(list) :
        /\ i >= Position(list, todo[1].it) /\ AtIterator = list[i]
        /\ todo[1].do \in Restarting => AtIterator \notin vis.handled
        /\ todo[1].do \notin Restarting => i = Position(list, todo[1].it)
  <2>1. list = vis.list[todo[1].d]
    BY DEF list
  <2> HIDE DEF d
  <2> QED
    BY <1>3, <1>4, <2>1, AtIteratorIs
<1>6. AtIterator \in Range(list)
  BY <1>3, <1>5 DEF Range
<1>7. AtIterator \in Visibles /\ vis.of[AtIterator] = d
  BY <1>3, <1>6
<1>8. d = (IF AtIterator = ListPart THEN Listed ELSE Main)
  BY <1>2, <1>7, Kinds DEF Safe, Placed
<1> QED
  BY <1>1, <1>2, <1>3, <1>4, <1>5, <1>6, <1>7, <1>8, Zenon DEF list

\* The lists that the walks below are going through remain.
LEMMA ListsRemain ==
  ASSUME Safe, Walking, AtIterator # End
  PROVE  LET s == Told(todo[1].do, vis, AtIterator)
         IN  \A i \in 2..Len(todo) : todo[i].it \in Visibles => s.list = vis.list
<1> DEFINE do == todo[1].do
           v == AtIterator
           s == Told(do, vis, v)
<1> SUFFICES ASSUME NEW i \in 2..Len(todo), todo[i].it \in Visibles
             PROVE  s.list = vis.list
  OBVIOUS
<1>1. /\ todo \in Seq(Items) /\ todo # <<>> /\ do \in Walks /\ todo[1].d \in Datasources
      /\ v \in Visibles /\ vis.of[v] = todo[1].d
      /\ todo[1].d = (IF v = ListPart THEN Listed ELSE Main)
  BY WalkIs
<1>2. /\ Len(todo) \in Nat /\ DOMAIN todo = 1..Len(todo) /\ i \in 1..Len(todo) /\ 1 \in 1..Len(todo)
      /\ i # 1 /\ i \in Nat /\ i > 1
  <2>1. Len(todo) \in Nat /\ DOMAIN todo = 1..Len(todo)
    BY <1>1, ItemsAre
  <2> QED
    BY <2>1
<1>3. /\ Resting(todo, i) /\ Enabling(todo, i) /\ Walked(todo, i)
      /\ Enabling(todo, 1) /\ Walked(todo, 1)
  BY <1>2 DEF Safe, Stacked, Chained
<1>4. todo[i].do \in Walks \ Restarting
  BY <1>3, Kinds DEF Resting
<1>5. todo[i].do = "row_changed"
  BY <1>2, <1>3, <1>4, Zenon DEF Enabling, Walks
<1>6. i = Len(todo)
  BY <1>3, <1>5 DEF Walked
<1>7. do # "vanishes"
  <2> SUFFICES ASSUME do = "vanishes" PROVE FALSE
    OBVIOUS
  <2>1. 1 = Len(todo) - 1 /\ Then(todo, 1, "disable")
    BY <1>3 DEF Walked
  <2>4. 1 = Len(todo) - 1
    BY <2>1
  <2>5. Len(todo) = 2
    <3>1. Len(todo) \in Nat
      BY <1>2
    <3>2. \A n \in Nat : 1 = n - 1 => n = 2
      OBVIOUS
    <3> QED
      BY <2>4, <3>1, <3>2
  <2>3. i = 2
    BY <1>6, <2>5
  <2>2. todo[2] = Item("disable", todo[1].d)
    BY <2>1 DEF Then
  <2> QED
    BY <1>5, <2>2, <2>3 DEF Item
<1>8. do # "deleted"
  <2> SUFFICES ASSUME do = "deleted" PROVE FALSE
    OBVIOUS
  <2>1. Then(todo, 1, "delete_columns") /\ Then(todo, 2, "destroy")
    BY <1>3 DEF Enabling
  <2>2. /\ 2 \in 1..Len(todo) /\ 3 \in 1..Len(todo) /\ todo[3] = Item("destroy", todo[2].d)
        /\ todo[2] = Item("delete_columns", todo[1].d)
    BY <1>2, <2>1 DEF Then
  <2>3. todo[3].do = "destroy" /\ todo[2].do = "delete_columns"
    BY <2>2 DEF Item
  <2>4. 3 = Len(todo)
    BY <1>2, <2>2, <2>3 DEF Safe, Stacked, Chained, Enabling
  <2> QED
    BY <1>5, <1>6, <2>3, <2>4
<1>9. v # Grid \/ ~automatic
  <2> SUFFICES ASSUME v = Grid, automatic PROVE FALSE
    OBVIOUS
  <2>1. vis.of[Grid] = Main /\ todo[1].d = Main
    BY <1>1, Kinds
  <2>2. 1 \in 1..(i - 1)
    BY <1>2
  <2>3. todo[1].d = Listed
    BY <1>2, <1>5, <2>1, <2>2 DEF Safe, Undisturbed
  <2> QED
    BY <2>1, <2>3, Kinds
<1> HIDE DEF v, do
<1>10. s.list = vis.list
  <2>1. Types /\ vis \in Vis /\ Linked(vis) /\ Placed(vis) /\ vis.of[v] \in Datasources
    BY <1>1 DEF Safe, Types
  <2> QED
    BY <1>1, <1>7, <1>8, <1>9, <2>1, ToldIs
<1> QED
  BY <1>10

\* The next iterator is at a visible of the list.
LEMMA NextAfterIs ==
  ASSUME Safe, Walking, AtIterator # End
  PROVE  LET do == todo[1].do
             d == todo[1].d
             s == Told(do, vis, AtIterator)
             it == NextAfter(do, s, vis.list[d], AtIterator)
         IN  /\ it \in Iterators /\ it \in {Begin, End} \cup Range(s.list[d])
             /\ do \in Restarting => it = Begin
             /\ do \in {"columns_gone", "row_changed"} => it = After(vis.list[d], AtIterator)
<1> DEFINE do == todo[1].do
           d == todo[1].d
           v == AtIterator
           list == vis.list[d]
           s == Told(do, vis, v)
           it == NextAfter(do, s, list, v)
<1>1. /\ do \in Walks /\ d \in Datasources /\ v \in Visibles /\ vis.of[v] = d
      /\ list \in Seq(Visibles) /\ IsInjective(list) /\ v \in Range(list)
  BY WalkIs
<1>2. Types /\ vis \in Vis /\ Linked(vis) /\ Placed(vis)
  BY DEF Safe, Types
<1> HIDE DEF v
<1>3. /\ Moved(columns, vis, s, Shell(v))
      /\ do \in {"columns_gone", "row_changed"} => s.list = vis.list
      /\ do \notin {"vanishes", "deleted"} => s.of[v] = d
  <2> HIDE DEF d, do
  <2> QED
    BY <1>1, <1>2, ToldIs
<1> HIDE DEF s
<1>4. /\ s.list[d] \in Seq(Visibles) /\ IsInjective(s.list[d])
      /\ Range(s.list[d]) = { u \in Visibles : s.of[u] = d }
      /\ Range(s.list[d]) \in SUBSET Visibles
  BY <1>1, <1>3, VisIs DEF Moved, Linked
<1>5. it = IF do \in Restarting THEN Begin
           ELSE IF do = "columns_created" THEN After(s.list[d], v) ELSE After(list, v)
  BY DEF NextAfter
<1>6. ASSUME NEW l \in Seq(Visibles), IsInjective(l), v \in Range(l)
      PROVE  After(l, v) \in {End} \cup Range(l)
  <2>1. PICK i \in 1..Len(l) : v = l[i]
    BY <1>6 DEF Range
  <2> QED
    BY <1>6, <2>1, AfterIs
<1> HIDE DEF it
<1>7. it \in {Begin, End} \cup Range(s.list[d])
  <2>1. CASE do \in Restarting
    BY <1>5, <2>1
  <2>2. CASE do = "columns_created"
    <3>1. v \in Range(s.list[d]) /\ do \notin Restarting
      BY <1>1, <1>3, <1>4, <2>2 DEF Restarting
    <3> QED
      BY <1>4, <1>5, <1>6, <2>2, <3>1
  <2>3. CASE do \in {"columns_gone", "row_changed"}
    <3>1. do \notin Restarting /\ do # "columns_created" /\ s.list[d] = list
      BY <1>3, <2>3 DEF Restarting
    <3> QED
      BY <1>1, <1>5, <1>6, <3>1
  <2> QED
    BY <1>1, <2>1, <2>2, <2>3 DEF Walks
<1>8. it \in Iterators
  BY <1>4, <1>7 DEF Iterators
<1>9. /\ do \in Restarting => it = Begin
      /\ do \in {"columns_gone", "row_changed"} => it = After(list, v)
  BY <1>5 DEF Restarting
<1> QED
  BY <1>7, <1>8, <1>9 DEF it, v, s

LEMMA TellVisibleSafe ==
  ASSUME Safe, TellVisible
  PROVE  Safe'
<1> DEFINE do == todo[1].do
           d == todo[1].d
           v == AtIterator
           list == vis.list[d]
           s == Told(do, vis, v)
           it == NextAfter(do, s, list, v)
           p == Iterated(todo, it)
           C == CallsOf(do, v)
<1>1. /\ Walking /\ v # End
      /\ vis' = IF do \in Restarting /\ do # "deleted"
                THEN [s EXCEPT !.handled = s.handled \cup {v}] ELSE s
      /\ todo' = C \o p
      /\ UNCHANGED <<inForm, automatic, alive, enabled, columns>>
  BY DEF TellVisible, Iterated
<1>2. /\ todo \in Seq(Items) /\ todo # <<>> /\ do \in Walks /\ d \in Datasources
      /\ list \in Seq(Visibles) /\ IsInjective(list)
      /\ todo[1].it \in {Begin, End} \cup Range(list)
      /\ v \in Visibles /\ vis.of[v] = d /\ v \in Range(list)
      /\ d = (IF v = ListPart THEN Listed ELSE Main)
      /\ \E i \in 1..Len(list) :
           /\ i >= Position(list, todo[1].it) /\ v = list[i]
           /\ do \in Restarting => v \notin vis.handled
           /\ do \notin Restarting => i = Position(list, todo[1].it)
  BY <1>1, WalkIs
<1>3. /\ Types /\ vis \in Vis /\ Linked(vis) /\ Placed(vis) /\ Stacked(todo)
      /\ Undisturbed(automatic, todo, vis) /\ Working(enabled, columns, todo, vis)
      /\ AllAlive(columns, vis)
  BY DEF Safe, Types
<1>4. \A i \in 2..Len(todo) : todo[i].it \in Visibles => s.list = vis.list
  BY <1>1, ListsRemain
<1>5. /\ it \in Iterators /\ it \in {Begin, End} \cup Range(s.list[d])
      /\ do \in Restarting => it = Begin
      /\ do \in {"columns_gone", "row_changed"} => it = After(list, v)
  BY <1>1, NextAfterIs
<1> HIDE DEF v
<1>6. /\ Moved(columns, vis, s, Shell(v)) /\ s \in Vis
      /\ s.of[Grid] \in {vis.of[Grid], NoSource}
      /\ do \in {"columns_gone", "row_changed"} => s.list = vis.list
      /\ do = "deleted" => Fewer(vis, s, Visibles)
  <2>1. vis.of[v] \in Datasources
    BY <1>2, Zenon
  <2> HIDE DEF d, do
  <2> QED
    BY <1>2, <1>3, <2>1, ToldIs, Zenon DEF Moved
<1> HIDE DEF s, it, C
<1>7. Rehandled(s, vis') /\ (do = "deleted" => vis' = s)
  <2>1. s.handled \cup {v} \in SUBSET Visibles
    BY <1>2, <1>6, VisIs, Zenon
  <2>2. Rehandled(s, s)
    BY <1>6 DEF Rehandled
  <2> QED
    BY <1>1, <1>6, <2>1, <2>2, RehandledIs, Zenon
<1>8. /\ vis' \in Vis /\ Linked(vis') /\ Placed(vis') /\ AllAlive(columns, vis')
      /\ \A u : Cleared(s, u) <=> Cleared(vis', u)
      /\ vis'.list = s.list /\ vis'.of = s.of
  <2> DEFINE t == vis'
  <2>1. Rehandled(s, t)
    BY <1>7
  <2> HIDE DEF t
  <2>2. /\ t \in Vis /\ Linked(t) /\ Placed(t) /\ AllAlive(columns, t)
        /\ \A u : Cleared(s, u) <=> Cleared(t, u)
        /\ t.list = s.list /\ t.of = s.of
    BY <1>3, <1>6, <2>1, RehandledSame DEF Moved, Rehandled
  <2> QED
    BY <2>2 DEF t
<1>9. /\ p \in Seq(Items) /\ Len(p) = Len(todo) /\ DOMAIN p = DOMAIN todo /\ p # <<>>
      /\ p[1].do = do /\ p[1].d = d /\ p[1].it = it
      /\ \A i \in 2..Len(todo) : p[i] = todo[i]
      /\ \A i \in 1..Len(todo) : p[i].do = todo[i].do /\ p[i].d = todo[i].d
  BY <1>2, <1>5, IteratedIs, Zenon
<1>10. Stacked(p)
  <2>1. do \in Restarting => it \in {Start, Begin}
    BY <1>5
  <2> QED
    BY <1>2, <1>3, <1>5, <2>1, IteratedStacked, Zenon
<1> HIDE DEF p
<1>11. Len(todo) \in Nat /\ DOMAIN todo = 1..Len(todo) /\ Len(todo) > 0
  BY <1>2, ItemsAre, Zenon
<1>12. \A i \in DOMAIN p : p[i].do = "query" => ~enabled[p[i].d]
  BY <1>3, <1>9, <1>11 DEF Working
<1>13. CASE C = <<>>
  <2>1. todo' = p
    BY <1>1, <1>9, <1>13
  <2>2. Over(todo, p, 1)
    <3>1. \A i \in 2..Len(todo) : p[(i - 1) + 1] = todo[i]
      BY <1>9, <1>11
    <3>2. Len(p) = (Len(todo) - 1) + 1
      BY <1>9, <1>11
    <3> QED
      BY <1>9, <3>1, <3>2 DEF Over
  <2>3. Undisturbed(automatic, p, vis')
    <3> DEFINE t == vis'
    <3>1. t.list = s.list /\ t.of = s.of
      BY <1>8
    <3> HIDE DEF t
    <3>2. /\ t.of[Grid] = Main => vis.of[Grid] = Main
          /\ \A i \in 2..Len(todo) : todo[i].it \in Visibles => t.list = vis.list
          /\ \A i \in 1..1 : /\ p[i].it \in {Start, Begin, End} \cup Range(t.list[p[i].d])
                             /\ p[i].do = "row_changed" => i = 1
      BY <1>4, <1>5, <1>6, <1>9, <3>1, Kinds
    <3>3. Undisturbed(automatic, p, t)
      BY <1>2, <1>3, <2>2, <3>2, OverUndisturbed, Zenon
    <3> QED
      BY <3>3 DEF t
  <2>4. \A i \in DOMAIN p : p[i].do = "destroy" /\ i < 3 => FALSE
    <3> SUFFICES ASSUME NEW i \in 1..Len(todo), todo[i].do = "destroy", i < 3 PROVE FALSE
      BY <1>9, <1>11
    <3>1. Enabling(todo, i) /\ i \in Nat
      BY <1>3, <1>11 DEF Stacked, Chained
    <3>2. i # 1
      BY <1>2, Zenon DEF Walks, Restarting
    <3>3. i = 2
      BY <3>1, <3>2
    <3>4. Behind(todo, 2, "delete_columns")
      BY <3>1, <3>3 DEF Enabling
    <3>5. do = "delete_columns"
      BY <3>4 DEF Behind
    <3> QED
      BY <1>2, <3>5, Zenon DEF Walks, Restarting
  <2>5. ASSUME do = "columns_gone", NEW u \in Range(vis'.list[d]) \ Ahead(vis'.list[d], it)
        PROVE  Cleared(vis', u)
    <3>1. vis'.list[d] = list /\ it = After(list, v)
      BY <1>5, <1>6, <1>8, <2>5
    <3>2. PICK i \in 1..Len(list) : v = list[i] /\ i = Position(list, todo[1].it)
      BY <1>2, <2>5, Zenon DEF Restarting
    <3>3. { list[j] : j \in i..Len(list) } \subseteq Ahead(list, After(list, list[i])) \cup {list[i]}
      BY <1>2, AfterIs, Zenon
    <3>4. Ahead(list, todo[1].it) \subseteq Ahead(list, it) \cup {v}
      BY <3>1, <3>2, <3>3, Zenon DEF Ahead
    <3>5. Cleared(s, v) /\ Same(vis, s, {v})
      <4>1. s = ColumnsGone(vis, v)
        BY <2>5 DEF Told, s
      <4> QED
        BY <1>2, <1>3, <4>1, ColumnsGoneIs, Zenon DEF Moved
    <3>6. CASE u = v
      BY <1>8, <3>5, <3>6
    <3>7. CASE u # v
      <4>1. u \in Range(list) \ Ahead(list, todo[1].it) /\ u \in Visibles
        <5>1. \A x \in Range(list) : x \in Visibles
          <6>1. Range(list) = { x \in Visibles : vis.of[x] = d }
            BY <1>2, <1>3, Zenon DEF Linked
          <6> QED
            BY <6>1
        <5> QED
          BY <2>5, <3>1, <3>4, <3>7, <5>1
      <4>2. Cleared(vis, u)
        <5>1. todo[1].it # Start
          BY <1>1 DEF Walking
        <5> QED
          BY <1>2, <1>3, <2>5, <4>1, <5>1, Zenon DEF Working
      <4>3. Cleared(s, u)
        <5>1. CASE u = Grid
          BY <5>1, Kinds DEF Cleared
        <5>2. CASE u # Grid
          <6>1. u \in DataVisibles \ {v}
            BY <3>7, <4>1, <5>2, Kinds
          <6> QED
            BY <3>5, <4>2, <6>1, SameIs
        <5> QED
          BY <5>1, <5>2
      <4> QED
        BY <1>8, <4>3
    <3> QED
      BY <3>6, <3>7
  <2>6. ASSUME do = "deleted" PROVE vis'.handled \cap Range(vis'.list[d]) = {}
    <3>1. vis' = s /\ s.handled \subseteq vis.handled /\ Fewer(vis, s, Visibles)
      BY <1>6, <1>7, <2>6 DEF Moved
    <3>2. /\ Range(list) = { u \in Visibles : vis.of[u] = d }
          /\ Range(s.list[d]) = { u \in Visibles : s.of[u] = d }
      BY <1>2, <1>3, <1>6, Zenon DEF Linked, Moved
    <3>3. Range(s.list[d]) \subseteq Range(list)
      BY <1>2, <3>1, <3>2, Kinds, Zenon DEF Fewer
    <3>4. vis.handled \cap Range(list) = {}
      BY <1>1, <1>2, <1>3, <2>6, Zenon DEF Working, Walking
    <3> QED
      BY <3>1, <3>3, <3>4
  <2>7. do # "delete_columns" /\ do # "query"
    BY <1>2, Zenon DEF Walks, Restarting
  <2>8. Working(enabled, columns, p, vis')
    BY <1>9, <1>12, <2>4, <2>5, <2>6, <2>7 DEF Working
  <2> QED
    BY <1>1, <1>3, <1>8, <1>9, <1>10, <2>1, <2>3, <2>8 DEF Safe, Types
<1>14. ASSUME do \in {"enabled", "disabled", "vanishes"}, v = Combo,
              NEW what \in {"enable", "disable"}, C = <<Item(what, Listed)>>
       PROVE  Safe'
  <2> DEFINE call == Item(what, Listed)
             q == <<call>> \o p
  <2>1. /\ call \in Items /\ call.do = what /\ call.d = Listed /\ call.it = Start
        /\ what \in Dos
    <3>1. what \in Dos
      BY <1>14 DEF Dos
    <3> QED
      BY <3>1, ItemIs, Kinds
  <2> HIDE DEF call
  <2>2. todo' = q
    BY <1>1, <1>14 DEF call
  <2>3. /\ q \in Seq(Items) /\ Len(q) = Len(todo) + 1 /\ q[1] = call
        /\ \A i \in 1..Len(todo) : q[i + 1] = p[i]
    BY <1>9, <1>11, <2>1
  <2> HIDE DEF q
  <2>4. /\ q # <<>> /\ q[2] = p[1] /\ DOMAIN q = 1..(Len(todo) + 1)
        /\ \A i \in 2..Len(todo) : q[(i - 1) + 2] = todo[i]
    <3>1. \A i \in 2..Len(todo) : q[(i - 1) + 2] = todo[i]
      <4> TAKE i \in 2..Len(todo)
      <4>1. i \in 1..Len(todo) /\ (i - 1) + 2 = i + 1
        BY <1>11
      <4> QED
        BY <1>9, <2>3, <4>1
    <3>2. 1 \in 1..Len(todo) /\ 1 + 1 = 2
      BY <1>11
    <3>3. q[2] = p[1] /\ DOMAIN q = 1..(Len(todo) + 1)
      BY <2>3, <3>2
    <3>4. q # <<>>
      BY <1>11, <2>3
    <3> QED
      BY <3>1, <3>3, <3>4
  <2>5. d = Main /\ Main # Listed
    BY <1>2, <1>14, Kinds
  <2>6. Over(todo, q, 2)
    <3>1. Len(q) = (Len(todo) - 1) + 2
      BY <1>11, <2>3
    <3> QED
      BY <2>3, <2>4, <2>5, <3>1 DEF Over
  <2>7. Calm(todo)
    BY <1>2, <1>3, <1>14, CalmIs
  <2>8. Stacked(q)
    <3>1. Chained(q, 1)
      <4>1. q[1].do \in {"enable", "disable"} /\ q[1].it = Start
        BY <2>1, <2>3
      <4> QED
        BY <4>1 DEF Chained, Resting, Enabling, Walked, Walks, Restarting
    <3>2. Chained(q, 2)
      <4>1. q[2].do = do /\ q[2].d = Main /\ q[2].it = Begin /\ q[1].d = Listed
        BY <1>5, <1>9, <1>14, <2>1, <2>3, <2>4, <2>5 DEF Restarting
      <4>2. do = "vanishes" => 2 = Len(q) - 1 /\ Then(q, 2, "disable")
        <5> SUFFICES ASSUME do = "vanishes" PROVE 2 = Len(q) - 1 /\ Then(q, 2, "disable")
          OBVIOUS
        <5>1. 1 = Len(todo) - 1 /\ Then(todo, 1, "disable")
          BY <1>3, <1>11 DEF Stacked, Chained, Walked
        <5>4. 1 = Len(todo) - 1
          BY <5>1
        <5>5. Len(todo) = 2
          <6>1. Len(todo) \in Nat
            BY <1>11
          <6>2. \A n \in Nat : 1 = n - 1 => n = 2
            OBVIOUS
          <6> QED
            BY <5>4, <6>1, <6>2
        <5>2. Len(todo) = 2 /\ todo[2] = Item("disable", d)
          BY <5>1, <5>5 DEF Then
        <5>3. Len(q) = 3 /\ q[3] = p[2] /\ p[2] = todo[2] /\ 3 \in DOMAIN q
          BY <1>9, <2>3, <2>4, <5>2
        <5> QED
          BY <2>5, <4>1, <5>2, <5>3 DEF Then
      <4>3. Resting(q, 2)
        BY <1>14, <4>1 DEF Resting, Walks, Restarting
      <4>4. Enabling(q, 2)
        BY <1>14, <4>1 DEF Enabling
      <4>5. Walked(q, 2)
        <5>1. \A j \in 1..(2 - 1) : q[j].d = Listed
          BY <4>1
        <5> QED
          BY <1>14, <4>1, <4>2, <5>1 DEF Walked
      <4> QED
        BY <4>3, <4>4, <4>5 DEF Chained
    <3>3. \A i \in 1..2 : Chained(q, i)
      BY <3>1, <3>2
    <3> QED
      BY <1>2, <1>3, <2>6, <2>7, <3>3, OverStacked, Zenon
  <2>9. Undisturbed(automatic, q, vis')
    <3> DEFINE t == vis'
    <3>1. t.list = s.list /\ t.of = s.of
      BY <1>8
    <3> HIDE DEF t
    <3>2. /\ t.of[Grid] = Main => vis.of[Grid] = Main
          /\ \A i \in 2..Len(todo) : todo[i].it \in Visibles => t.list = vis.list
      BY <1>4, <1>6, <3>1, Kinds
    <3>3. \A i \in 1..2 : /\ q[i].it \in {Start, Begin, End} \cup Range(t.list[q[i].d])
                          /\ q[i].do = "row_changed" => i = 1
      BY <1>5, <1>9, <1>14, <2>1, <2>3, <2>4 DEF Restarting
    <3>4. Undisturbed(automatic, q, t)
      BY <1>2, <1>3, <2>6, <3>2, <3>3, OverUndisturbed, Zenon
    <3> QED
      BY <3>4 DEF t
  <2>10. \A i \in DOMAIN q : q[i].do # "query" /\ q[i].do # "destroy"
    <3> SUFFICES ASSUME NEW i \in 1..(Len(todo) + 1) PROVE q[i].do # "query" /\ q[i].do # "destroy"
      BY <2>4
    <3>1. CASE i = 1
      BY <1>14, <2>1, <2>3, <3>1
    <3>2. CASE i = 2
      BY <1>9, <1>14, <2>4, <3>2
    <3>3. CASE i # 1 /\ i # 2
      <4>1. i - 1 \in 2..Len(todo) /\ ((i - 1) - 1) + 2 = i
        BY <1>11, <3>3
      <4>2. q[i] = todo[i - 1]
        <5>1. q[((i - 1) - 1) + 2] = todo[i - 1]
          BY <2>4, <4>1
        <5> QED
          BY <4>1, <5>1
      <4> QED
        BY <2>7, <4>1, <4>2 DEF Calm
    <3> QED
      BY <3>1, <3>2, <3>3
  <2>11. Working(enabled, columns, q, vis')
    <3>1. q[1].do \in {"enable", "disable"}
      BY <2>1, <2>3
    <3> QED
      BY <2>10, <3>1 DEF Working
  <2> QED
    BY <1>1, <1>3, <1>8, <2>2, <2>3, <2>8, <2>9, <2>11 DEF Safe, Types
<1>15. \/ C = <<>>
       \/ /\ do \in {"enabled", "disabled", "vanishes"} /\ v = Combo
          /\ \E what \in {"enable", "disable"} : C = <<Item(what, Listed)>>
  BY <1>3, CallsAre DEF C
<1> QED
  BY <1>13, <1>14, <1>15

-----------------------------------------------------------------------------
(* A walk begins and ends.                                                 *)

LEMMA IteratedOver ==
  ASSUME NEW q \in Seq(Items), q # <<>>, NEW it \in Iterators
  PROVE  Over(q, Iterated(q, it), 1)
<1> DEFINE p == Iterated(q, it)
<1>1. /\ p \in Seq(Items) /\ Len(p) = Len(q) /\ DOMAIN p = DOMAIN q
      /\ p[1].d = q[1].d /\ \A i \in 2..Len(q) : p[i] = q[i]
  BY IteratedIs
<1> HIDE DEF p
<1>2. Len(q) \in Nat
  OBVIOUS
<1>3. \A i \in 2..Len(q) : p[(i - 1) + 1] = q[i]
  BY <1>1, <1>2
<1>4. Len(p) = (Len(q) - 1) + 1
  BY <1>1, <1>2
<1> QED
  BY <1>1, <1>3, <1>4 DEF Over, p

LEMMA PushedIs ==
  ASSUME NEW q \in Seq(Items), q # <<>>, NEW h \in Seq(Items),
         \A j \in 1..Len(h) : h[j].d = q[1].d
  PROVE  LET p == h \o Tail(q)
         IN  /\ p \in Seq(Items) /\ Over(q, p, Len(h)) /\ Len(h) \in Nat
             /\ Len(p) = (Len(q) - 1) + Len(h) /\ DOMAIN p = 1..Len(p) /\ Len(q) > 0
             /\ \A j \in 1..Len(h) : p[j] = h[j] /\ j \in DOMAIN p
<1> DEFINE p == h \o Tail(q)
           m == Len(q)
           n == Len(h)
<1>1. m \in Nat /\ n \in Nat /\ m > 0 /\ DOMAIN q = 1..m
  BY ItemsAre
<1>2. /\ Tail(q) \in Seq(Items) /\ Len(Tail(q)) = m - 1
      /\ \A i \in 1..(m - 1) : Tail(q)[i] = q[i + 1]
  BY <1>1
<1>3. /\ p \in Seq(Items) /\ Len(p) = (m - 1) + n /\ DOMAIN p = 1..Len(p)
      /\ \A j \in 1..n : p[j] = h[j] /\ j \in DOMAIN p
      /\ \A i \in 1..(m - 1) : p[i + n] = Tail(q)[i]
  BY <1>1, <1>2
<1> HIDE DEF p, m, n
<1>4. \A i \in 2..m : p[(i - 1) + n] = q[i]
  <2> TAKE i \in 2..m
  <2>1. i - 1 \in 1..(m - 1) /\ (i - 1) + 1 = i
    BY <1>1
  <2> QED
    BY <1>2, <1>3, <2>1
<1>5. Over(q, p, n)
  BY <1>1, <1>3, <1>4 DEF Over, m, n
<1> QED
  BY <1>1, <1>3, <1>5 DEF p, m, n

LEMMA TailOver ==
  ASSUME NEW q \in Seq(Items), q # <<>>
  PROVE  /\ Tail(q) \in Seq(Items) /\ Over(q, Tail(q), 0)
         /\ Len(Tail(q)) = Len(q) - 1 /\ Len(q) \in Nat /\ Len(q) > 0
         /\ \A i \in 1..Len(Tail(q)) : Tail(q)[i] = q[i + 1] /\ i + 1 \in DOMAIN q /\ i \in Nat
<1>1. Len(q) \in Nat /\ Len(q) > 0 /\ DOMAIN q = 1..Len(q)
  BY ItemsAre
<1>2. /\ Tail(q) \in Seq(Items) /\ Len(Tail(q)) = Len(q) - 1
      /\ \A i \in 1..(Len(q) - 1) : Tail(q)[i] = q[i + 1]
  BY <1>1
<1>3. \A i \in 1..(Len(q) - 1) : i + 1 \in DOMAIN q /\ i \in Nat
  BY <1>1
<1>4. \A i \in 2..Len(q) : Tail(q)[(i - 1) + 0] = q[i]
  <2> TAKE i \in 2..Len(q)
  <2>1. i - 1 \in 1..(Len(q) - 1) /\ (i - 1) + 1 = i /\ (i - 1) + 0 = i - 1
    BY <1>1
  <2> QED
    BY <1>2, <2>1
<1>5. Len(Tail(q)) = (Len(q) - 1) + 0
  BY <1>1, <1>2
<1>6. Over(q, Tail(q), 0)
  BY <1>2, <1>4, <1>5 DEF Over
<1> QED
  BY <1>1, <1>2, <1>3, <1>6

\* Below a call that is being made or a walk that may be interrupted nobody
\* is enabled or deleted; nor does the call begin more than one of them.
LEMMA OverWorking ==
  ASSUME NEW q \in Seq(Items), q # <<>>, Calm(q), NEW p, NEW n, Over(q, p, n),
         NEW e, NEW c, NEW s,
         \A i \in 1..n : /\ p[i].do # "destroy" /\ p[i].do # "deleted" /\ p[i].it = Start
                         /\ p[i].do = "query" => ~e[p[i].d]
                         /\ i = 1 => p[i].do # "delete_columns" /\ (p[i].do = "query" => c[p[i].d] = {})
  PROVE  Working(e, c, p, s)
<1>1. /\ Len(q) \in Nat /\ Len(q) > 0 /\ p \in Seq(Items) /\ n \in Nat /\ Len(p) = (Len(q) - 1) + n
      /\ DOMAIN p = 1..Len(p)
  BY ItemsAre DEF Over
<1>2. ASSUME NEW j \in 1..Len(p), j \notin 1..n
      PROVE  p[j].do \in {"enable", "disable", "enabled", "disabled", "vanishes", "row_changed"}
  <2>1. (j - n) + 1 \in 2..Len(q) /\ (((j - n) + 1) - 1) + n = j
    BY <1>1, <1>2
  <2>2. p[(((j - n) + 1) - 1) + n] = q[(j - n) + 1]
    BY <2>1 DEF Over
  <2> QED
    BY <2>1, <2>2 DEF Calm
<1>3. \A j \in DOMAIN p : p[j].do = "query" => ~e[p[j].d]
  BY <1>1, <1>2
<1>4. \A j \in DOMAIN p : p[j].do # "destroy"
  BY <1>1, <1>2
<1>5. ASSUME p # <<>>
      PROVE  /\ p[1].do # "deleted" /\ p[1].do # "delete_columns"
             /\ p[1].do = "columns_gone" => p[1].it = Start
             /\ p[1].do = "query" => c[p[1].d] = {}
  <2>1. 1 \in 1..Len(p)
    BY <1>1, <1>5
  <2>2. CASE 1 \in 1..n
    BY <2>2
  <2>3. CASE 1 \notin 1..n
    BY <1>2, <2>1, <2>3
  <2> QED
    BY <2>2, <2>3
<1> QED
  BY <1>3, <1>4, <1>5 DEF Working

\* mark_visible_objects_as_not_handled
LEMMA BeginWalkSafe ==
  ASSUME Safe, BeginWalk
  PROVE  Safe'
<1> DEFINE d == todo[1].d
           list == vis.list[d]
           handled == IF todo[1].do \in Restarting \cup {"columns_created"}
                      THEN vis.handled \ Range(list) ELSE vis.handled
           t == [vis EXCEPT !.handled = handled]
           p == Iterated(todo, Begin)
<1>1. /\ todo # <<>> /\ todo[1].do \in Walks
      /\ vis' = t /\ todo' = p
      /\ UNCHANGED <<inForm, automatic, alive, enabled, columns>>
  BY DEF BeginWalk, Iterated
<1>2. /\ Types /\ vis \in Vis /\ Linked(vis) /\ Placed(vis) /\ Stacked(todo)
      /\ Undisturbed(automatic, todo, vis) /\ Working(enabled, columns, todo, vis)
      /\ AllAlive(columns, vis) /\ todo \in Seq(Items)
  BY DEF Safe, Types
<1>3. /\ Len(todo) \in Nat /\ DOMAIN todo = 1..Len(todo) /\ Len(todo) > 0 /\ d \in Datasources
  BY <1>1, <1>2, ItemsAre
<1>4. /\ list \in Seq(Visibles) /\ IsInjective(list)
  BY <1>2, <1>3, VisIs DEF Linked
<1>5. Rehandled(vis, t) /\ t.handled = handled
  <2>1. handled \in SUBSET Visibles
    BY <1>2, VisIs
  <2> HIDE DEF handled
  <2> QED
    BY <1>2, <2>1, RehandledIs
<1> HIDE DEF t
<1>6. /\ t \in Vis /\ Linked(t) /\ Placed(t) /\ AllAlive(columns, t) /\ t.list = vis.list
      /\ t.of = vis.of /\ \A u : Cleared(vis, u) <=> Cleared(t, u)
  BY <1>2, <1>5, RehandledSame DEF Rehandled
<1>7. Begin \in Iterators
  BY DEF Iterators
<1>8. /\ p \in Seq(Items) /\ Len(p) = Len(todo) /\ DOMAIN p = DOMAIN todo /\ p # <<>>
      /\ p[1].do = todo[1].do /\ p[1].d = d /\ p[1].it = Begin
      /\ \A i \in 1..Len(todo) : p[i].do = todo[i].do /\ p[i].d = todo[i].d
  BY <1>1, <1>2, <1>7, IteratedIs
<1>9. Stacked(p) /\ Over(todo, p, 1)
  BY <1>1, <1>2, <1>7, IteratedStacked, IteratedOver
<1> HIDE DEF p
<1>10. Undisturbed(automatic, p, t)
  <2>1. /\ t.of[Grid] = Main => vis.of[Grid] = Main
        /\ \A i \in 2..Len(todo) : todo[i].it \in Visibles => t.list = vis.list
        /\ \A i \in 1..1 : /\ p[i].it \in {Start, Begin, End} \cup Range(t.list[p[i].d])
                           /\ p[i].do = "row_changed" => i = 1
    BY <1>6, <1>8
  <2> QED
    BY <1>1, <1>2, <1>9, <2>1, OverUndisturbed
<1>11. Working(enabled, columns, p, t)
  <2>1. \A i \in DOMAIN p : p[i].do = "query" => ~enabled[p[i].d]
    BY <1>2, <1>3, <1>8 DEF Working
  <2>2. \A i \in DOMAIN p : p[i].do = "destroy" /\ i < 3 => \A v \in Visibles : t.of[v] # p[i].d
    BY <1>2, <1>3, <1>6, <1>8 DEF Working
  <2>3. Range(list) \ Ahead(list, Begin) = {}
    BY <1>4, AheadIs
  <2>4. p[1].do = "deleted" => t.handled \cap Range(list) = {}
    BY <1>5, <1>8 DEF Restarting
  <2>5. p[1].do # "delete_columns" /\ p[1].do # "query"
    BY <1>1, <1>8 DEF Walks, Restarting
  <2>6. t.list[p[1].d] = list
    BY <1>6, <1>8
  <2> HIDE DEF list
  <2> QED
    BY <1>8, <2>1, <2>2, <2>3, <2>4, <2>5, <2>6 DEF Working
<1> QED
  BY <1>1, <1>2, <1>6, <1>8, <1>9, <1>10, <1>11 DEF Safe, Types

\* Everybody has been told: those of a datasource that is deleted are gone, the
\* others have given up their pointers if its columns go.
LEMMA WalkedThrough ==
  ASSUME Safe, Walking, AtIterator = End
  PROVE  LET d == todo[1].d
         IN  /\ d \in Datasources
             /\ todo[1].do = "deleted" => \A v \in Visibles : vis.of[v] # d
             /\ todo[1].do = "columns_gone" =>
                  \A v \in Visibles : vis.of[v] = d => Cleared(vis, v)
<1> DEFINE d == todo[1].d
           list == vis.list[d]
           k == Position(list, todo[1].it)
<1>1. todo \in Seq(Items) /\ todo # <<>> /\ todo[1].do \in Walks /\ todo[1].it # Start
  BY DEF Safe, Types, Walking
<1>2. d \in Datasources /\ 1 \in DOMAIN todo
  BY <1>1, ItemsAre
<1>3. /\ list \in Seq(Visibles) /\ IsInjective(list)
      /\ Range(list) = { v \in Visibles : vis.of[v] = d }
  BY <1>2, VisIs DEF Safe, Types, Linked
<1>4. todo[1].it \in {Begin, End} \cup Range(list)
  BY <1>1, <1>2 DEF Safe, Undisturbed
<1>5. list = vis.list[todo[1].d]
  OBVIOUS
<1> HIDE DEF list
<1>6. \A i \in k..Len(list) : todo[1].do \in Restarting /\ list[i] \in vis.handled
  <2> HIDE DEF d
  <2> QED
    BY <1>3, <1>4, <1>5, AtIteratorIs
<1>7. ASSUME todo[1].do = "deleted" PROVE \A v \in Visibles : vis.of[v] # d
  <2>1. todo[1].it = Begin
    <3>1. Resting(todo, 1)
      BY <1>2 DEF Safe, Stacked, Chained
    <3> QED
      BY <1>1, <1>7, <3>1 DEF Resting, Restarting
  <2>2. k = 1
    BY <1>3, <2>1, PositionIs
  <2>3. Range(list) \subseteq vis.handled
    BY <1>3, <1>6, <2>2 DEF Range
  <2>4. vis.handled \cap Range(list) = {}
    BY <1>1, <1>2, <1>5, <1>7 DEF Safe, Working
  <2> QED
    BY <1>3, <2>3, <2>4
<1>8. ASSUME todo[1].do = "columns_gone"
      PROVE  \A v \in Visibles : vis.of[v] = d => Cleared(vis, v)
  <2>1. Ahead(list, todo[1].it) = {}
    BY <1>6, <1>8 DEF Ahead, Restarting
  <2>2. \A v \in Range(list) \ Ahead(list, todo[1].it) : Cleared(vis, v)
    BY <1>1, <1>2, <1>5, <1>8 DEF Safe, Working
  <2> QED
    BY <1>3, <2>1, <2>2
<1> QED
  BY <1>2, <1>7, <1>8

LEMMA EndWalkSafe ==
  ASSUME Safe, EndWalk
  PROVE  Safe'
<1> DEFINE d == todo[1].d
           t == vis'
           p == Tail(todo)
<1>1. /\ Walking /\ AtIterator = End /\ todo # <<>> /\ todo[1].do \in Walks
      /\ t = (IF Len(todo) = 1 THEN [vis EXCEPT !.handled = {}] ELSE vis) /\ todo' = p
      /\ UNCHANGED <<inForm, automatic, alive, enabled, columns>>
  BY DEF EndWalk, Walking
<1> HIDE DEF t
<1>2. /\ Types /\ vis \in Vis /\ Linked(vis) /\ Placed(vis) /\ Stacked(todo)
      /\ Undisturbed(automatic, todo, vis) /\ Working(enabled, columns, todo, vis)
      /\ AllAlive(columns, vis) /\ todo \in Seq(Items)
  BY DEF Safe, Types
<1>3. Rehandled(vis, t)
  <2>1. Rehandled(vis, vis)
    BY <1>2 DEF Rehandled
  <2>2. Rehandled(vis, [vis EXCEPT !.handled = {}])
    BY <1>2, RehandledIs
  <2> QED
    BY <1>1, <2>1, <2>2
<1>4. /\ t \in Vis /\ Linked(t) /\ Placed(t) /\ AllAlive(columns, t) /\ t.list = vis.list
      /\ t.of = vis.of /\ \A u : Cleared(vis, u) <=> Cleared(t, u)
  BY <1>2, <1>3, RehandledSame DEF Rehandled
<1>5. /\ p \in Seq(Items) /\ Over(todo, p, 0) /\ Stacked(p)
      /\ Len(p) = Len(todo) - 1 /\ Len(todo) \in Nat /\ Len(todo) > 0
      /\ \A i \in 1..Len(p) : p[i] = todo[i + 1] /\ i + 1 \in DOMAIN todo /\ i \in Nat
      /\ DOMAIN todo = 1..Len(todo)
  BY <1>1, <1>2, TailOver, TailStacked, ItemsAre
<1>6. DOMAIN p = 1..Len(p) /\ (p # <<>> => 1 \in 1..Len(p))
  BY <1>5, ItemsAre
<1>7. /\ d \in Datasources
      /\ todo[1].do = "deleted" => \A v \in Visibles : t.of[v] # d
      /\ todo[1].do = "columns_gone" => \A v \in Visibles : t.of[v] = d => Cleared(t, v)
  BY <1>1, <1>4, WalkedThrough
<1> HIDE DEF p
<1>8. Undisturbed(automatic, p, t)
  <2>1. /\ t.of[Grid] = Main => vis.of[Grid] = Main
        /\ \A i \in 2..Len(todo) : todo[i].it \in Visibles => t.list = vis.list
    BY <1>4
  <2>2. \A i \in 1..0 : /\ p[i].it \in {Start, Begin, End} \cup Range(t.list[p[i].d])
                         /\ p[i].do = "row_changed" => i = 1
    OBVIOUS
  <2>3. todo \in Seq(Items) /\ todo # <<>> /\ Over(todo, p, 0) /\ Undisturbed(automatic, todo, vis)
    BY <1>1, <1>2, <1>5
  <2> HIDE DEF p
  <2> QED
    BY <2>1, <2>2, <2>3, OverUndisturbed
<1>9. \A i \in DOMAIN todo : Enabling(todo, i)
  BY <1>2 DEF Stacked, Chained
<1>10. \A i \in DOMAIN p : p[i].do = "query" => ~enabled[p[i].d]
  BY <1>2, <1>5, <1>6 DEF Working
<1>11. ASSUME NEW i \in DOMAIN p, p[i].do = "destroy", i < 3
       PROVE  \A v \in Visibles : t.of[v] # p[i].d
  <2>1. p[i] = todo[i + 1] /\ i + 1 \in DOMAIN todo /\ i \in Nat /\ i > 0
    BY <1>5, <1>6
  <2>2. CASE i = 1
    <3>1. i + 1 = 2
      BY <2>2
    <3> QED
      BY <1>2, <1>4, <1>11, <2>1, <3>1 DEF Working
  <2>3. CASE i # 1
    <3>1. i = 2 /\ i + 1 = 3
      BY <1>11, <2>1, <2>3
    <3>2. todo[3].do = "destroy" /\ 3 \in DOMAIN todo /\ 2 \in DOMAIN todo /\ 1 \in DOMAIN todo
      BY <1>5, <1>11, <2>1, <3>1
    <3>3. todo[2].do = "delete_columns" /\ todo[2].d = todo[3].d
      BY <1>9, <3>2 DEF Enabling, Behind
    <3>6. Behind(todo, 2, "columns_gone") \/ Behind(todo, 2, "deleted")
      BY <1>9, <3>2, <3>3 DEF Enabling
    <3>4. (todo[1].do = "columns_gone" \/ todo[1].do = "deleted") /\ todo[1].d = todo[2].d
      BY <3>6 DEF Behind
    <3>5. todo[1].do # "columns_gone"
      <4> SUFFICES ASSUME todo[1].do = "columns_gone" PROVE FALSE
        OBVIOUS
      <4>1. Then(todo, 2, "query")
        BY <1>9, <3>2 DEF Enabling
      <4>2. todo[3] = Item("query", todo[2].d)
        BY <4>1 DEF Then
      <4> QED
        BY <3>2, <4>2 DEF Item
    <3> QED
      BY <1>7, <2>1, <3>1, <3>3, <3>4, <3>5
  <2> QED
    BY <2>2, <2>3
<1>12. ASSUME p # <<>>
       PROVE  /\ p[1].do \notin {"columns_gone", "deleted", "query"}
              /\ p[1].do = "delete_columns" =>
                   \A v \in Visibles : t.of[v] = p[1].d => Cleared(t, v)
  <2>1. p[1] = todo[2] /\ 2 \in DOMAIN todo /\ Enabling(todo, 2)
    <3>1. 1 + 1 = 2
      OBVIOUS
    <3> QED
      BY <1>5, <1>6, <1>9, <1>12, <3>1
  <2>2. p[1].do \notin {"columns_gone", "deleted"}
    BY <2>1 DEF Enabling
  <2>3. p[1].do # "query"
    <3>1. ~Behind(todo, 2, "delete_columns")
      BY <1>1 DEF Behind, Walks, Restarting
    <3> QED
      BY <2>1, <3>1 DEF Enabling
  <2>4. ASSUME p[1].do = "delete_columns"
        PROVE  \A v \in Visibles : t.of[v] = p[1].d => Cleared(t, v)
    <3>1. (todo[1].do = "columns_gone" \/ todo[1].do = "deleted") /\ todo[1].d = todo[2].d
      BY <2>1, <2>4 DEF Enabling, Behind
    <3> QED
      BY <1>7, <2>1, <3>1
  <2> QED
    BY <2>2, <2>3, <2>4
<1>13. Working(enabled, columns, p, t)
  BY <1>10, <1>11, <1>12 DEF Working
<1>14. Linked(vis)' /\ Placed(vis)' /\ AllAlive(columns, vis)' /\ vis' \in Vis
       /\ Undisturbed(automatic, todo, vis)' /\ Working(enabled, columns, todo, vis)'
  BY <1>1, <1>4, <1>8, <1>13 DEF t
<1> QED
  BY <1>1, <1>2, <1>5, <1>14 DEF Safe, Types

-----------------------------------------------------------------------------
(* The calls of a datasource.                                              *)

\* A call or a walk begins in the place of the top, which is calm.
LEMMA CalledSafe ==
  ASSUME Safe, todo # <<>>, Calm(todo), NEW p, NEW n, Over(todo, p, n),
         \A i \in 1..n : /\ Chained(p, i) /\ p[i].it = Start
                         /\ p[i].do \notin {"destroy", "deleted", "row_changed"}
                         /\ p[i].do = "query" => ~enabled'[p[i].d]
                         /\ i = 1 => /\ p[i].do # "delete_columns"
                                     /\ p[i].do = "query" => columns'[p[i].d] = {},
         todo' = p, vis' = vis, UNCHANGED <<inForm, automatic, alive>>,
         enabled' \in [Datasources -> BOOLEAN], columns' \in [Datasources -> SUBSET Names],
         AllAlive(columns', vis)
  PROVE  Safe'
<1>1. /\ Types /\ vis \in Vis /\ Linked(vis) /\ Placed(vis) /\ Stacked(todo)
      /\ Undisturbed(automatic, todo, vis) /\ todo \in Seq(Items)
  BY DEF Safe, Types
<1>2. p \in Seq(Items)
  BY DEF Over
<1>3. Stacked(p)
  BY <1>1, OverStacked
<1>4. Undisturbed(automatic, p, vis)
  BY <1>1, OverUndisturbed
<1>5. Working(enabled', columns', p, vis)
  BY <1>1, OverWorking
<1> QED
  BY <1>1, <1>2, <1>3, <1>4, <1>5 DEF Safe, Types

LEMMA QueryFailsSafe ==
  ASSUME Safe, QueryFails
  PROVE  Safe'
<1>1. /\ todo # <<>> /\ todo[1].do = "query" /\ todo' = Tail(todo) /\ vis' = vis
      /\ UNCHANGED <<inForm, automatic, alive, enabled, columns>>
  BY DEF QueryFails, Doing
<1>2. todo \in Seq(Items) /\ Stacked(todo) /\ AllAlive(columns, vis)
      /\ enabled \in [Datasources -> BOOLEAN] /\ columns \in [Datasources -> SUBSET Names]
  BY DEF Safe, Types
<1>3. Calm(todo) /\ Over(todo, Tail(todo), 0)
  BY <1>1, <1>2, CalmIs, TailOver
<1>4. \A i \in 1..0 : FALSE
  OBVIOUS
<1> QED
  BY <1>1, <1>2, <1>3, <1>4, CalledSafe

LEMMA QuerySucceedsSafe ==
  ASSUME Safe, QuerySucceeds
  PROVE  Safe'
<1> DEFINE d == todo[1].d
           created == Item("columns_created", d)
           told == Item("enabled", d)
           h == <<created, told>>
           p == h \o Tail(todo)
<1>1. PICK names \in Queries[d] :
        /\ todo # <<>> /\ todo[1].do = "query" /\ vis' = vis /\ todo' = p
        /\ columns' = [columns EXCEPT ![d] = names] /\ enabled' = [enabled EXCEPT ![d] = TRUE]
        /\ UNCHANGED <<inForm, automatic, alive>>
  BY DEF QuerySucceeds, Doing
<1>2. todo \in Seq(Items) /\ Stacked(todo) /\ AllAlive(columns, vis)
      /\ enabled \in [Datasources -> BOOLEAN] /\ columns \in [Datasources -> SUBSET Names]
  BY DEF Safe, Types
<1>3. d \in Datasources /\ columns[d] = {}
  BY <1>1, <1>2, ItemsAre DEF Safe, Working
<1>4. names \in SUBSET Names
  BY <1>1, <1>3, VisiblesAssumption
<1>5. /\ created \in Items /\ created.do = "columns_created" /\ created.d = d /\ created.it = Start
      /\ told \in Items /\ told.do = "enabled" /\ told.d = d /\ told.it = Start
  <2>1. "columns_created" \in Dos /\ "enabled" \in Dos
    BY DEF Dos, Walks, Restarting
  <2> QED
    BY <1>3, <2>1, ItemIs
<1>6. Calm(todo)
  BY <1>1, <1>2, CalmIs
<1> HIDE DEF d, created, told
<1>7. /\ h \in Seq(Items) /\ Len(h) = 2 /\ h[1] = created /\ h[2] = told
      /\ \A j \in 1..Len(h) : h[j].d = d
  BY <1>5
<1> HIDE DEF h
<1>8. /\ p \in Seq(Items) /\ Over(todo, p, 2) /\ p[1] = created /\ p[2] = told
      /\ 1 \in DOMAIN p /\ 2 \in DOMAIN p
  <2>1. /\ p \in Seq(Items) /\ Over(todo, p, Len(h))
        /\ \A j \in 1..Len(h) : p[j] = h[j] /\ j \in DOMAIN p
    <3>1. \A j \in 1..Len(h) : h[j].d = todo[1].d
      BY <1>7 DEF d
    <3> QED
      BY <1>1, <1>2, <1>7, <3>1, PushedIs
  <2>2. 1 \in 1..2 /\ 2 \in 1..2
    OBVIOUS
  <2> HIDE DEF p
  <2> QED
    BY <1>7, <2>1, <2>2
<1> HIDE DEF p
<1>9. Chained(p, 1)
  <2>1. Then(p, 1, "enabled")
    BY <1>5, <1>8 DEF Then, told
  <2> QED
    BY <1>5, <1>8, <2>1 DEF Chained, Resting, Enabling, Walked, Walks, Restarting
<1>10. Chained(p, 2)
  <2>1. p[2] = Item("enabled", p[1].d)
    BY <1>5, <1>8 DEF told
  <2> QED
    BY <1>5, <1>8, <2>1 DEF Chained, Resting, Enabling, Walked, Walks, Restarting
<1>11. AllAlive(columns', vis)
  <2> SUFFICES ASSUME NEW v \in DataVisibles, NEW e \in Datasources, vis.of[v] = e
               PROVE  /\ vis.column[v] \in Pointing(columns', e)
                      /\ v = ListPart => vis.view \in Pointing(columns', e)
    BY DEF AllAlive, Alive
  <2>1. Pointing(columns, e) \subseteq Pointing(columns', e)
    BY <1>1, <1>2, <1>3 DEF Pointing
  <2> QED
    BY <1>2, <2>1 DEF AllAlive, Alive
<1>12. enabled' \in [Datasources -> BOOLEAN] /\ columns' \in [Datasources -> SUBSET Names]
  BY <1>1, <1>2, <1>3, <1>4
<1>13. \A i \in 1..2 : /\ Chained(p, i) /\ p[i].it = Start
                       /\ p[i].do \in {"columns_created", "enabled"}
  BY <1>5, <1>8, <1>9, <1>10
<1> QED
  BY <1>1, <1>6, <1>8, <1>11, <1>12, <1>13, CalledSafe

LEMMA DisableSafe ==
  ASSUME Safe, Disable
  PROVE  Safe'
<1> DEFINE d == todo[1].d
           told == Item("disabled", d)
           h == <<told>>
<1>1. /\ todo # <<>> /\ todo[1].do = "disable" /\ vis' = vis
      /\ enabled' = [enabled EXCEPT ![d] = FALSE]
      /\ todo' = (IF enabled[d] THEN h \o Tail(todo) ELSE Tail(todo))
      /\ UNCHANGED <<inForm, automatic, alive, columns>>
  BY DEF Disable, Doing
<1>2. todo \in Seq(Items) /\ Stacked(todo) /\ AllAlive(columns, vis)
      /\ enabled \in [Datasources -> BOOLEAN] /\ columns \in [Datasources -> SUBSET Names]
  BY DEF Safe, Types
<1>3. Calm(todo) /\ Over(todo, Tail(todo), 0) /\ d \in Datasources
  BY <1>1, <1>2, CalmIs, TailOver, ItemsAre
<1>4. told \in Items /\ told.do = "disabled" /\ told.d = d /\ told.it = Start
  <2>1. "disabled" \in Dos
    BY DEF Dos, Walks, Restarting
  <2> QED
    BY <1>3, <2>1, ItemIs
<1>5. /\ enabled' \in [Datasources -> BOOLEAN] /\ columns' \in [Datasources -> SUBSET Names]
      /\ AllAlive(columns', vis)
  BY <1>1, <1>2
<1> HIDE DEF told
<1>6. CASE enabled[d]
  <2> DEFINE p == h \o Tail(todo)
  <2>1. h \in Seq(Items) /\ Len(h) = 1 /\ h[1] = told /\ \A j \in 1..Len(h) : h[j].d = todo[1].d
    BY <1>4
  <2> HIDE DEF h
  <2>2. /\ p \in Seq(Items) /\ Over(todo, p, Len(h))
        /\ \A j \in 1..Len(h) : p[j] = h[j] /\ j \in DOMAIN p
    BY <1>1, <1>2, <2>1, PushedIs
  <2>3. todo' = p
    BY <1>1, <1>6
  <2> HIDE DEF p
  <2>4. Over(todo, p, 1) /\ p[1] = told
    BY <2>1, <2>2
  <2>5. Chained(p, 1)
    BY <1>4, <2>4 DEF Chained, Resting, Enabling, Walked, Walks, Restarting
  <2>6. \A i \in 1..1 : Chained(p, i) /\ p[i].it = Start /\ p[i].do = "disabled"
    BY <1>4, <2>4, <2>5
  <2> QED
    BY <1>1, <1>3, <1>5, <2>3, <2>4, <2>6, CalledSafe
<1>7. CASE ~enabled[d]
  <2>1. todo' = Tail(todo) /\ \A i \in 1..0 : FALSE
    BY <1>1, <1>7
  <2> QED
    BY <1>1, <1>3, <1>5, <2>1, CalledSafe
<1> QED
  BY <1>6, <1>7

LEMMA EnableSafe ==
  ASSUME Safe, Enable
  PROVE  Safe'
<1> DEFINE d == todo[1].d
           gone == Item("columns_gone", d)
           delete == Item("delete_columns", d)
           query == Item("query", d)
<1>1. /\ todo # <<>> /\ todo[1].do = "enable" /\ vis' = vis
      /\ todo' = (IF enabled[d] THEN Tail(todo)
                  ELSE (IF columns[d] = {} THEN <<>> ELSE <<gone, delete>>) \o <<query>> \o Tail(todo))
      /\ UNCHANGED <<inForm, automatic, alive, enabled, columns>>
  BY DEF Enable, Doing
<1>2. todo \in Seq(Items) /\ Stacked(todo) /\ AllAlive(columns, vis)
      /\ enabled \in [Datasources -> BOOLEAN] /\ columns \in [Datasources -> SUBSET Names]
  BY DEF Safe, Types
<1>3. Calm(todo) /\ Over(todo, Tail(todo), 0) /\ d \in Datasources /\ Tail(todo) \in Seq(Items)
  BY <1>1, <1>2, CalmIs, TailOver, ItemsAre
<1>4. /\ gone \in Items /\ gone.do = "columns_gone" /\ gone.d = d /\ gone.it = Start
      /\ delete \in Items /\ delete.do = "delete_columns" /\ delete.d = d /\ delete.it = Start
      /\ query \in Items /\ query.do = "query" /\ query.d = d /\ query.it = Start
  <2>1. "columns_gone" \in Dos /\ "delete_columns" \in Dos /\ "query" \in Dos
    BY DEF Dos, Walks, Restarting
  <2> QED
    BY <1>3, <2>1, ItemIs
<1>5. /\ enabled' \in [Datasources -> BOOLEAN] /\ columns' \in [Datasources -> SUBSET Names]
      /\ AllAlive(columns', vis) /\ enabled' = enabled /\ columns' = columns
  BY <1>1, <1>2
<1> HIDE DEF gone, delete, query
<1>6. CASE enabled[d]
  <2>1. todo' = Tail(todo) /\ \A i \in 1..0 : FALSE
    BY <1>1, <1>6
  <2> QED
    BY <1>1, <1>3, <1>5, <2>1, CalledSafe
<1>7. CASE ~enabled[d] /\ columns[d] = {}
  <2> DEFINE h == <<query>>
             p == h \o Tail(todo)
  <2>1. h \in Seq(Items) /\ Len(h) = 1 /\ h[1] = query /\ \A j \in 1..Len(h) : h[j].d = todo[1].d
    BY <1>4
  <2>3. todo' = p
    <3>1. todo' = <<>> \o <<query>> \o Tail(todo)
      BY <1>1, <1>7
    <3>2. <<>> \o <<query>> = <<query>>
      BY <1>4
    <3> QED
      BY <3>1, <3>2
  <2> HIDE DEF h
  <2>2. /\ p \in Seq(Items) /\ Over(todo, p, Len(h))
        /\ \A j \in 1..Len(h) : p[j] = h[j] /\ j \in DOMAIN p
    BY <1>1, <1>2, <2>1, PushedIs
  <2> HIDE DEF p
  <2>4. Over(todo, p, 1) /\ p[1] = query
    BY <2>1, <2>2
  <2>5. Chained(p, 1)
    BY <1>4, <2>4 DEF Chained, Resting, Enabling, Walked, Walks, Restarting
  <2>6. \A i \in 1..1 : Chained(p, i) /\ p[i].it = Start /\ p[i].do = "query" /\ p[i].d = d
    BY <1>4, <2>4, <2>5
  <2> QED
    BY <1>1, <1>3, <1>5, <1>7, <2>3, <2>4, <2>6, CalledSafe
<1>8. CASE ~enabled[d] /\ columns[d] # {}
  <2> DEFINE h == <<gone, delete>> \o <<query>>
             p == h \o Tail(todo)
  <2>1. /\ h \in Seq(Items) /\ Len(h) = 3 /\ h[1] = gone /\ h[2] = delete /\ h[3] = query
        /\ \A j \in 1..Len(h) : h[j].d = todo[1].d
    BY <1>4
  <2>3. todo' = p
    BY <1>1, <1>8
  <2> HIDE DEF h
  <2>2. /\ p \in Seq(Items) /\ Over(todo, p, Len(h))
        /\ \A j \in 1..Len(h) : p[j] = h[j] /\ j \in DOMAIN p
    BY <1>1, <1>2, <2>1, PushedIs
  <2> HIDE DEF p
  <2>4. /\ Over(todo, p, 3) /\ p[1] = gone /\ p[2] = delete /\ p[3] = query
        /\ 2 \in DOMAIN p /\ 3 \in DOMAIN p
    <3>1. 1 \in 1..3 /\ 2 \in 1..3 /\ 3 \in 1..3
      OBVIOUS
    <3> QED
      BY <2>1, <2>2, <3>1
  <2>5. Then(p, 1, "delete_columns") /\ Then(p, 2, "query")
    BY <1>4, <2>4 DEF Then, delete, query
  <2>6. Behind(p, 2, "columns_gone") /\ Behind(p, 3, "delete_columns")
    BY <1>4, <2>4 DEF Behind
  <2>7. Chained(p, 1)
    BY <1>4, <2>4, <2>5 DEF Chained, Resting, Enabling, Walked, Walks, Restarting
  <2>8. Chained(p, 2)
    BY <1>4, <2>4, <2>5, <2>6 DEF Chained, Resting, Enabling, Walked, Walks, Restarting
  <2>9. Chained(p, 3)
    BY <1>4, <2>4, <2>6 DEF Chained, Resting, Enabling, Walked, Walks, Restarting
  <2>10. \A i \in 1..3 : /\ Chained(p, i) /\ p[i].it = Start
                         /\ p[i].do \notin {"destroy", "deleted", "row_changed"}
                         /\ p[i].do = "query" => ~enabled[p[i].d]
                         /\ i = 1 => p[i].do = "columns_gone"
    BY <1>4, <1>8, <2>4, <2>7, <2>8, <2>9
  <2> QED
    BY <1>1, <1>3, <1>5, <2>3, <2>4, <2>10, CalledSafe
<1> QED
  BY <1>6, <1>7, <1>8

LEMMA DestroySafe ==
  ASSUME Safe, Destroy
  PROVE  Safe'
<1>1. /\ todo # <<>> /\ todo[1].do = "destroy" /\ todo' = Tail(todo)
      /\ enabled' = [enabled EXCEPT ![todo[1].d] = FALSE]
      /\ UNCHANGED <<inForm, automatic, alive, columns, vis>>
  BY DEF Destroy, Doing
<1>2. /\ Types /\ todo \in Seq(Items) /\ Stacked(todo) /\ enabled \in [Datasources -> BOOLEAN]
  BY DEF Safe, Types
<1>3. Len(todo) = 1
  BY <1>1, <1>2, ItemsAre DEF Stacked, Chained, Enabling
<1>4. todo' = <<>>
  <2>1. Len(Tail(todo)) = 0 /\ Tail(todo) \in Seq(Items)
    BY <1>1, <1>2, <1>3
  <2> QED
    BY <1>1, <2>1
<1>5. DOMAIN todo' = {} /\ todo' \in Seq(Items)
  BY <1>4
<1>6. Stacked(todo)' /\ Undisturbed(automatic, todo, vis)' /\ Working(enabled, columns, todo, vis)'
  BY <1>4, <1>5 DEF Stacked, Undisturbed, Working
<1>7. Types'
  BY <1>1, <1>2, <1>5 DEF Types
<1> QED
  BY <1>1, <1>6, <1>7 DEF Safe

\* clear_columnlist: whoever shows a column of this datasource has been told.
LEMMA DeleteColumnsSafe ==
  ASSUME Safe, DeleteColumns
  PROVE  Safe'
<1> DEFINE d == todo[1].d
           c == [columns EXCEPT ![d] = {}]
           pointers == [v \in DataVisibles |-> Lost(d, vis.column[v])]
           t == [vis EXCEPT !.column = pointers, !.view = Lost(d, vis.view)]
           p == Tail(todo)
<1>1. /\ todo # <<>> /\ todo[1].do = "delete_columns" /\ todo' = p
      /\ columns' = c /\ vis' = t
      /\ UNCHANGED <<inForm, automatic, alive, enabled>>
  BY DEF DeleteColumns, Doing
<1>2. /\ Types /\ vis \in Vis /\ Linked(vis) /\ Placed(vis) /\ Stacked(todo)
      /\ Undisturbed(automatic, todo, vis) /\ Working(enabled, columns, todo, vis)
      /\ AllAlive(columns, vis) /\ todo \in Seq(Items) /\ columns \in [Datasources -> SUBSET Names]
  BY DEF Safe, Types
<1>3. /\ d \in Datasources /\ 1 \in DOMAIN todo
      /\ \A v \in Visibles : vis.of[v] = d => Cleared(vis, v)
  BY <1>1, <1>2, ItemsAre DEF Working
<1>4. /\ c \in [Datasources -> SUBSET Names] /\ c[d] = {}
      /\ \A e \in Datasources : e # d => c[e] = columns[e]
  BY <1>2, <1>3
<1> HIDE DEF d
<1>5. \A x \in Pointers : Lost(d, x) \in Pointers
  BY DEF Lost, Pointers
<1>6. /\ t \in Vis /\ t.list = vis.list /\ t.of = vis.of /\ t.cols = vis.cols
      /\ t.view = Lost(d, vis.view)
      /\ \A v \in DataVisibles : t.column[v] = Lost(d, vis.column[v])
  <2>1. vis = [list |-> vis.list, of |-> vis.of, column |-> vis.column, view |-> vis.view,
               cols |-> vis.cols, handled |-> vis.handled]
    BY <1>2 DEF Vis
  <2>2. /\ vis.list \in [Datasources -> Seq(Visibles)]
        /\ vis.of \in [Visibles -> Datasources \cup {NoSource}]
        /\ vis.column \in [DataVisibles -> Pointers]
        /\ vis.view \in Pointers /\ vis.cols \in SUBSET Names /\ vis.handled \in SUBSET Visibles
    BY <1>2, VisIs
  <2>3. pointers \in [DataVisibles -> Pointers] /\ Lost(d, vis.view) \in Pointers
    BY <1>5, <2>2
  <2>4. \A v \in DataVisibles : pointers[v] = Lost(d, vis.column[v])
    OBVIOUS
  <2> DEFINE w == Lost(d, vis.view)
  <2>5. t = [vis EXCEPT !.column = pointers, !.view = w]
    OBVIOUS
  <2> HIDE DEF pointers, t, w
  <2>6. t = [list |-> vis.list, of |-> vis.of, column |-> pointers, view |-> w,
             cols |-> vis.cols, handled |-> vis.handled]
    BY <2>1, <2>5
  <2>7. t \in Vis
    BY <2>2, <2>3, <2>6 DEF Vis, w
  <2>8. /\ t.list = vis.list /\ t.of = vis.of /\ t.cols = vis.cols /\ t.view = w
        /\ t.column = pointers
    BY <2>6
  <2> QED
    BY <2>4, <2>7, <2>8 DEF w
<1> HIDE DEF t, c
<1>7. Linked(t) /\ Placed(t)
  BY <1>2, <1>6 DEF Linked, Placed
<1>8. AllAlive(c, t)
  <2> SUFFICES ASSUME NEW v \in DataVisibles, NEW e \in Datasources, vis.of[v] = e
               PROVE  /\ Lost(d, vis.column[v]) \in Pointing(c, e)
                      /\ v = ListPart => Lost(d, vis.view) \in Pointing(c, e)
    BY <1>6 DEF AllAlive, Alive
  <2>1. Lost(d, Null) = Null
    BY <1>3, Kinds DEF Lost
  <2>2. CASE e = d
    <3>1. Cleared(vis, v)
      BY <1>3, <2>2, Kinds
    <3> QED
      BY <2>1, <3>1 DEF Cleared, Pointing
  <2>3. CASE e # d
    <3>1. \A x \in Pointing(columns, e) : Lost(d, x) = x
      BY <1>3, <2>3, Kinds DEF Lost, Pointing
    <3>2. Pointing(c, e) = Pointing(columns, e)
      BY <1>4, <2>3 DEF Pointing
    <3>3. /\ vis.column[v] \in Pointing(columns, e)
          /\ v = ListPart => vis.view \in Pointing(columns, e)
      BY <1>2 DEF AllAlive, Alive
    <3> QED
      BY <3>1, <3>2, <3>3
  <2> QED
    BY <2>2, <2>3
<1>9. /\ p \in Seq(Items) /\ Over(todo, p, 0) /\ Stacked(p)
      /\ Len(p) = Len(todo) - 1 /\ Len(todo) \in Nat /\ Len(todo) > 0
      /\ \A i \in 1..Len(p) : p[i] = todo[i + 1] /\ i + 1 \in DOMAIN todo /\ i \in Nat
      /\ DOMAIN todo = 1..Len(todo)
  BY <1>1, <1>2, TailOver, TailStacked, ItemsAre
<1>10. DOMAIN p = 1..Len(p) /\ (p # <<>> => 1 \in 1..Len(p))
  BY <1>9, ItemsAre
<1> HIDE DEF p
<1>11. Undisturbed(automatic, p, t)
  <2>1. /\ t.of[Grid] = Main => vis.of[Grid] = Main
        /\ \A i \in 2..Len(todo) : todo[i].it \in Visibles => t.list = vis.list
    BY <1>6
  <2>2. \A i \in 1..0 : /\ p[i].it \in {Start, Begin, End} \cup Range(t.list[p[i].d])
                         /\ p[i].do = "row_changed" => i = 1
    OBVIOUS
  <2>3. todo \in Seq(Items) /\ todo # <<>> /\ Over(todo, p, 0) /\ Undisturbed(automatic, todo, vis)
    BY <1>1, <1>2, <1>9
  <2> QED
    BY <2>1, <2>2, <2>3, OverUndisturbed
<1>12. \A i \in DOMAIN todo : Enabling(todo, i)
  BY <1>2 DEF Stacked, Chained
<1>13. ASSUME NEW i \in DOMAIN p, p[i].do = "query" PROVE ~enabled[p[i].d]
  <2>1. p[i] = todo[i + 1] /\ i + 1 \in DOMAIN todo
    BY <1>9, <1>10
  <2>2. \A j \in DOMAIN todo : todo[j].do = "query" => ~enabled[todo[j].d]
    BY <1>2 DEF Working
  <2> QED
    BY <1>13, <2>1, <2>2
<1>14. ASSUME NEW i \in DOMAIN p, p[i].do = "destroy", i < 3
       PROVE  \A v \in Visibles : t.of[v] # p[i].d
  <2>1. p[i] = todo[i + 1] /\ i + 1 \in DOMAIN todo /\ i \in Nat /\ i > 0
    BY <1>9, <1>10
  <2>2. CASE i = 1
    <3>1. i + 1 = 2
      BY <2>2
    <3> QED
      BY <1>2, <1>6, <1>14, <2>1, <3>1 DEF Working
  <2>3. CASE i # 1
    <3>1. i = 2 /\ i + 1 = 3
      BY <1>14, <2>1, <2>3
    <3>2. todo[3].do = "destroy" /\ 3 \in DOMAIN todo /\ 2 \in DOMAIN todo
      BY <1>9, <1>14, <2>1, <3>1
    <3>3. todo[2].do = "delete_columns"
      BY <1>12, <3>2 DEF Enabling, Behind
    <3>4. Behind(todo, 2, "columns_gone") \/ Behind(todo, 2, "deleted")
      BY <1>12, <3>2, <3>3 DEF Enabling
    <3> QED
      BY <1>1, <3>4 DEF Behind
  <2> QED
    BY <2>2, <2>3
<1>15. ASSUME p # <<>>
       PROVE  /\ p[1].do \notin {"columns_gone", "deleted", "delete_columns"}
              /\ p[1].do = "query" => c[p[1].d] = {}
  <2>1. Enabling(todo, 1)
    BY <1>3, <1>12
  <2>2. Then(todo, 1, "query") \/ Then(todo, 1, "destroy")
    BY <1>1, <2>1 DEF Enabling
  <2>3. p[1] = todo[2]
    <3>1. 1 + 1 = 2
      OBVIOUS
    <3> QED
      BY <1>9, <1>10, <1>15, <3>1
  <2>4. p[1] = Item("query", d) \/ p[1] = Item("destroy", d)
    BY <2>2, <2>3 DEF Then, d
  <2> QED
    BY <1>4, <2>4 DEF Item
<1>16. Working(enabled, c, p, t)
  BY <1>13, <1>14, <1>15 DEF Working
<1> QED
  BY <1>1, <1>2, <1>4, <1>6, <1>7, <1>8, <1>9, <1>11, <1>16 DEF Safe, Types

LEMMA JoinedIs ==
  ASSUME NEW h \in Seq(Items), NEW p \in Seq(Items)
  PROVE  LET q == h \o p
         IN  /\ q \in Seq(Items) /\ Len(q) = Len(h) + Len(p)
             /\ \A i \in 1..Len(h) : q[i] = h[i]
             /\ \A i \in 1..Len(p) : q[i + Len(h)] = p[i]
<1>1. Len(h) \in Nat /\ Len(p) \in Nat
  OBVIOUS
<1> QED
  BY <1>1

\* A script of a visible queries the other datasource, or that of a grid which
\* keeps its columns.
LEMMA ScriptRequeriesSafe ==
  ASSUME CarefulScripts, Safe, ScriptRequeries
  PROVE  Safe'
<1> DEFINE v == AtIterator
           list == vis.list[todo[1].d]
           it == After(list, v)
           p == Iterated(todo, it)
<1>1. PICK d \in Datasources :
        /\ Walking /\ todo[1].do = "row_changed" /\ v # End
        /\ ~(automatic /\ vis.of[Grid] = d)
        /\ todo' = <<Item("disable", d), Item("enable", d)>> \o p
        /\ UNCHANGED <<inForm, automatic, alive, enabled, columns, vis>>
  BY DEF ScriptRequeries, Iterated
<1> DEFINE off == Item("disable", d)
           on == Item("enable", d)
           h == <<off, on>>
           q == h \o p
<1>2. /\ todo \in Seq(Items) /\ todo # <<>> /\ todo[1].d \in Datasources
      /\ Types /\ Stacked(todo) /\ AllAlive(columns, vis)
  BY <1>1, WalkIs DEF Safe, Types
<1>3. /\ it \in Iterators /\ it \in {Begin, End} \cup Range(list)
  <2> DEFINE s == Told(todo[1].do, vis, v)
  <2>1. s = vis
    BY <1>1 DEF Told
  <2>2. NextAfter(todo[1].do, s, list, v) = it
    BY <1>1 DEF NextAfter, Restarting
  <2> HIDE DEF it
  <2>3. it \in Iterators /\ it \in {Begin, End} \cup Range(s.list[todo[1].d])
    BY <1>1, <2>2, NextAfterIs
  <2> HIDE DEF s
  <2> QED
    BY <2>1, <2>3
<1>4. Len(todo) = 1 /\ todo[1].d = Main
  BY <1>1, <1>2, ItemsAre DEF Stacked, Chained, Walked
<1> HIDE DEF it, v
<1>5. /\ p \in Seq(Items) /\ Len(p) = 1 /\ p[1].do = "row_changed" /\ p[1].d = Main /\ p[1].it = it
  BY <1>1, <1>2, <1>3, <1>4, IteratedIs
<1> HIDE DEF p
<1>6. /\ off \in Items /\ off.do = "disable" /\ off.d = d /\ off.it = Start
      /\ on \in Items /\ on.do = "enable" /\ on.d = d /\ on.it = Start
  <2>1. "disable" \in Dos /\ "enable" \in Dos
    BY DEF Dos
  <2> QED
    BY <2>1, ItemIs
<1>7. todo' = q
  BY <1>1
<1> HIDE DEF off, on
<1>8. /\ q \in Seq(Items) /\ Len(q) = 3 /\ DOMAIN q = 1..3 /\ q # <<>>
      /\ q[1] = off /\ q[2] = on /\ q[3] = p[1]
  <2>1. h \in Seq(Items) /\ Len(h) = 2 /\ h[1] = off /\ h[2] = on
    BY <1>6
  <2> HIDE DEF h
  <2>4. p \in Seq(Items) /\ Len(p) = 1
    BY <1>5
  <2>5. h \in Seq(Items) /\ Len(h) = 2
    BY <2>1
  <2>6. /\ q \in Seq(Items) /\ Len(q) = Len(h) + Len(p)
        /\ \A i \in 1..Len(h) : q[i] = h[i]
        /\ \A i \in 1..Len(p) : q[i + Len(h)] = p[i]
    <3>1. h \in Seq(Items) /\ p \in Seq(Items)
      BY <2>4, <2>5
    <3> QED
      BY <3>1, JoinedIs
  <2> HIDE DEF q
  <2>7. 2 + 1 = 3 /\ 1 + 2 = 3 /\ 1 \in 1..2 /\ 2 \in 1..2 /\ 1 \in 1..1
    OBVIOUS
  <2>8. Len(q) = 3
    BY <2>4, <2>5, <2>6, <2>7
  <2>2. q[1] = h[1] /\ q[2] = h[2] /\ q[3] = p[1]
    BY <2>4, <2>5, <2>6, <2>7
  <2>3. DOMAIN q = 1..3
    BY <2>6, <2>8, ItemsAre
  <2>9. q # <<>>
    BY <2>8
  <2> QED
    BY <2>1, <2>2, <2>3, <2>6, <2>8, <2>9
<1> HIDE DEF q
<1>9. 1..3 = {1, 2, 3}
  OBVIOUS
<1>10. Stacked(q)
  <2>1. Chained(q, 1)
    BY <1>6, <1>8 DEF Chained, Resting, Enabling, Walked, Walks, Restarting
  <2>2. Chained(q, 2)
    BY <1>6, <1>8 DEF Chained, Resting, Enabling, Walked, Walks, Restarting
  <2>3. Chained(q, 3)
    BY <1>5, <1>8 DEF Chained, Resting, Enabling, Walked, Walks, Restarting
  <2> QED
    BY <1>8, <1>9, <2>1, <2>2, <2>3 DEF Stacked
<1>11. Undisturbed(automatic, q, vis)
  <2>1. \A i \in DOMAIN q : q[i].it \in {Start, Begin, End} \cup Range(vis.list[q[i].d])
    BY <1>3, <1>4, <1>5, <1>6, <1>8, <1>9
  <2>2. ASSUME automatic, vis.of[Grid] = Main, NEW i \in DOMAIN q, q[i].do = "row_changed",
               NEW j \in 1..(i - 1)
        PROVE  q[j].d = Listed
    <3>1. i = 3
      BY <1>6, <1>8, <1>9, <2>2
    <3>2. j \in {1, 2}
      BY <3>1
    <3>3. d = Listed
      BY <1>1, <2>2, Kinds
    <3> QED
      BY <1>6, <1>8, <3>2, <3>3
  <2> QED
    BY <2>1, <2>2 DEF Undisturbed
<1>12. Working(enabled, columns, q, vis)
  BY <1>5, <1>6, <1>8, <1>9 DEF Working
<1> QED
  BY <1>1, <1>2, <1>7, <1>8, <1>10, <1>11, <1>12 DEF Safe, Types

-----------------------------------------------------------------------------
(* What program and user do between the calls.                             *)

\* One call, or scripts, with nothing below.
LEMMA OneCall ==
  ASSUME NEW what \in {"enable", "disable", "row_changed"}, NEW d \in Datasources,
         what = "row_changed" => d = Main
  PROVE  LET p == <<Item(what, d)>>
         IN  /\ p \in Seq(Items) /\ Stacked(p)
             /\ \A a, s : Undisturbed(a, p, s)
             /\ \A e, c, s : Working(e, c, p, s)
<1> DEFINE call == Item(what, d)
           p == <<call>>
<1>1. call \in Items /\ call.do = what /\ call.d = d /\ call.it = Start
  <2>1. what \in Dos
    BY DEF Dos, Walks
  <2> QED
    BY <2>1, ItemIs
<1> HIDE DEF call
<1>2. p \in Seq(Items) /\ Len(p) = 1 /\ DOMAIN p = {1} /\ p[1] = call
  BY <1>1
<1> HIDE DEF p
<1>3. Chained(p, 1)
  BY <1>1, <1>2 DEF Chained, Resting, Enabling, Walked, Walks, Restarting
<1>4. Stacked(p)
  BY <1>2, <1>3 DEF Stacked
<1>5. \A j \in 1..(1 - 1) : FALSE
  OBVIOUS
<1>6. \A a, s : Undisturbed(a, p, s)
  BY <1>1, <1>2, <1>5 DEF Undisturbed
<1>7. \A e, c, s : Working(e, c, p, s)
  BY <1>1, <1>2 DEF Working
<1> QED
  BY <1>2, <1>4, <1>6, <1>7 DEF p, call

LEMMA NoCall ==
  /\ <<>> \in Seq(Items) /\ Stacked(<<>>)
  /\ \A a, s : Undisturbed(a, <<>>, s)
  /\ \A e, c, s : Working(e, c, <<>>, s)
<1>1. DOMAIN <<>> = {} /\ <<>> \in Seq(Items)
  OBVIOUS
<1> QED
  BY <1>1 DEF Stacked, Undisturbed, Working

LEMMA SetEnabledSafe ==
  ASSUME Safe, NEW d \in Datasources, SetEnabled(d)
  PROVE  Safe'
<1>1. PICK do \in {"enable", "disable"} : todo' = <<Item(do, d)>>
  BY DEF SetEnabled
<1>2. UNCHANGED <<inForm, automatic, alive, enabled, columns, vis>>
  BY DEF SetEnabled
<1> DEFINE p == <<Item(do, d)>>
<1>3. /\ p \in Seq(Items) /\ Stacked(p)
      /\ \A a, s : Undisturbed(a, p, s)
      /\ \A e, c, s : Working(e, c, p, s)
  BY OneCall
<1>4. todo' = p
  BY <1>1
<1> HIDE DEF p
<1> QED
  BY <1>2, <1>3, <1>4 DEF Safe, Types

LEMMA GotoRowSafe ==
  ASSUME Safe, GotoRow
  PROVE  Safe'
<1> DEFINE p == <<Item("row_changed", Main)>>
<1>1. todo' = p /\ UNCHANGED <<inForm, automatic, alive, enabled, columns, vis>>
  BY DEF GotoRow
<1>2. /\ p \in Seq(Items) /\ Stacked(p)
      /\ \A a, s : Undisturbed(a, p, s)
      /\ \A e, c, s : Working(e, c, p, s)
  BY OneCall, Kinds
<1> HIDE DEF p
<1> QED
  BY <1>1, <1>2 DEF Safe, Types

LEMMA SourceVanishesSafe ==
  ASSUME Safe, NEW d \in Datasources, SourceVanishes(d)
  PROVE  Safe'
<1> DEFINE vanish == Item("vanishes", d)
           off == Item("disable", d)
           p == <<vanish, off>>
<1>1. /\ todo' = p /\ alive' = alive \ {d}
      /\ UNCHANGED <<inForm, automatic, enabled, columns, vis>>
  BY DEF SourceVanishes
<1>2. /\ vanish \in Items /\ vanish.do = "vanishes" /\ vanish.d = d /\ vanish.it = Start
      /\ off \in Items /\ off.do = "disable" /\ off.d = d /\ off.it = Start
  <2>1. "vanishes" \in Dos /\ "disable" \in Dos
    BY DEF Dos, Walks, Restarting
  <2> QED
    BY <2>1, ItemIs
<1> HIDE DEF vanish, off
<1>3. /\ p \in Seq(Items) /\ Len(p) = 2 /\ DOMAIN p = {1, 2} /\ p[1] = vanish /\ p[2] = off
  BY <1>2
<1> HIDE DEF p
<1>4. Chained(p, 1)
  <2>1. Then(p, 1, "disable")
    <3>1. 1 + 1 \in DOMAIN p /\ p[1 + 1] = off
      BY <1>3
    <3> QED
      BY <1>2, <1>3, <3>1 DEF Then, off
  <2>2. 1 = Len(p) - 1
    BY <1>3
  <2>3. Walked(p, 1)
    BY <1>2, <1>3, <2>1, <2>2 DEF Walked
  <2> QED
    BY <1>2, <1>3, <2>3 DEF Chained, Resting, Enabling, Walks, Restarting
<1>5. Chained(p, 2)
  BY <1>2, <1>3 DEF Chained, Resting, Enabling, Walked, Walks, Restarting
<1>6. Stacked(p)
  BY <1>3, <1>4, <1>5 DEF Stacked
<1>7. Undisturbed(automatic, p, vis)
  BY <1>2, <1>3 DEF Undisturbed
<1>8. Working(enabled, columns, p, vis)
  BY <1>2, <1>3 DEF Working
<1> QED
  BY <1>1, <1>3, <1>6, <1>7, <1>8 DEF Safe, Types

LEMMA DeleteDatasourceSafe ==
  ASSUME Safe, NEW d \in Datasources, DeleteDatasource(d)
  PROVE  Safe'
<1> DEFINE told == Item("deleted", d)
           delete == Item("delete_columns", d)
           destroy == Item("destroy", d)
           p == <<told, delete, destroy>>
<1>1. /\ todo' = p /\ alive' = alive \ {d}
      /\ UNCHANGED <<inForm, automatic, enabled, columns, vis>>
  BY DEF DeleteDatasource
<1>2. /\ told \in Items /\ told.do = "deleted" /\ told.d = d /\ told.it = Start
      /\ delete \in Items /\ delete.do = "delete_columns" /\ delete.d = d /\ delete.it = Start
      /\ destroy \in Items /\ destroy.do = "destroy" /\ destroy.d = d /\ destroy.it = Start
  <2>1. "deleted" \in Dos /\ "delete_columns" \in Dos /\ "destroy" \in Dos
    BY DEF Dos, Walks, Restarting
  <2> QED
    BY <2>1, ItemIs
<1> HIDE DEF told, delete, destroy
<1>3. /\ p \in Seq(Items) /\ Len(p) = 3 /\ DOMAIN p = {1, 2, 3}
      /\ p[1] = told /\ p[2] = delete /\ p[3] = destroy
  BY <1>2
<1> HIDE DEF p
<1>4. Then(p, 1, "delete_columns") /\ Then(p, 2, "destroy")
  <2>1. 1 + 1 \in DOMAIN p /\ p[1 + 1] = delete /\ 2 + 1 \in DOMAIN p /\ p[2 + 1] = destroy
    BY <1>3
  <2> QED
    BY <1>2, <1>3, <2>1 DEF Then, delete, destroy
<1>5. Behind(p, 2, "deleted") /\ Behind(p, 3, "delete_columns")
  BY <1>2, <1>3 DEF Behind
<1>6. Chained(p, 1)
  BY <1>2, <1>3, <1>4 DEF Chained, Resting, Enabling, Walked, Walks, Restarting
<1>7. Chained(p, 2)
  BY <1>2, <1>3, <1>4, <1>5 DEF Chained, Resting, Enabling, Walked, Walks, Restarting
<1>8. Chained(p, 3)
  BY <1>2, <1>3, <1>5 DEF Chained, Resting, Enabling, Walked, Walks, Restarting
<1>9. Stacked(p)
  BY <1>3, <1>6, <1>7, <1>8 DEF Stacked
<1>10. Undisturbed(automatic, p, vis)
  BY <1>2, <1>3 DEF Undisturbed
<1>11. Working(enabled, columns, p, vis)
  BY <1>2, <1>3 DEF Working
<1> QED
  BY <1>1, <1>3, <1>9, <1>10, <1>11 DEF Safe, Types

\* The visibles change while nothing is under way, and a call may begin.
LEMMA MovedSafe ==
  ASSUME Safe, NEW V, Moved(columns, vis, vis', V),
         UNCHANGED <<inForm, automatic, alive, enabled, columns>>,
         \/ todo' = <<>>
         \/ \E what \in {"enable", "disable"}, d \in Datasources : todo' = <<Item(what, d)>>
  PROVE  Safe'
<1>1. vis' \in Vis /\ Linked(vis') /\ Placed(vis') /\ AllAlive(columns, vis')
  BY DEF Moved, Safe
<1>2. /\ todo' \in Seq(Items) /\ Stacked(todo')
      /\ \A a, s : Undisturbed(a, todo', s)
      /\ \A e, c, s : Working(e, c, todo', s)
  <2>1. CASE todo' = <<>>
    BY <2>1, NoCall
  <2>2. CASE \E what \in {"enable", "disable"}, d \in Datasources : todo' = <<Item(what, d)>>
    <3>1. PICK what \in {"enable", "disable"}, d \in Datasources : todo' = <<Item(what, d)>>
      BY <2>2
    <3> DEFINE p == <<Item(what, d)>>
    <3>2. /\ p \in Seq(Items) /\ Stacked(p)
          /\ \A a, s : Undisturbed(a, p, s)
          /\ \A e, c, s : Working(e, c, p, s)
      BY OneCall
    <3>3. todo' = p
      BY <3>1
    <3> HIDE DEF p
    <3> QED
      BY <3>2, <3>3
  <2> QED
    BY <2>1, <2>2
<1>3. Undisturbed(automatic, todo, vis)' /\ Working(enabled, columns, todo, vis)'
  <2>1. Undisturbed(automatic', todo', vis') /\ Working(enabled', columns', todo', vis')
    BY <1>2
  <2> QED
    BY <2>1
<1> QED
  BY <1>1, <1>2, <1>3 DEF Safe, Types

LEMMA SetDatasourceSafe ==
  ASSUME Safe, NEW v \in Fields \cup {Grid, Combo, ListPart}, NEW d \in Datasources,
         SetDatasource(v, d)
  PROVE  Safe'
<1>1. /\ (v = ListPart) = (d = Listed) /\ vis' = Attached(vis, v, d)
      /\ todo' = IF v = ListPart /\ vis.of[Combo] # NoSource
                 THEN <<Item(IF enabled[vis.of[Combo]] THEN "enable" ELSE "disable", d)>>
                 ELSE CallsOf(IF enabled[d] THEN "enabled" ELSE "disabled", v)
      /\ UNCHANGED <<inForm, automatic, alive, enabled, columns>>
  BY DEF SetDatasource
<1>2. v \in Visibles /\ v \notin GridColumns
  BY VisiblesAssumption, Kinds DEF DataVisibles
<1>3. Moved(columns, vis, vis', Shell(v))
  <2>1. Types /\ vis \in Vis /\ Linked(vis) /\ Placed(vis)
    BY DEF Safe, Types
  <2>2. Moved(columns, vis, Attached(vis, v, d), Shell(v))
    BY <1>1, <1>2, <2>1, AttachedIs
  <2> QED
    BY <1>1, <2>2
<1>4. \/ todo' = <<>>
      \/ \E what \in {"enable", "disable"}, e \in Datasources : todo' = <<Item(what, e)>>
  <2>1. CASE v = ListPart /\ vis.of[Combo] # NoSource
    BY <1>1, <2>1
  <2>2. CASE ~(v = ListPart /\ vis.of[Combo] # NoSource)
    <3> DEFINE do == IF enabled[d] THEN "enabled" ELSE "disabled"
    <3>1. todo' = CallsOf(do, v)
      BY <1>1, <2>2
    <3> HIDE DEF do
    <3>2. CallsOf(do, v) = <<>> \/ \E what \in {"enable", "disable"} : CallsOf(do, v) = <<Item(what, Listed)>>
      BY CallsAre DEF Safe
    <3> QED
      BY <3>1, <3>2, Kinds
  <2> QED
    BY <2>1, <2>2
<1> QED
  BY <1>1, <1>3, <1>4, MovedSafe

LEMMA SetViewColumnSafe ==
  ASSUME Safe, SetViewColumn
  PROVE  Safe'
<1> DEFINE d == vis.of[ListPart]
<1>1. PICK names \in IF columns[d] # {} THEN {columns[d]} ELSE Queries[d] :
        /\ columns' = [columns EXCEPT ![d] = names]
        /\ vis' = [vis EXCEPT !.view = IF ViewName \in names THEN <<d, ViewName>> ELSE Null]
  BY DEF SetViewColumn
<1>2. /\ todo = <<>> /\ d \in alive
      /\ UNCHANGED <<inForm, automatic, alive, enabled, todo>>
  BY DEF SetViewColumn, Idle
<1>3. /\ Types /\ vis \in Vis /\ Linked(vis) /\ Placed(vis) /\ AllAlive(columns, vis)
      /\ d \in Datasources /\ columns \in [Datasources -> SUBSET Names]
  BY <1>2 DEF Safe, Types
<1>4. names \in SUBSET Names /\ (columns[d] # {} => names = columns[d])
  BY <1>1, <1>3, VisiblesAssumption
<1> DEFINE w == IF ViewName \in names THEN <<d, ViewName>> ELSE Null
           c == [columns EXCEPT ![d] = names]
           t == [vis EXCEPT !.view = w]
<1>5. w \in Pointers
  BY <1>3, VisiblesAssumption DEF Pointers
<1>6. /\ c \in [Datasources -> SUBSET Names] /\ c[d] = names
      /\ \A e \in Datasources : Pointing(columns, e) \subseteq Pointing(c, e)
  <2>1. c \in [Datasources -> SUBSET Names] /\ c[d] = names
        /\ \A e \in Datasources : e # d => c[e] = columns[e]
    BY <1>3, <1>4
  <2> HIDE DEF c
  <2>2. \A e \in Datasources : columns[e] \subseteq c[e]
    BY <1>4, <2>1
  <2>3. \A e \in Datasources : Pointing(columns, e) \subseteq Pointing(c, e)
    BY <2>2 DEF Pointing
  <2> QED
    BY <2>1, <2>3
<1>7. w \in Pointing(c, d)
  <2> HIDE DEF c
  <2> QED
    BY <1>6 DEF Pointing
<1>8. columns' = c /\ vis' = t
  BY <1>1
<1> HIDE DEF w, c
<1>9. /\ t \in Vis /\ t.list = vis.list /\ t.of = vis.of /\ t.cols = vis.cols /\ t.view = w
      /\ t.column = vis.column
  <2>1. vis = [list |-> vis.list, of |-> vis.of, column |-> vis.column, view |-> vis.view,
               cols |-> vis.cols, handled |-> vis.handled]
    BY <1>3 DEF Vis
  <2>2. t = [vis EXCEPT !.view = w]
    OBVIOUS
  <2> HIDE DEF t
  <2>3. t = [list |-> vis.list, of |-> vis.of, column |-> vis.column, view |-> w,
             cols |-> vis.cols, handled |-> vis.handled]
    BY <2>1, <2>2
  <2>4. t \in Vis
    BY <1>3, <1>5, <2>3, VisIs DEF Vis
  <2> QED
    BY <2>3, <2>4
<1> HIDE DEF t
<1>10. Linked(t) /\ Placed(t)
  BY <1>3, <1>9 DEF Linked, Placed
<1>11. AllAlive(c, t)
  <2> SUFFICES ASSUME NEW v \in DataVisibles, NEW e \in Datasources, vis.of[v] = e
               PROVE  /\ vis.column[v] \in Pointing(c, e)
                      /\ v = ListPart => w \in Pointing(c, e)
    BY <1>9 DEF AllAlive, Alive
  <2>1. vis.column[v] \in Pointing(columns, e)
    BY <1>3 DEF AllAlive, Alive
  <2> QED
    BY <1>6, <1>7, <2>1
<1>12. /\ \A a, s : Undisturbed(a, <<>>, s)
       /\ \A e, b, s : Working(e, b, <<>>, s)
  BY NoCall
<1>13. todo' = <<>> /\ Stacked(todo)'
  BY <1>2 DEF Safe
<1>14. Undisturbed(automatic', todo', vis') /\ Working(enabled', columns', todo', vis')
  BY <1>12, <1>13
<1>15. Linked(vis)' /\ Placed(vis)' /\ AllAlive(columns, vis)'
  BY <1>8, <1>10, <1>11
<1>16. Types'
  BY <1>2, <1>3, <1>6, <1>8, <1>9 DEF Types
<1> QED
  BY <1>13, <1>14, <1>15, <1>16 DEF Safe

\* Visibles are taken from the lists.
LEMMA DetachedMoved ==
  ASSUME NEW c, NEW s \in Vis, Linked(s), Placed(s), NEW V \in SUBSET Visibles
  PROVE  Moved(c, s, Detached(s, V), V)
<1> DEFINE t == Detached(s, V)
<1>1. /\ t \in Vis /\ Linked(t) /\ Same(s, t, V)
      /\ \A u \in V : t.of[u] = NoSource /\ (u \in DataVisibles => t.column[u] = Null)
      /\ t.cols = s.cols /\ t.handled = s.handled \ V
  BY DetachedIs
<1> HIDE DEF t
<1>2. Gone(t, V) /\ Changed(s, t, V)
  BY <1>1 DEF Gone, Changed
<1>3. Placed(t)
  BY <1>1, <1>2, GonePlaced
<1>4. \A u \in V : u \in DataVisibles => Alive(c, t, u)
  BY <1>2, GoneIs
<1>5. Moved(c, s, t, V)
  BY <1>2, <1>3, <1>4, ChangedIs
<1> QED
  BY <1>5 DEF t

LEMMA DeleteVisibleSafe ==
  ASSUME Safe, NEW v \in Fields \cup {Grid, Combo}, DeleteVisible(v)
  PROVE  Safe'
<1>1. /\ todo = <<>> /\ todo' = todo
      /\ UNCHANGED <<inForm, automatic, alive, enabled, columns>>
      /\ vis' = CASE v = Grid  -> [ColsCleared(Detached(vis, {v})) EXCEPT
                                     !.cols = IF automatic THEN {} ELSE Names]
                  [] v = Combo -> Detached(vis, {v, ListPart})
                  [] OTHER     -> Detached(vis, {v})
  BY DEF DeleteVisible, Idle
<1>2. vis \in Vis /\ Linked(vis) /\ Placed(vis)
  BY DEF Safe, Types
<1>3. v \in Visibles /\ ListPart \in Visibles /\ Combo # Grid
  BY Kinds
<1>4. CASE v = Grid
  <2> DEFINE r == Detached(vis, {v})
             s == ColsCleared(r)
             names == IF automatic THEN {} ELSE Names
             t == Regridded(s, names)
  <2>1. vis' = t
    <3>1. vis' = [ColsCleared(Detached(vis, {v})) EXCEPT !.cols = IF automatic THEN {} ELSE Names]
      BY <1>1, <1>3, <1>4
    <3> QED
      BY <3>1 DEF Regridded
  <2>2. Moved(columns, vis, r, {v})
    BY <1>2, <1>3, DetachedMoved
  <2> HIDE DEF r
  <2>3. /\ Moved(columns, r, s, GridColumns) /\ s.cols = {}
        /\ \A u \in GridColumns : s.of[u] = NoSource
    BY <2>2, ColsClearedIs DEF Moved
  <2> HIDE DEF s
  <2>4. names \in SUBSET Names
    OBVIOUS
  <2> HIDE DEF names
  <2>5. /\ t \in Vis /\ t.list = s.list /\ t.of = s.of /\ t.column = s.column
        /\ t.view = s.view /\ t.handled = s.handled /\ t.cols = names
    BY <2>3, <2>4, RegriddedIs DEF Moved
  <2> HIDE DEF t
  <2>6. Moved(columns, vis, s, Shell(Grid))
    <3>1. Moved(columns, vis, r, Shell(Grid)) /\ Moved(columns, r, s, Shell(Grid))
      BY <1>4, <2>2, <2>3, SameMore DEF Moved, Shell
    <3> QED
      BY <3>1, MovedTwice
  <2>7. Placed(t)
    <3>1. \A name \in Names : t.of[GridColumn(name)] = NoSource
      BY <2>3, <2>5, GridColumnKinds
    <3> QED
      BY <2>5, <2>6, <3>1 DEF Moved, Placed
  <2>8. Moved(columns, vis, t, Shell(Grid))
    BY <2>5, <2>6, <2>7 DEF Moved, Linked, Same, AllAlive, Alive
  <2> QED
    BY <1>1, <2>1, <2>8, MovedSafe
<1>5. CASE v = Combo
  <2> DEFINE V == {v, ListPart}
  <2>1. vis' = Detached(vis, V) /\ V \in SUBSET Visibles
    BY <1>1, <1>3, <1>5
  <2> HIDE DEF V
  <2>2. Moved(columns, vis, vis', V)
    BY <1>2, <2>1, DetachedMoved
  <2> QED
    BY <1>1, <2>2, MovedSafe
<1>6. CASE v # Grid /\ v # Combo
  <2> DEFINE V == {v}
  <2>1. vis' = Detached(vis, V) /\ V \in SUBSET Visibles
    BY <1>1, <1>3, <1>6
  <2> HIDE DEF V
  <2>2. Moved(columns, vis, vis', V)
    BY <1>2, <2>1, DetachedMoved
  <2> QED
    BY <1>1, <2>2, MovedSafe
<1> QED
  BY <1>4, <1>5, <1>6

\* A widget that paints itself fetches no column which is about to be deleted:
\* its datasource is not enabled then, or has no visibles any more.
LEMMA PaintSafe ==
  ASSUME Safe, NEW v \in Fields \cup {ListPart}, Paint(v)
  PROVE  Safe'
<1> DEFINE t == Fetched(vis, v)
           d == vis.of[v]
           f == ColumnByName(d, ShownName(v))
<1>1. /\ vis' = t /\ t # vis
      /\ UNCHANGED <<inForm, automatic, alive, enabled, columns, todo>>
  BY DEF Paint
<1>2. /\ Types /\ vis \in Vis /\ Linked(vis) /\ Placed(vis) /\ Stacked(todo)
      /\ Undisturbed(automatic, todo, vis) /\ Working(enabled, columns, todo, vis)
      /\ AllAlive(columns, vis) /\ todo \in Seq(Items)
  BY DEF Safe, Types
<1>3. v \in DataVisibles /\ v \in Visibles
  BY Kinds
<1>4. vis.column[v] = Null /\ d # NoSource /\ enabled[d]
  BY <1>1 DEF Fetched
<1>5. d \in Datasources
  BY <1>2, <1>3, <1>4, VisIs
<1>6. f \in Pointing(columns, d)
  BY <1>2, <1>3, <1>5, InIs, GridColumnKinds
<1> HIDE DEF f
<1>7. Repointed(vis, t, v) /\ t.view = vis.view /\ t.column[v] = f
  BY <1>2, <1>3, <1>4, FetchedIs DEF f
<1> HIDE DEF t
<1>8. Alive(columns, t, v)
  <2> SUFFICES ASSUME NEW e \in Datasources, t.of[v] = e
               PROVE  /\ t.column[v] \in Pointing(columns, e)
                      /\ v = ListPart => t.view \in Pointing(columns, e)
    BY DEF Alive
  <2>1. vis.of[v] = e
    BY <1>7 DEF Repointed
  <2>2. v = ListPart => vis.view \in Pointing(columns, e)
    BY <1>2, <1>3, <2>1 DEF AllAlive, Alive
  <2> QED
    BY <1>6, <1>7, <2>1, <2>2
<1>9. Moved(columns, vis, t, {v})
  BY <1>2, <1>3, <1>7, <1>8, RepointedMoved
<1>10. /\ t \in Vis /\ Linked(t) /\ Placed(t) /\ AllAlive(columns, t) /\ Same(vis, t, {v})
       /\ t.list = vis.list /\ t.of = vis.of /\ t.handled = vis.handled
  BY <1>2, <1>7, <1>9 DEF Moved, Repointed
<1>11. Undisturbed(automatic, todo, t)
  BY <1>2, <1>10 DEF Undisturbed
<1>12. ASSUME todo # <<>>, todo[1].do \in {"columns_gone", "delete_columns"}
       PROVE  todo[1].d # d
  <2>1. 1 \in DOMAIN todo /\ Enabling(todo, 1)
    BY <1>2, <1>12, ItemsAre DEF Stacked, Chained
  <2>2. CASE todo[1].do = "columns_gone"
    <3>1. Then(todo, 1, "delete_columns") /\ Then(todo, 2, "query")
      BY <2>1, <2>2 DEF Enabling
    <3>2. todo[2] = Item("delete_columns", todo[1].d) /\ todo[3] = Item("query", todo[2].d)
          /\ 3 \in DOMAIN todo
      BY <3>1 DEF Then
    <3>3. ~enabled[todo[1].d]
      BY <1>2, <3>2 DEF Working, Item
    <3> QED
      BY <1>4, <3>3
  <2>3. CASE todo[1].do = "delete_columns"
    <3>1. Then(todo, 1, "query") \/ Then(todo, 1, "destroy")
      BY <2>1, <2>3 DEF Enabling
    <3>2. 2 \in DOMAIN todo
          /\ (todo[2] = Item("query", todo[1].d) \/ todo[2] = Item("destroy", todo[1].d))
      BY <3>1 DEF Then
    <3>3. CASE todo[2] = Item("query", todo[1].d)
      <4>1. ~enabled[todo[1].d]
        BY <1>2, <3>2, <3>3 DEF Working, Item
      <4> QED
        BY <1>4, <4>1
    <3>4. CASE todo[2] = Item("destroy", todo[1].d)
      <4>1. vis.of[v] # todo[1].d
        BY <1>2, <1>3, <3>2, <3>4 DEF Working, Item
      <4> QED
        BY <4>1
    <3> QED
      BY <3>2, <3>3, <3>4
  <2> QED
    BY <1>12, <2>2, <2>3
<1>13. ASSUME NEW u \in Visibles, vis.of[u] # d, Cleared(vis, u) PROVE Cleared(t, u)
  <2>1. CASE u = Grid
    BY <2>1, Kinds DEF Cleared
  <2>2. CASE u # Grid
    <3>1. u \in DataVisibles \ {v}
      BY <1>13, <2>2, Kinds
    <3> QED
      BY <1>10, <1>13, <3>1, SameIs
  <2> QED
    BY <2>1, <2>2
<1>14. ASSUME todo # <<>>, todo[1].do = "columns_gone", todo[1].it # Start,
              NEW u \in Range(vis.list[todo[1].d]) \ Ahead(vis.list[todo[1].d], todo[1].it)
       PROVE  Cleared(t, u)
  <2>1. Cleared(vis, u)
    BY <1>2, <1>14 DEF Working
  <2>2. todo[1].d \in Datasources
    BY <1>2, <1>14, ItemsAre
  <2>3. u \in Visibles /\ vis.of[u] = todo[1].d
    BY <1>2, <1>14, <2>2 DEF Linked
  <2> QED
    BY <1>12, <1>13, <1>14, <2>1, <2>3
<1>15. ASSUME todo # <<>>, todo[1].do = "delete_columns", NEW u \in Visibles, t.of[u] = todo[1].d
       PROVE  Cleared(t, u)
  <2>1. Cleared(vis, u) /\ vis.of[u] = todo[1].d
    BY <1>2, <1>10, <1>15 DEF Working
  <2> QED
    BY <1>12, <1>13, <1>15, <2>1
<1>16. Working(enabled, columns, todo, t)
  BY <1>2, <1>10, <1>14, <1>15 DEF Working
<1> QED
  BY <1>1, <1>2, <1>10, <1>11, <1>16 DEF Safe, Types

-----------------------------------------------------------------------------
(* The theorems.                                                           *)

LEMMA InitSafe ==
  ASSUME Init
  PROVE  Safe
<1> DEFINE s == vis
<1>1. /\ inForm \in BOOLEAN /\ automatic \in BOOLEAN
      /\ alive = Datasources
      /\ enabled = [d \in Datasources |-> FALSE]
      /\ columns = [d \in Datasources |-> {}]
      /\ todo = <<>>
      /\ s = [list |-> [d \in Datasources |-> <<>>],
              of |-> [v \in Visibles |-> NoSource],
              column |-> [v \in DataVisibles |-> Null], view |-> Null,
              cols |-> IF automatic THEN {} ELSE Names, handled |-> {}]
  BY DEF Init
<1> HIDE DEF s
<1>2. /\ s.list = [d \in Datasources |-> <<>>] /\ s.of = [v \in Visibles |-> NoSource]
      /\ s.column = [v \in DataVisibles |-> Null] /\ s.view = Null
  BY <1>1
<1>3. s \in Vis
  <2>1. [d \in Datasources |-> <<>>] \in [Datasources -> Seq(Visibles)]
    <3>1. <<>> \in Seq(Visibles)
      OBVIOUS
    <3> QED
      BY <3>1
  <2>2. [v \in Visibles |-> NoSource] \in [Visibles -> Datasources \cup {NoSource}]
    OBVIOUS
  <2>3. [v \in DataVisibles |-> Null] \in [DataVisibles -> Pointers] /\ Null \in Pointers
    BY Kinds
  <2>4. (IF automatic THEN {} ELSE Names) \in SUBSET Names /\ {} \in SUBSET Visibles
    OBVIOUS
  <2> QED
    BY <1>1, <2>1, <2>2, <2>3, <2>4 DEF Vis
<1>4. Linked(s)
  <2>1. DOMAIN <<>> = {}
    OBVIOUS
  <2>2. Range(<<>>) = {} /\ IsInjective(<<>>)
    BY <2>1 DEF Range, IsInjective
  <2>3. \A v \in Visibles : s.of[v] = NoSource
    BY <1>2
  <2>4. \A d \in Datasources : s.list[d] = <<>>
    BY <1>2
  <2> QED
    BY <2>2, <2>3, <2>4, Kinds DEF Linked
<1>5. Placed(s)
  <2>1. \A name \in Names : GridColumn(name) \in Visibles
    BY Kinds, GridColumnKinds
  <2> QED
    BY <1>2, <2>1 DEF Placed
<1>6. AllAlive(columns, s)
  BY <1>2, Kinds DEF AllAlive, Alive, Pointing
<1>7. /\ todo \in Seq(Items) /\ Stacked(todo) /\ Undisturbed(automatic, todo, s)
      /\ Working(enabled, columns, todo, s)
  BY <1>1, NoCall
<1>8. /\ alive \in SUBSET Datasources /\ enabled \in [Datasources -> BOOLEAN]
      /\ columns \in [Datasources -> SUBSET Names]
  BY <1>1
<1> QED
  BY <1>1, <1>3, <1>4, <1>5, <1>6, <1>7, <1>8 DEF Safe, Types, s

LEMMA NextSafe ==
  ASSUME CarefulScripts, Safe, [Next]_vars
  PROVE  Safe'
<1>1. CASE UNCHANGED vars
  BY <1>1 DEF vars, Safe, Types
<1>2. CASE Step
  <2>1. CASE BeginWalk
    BY <2>1, BeginWalkSafe
  <2>2. CASE TellVisible
    BY <2>2, TellVisibleSafe
  <2>3. CASE ScriptRequeries
    BY <2>3, ScriptRequeriesSafe
  <2>4. CASE EndWalk
    BY <2>4, EndWalkSafe
  <2>5. CASE Enable
    BY <2>5, EnableSafe
  <2>6. CASE DeleteColumns
    BY <2>6, DeleteColumnsSafe
  <2>7. CASE QuerySucceeds
    BY <2>7, QuerySucceedsSafe
  <2>8. CASE QueryFails
    BY <2>8, QueryFailsSafe
  <2>9. CASE Disable
    BY <2>9, DisableSafe
  <2>10. CASE Destroy
    BY <2>10, DestroySafe
  <2> QED
    BY <1>2, <2>1, <2>2, <2>3, <2>4, <2>5, <2>6, <2>7, <2>8, <2>9, <2>10 DEF Step
<1>3. ASSUME NEW d \in Datasources, SetEnabled(d) \/ SourceVanishes(d) \/ DeleteDatasource(d)
      PROVE  Safe'
  BY <1>3, SetEnabledSafe, SourceVanishesSafe, DeleteDatasourceSafe
<1>4. CASE GotoRow
  BY <1>4, GotoRowSafe
<1>5. ASSUME NEW v \in Fields \cup {Grid, Combo, ListPart}, NEW d \in Datasources,
             SetDatasource(v, d)
      PROVE  Safe'
  BY <1>5, SetDatasourceSafe
<1>6. CASE SetViewColumn
  BY <1>6, SetViewColumnSafe
<1>7. ASSUME NEW v \in Fields \cup {Grid, Combo}, DeleteVisible(v) PROVE Safe'
  BY <1>7, DeleteVisibleSafe
<1>8. ASSUME NEW v \in Fields \cup {ListPart}, Paint(v) PROVE Safe'
  BY <1>8, PaintSafe
<1> QED
  BY <1>1, <1>2, <1>3, <1>4, <1>5, <1>6, <1>7, <1>8 DEF Next

\* Whatever calls are made within the walks, by careful scripts too, the lists and
\* the pointers keep together and the calls under way follow each other as enable(), disable()
\* and ~hk_datasource make them.
THEOREM CallsKeepTogether == ASSUME CarefulScripts PROVE Spec => []Safe
<1>1. Init => Safe
  BY InitSafe
<1>2. Safe /\ [Next]_vars => Safe'
  BY NextSafe
<1> QED
  BY <1>1, <1>2, PTL DEF Spec

\* No walk through the list of a datasource is left at a visible that has been
\* taken from it, although visible_remove and the grid's clear_cols change the
\* list while it is walked through.  Scripts may query datasources again in the
\* middle of a walk, but not the one whose automatic grid would then delete the
\* column the iterator is at.
THEOREM IteratorsStayValid == ASSUME CarefulScripts PROVE Spec => []IteratorsValid
<1>1. Safe => IteratorsValid
  BY DEF Safe, Undisturbed, Linked, IteratorsValid
<1> QED
  BY <1>1, CallsKeepTogether, PTL

\* No visible is left with a pointer to a column that clear_columnlist has
\* deleted: all have been told, and nobody fetches it again until it is gone.
THEOREM PointersStayAlive == ASSUME CarefulScripts PROVE Spec => []ColumnsAlive
<1>1. Safe => ColumnsAlive
  <2> SUFFICES ASSUME Safe, NEW d \in Datasources, NEW v \in DataVisibles, vis.of[v] = d
               PROVE  /\ vis.column[v] \in {Null} \cup ({d} \X columns[d])
                      /\ v = ListPart => vis.view \in {Null} \cup ({d} \X columns[d])
    BY DEF ColumnsAlive
  <2>1. Alive(columns, vis, v)
    BY DEF Safe, AllAlive
  <2> QED
    BY <2>1 DEF Alive, Pointing
<1> QED
  BY <1>1, CallsKeepTogether, PTL

-----------------------------------------------------------------------------
(* Everybody is told.                                                      *)

\* An automatic grid has the columns of the last query.
FitsGrid(a, e, c, s) ==
  a /\ s.of[Grid] = Main => s.cols = IF e[Main] THEN c[Main] ELSE {}

\* All visibles of d show what they should.
Settled(a, e, c, s, d) ==
  /\ \A u \in DataVisibles : s.of[u] = d => Fits(e, c, s, u)
  /\ d = Main => FitsGrid(a, e, c, s)

\* Item x of the stack tells the visibles of d, or will.
Tells(e, x, d) ==
  /\ x.d = d
  /\ x.do \in {"enabled", "disabled", "vanishes"} \/ (x.do = "disable" /\ e[d])

Telling(e, q, d) == \E i \in DOMAIN q : Tells(e, q[i], d)

\* The visibles of d that are marked as handled fit.
Greeted(e, c, s, d) ==
  \A u \in DataVisibles : s.of[u] = d /\ u \in s.handled => Fits(e, c, s, u)

\* What item i relies on: its datasource is as it announces it, who is skipped
\* because it is marked fits, and so does the grid: if the datasource is enabled,
\* it has been told of the columns before.
Going(a, e, c, q, s, i) ==
  LET x == q[i]
  IN  /\ x.do = "enabled" =>
           /\ e[x.d]
           /\ x.d = Main =>
                FitsGrid(a, e, c, s) \/ (i = 2 /\ q[1].do = "columns_created")
           /\ x.it = Begin => Greeted(e, c, s, x.d)
      /\ x.do = "disabled" =>
           /\ ~e[x.d]
           /\ x.it = Begin =>
                /\ Greeted(e, c, s, x.d)
                /\ x.d = Main /\ Grid \in s.handled => FitsGrid(a, e, c, s)
      /\ x.do = "vanishes" /\ ~e[x.d] => Settled(a, e, c, s, x.d)

\* While the columns are announced, the grid has made its own or is still ahead.
Creating(a, e, c, s, x) ==
  x.do = "columns_created" /\ x.it # Start =>
    LET list == s.list[x.d]
    IN  Grid \in Range(list) \ Ahead(list, x.it) => FitsGrid(a, e, c, s)

\* Who is not being told fits.
Informed(a, e, c, q, s) ==
  /\ \A d \in Datasources : Telling(e, q, d) \/ Settled(a, e, c, s, d)
  /\ \A i \in DOMAIN q : Going(a, e, c, q, s, i)
  /\ q # <<>> => Creating(a, e, c, s, q[1])

\* The datasources that vanish or are deleted.
Doomed(q) ==
  { q[i].d : i \in { j \in DOMAIN q : q[j].do \in {"vanishes", "deleted", "destroy"} } }

\* A datasource that vanishes or is deleted does not come back; one that is
\* enabled has columns; an automatic grid that waits for its datasource has none.
Living(a, l, e, c, q, s) ==
  /\ Doomed(q) \cap l = {}
  /\ \A d \in l : e[d] => c[d] # {}
  /\ a /\ Main \in l /\ s.of[Grid] = NoSource => s.cols = {}

Knowing ==
  /\ Informed(automatic, enabled, columns, todo, vis)
  /\ Living(automatic, alive, enabled, columns, todo, vis)

\* From s to t whoever of d fits still does, and who comes to d fits.
Keeps(a, e, c, s, f, k, t, d) ==
  /\ \A u \in DataVisibles : t.of[u] = d /\ (s.of[u] = d => Fits(e, c, s, u)) => Fits(f, k, t, u)
  /\ d = Main /\ FitsGrid(a, e, c, s) => FitsGrid(a, f, k, t)

\* Who of d is marked has been before, or fits.
Marked(a, s, f, k, t, d) ==
  /\ \A u \in DataVisibles :
       t.of[u] = d /\ u \in t.handled => (s.of[u] = d /\ u \in s.handled) \/ Fits(f, k, t, u)
  /\ d = Main /\ Grid \in t.handled => Grid \in s.handled \/ FitsGrid(a, f, k, t)

LEMMA KeepsSettled ==
  ASSUME NEW a, NEW e, NEW c, NEW s, NEW f, NEW k, NEW t, NEW d,
         Keeps(a, e, c, s, f, k, t, d), Settled(a, e, c, s, d)
  PROVE  Settled(a, f, k, t, d)
BY DEF Keeps, Settled

\* Nothing happens to those an item is about.
LEMMA GoingOn ==
  ASSUME NEW a, NEW e, NEW c, NEW s, NEW f, NEW k, NEW t, NEW q, NEW p, NEW i, NEW j,
         p[j] = q[i], Going(a, e, c, q, s, i), f[q[i].d] = e[q[i].d],
         Keeps(a, e, c, s, f, k, t, q[i].d), Marked(a, s, f, k, t, q[i].d),
         i = 2 => q[1].do # "columns_created"
  PROVE  Going(a, f, k, p, t, j)
<1> DEFINE d == q[i].d
<1>1. CASE q[i].do = "enabled"
  <2>1. e[d] /\ (d = Main => FitsGrid(a, e, c, s))
    BY <1>1 DEF Going
  <2>2. f[d] /\ (d = Main => FitsGrid(a, f, k, t))
    BY <2>1 DEF Keeps
  <2>3. q[i].it = Begin => Greeted(f, k, t, d)
    <3> SUFFICES ASSUME q[i].it = Begin, NEW u \in DataVisibles, t.of[u] = d, u \in t.handled
                 PROVE  Fits(f, k, t, u)
      BY DEF Greeted
    <3>1. Greeted(e, c, s, d)
      BY <1>1 DEF Going
    <3>2. (s.of[u] = d /\ u \in s.handled) \/ Fits(f, k, t, u)
      BY DEF Marked
    <3> QED
      BY <3>1, <3>2 DEF Greeted, Keeps
  <2> QED
    BY <1>1, <2>2, <2>3 DEF Going
<1>2. CASE q[i].do = "disabled"
  <2>1. ~f[d]
    BY <1>2 DEF Going
  <2>2. q[i].it = Begin => Greeted(f, k, t, d)
    <3> SUFFICES ASSUME q[i].it = Begin, NEW u \in DataVisibles, t.of[u] = d, u \in t.handled
                 PROVE  Fits(f, k, t, u)
      BY DEF Greeted
    <3>1. Greeted(e, c, s, d)
      BY <1>2 DEF Going
    <3>2. (s.of[u] = d /\ u \in s.handled) \/ Fits(f, k, t, u)
      BY DEF Marked
    <3> QED
      BY <3>1, <3>2 DEF Greeted, Keeps
  <2>3. q[i].it = Begin /\ d = Main /\ Grid \in t.handled => FitsGrid(a, f, k, t)
    BY <1>2 DEF Going, Keeps, Marked
  <2> QED
    BY <1>2, <2>1, <2>2, <2>3 DEF Going
<1>3. CASE q[i].do = "vanishes"
  <2>1. ~f[d] => Settled(a, f, k, t, d)
    BY <1>3, KeepsSettled DEF Going
  <2> QED
    BY <1>3, <2>1 DEF Going
<1>4. CASE q[i].do \notin {"enabled", "disabled", "vanishes"}
  BY <1>4 DEF Going
<1> QED
  BY <1>1, <1>2, <1>3, <1>4

\* One step of the top of the stack, in whose place there are n items then.
LEMMA StepInformed ==
  ASSUME NEW a, NEW e, NEW c, NEW s, NEW f, NEW k, NEW t,
         NEW q \in Seq(Items), q # <<>>, Stacked(q), Informed(a, e, c, q, s),
         NEW p, NEW n, Over(q, p, n),
         \A d \in Datasources :
           \/ Telling(f, p, d)
           \/ Settled(a, f, k, t, d)
           \/ f[d] = e[d] /\ Keeps(a, e, c, s, f, k, t, d) /\ ~Tells(e, q[1], d),
         q[1].d = Listed => /\ f[Main] = e[Main] /\ Keeps(a, e, c, s, f, k, t, Main)
                            /\ Marked(a, s, f, k, t, Main),
         \A i \in 1..n : Going(a, f, k, p, t, i),
         q[1].do = "columns_created" => Going(a, f, k, p, t, 1 + n),
         n > 0 => Creating(a, f, k, t, p[1])
  PROVE  Informed(a, f, k, p, t)
<1>1. /\ p \in Seq(Items) /\ n \in Nat /\ Len(p) = (Len(q) - 1) + n /\ Len(q) \in Nat /\ Len(q) > 0
      /\ DOMAIN q = 1..Len(q) /\ DOMAIN p = 1..Len(p)
      /\ \A i \in 2..Len(q) : p[(i - 1) + n] = q[i]
  BY ItemsAre DEF Over
<1>2. \A i \in 2..Len(q) : i \in Nat /\ i > 1 /\ i \in DOMAIN q /\ (i - 1) + n \in DOMAIN p
  BY <1>1
<1>3. ASSUME NEW d \in Datasources PROVE Telling(f, p, d) \/ Settled(a, f, k, t, d)
  <2> SUFFICES ASSUME f[d] = e[d], Keeps(a, e, c, s, f, k, t, d), ~Tells(e, q[1], d)
               PROVE  Telling(f, p, d) \/ Settled(a, f, k, t, d)
    OBVIOUS
  <2>1. CASE Settled(a, e, c, s, d)
    BY <2>1, KeepsSettled
  <2>2. CASE Telling(e, q, d)
    <3>1. PICK i \in DOMAIN q : Tells(e, q[i], d)
      BY <2>2 DEF Telling
    <3>2. i \in 2..Len(q)
      <4>1. i # 1
        BY <3>1
      <4> QED
        BY <1>1, <4>1
    <3>3. Tells(f, p[(i - 1) + n], d)
      BY <1>1, <3>1, <3>2 DEF Tells
    <3> QED
      BY <1>2, <3>2, <3>3 DEF Telling
  <2> QED
    BY <2>1, <2>2 DEF Informed
<1>4. ASSUME NEW i \in 2..Len(q), q[1].do # "columns_created" \/ i # 2
      PROVE  Going(a, f, k, p, t, (i - 1) + n)
  <2>1. Going(a, e, c, q, s, i) /\ Chained(q, i) /\ i > 1
    BY <1>2 DEF Informed, Stacked
  <2>2. CASE q[i].do \in {"enabled", "disabled", "vanishes"}
    <3>1. q[i].d = Main /\ \A j \in 1..(i - 1) : q[j].d = Listed
      BY <2>1, <2>2, <1>4 DEF Chained, Walked
    <3>2. 1 \in 1..(i - 1)
      BY <1>2
    <3>3. q[1].d = Listed
      BY <3>1, <3>2
    <3> DEFINE j == (i - 1) + n
    <3>4. p[j] = q[i]
      BY <1>1
    <3>5. f[q[i].d] = e[q[i].d]
      BY <3>1, <3>3
    <3>6. Keeps(a, e, c, s, f, k, t, q[i].d) /\ Marked(a, s, f, k, t, q[i].d)
      BY <3>1, <3>3
    <3>7. i = 2 => q[1].do # "columns_created"
      BY <1>4
    <3> HIDE DEF j
    <3>8. Going(a, f, k, p, t, j)
      BY <2>1, <3>4, <3>5, <3>6, <3>7, GoingOn
    <3> QED
      BY <3>8 DEF j
  <2>3. CASE q[i].do \notin {"enabled", "disabled", "vanishes"}
    BY <1>1, <2>3 DEF Going
  <2> QED
    BY <2>2, <2>3
<1>5. ASSUME NEW j \in DOMAIN p PROVE Going(a, f, k, p, t, j)
  <2>1. CASE j \in 1..n
    BY <2>1
  <2>2. CASE j \notin 1..n
    <3>1. j - n \in Nat /\ (j - n) + 1 \in 2..Len(q) /\ (((j - n) + 1) - 1) + n = j
      BY <1>1, <2>2
    <3>2. CASE q[1].do = "columns_created" /\ (j - n) + 1 = 2
      <4>1. j = 1 + n
        BY <1>1, <3>1, <3>2
      <4> QED
        BY <3>2, <4>1
    <3>3. CASE q[1].do # "columns_created" \/ (j - n) + 1 # 2
      <4> DEFINE m == (j - n) + 1
      <4>1. m \in 2..Len(q) /\ (m - 1) + n = j /\ (q[1].do # "columns_created" \/ m # 2)
        BY <3>1, <3>3
      <4> HIDE DEF m
      <4>2. Going(a, f, k, p, t, (m - 1) + n)
        BY <1>4, <4>1
      <4> QED
        BY <4>1, <4>2
    <3> QED
      BY <3>2, <3>3
  <2> QED
    BY <2>1, <2>2
<1>6. ASSUME p # <<>> PROVE Creating(a, f, k, t, p[1])
  <2> SUFFICES ASSUME n = 0 PROVE p[1].do # "columns_created"
    BY <1>1 DEF Creating
  <2>1. Len(p) > 0
    BY <1>1, <1>6
  <2>2. 2 \in 2..Len(q) /\ (2 - 1) + n = 1 /\ 2 \in DOMAIN q
    BY <1>1, <2>1
  <2>3. p[1] = q[2] /\ Chained(q, 2)
    BY <1>1, <2>2 DEF Stacked
  <2> QED
    BY <2>3 DEF Chained, Enabling
<1> QED
  BY <1>3, <1>5, <1>6 DEF Informed

\* What the visibles of d show depends on the columns of d, if it is enabled.
LEMMA SameKeeps ==
  ASSUME NEW a, NEW e, NEW c, NEW s, NEW f, NEW k, NEW d,
         f[d] = e[d], k[d] = c[d] \/ ~e[d]
  PROVE  Keeps(a, e, c, s, f, k, s, d) /\ Marked(a, s, f, k, s, d)
<1>1. ASSUME NEW u \in DataVisibles, s.of[u] = d PROVE Fits(e, c, s, u) => Fits(f, k, s, u)
  <2>1. Shown(e, c, s, u) = Shown(f, k, s, u)
    BY <1>1 DEF Shown, In
  <2> QED
    BY <2>1 DEF Fits
<1>2. d = Main => FitsGrid(a, e, c, s) = FitsGrid(a, f, k, s)
  BY DEF FitsGrid
<1> QED
  BY <1>1, <1>2 DEF Keeps, Marked

\* A call makes others of its datasource, or has been made.
LEMMA CalledInformed ==
  ASSUME Safe, Informed(automatic, enabled, columns, todo, vis), todo # <<>>,
         NEW p, NEW n, Over(todo, p, n), NEW f, NEW k,
         todo[1].do # "columns_created",
         \A d \in Datasources : d # todo[1].d => f[d] = enabled[d] /\ k[d] = columns[d],
         \/ Telling(f, p, todo[1].d)
         \/ Settled(automatic, f, k, vis, todo[1].d)
         \/ /\ f[todo[1].d] = enabled[todo[1].d]
            /\ k[todo[1].d] = columns[todo[1].d] \/ ~enabled[todo[1].d]
            /\ ~Tells(enabled, todo[1], todo[1].d),
         \A i \in 1..n : /\ p[i].it = Start \/ p[i].do = "row_changed"
                         /\ p[i].do # "vanishes"
                         /\ p[i].do = "enabled" => f[p[i].d] /\ i = 2 /\ p[1].do = "columns_created"
                         /\ p[i].do = "disabled" => ~f[p[i].d]
  PROVE  Informed(automatic, f, k, p, vis)
<1>1. todo \in Seq(Items) /\ Stacked(todo) /\ n \in Nat
  BY DEF Safe, Types, Over
<1>2. ASSUME NEW d \in Datasources
      PROVE  \/ Telling(f, p, d)
             \/ Settled(automatic, f, k, vis, d)
             \/ /\ f[d] = enabled[d] /\ Keeps(automatic, enabled, columns, vis, f, k, vis, d)
                /\ ~Tells(enabled, todo[1], d)
  <2>1. CASE d = todo[1].d
    BY <2>1, SameKeeps
  <2>2. CASE d # todo[1].d
    BY <2>2, SameKeeps DEF Tells
  <2> QED
    BY <2>1, <2>2
<1>3. todo[1].d = Listed => /\ f[Main] = enabled[Main]
                            /\ Keeps(automatic, enabled, columns, vis, f, k, vis, Main)
                            /\ Marked(automatic, vis, f, k, vis, Main)
  BY Kinds, SameKeeps
<1>4. ASSUME NEW i \in 1..n PROVE Going(automatic, f, k, p, vis, i)
  BY Kinds DEF Going
<1>5. n > 0 => Creating(automatic, f, k, vis, p[1])
  <2> SUFFICES ASSUME n > 0 PROVE Creating(automatic, f, k, vis, p[1])
    OBVIOUS
  <2>1. 1 \in 1..n
    BY <1>1
  <2> QED
    BY <2>1 DEF Creating
<1>6. todo[1].do = "columns_created" => Going(automatic, f, k, p, vis, 1 + n)
  OBVIOUS
<1> DEFINE a == automatic
           e == enabled
           c == columns
           s == vis
           q == todo
<1> HIDE DEF a, e, c, s, q
<1>7. Informed(a, f, k, p, s)
  <2>1. q \in Seq(Items) /\ q # <<>> /\ Stacked(q) /\ Informed(a, e, c, q, s) /\ Over(q, p, n)
    BY <1>1 DEF a, e, c, s, q
  <2>2. \A d \in Datasources : \/ Telling(f, p, d)
                               \/ Settled(a, f, k, s, d)
                               \/ f[d] = e[d] /\ Keeps(a, e, c, s, f, k, s, d) /\ ~Tells(e, q[1], d)
    BY <1>2 DEF a, e, c, s, q
  <2>3. q[1].d = Listed => /\ f[Main] = e[Main] /\ Keeps(a, e, c, s, f, k, s, Main)
                           /\ Marked(a, s, f, k, s, Main)
    BY <1>3 DEF a, e, c, s, q
  <2>4. /\ \A i \in 1..n : Going(a, f, k, p, s, i)
        /\ n > 0 => Creating(a, f, k, s, p[1])
        /\ q[1].do = "columns_created" => Going(a, f, k, p, s, 1 + n)
    BY <1>4, <1>5, <1>6 DEF a, s, q
  <2> QED
    BY <2>1, <2>2, <2>3, <2>4, StepInformed, ZenonT(120)
<1> QED
  BY <1>7 DEF a, s

LEMMA QueryFailsKnowing ==
  ASSUME Safe, Knowing, QueryFails
  PROVE  Informed(automatic, enabled, columns, todo', vis)
<1>1. todo # <<>> /\ todo[1].do = "query" /\ todo' = Tail(todo)
  BY DEF QueryFails, Doing
<1>2. Over(todo, Tail(todo), 0)
  BY <1>1, TailOver DEF Safe, Types
<1>3. \A i \in 1..0 : FALSE
  OBVIOUS
<1>4. ~Tells(enabled, todo[1], todo[1].d)
  BY <1>1 DEF Tells
<1> QED
  BY <1>1, <1>2, <1>3, <1>4, CalledInformed DEF Knowing

LEMMA QuerySucceedsKnowing ==
  ASSUME Safe, Knowing, QuerySucceeds
  PROVE  Informed(automatic, enabled', columns', todo', vis)
<1> DEFINE d == todo[1].d
           created == Item("columns_created", d)
           told == Item("enabled", d)
           h == <<created, told>>
           p == h \o Tail(todo)
<1>1. PICK names \in Queries[d] :
        /\ todo # <<>> /\ todo[1].do = "query" /\ todo' = p
        /\ columns' = [columns EXCEPT ![d] = names] /\ enabled' = [enabled EXCEPT ![d] = TRUE]
  BY DEF QuerySucceeds, Doing
<1>2. /\ todo \in Seq(Items)
      /\ enabled \in [Datasources -> BOOLEAN] /\ columns \in [Datasources -> SUBSET Names]
  BY DEF Safe, Types
<1>3. d \in Datasources
  BY <1>1, <1>2, ItemsAre
<1>5. /\ created \in Items /\ created.do = "columns_created" /\ created.d = d /\ created.it = Start
      /\ told \in Items /\ told.do = "enabled" /\ told.d = d /\ told.it = Start
  <2>1. "columns_created" \in Dos /\ "enabled" \in Dos
    BY DEF Dos, Walks, Restarting
  <2> QED
    BY <1>3, <2>1, ItemIs
<1> HIDE DEF d, created, told
<1>7. /\ h \in Seq(Items) /\ Len(h) = 2 /\ h[1] = created /\ h[2] = told
      /\ \A j \in 1..Len(h) : h[j].d = d
  BY <1>5
<1> HIDE DEF h
<1>8. /\ p \in Seq(Items) /\ Over(todo, p, 2) /\ p[1] = created /\ p[2] = told /\ 2 \in DOMAIN p
  <2>1. /\ p \in Seq(Items) /\ Over(todo, p, Len(h))
        /\ \A j \in 1..Len(h) : p[j] = h[j] /\ j \in DOMAIN p
    <3>1. \A j \in 1..Len(h) : h[j].d = todo[1].d
      BY <1>7 DEF d
    <3> QED
      BY <1>1, <1>2, <1>7, <3>1, PushedIs
  <2>2. 1 \in 1..2 /\ 2 \in 1..2
    OBVIOUS
  <2> HIDE DEF p
  <2> QED
    BY <1>7, <2>1, <2>2
<1> HIDE DEF p
<1>9. enabled'[d] /\ \A x \in Datasources : x # d => enabled'[x] = enabled[x] /\ columns'[x] = columns[x]
  BY <1>1, <1>2, <1>3
<1>10. Telling(enabled', p, d)
  BY <1>5, <1>8 DEF Telling, Tells
<1>11. \A i \in 1..2 : /\ p[i].it = Start /\ p[i].do # "vanishes"
                       /\ p[i].do = "enabled" => enabled'[p[i].d] /\ i = 2 /\ p[1].do = "columns_created"
                       /\ p[i].do = "disabled" => ~enabled'[p[i].d]
  BY <1>5, <1>8, <1>9
<1>12. Informed(automatic, enabled', columns', p, vis)
  <2> DEFINE f == enabled'
             k == columns'
  <2>1. /\ \A x \in Datasources : x # todo[1].d => f[x] = enabled[x] /\ k[x] = columns[x]
        /\ Telling(f, p, todo[1].d)
        /\ \A i \in 1..2 : /\ p[i].it = Start /\ p[i].do # "vanishes"
                           /\ p[i].do = "enabled" => f[p[i].d] /\ i = 2 /\ p[1].do = "columns_created"
                           /\ p[i].do = "disabled" => ~f[p[i].d]
    BY <1>9, <1>10, <1>11 DEF d
  <2> HIDE DEF f, k
  <2>2. Informed(automatic, f, k, p, vis)
    BY <1>1, <1>8, <2>1, CalledInformed DEF Knowing
  <2> QED
    BY <2>2 DEF f, k
<1> QED
  BY <1>1, <1>12

LEMMA DisableKnowing ==
  ASSUME Safe, Knowing, Disable
  PROVE  Informed(automatic, enabled', columns, todo', vis)
<1> DEFINE d == todo[1].d
           told == Item("disabled", d)
           h == <<told>>
           f == [enabled EXCEPT ![d] = FALSE]
<1>1. /\ todo # <<>> /\ todo[1].do = "disable" /\ enabled' = f
      /\ todo' = (IF enabled[d] THEN h \o Tail(todo) ELSE Tail(todo))
  BY DEF Disable, Doing
<1>2. todo \in Seq(Items) /\ enabled \in [Datasources -> BOOLEAN]
  BY DEF Safe, Types
<1>3. Over(todo, Tail(todo), 0) /\ d \in Datasources
  BY <1>1, <1>2, TailOver, ItemsAre
<1>4. told \in Items /\ told.do = "disabled" /\ told.d = d /\ told.it = Start
  <2>1. "disabled" \in Dos
    BY DEF Dos, Walks, Restarting
  <2> QED
    BY <1>3, <2>1, ItemIs
<1>5. ~f[d] /\ \A x \in Datasources : x # d => f[x] = enabled[x]
  BY <1>2, <1>3
<1> HIDE DEF told, f
<1>6. CASE enabled[d]
  <2> DEFINE p == h \o Tail(todo)
  <2>1. h \in Seq(Items) /\ Len(h) = 1 /\ h[1] = told /\ \A j \in 1..Len(h) : h[j].d = todo[1].d
    BY <1>4
  <2> HIDE DEF h
  <2>2. /\ p \in Seq(Items) /\ Over(todo, p, Len(h))
        /\ \A j \in 1..Len(h) : p[j] = h[j] /\ j \in DOMAIN p
    BY <1>1, <1>2, <2>1, PushedIs
  <2>3. todo' = p
    BY <1>1, <1>6
  <2> HIDE DEF p
  <2>4. Over(todo, p, 1) /\ p[1] = told /\ 1 \in DOMAIN p
    BY <2>1, <2>2
  <2>5. Telling(f, p, d)
    BY <1>4, <2>4 DEF Telling, Tells
  <2>6. \A i \in 1..1 : /\ p[i].it = Start /\ p[i].do # "vanishes" /\ p[i].do # "enabled"
                       /\ ~f[p[i].d]
    BY <1>4, <1>5, <2>4
  <2>7. Informed(automatic, f, columns, p, vis)
    BY <1>1, <1>5, <2>4, <2>5, <2>6, CalledInformed DEF Knowing
  <2> QED
    BY <1>1, <2>3, <2>7
<1>7. CASE ~enabled[d]
  <2>1. todo' = Tail(todo) /\ \A i \in 1..0 : FALSE
    BY <1>1, <1>7
  <2>2. ~Tells(enabled, todo[1], d)
    BY <1>1, <1>7 DEF Tells
  <2>3. f[d] = enabled[d]
    BY <1>2, <1>3, <1>7 DEF f
  <2> QED
    BY <1>1, <1>3, <1>5, <2>1, <2>2, <2>3, CalledInformed DEF Knowing
<1> QED
  BY <1>6, <1>7

\* The datasource has no visibles any more, and nothing else is under way.
LEMMA DestroyKnowing ==
  ASSUME Safe, Knowing, Destroy
  PROVE  Informed(automatic, enabled', columns, todo', vis)
<1> DEFINE d == todo[1].d
           f == [enabled EXCEPT ![d] = FALSE]
<1>1. todo # <<>> /\ todo[1].do = "destroy" /\ todo' = Tail(todo) /\ enabled' = f
  BY DEF Destroy, Doing
<1>2. /\ todo \in Seq(Items) /\ Stacked(todo) /\ enabled \in [Datasources -> BOOLEAN]
      /\ Working(enabled, columns, todo, vis)
  BY DEF Safe, Types
<1>3. Over(todo, Tail(todo), 0) /\ d \in Datasources /\ 1 \in DOMAIN todo
  BY <1>1, <1>2, TailOver, ItemsAre
<1>4. \A v \in Visibles : vis.of[v] # d
  BY <1>1, <1>2, <1>3 DEF Working
<1>5. \A x \in Datasources : x # d => f[x] = enabled[x]
  BY <1>2, <1>3
<1> HIDE DEF f
<1>6. Settled(automatic, f, columns, vis, d)
  <2>1. Grid \in Visibles
    BY Kinds
  <2> QED
    BY <1>4, <2>1, Kinds DEF Settled, FitsGrid
<1>7. \A i \in 1..0 : FALSE
  OBVIOUS
<1> QED
  BY <1>1, <1>3, <1>5, <1>6, <1>7, CalledInformed DEF Knowing

LEMMA EnableKnowing ==
  ASSUME Safe, Knowing, Enable
  PROVE  Informed(automatic, enabled, columns, todo', vis)
<1> DEFINE d == todo[1].d
           gone == Item("columns_gone", d)
           delete == Item("delete_columns", d)
           query == Item("query", d)
           Quiet(p, n) == \A i \in 1..n : /\ p[i].it = Start
                                          /\ p[i].do \notin {"enabled", "disabled", "vanishes"}
<1>1. /\ todo # <<>> /\ todo[1].do = "enable"
      /\ todo' = (IF enabled[d] THEN Tail(todo)
                  ELSE (IF columns[d] = {} THEN <<>> ELSE <<gone, delete>>) \o <<query>> \o Tail(todo))
  BY DEF Enable, Doing
<1>2. todo \in Seq(Items)
  BY DEF Safe, Types
<1>3. Over(todo, Tail(todo), 0) /\ d \in Datasources /\ Tail(todo) \in Seq(Items)
  BY <1>1, <1>2, TailOver, ItemsAre
<1>4. /\ gone \in Items /\ gone.do = "columns_gone" /\ gone.d = d /\ gone.it = Start
      /\ delete \in Items /\ delete.do = "delete_columns" /\ delete.d = d /\ delete.it = Start
      /\ query \in Items /\ query.do = "query" /\ query.d = d /\ query.it = Start
  <2>1. "columns_gone" \in Dos /\ "delete_columns" \in Dos /\ "query" \in Dos
    BY DEF Dos, Walks, Restarting
  <2> QED
    BY <1>3, <2>1, ItemIs
<1>5. ASSUME NEW p, NEW n, Over(todo, p, n), Quiet(p, n)
      PROVE  Informed(automatic, enabled, columns, p, vis)
  <2>1. ~Tells(enabled, todo[1], d)
    BY <1>1 DEF Tells
  <2>2. \A i \in 1..n : /\ p[i].it = Start /\ p[i].do # "vanishes" /\ p[i].do # "enabled"
                        /\ p[i].do # "disabled"
    BY <1>5
  <2> QED
    BY <1>1, <1>5, <2>1, <2>2, CalledInformed DEF Knowing
<1> HIDE DEF gone, delete, query
<1>6. CASE enabled[d]
  <2>1. todo' = Tail(todo) /\ Quiet(Tail(todo), 0)
    BY <1>1, <1>6
  <2> QED
    BY <1>3, <1>5, <2>1
<1>7. CASE ~enabled[d] /\ columns[d] = {}
  <2> DEFINE h == <<query>>
             p == h \o Tail(todo)
  <2>1. h \in Seq(Items) /\ Len(h) = 1 /\ h[1] = query /\ \A j \in 1..Len(h) : h[j].d = todo[1].d
    BY <1>4
  <2>2. todo' = p
    <3>1. todo' = <<>> \o <<query>> \o Tail(todo)
      BY <1>1, <1>7
    <3>2. <<>> \o <<query>> = <<query>>
      BY <1>4
    <3> QED
      BY <3>1, <3>2
  <2> HIDE DEF h
  <2>3. /\ p \in Seq(Items) /\ Over(todo, p, Len(h))
        /\ \A j \in 1..Len(h) : p[j] = h[j] /\ j \in DOMAIN p
    BY <1>1, <1>2, <2>1, PushedIs
  <2> HIDE DEF p
  <2>4. Quiet(p, Len(h))
    BY <1>4, <2>1, <2>3
  <2> QED
    BY <1>5, <2>2, <2>3, <2>4
<1>8. CASE ~enabled[d] /\ columns[d] # {}
  <2> DEFINE h == <<gone, delete>> \o <<query>>
             p == h \o Tail(todo)
  <2>1. /\ h \in Seq(Items) /\ Len(h) = 3 /\ h[1] = gone /\ h[2] = delete /\ h[3] = query
        /\ \A j \in 1..Len(h) : h[j].d = todo[1].d
    BY <1>4
  <2>2. todo' = p
    BY <1>1, <1>8
  <2> HIDE DEF h
  <2>3. /\ p \in Seq(Items) /\ Over(todo, p, Len(h))
        /\ \A j \in 1..Len(h) : p[j] = h[j] /\ j \in DOMAIN p
    BY <1>1, <1>2, <2>1, PushedIs
  <2> HIDE DEF p
  <2>4. Quiet(p, Len(h))
    <3>1. \A j \in 1..3 : j = 1 \/ j = 2 \/ j = 3
      OBVIOUS
    <3> QED
      BY <1>4, <2>1, <2>3, <3>1
  <2> QED
    BY <1>5, <2>2, <2>3, <2>4
<1> QED
  BY <1>6, <1>7, <1>8

\* Scripts run on their own, and their calls are not yet made.
LEMMA ScriptRequeriesKnowing ==
  ASSUME Safe, Knowing, ScriptRequeries
  PROVE  Informed(automatic, enabled, columns, todo', vis)
<1> DEFINE it == After(vis.list[todo[1].d], AtIterator)
           p == Iterated(todo, it)
<1>1. PICK d \in Datasources :
        /\ Walking /\ todo[1].do = "row_changed" /\ AtIterator # End
        /\ todo' = <<Item("disable", d), Item("enable", d)>> \o p
  BY DEF ScriptRequeries, Iterated
<1> DEFINE off == Item("disable", d)
           on == Item("enable", d)
           h == <<off, on>>
           q == h \o p
<1>2. todo \in Seq(Items) /\ todo # <<>> /\ Stacked(todo)
  BY <1>1, WalkIs DEF Safe
<1>3. it \in Iterators
  <2> DEFINE s == Told(todo[1].do, vis, AtIterator)
             list == vis.list[todo[1].d]
  <2>1. NextAfter(todo[1].do, s, list, AtIterator) = it
    BY <1>1 DEF NextAfter, Restarting
  <2> HIDE DEF it, s
  <2> QED
    BY <1>1, <2>1, NextAfterIs DEF s
<1>4. Len(todo) = 1 /\ todo[1].d = Main
  BY <1>1, <1>2, ItemsAre DEF Stacked, Chained, Walked
<1> HIDE DEF it
<1>5. p \in Seq(Items) /\ Len(p) = 1 /\ p[1].do = "row_changed"
  BY <1>1, <1>2, <1>3, <1>4, IteratedIs
<1> HIDE DEF p
<1>6. /\ off \in Items /\ off.do = "disable" /\ off.it = Start
      /\ on \in Items /\ on.do = "enable" /\ on.it = Start
  <2>1. "disable" \in Dos /\ "enable" \in Dos
    BY DEF Dos
  <2> QED
    BY <2>1, ItemIs
<1>7. todo' = q
  BY <1>1
<1> HIDE DEF off, on
<1>8. h \in Seq(Items) /\ Len(h) = 2 /\ h[1] = off /\ h[2] = on
  BY <1>6
<1> HIDE DEF h
<1>9. /\ q \in Seq(Items) /\ Len(q) = 3 /\ q[1] = off /\ q[2] = on /\ q[3] = p[1]
  <2>1. 1 \in 1..2 /\ 2 \in 1..2 /\ 1 \in 1..1 /\ 1 + 2 = 3 /\ 2 + 1 = 3
    OBVIOUS
  <2>2. /\ q \in Seq(Items) /\ Len(q) = Len(h) + Len(p)
        /\ \A i \in 1..Len(h) : q[i] = h[i]
        /\ \A i \in 1..Len(p) : q[i + Len(h)] = p[i]
    BY <1>5, <1>8, JoinedIs
  <2> HIDE DEF q
  <2>3. q[1 + 2] = p[1]
    BY <1>5, <1>8, <2>1, <2>2
  <2> QED
    BY <1>5, <1>8, <2>1, <2>2, <2>3
<1> HIDE DEF q
<1>10. Over(todo, q, 3)
  <2>1. \A i \in 2..1 : FALSE
    OBVIOUS
  <2>2. todo[1].d # Listed
    BY <1>4, Kinds
  <2> QED
    BY <1>4, <1>9, <2>1, <2>2 DEF Over
<1>11. \A i \in 1..3 : /\ q[i].it = Start \/ q[i].do = "row_changed"
                       /\ q[i].do # "vanishes" /\ q[i].do # "enabled" /\ q[i].do # "disabled"
  <2>1. \A j \in 1..3 : j = 1 \/ j = 2 \/ j = 3
    OBVIOUS
  <2> QED
    BY <1>5, <1>6, <1>9, <2>1
<1>12. ~Tells(enabled, todo[1], todo[1].d)
  BY <1>1 DEF Tells
<1>13. Informed(automatic, enabled, columns, q, vis)
  BY <1>1, <1>2, <1>10, <1>11, <1>12, CalledInformed DEF Knowing
<1> QED
  BY <1>7, <1>13

\* Who shows what the datasource has lost is told before; a datasource that is
\* enabled keeps its columns.
LEMMA DeleteColumnsKnowing ==
  ASSUME Safe, Knowing, DeleteColumns
  PROVE  Informed(automatic, enabled, columns', todo', vis')
<1> DEFINE d == todo[1].d
           a == automatic
           e == enabled
           k == columns'
           t == vis'
           p == Tail(todo)
<1>1. /\ todo # <<>> /\ todo[1].do = "delete_columns" /\ todo' = p
      /\ k = [columns EXCEPT ![d] = {}]
      /\ t = [vis EXCEPT !.column = [v \in DataVisibles |-> Lost(d, vis.column[v])],
                         !.view = Lost(d, @)]
  BY DEF DeleteColumns, Doing
<1>2. /\ vis \in Vis /\ Stacked(todo) /\ Working(e, columns, todo, vis)
      /\ AllAlive(columns, vis) /\ todo \in Seq(Items) /\ columns \in [Datasources -> SUBSET Names]
      /\ Informed(a, e, columns, todo, vis)
  BY DEF Safe, Types, Knowing
<1>3. /\ d \in Datasources /\ 1 \in DOMAIN todo
      /\ \A v \in Visibles : vis.of[v] = d => Cleared(vis, v)
  BY <1>1, <1>2, ItemsAre DEF Working
<1>4. /\ k[d] = {} /\ \A x \in Datasources : x # d => k[x] = columns[x]
  BY <1>1, <1>2, <1>3
<1>5. /\ t.of = vis.of /\ t.cols = vis.cols /\ t.handled = vis.handled
      /\ \A v \in DataVisibles : t.column[v] = Lost(d, vis.column[v])
  <2> DEFINE pointers == [v \in DataVisibles |-> Lost(d, vis.column[v])]
             w == Lost(d, vis.view)
  <2>1. vis = [list |-> vis.list, of |-> vis.of, column |-> vis.column, view |-> vis.view,
               cols |-> vis.cols, handled |-> vis.handled]
    BY <1>2 DEF Vis
  <2>2. \A v \in DataVisibles : pointers[v] = Lost(d, vis.column[v])
    OBVIOUS
  <2>3. t = [vis EXCEPT !.column = pointers, !.view = w]
    BY <1>1
  <2> HIDE DEF pointers, t, w
  <2>4. t = [list |-> vis.list, of |-> vis.of, column |-> pointers, view |-> w,
             cols |-> vis.cols, handled |-> vis.handled]
    BY <2>1, <2>3
  <2> QED
    BY <2>2, <2>4
<1> HIDE DEF t, k
<1>6. Over(todo, p, 0)
  BY <1>1, <1>2, TailOver
<1>7. ~e[d] \/ \A v \in Visibles : vis.of[v] # d
  <2>1. Then(todo, 1, "query") \/ Then(todo, 1, "destroy")
    BY <1>1, <1>2, <1>3 DEF Stacked, Chained, Enabling
  <2>2. /\ 1 + 1 = 2 /\ 2 < 3
    OBVIOUS
  <2>3. 2 \in DOMAIN todo /\ (todo[2] = Item("query", d) \/ todo[2] = Item("destroy", d))
    BY <2>1, <2>2 DEF Then
  <2> HIDE DEF d, e
  <2>4. CASE todo[2] = Item("query", d)
    <3>1. todo[2].do = "query" /\ todo[2].d = d
      BY <2>4 DEF Item
    <3> QED
      BY <1>2, <2>3, <3>1 DEF Working
  <2>5. CASE todo[2] = Item("destroy", d)
    <3>1. todo[2].do = "destroy" /\ todo[2].d = d
      BY <2>5 DEF Item
    <3> QED
      BY <1>2, <2>2, <2>3, <3>1 DEF Working
  <2> QED
    BY <2>3, <2>4, <2>5
<1>8. ASSUME NEW x \in Datasources
      PROVE  Keeps(a, e, columns, vis, e, k, t, x) /\ Marked(a, vis, e, k, t, x)
  <2>1. ASSUME NEW u \in DataVisibles, vis.of[u] = x, Fits(e, columns, vis, u) PROVE Fits(e, k, t, u)
    <3>1. x # NoSource /\ vis.column[u] = Shown(e, columns, vis, u)
      BY <2>1, Kinds DEF Fits
    <3>2. CASE x = d
      <4>1. ~e[d] /\ Cleared(vis, u) /\ u \in Visibles
        BY <1>3, <1>7, <2>1, <3>2, Kinds
      <4>2. t.column[u] = Null
        BY <1>3, <1>5, <4>1, Kinds DEF Cleared, Lost
      <4>3. Shown(e, k, t, u) = Null
        BY <1>5, <2>1, <3>2, <4>1 DEF Shown
      <4> QED
        BY <4>2, <4>3 DEF Fits
    <3>3. CASE x # d
      <4>1. vis.column[u] \in Pointing(columns, x)
        BY <1>2, <2>1 DEF AllAlive, Alive
      <4>2. t.column[u] = vis.column[u]
        BY <1>3, <1>5, <3>3, <4>1, Kinds DEF Lost, Pointing
      <4>3. Shown(e, k, t, u) = Shown(e, columns, vis, u)
        BY <1>4, <1>5, <2>1, <3>3 DEF Shown, In
      <4> QED
        BY <3>1, <4>2, <4>3 DEF Fits
    <3> QED
      BY <3>2, <3>3
  <2>2. ASSUME x = Main, FitsGrid(a, e, columns, vis) PROVE FitsGrid(a, e, k, t)
    <3>1. CASE x = d
      <4>1. Grid \in Visibles
        BY Kinds
      <4> QED
        BY <1>5, <1>7, <2>2, <3>1, <4>1 DEF FitsGrid
    <3>2. CASE x # d
      BY <1>4, <1>5, <2>2, <3>2 DEF FitsGrid
    <3> QED
      BY <3>1, <3>2
  <2> QED
    BY <1>5, <2>1, <2>2 DEF Keeps, Marked
<1>9. \A x : ~Tells(e, todo[1], x)
  BY <1>1 DEF Tells
<1>10. \A x \in Datasources :
         \/ Telling(e, p, x)
         \/ Settled(a, e, k, t, x)
         \/ e[x] = e[x] /\ Keeps(a, e, columns, vis, e, k, t, x) /\ ~Tells(e, todo[1], x)
  BY <1>8, <1>9
<1>11. \A i \in 1..0 : FALSE
  OBVIOUS
<1>12. Informed(a, e, k, p, t)
  <2>1. Main \in Datasources
    BY Kinds
  <2>2. Keeps(a, e, columns, vis, e, k, t, Main) /\ Marked(a, vis, e, k, t, Main)
    BY <1>8, <2>1
  <2>3. todo[1].do # "columns_created" /\ ~(0 > 0)
    BY <1>1
  <2> HIDE DEF a, e, p
  <2> QED
    BY <1>1, <1>2, <1>6, <1>10, <1>11, <2>2, <2>3, StepInformed, Zenon
<1> QED
  BY <1>1, <1>12 DEF k, t

\* What depends on the marks only through those who have one.
LEMMA RehandledKeeps ==
  ASSUME NEW a, NEW e, NEW c, NEW s, NEW t, Rehandled(s, t), t.handled \subseteq s.handled, NEW d
  PROVE  /\ Keeps(a, e, c, s, e, c, t, d) /\ Marked(a, s, e, c, t, d)
         /\ FitsGrid(a, e, c, s) <=> FitsGrid(a, e, c, t)
<1>1. \A u : Fits(e, c, s, u) <=> Fits(e, c, t, u)
  BY RehandledSame
<1>2. FitsGrid(a, e, c, s) <=> FitsGrid(a, e, c, t)
  BY DEF FitsGrid, Rehandled
<1> QED
  BY <1>1, <1>2 DEF Keeps, Marked, Rehandled

\* Nobody has been told yet.
LEMMA BeginWalkKnowing ==
  ASSUME Safe, Knowing, BeginWalk
  PROVE  Informed(automatic, enabled, columns, todo', vis')
<1> DEFINE d == todo[1].d
           do == todo[1].do
           list == vis.list[d]
           handled == IF do \in Restarting \cup {"columns_created"}
                      THEN vis.handled \ Range(list) ELSE vis.handled
           t == [vis EXCEPT !.handled = handled]
           p == Iterated(todo, Begin)
           a == automatic
           e == enabled
           c == columns
<1>1. todo # <<>> /\ do \in Walks /\ vis' = t /\ todo' = p
  BY DEF BeginWalk, Iterated
<1>2. /\ vis \in Vis /\ Linked(vis) /\ Stacked(todo) /\ todo \in Seq(Items)
      /\ Informed(a, e, c, todo, vis)
  BY DEF Safe, Types, Knowing
<1>3. 1 \in DOMAIN todo /\ d \in Datasources
  BY <1>1, <1>2, ItemsAre
<1>4. /\ list \in Seq(Visibles) /\ IsInjective(list)
      /\ Range(list) = { v \in Visibles : vis.of[v] = d }
  BY <1>2, <1>3, VisIs DEF Linked
<1>5. Rehandled(vis, t) /\ t.handled = handled /\ t.handled \subseteq vis.handled
  <2>1. handled \in SUBSET Visibles /\ handled \subseteq vis.handled
    BY <1>2, VisIs
  <2> HIDE DEF handled
  <2> QED
    BY <1>2, <2>1, RehandledIs
<1>6. t.of = vis.of /\ t.list = vis.list
  BY <1>5 DEF Rehandled
<1> HIDE DEF t
<1>7. Begin \in Iterators
  BY DEF Iterators
<1>8. /\ p \in Seq(Items) /\ Len(p) = Len(todo) /\ DOMAIN p = DOMAIN todo
      /\ p[1].do = do /\ p[1].d = d /\ p[1].it = Begin /\ Over(todo, p, 1)
      /\ \A i \in 2..Len(todo) : p[i] = todo[i]
  BY <1>1, <1>2, <1>7, IteratedIs, IteratedOver
<1> HIDE DEF p, a, e, c
<1>9. /\ \A x : Keeps(a, e, c, vis, e, c, t, x) /\ Marked(a, vis, e, c, t, x)
      /\ FitsGrid(a, e, c, vis) <=> FitsGrid(a, e, c, t)
  BY <1>5, RehandledKeeps
<1>10. \A x \in Datasources :
         \/ Telling(e, p, x)
         \/ Settled(a, e, c, t, x)
         \/ e[x] = e[x] /\ Keeps(a, e, c, vis, e, c, t, x) /\ ~Tells(e, todo[1], x)
  <2> SUFFICES ASSUME NEW x \in Datasources, Tells(e, todo[1], x) PROVE Telling(e, p, x)
    BY <1>9
  <2>1. Tells(e, p[1], x)
    BY <1>8 DEF Tells
  <2> QED
    BY <1>3, <1>8, <2>1 DEF Telling
<1>11. do \in Restarting => Range(list) \cap t.handled = {}
  BY <1>5
<1>12. ASSUME do \in Restarting PROVE Greeted(e, c, t, d)
  <2>1. \A u \in DataVisibles : t.of[u] = d => u \notin t.handled
    BY <1>4, <1>6, <1>11, <1>12, Kinds
  <2> QED
    BY <2>1 DEF Greeted
<1>13. ASSUME do \in Restarting, d = Main, Grid \in t.handled PROVE FitsGrid(a, e, c, t)
  <2>1. Grid \in Visibles
    BY Kinds
  <2>2. t.of[Grid] # Main
    BY <1>4, <1>6, <1>11, <1>13, <2>1
  <2> QED
    BY <2>2 DEF FitsGrid
<1>14. Going(a, e, c, todo, vis, 1)
  BY <1>2, <1>3 DEF Informed
<1>15. Going(a, e, c, p, t, 1)
  <2>1. CASE do = "enabled"
    BY <1>8, <1>9, <1>12, <1>14, <2>1 DEF Going, Restarting
  <2>2. CASE do = "disabled"
    BY <1>8, <1>9, <1>12, <1>13, <1>14, <2>2 DEF Going, Restarting
  <2>3. CASE do = "vanishes"
    <3>1. ~e[d] => Settled(a, e, c, t, d)
      BY <1>9, <1>14, <2>3, KeepsSettled DEF Going
    <3> QED
      BY <1>8, <2>3, <3>1 DEF Going
  <2>4. CASE do \notin {"enabled", "disabled", "vanishes"}
    BY <1>8, <2>4 DEF Going
  <2> QED
    BY <2>1, <2>2, <2>3, <2>4
<1>16. ASSUME do = "columns_created" PROVE Going(a, e, c, p, t, 1 + 1)
  <2>1. Then(todo, 1, "enabled") /\ 1 + 1 = 2
    BY <1>2, <1>3, <1>16 DEF Stacked, Chained, Enabling
  <2>2. 2 \in DOMAIN todo /\ todo[2] = Item("enabled", d) /\ 2 \in 2..Len(todo)
    BY <1>2, <2>1, ItemsAre DEF Then
  <2>3. p[2].do = "enabled" /\ p[2].d = d /\ p[2].it = Start /\ todo[2].do = "enabled" /\ todo[2].d = d
    BY <1>8, <2>2 DEF Item
  <2>4. e[d]
    BY <1>2, <2>2, <2>3 DEF Informed, Going
  <2> QED
    BY <1>8, <1>16, <2>1, <2>3, <2>4, Kinds DEF Going
<1>17. Creating(a, e, c, t, p[1])
  <2>1. Ahead(list, Begin) = Range(list)
    BY <1>4, AheadIs
  <2> QED
    BY <1>6, <1>8, <2>1 DEF Creating
<1>18. \A i \in 1..1 : Going(a, e, c, p, t, i)
  BY <1>15
<1>19. Informed(a, e, c, p, t)
  <2> HIDE DEF d, do
  <2> QED
    BY <1>1, <1>2, <1>8, <1>9, <1>10, <1>16, <1>17, <1>18, StepInformed DEF do
<1> QED
  BY <1>1, <1>19 DEF a, e, c

\* At the end of a walk everybody in the list fits: they have been told.
LEMMA WalkedAll ==
  ASSUME Safe, Knowing, Walking, AtIterator = End
  PROVE  LET d == todo[1].d
             do == todo[1].do
         IN  /\ do \in {"enabled", "disabled"} => Settled(automatic, enabled, columns, vis, d)
             /\ do = "columns_created" /\ d = Main => FitsGrid(automatic, enabled, columns, vis)
<1> DEFINE d == todo[1].d
           do == todo[1].do
           list == vis.list[d]
           k == Position(list, todo[1].it)
           a == automatic
           e == enabled
           c == columns
<1>1. todo \in Seq(Items) /\ todo # <<>> /\ do \in Walks /\ todo[1].it # Start
  BY DEF Safe, Types, Walking
<1>2. d \in Datasources /\ 1 \in DOMAIN todo
  BY <1>1, ItemsAre
<1>3. /\ list \in Seq(Visibles) /\ IsInjective(list)
      /\ Range(list) = { v \in Visibles : vis.of[v] = d }
  BY <1>2, VisIs DEF Safe, Types, Linked
<1>4. todo[1].it \in {Begin, End} \cup Range(list)
  BY <1>1, <1>2 DEF Safe, Undisturbed
<1>5. list = vis.list[todo[1].d]
  OBVIOUS
<1>6. Going(a, e, c, todo, vis, 1) /\ Creating(a, e, c, vis, todo[1])
  BY <1>1, <1>2 DEF Knowing, Informed
<1> HIDE DEF list, a, e, c
<1>7. \A i \in k..Len(list) : do \in Restarting /\ list[i] \in vis.handled
  <2> HIDE DEF d
  <2> QED
    BY <1>3, <1>4, <1>5, AtIteratorIs
<1>8. Grid \in Visibles
  BY Kinds
<1>9. ASSUME do \in {"enabled", "disabled"} PROVE Settled(a, e, c, vis, d)
  <2>1. todo[1].it = Begin
    <3>1. Resting(todo, 1)
      BY <1>2 DEF Safe, Stacked, Chained
    <3> QED
      BY <1>1, <1>9, <3>1 DEF Resting, Restarting
  <2>2. k = 1
    BY <1>3, <2>1, PositionIs
  <2>3. Range(list) \subseteq vis.handled
    BY <1>3, <1>7, <2>2 DEF Range
  <2>4. Greeted(e, c, vis, d)
    BY <1>6, <1>9, <2>1 DEF Going
  <2>5. \A u \in DataVisibles : vis.of[u] = d => Fits(e, c, vis, u)
    BY <1>3, <2>3, <2>4, Kinds DEF Greeted
  <2>6. d = Main => FitsGrid(a, e, c, vis)
    <3>1. CASE do = "enabled"
      BY <1>6, <3>1 DEF Going
    <3>2. CASE do = "disabled" /\ vis.of[Grid] = Main
      BY <1>3, <1>6, <1>8, <2>1, <2>3, <3>2 DEF Going
    <3>3. CASE vis.of[Grid] # Main
      BY <3>3 DEF FitsGrid
    <3> QED
      BY <1>9, <3>1, <3>2, <3>3
  <2> QED
    BY <2>5, <2>6 DEF Settled
<1>10. ASSUME do = "columns_created", d = Main PROVE FitsGrid(a, e, c, vis)
  <2>1. Ahead(list, todo[1].it) = {}
    BY <1>7, <1>10 DEF Ahead, Restarting
  <2>2. Grid \in Range(list) => FitsGrid(a, e, c, vis)
    BY <1>1, <1>5, <1>6, <1>10, <2>1 DEF Creating
  <2> QED
    BY <1>3, <1>8, <1>10, <2>2 DEF FitsGrid
<1> QED
  BY <1>9, <1>10 DEF a, e, c

LEMMA EndWalkKnowing ==
  ASSUME Safe, Knowing, EndWalk
  PROVE  Informed(automatic, enabled, columns, todo', vis')
<1> DEFINE d == todo[1].d
           do == todo[1].do
           t == vis'
           p == Tail(todo)
           a == automatic
           e == enabled
           c == columns
<1>1. /\ Walking /\ AtIterator = End /\ todo # <<>> /\ todo[1].do \in Walks /\ todo[1].it # Start
      /\ t = (IF Len(todo) = 1 THEN [vis EXCEPT !.handled = {}] ELSE vis) /\ todo' = p
  BY DEF EndWalk, Walking
<1> HIDE DEF t
<1>2. vis \in Vis /\ Stacked(todo) /\ todo \in Seq(Items) /\ Informed(a, e, c, todo, vis)
  BY DEF Safe, Types, Knowing
<1>3. Rehandled(vis, t) /\ t.handled \subseteq vis.handled
  <2>1. Rehandled(vis, vis)
    BY <1>2 DEF Rehandled
  <2>2. Rehandled(vis, [vis EXCEPT !.handled = {}]) /\ [vis EXCEPT !.handled = {}].handled = {}
    BY <1>2, RehandledIs
  <2> QED
    BY <1>1, <2>1, <2>2
<1>4. /\ p \in Seq(Items) /\ Over(todo, p, 0) /\ Len(p) = Len(todo) - 1
      /\ \A i \in 1..Len(p) : p[i] = todo[i + 1]
      /\ Len(todo) \in Nat /\ DOMAIN todo = 1..Len(todo) /\ Len(todo) > 0 /\ DOMAIN p = 1..Len(p)
  BY <1>1, <1>2, TailOver, ItemsAre
<1>5. /\ do \in {"enabled", "disabled"} => Settled(a, e, c, vis, d)
      /\ do = "columns_created" /\ d = Main => FitsGrid(a, e, c, vis)
  BY <1>1, WalkedAll
<1> HIDE DEF p, a, e, c
<1>6. /\ \A x : Keeps(a, e, c, vis, e, c, t, x) /\ Marked(a, vis, e, c, t, x)
      /\ FitsGrid(a, e, c, vis) <=> FitsGrid(a, e, c, t)
  BY <1>3, RehandledKeeps
<1>7. 1 \in DOMAIN todo /\ 1 + 1 = 2 /\ Going(a, e, c, todo, vis, 1)
  BY <1>2, <1>4 DEF Informed
<1>8. 2 \in DOMAIN todo => p[1] = todo[2] /\ 1 \in DOMAIN p
  <2> SUFFICES ASSUME 2 \in 1..Len(todo) PROVE p[1] = todo[2] /\ 1 \in 1..Len(p)
    BY <1>4
  <2>1. 1 \in 1..Len(p)
    BY <1>4
  <2> QED
    BY <1>4, <1>7, <2>1
<1>9. ASSUME NEW x \in Datasources, Tells(e, todo[1], x)
      PROVE  Telling(e, p, x) \/ Settled(a, e, c, t, x)
  <2>1. d = x /\ do \in {"enabled", "disabled", "vanishes"}
    BY <1>1, <1>9 DEF Tells, Walks, Restarting
  <2>2. CASE do = "vanishes" /\ e[d]
    <3>1. Then(todo, 1, "disable")
      BY <1>2, <1>7, <2>2 DEF Stacked, Chained, Walked
    <3>2. 2 \in DOMAIN todo /\ todo[2] = Item("disable", d)
      BY <1>7, <3>1 DEF Then
    <3>3. Tells(e, p[1], x)
      BY <1>8, <2>1, <2>2, <3>2 DEF Tells, Item
    <3> QED
      BY <1>8, <3>2, <3>3 DEF Telling
  <2>3. CASE do = "vanishes" /\ ~e[d]
    BY <1>6, <1>7, <2>1, <2>3, KeepsSettled DEF Going
  <2>4. CASE do \in {"enabled", "disabled"}
    BY <1>5, <1>6, <2>1, <2>4, KeepsSettled
  <2> QED
    BY <2>1, <2>2, <2>3, <2>4
<1>10. \A x \in Datasources :
         \/ Telling(e, p, x)
         \/ Settled(a, e, c, t, x)
         \/ e[x] = e[x] /\ Keeps(a, e, c, vis, e, c, t, x) /\ ~Tells(e, todo[1], x)
  BY <1>6, <1>9
<1>11. ASSUME do = "columns_created" PROVE Going(a, e, c, p, t, 1 + 0)
  <2>1. Then(todo, 1, "enabled") /\ 1 + 0 = 1
    BY <1>2, <1>7, <1>11 DEF Stacked, Chained, Enabling
  <2>2. 2 \in DOMAIN todo /\ todo[2] = Item("enabled", d)
    BY <1>7, <2>1 DEF Then
  <2>3. todo[2].do = "enabled" /\ todo[2].d = d /\ todo[2].it = Start
    BY <2>2 DEF Item
  <2>4. e[d]
    BY <1>2, <2>2, <2>3 DEF Informed, Going
  <2> QED
    BY <1>5, <1>6, <1>8, <1>11, <2>1, <2>2, <2>3, <2>4, Kinds DEF Going
<1>12. (\A i \in 1..0 : FALSE) /\ ~(0 > 0)
  OBVIOUS
<1>13. Informed(a, e, c, p, t)
  <2> HIDE DEF d, do
  <2> QED
    BY <1>1, <1>2, <1>4, <1>6, <1>10, <1>11, <1>12, StepInformed DEF do
<1> QED
  BY <1>1, <1>13 DEF a, e, c, t

\* What a walk tells of its datasource is so.
LEMMA ToldOf ==
  ASSUME Safe, Informed(automatic, enabled, columns, todo, vis), todo # <<>>
  PROVE  LET do == todo[1].do
             d == todo[1].d
         IN  /\ do \in {"enabled", "columns_created"} => enabled[d]
             /\ do \in {"disabled", "columns_gone"} => ~enabled[d]
<1> DEFINE do == todo[1].do
           d == todo[1].d
<1>1. todo \in Seq(Items) /\ Stacked(todo) /\ Working(enabled, columns, todo, vis)
  BY DEF Safe, Types
<1>2. 1 \in DOMAIN todo /\ 1 + 1 = 2 /\ 2 + 1 = 3
  BY <1>1, ItemsAre
<1>3. Going(automatic, enabled, columns, todo, vis, 1) /\ Enabling(todo, 1)
  BY <1>1, <1>2 DEF Informed, Stacked, Chained
<1>4. ASSUME do = "columns_created" PROVE enabled[d]
  <2>1. 2 \in DOMAIN todo /\ todo[2] = Item("enabled", d)
    BY <1>2, <1>3, <1>4 DEF Enabling, Then
  <2>2. Going(automatic, enabled, columns, todo, vis, 2)
    BY <2>1 DEF Informed
  <2>3. todo[2].do = "enabled" /\ todo[2].d = d
    BY <2>1 DEF Item
  <2> QED
    BY <2>2, <2>3 DEF Going
<1>5. ASSUME do = "columns_gone" PROVE ~enabled[d]
  <2>1. /\ todo[2] = Item("delete_columns", d)
        /\ 3 \in DOMAIN todo /\ todo[3] = Item("query", todo[2].d)
    BY <1>2, <1>3, <1>5 DEF Enabling, Then
  <2>2. todo[3].do = "query" /\ todo[3].d = d
    BY <2>1 DEF Item
  <2> QED
    BY <1>1, <2>1, <2>2 DEF Working
<1> QED
  BY <1>3, <1>4, <1>5 DEF Going

\* Who shows nothing fits if its datasource is disabled.
LEMMA BlankFits ==
  ASSUME NEW e, NEW c, NEW t, NEW u, Blank(t, u), t.of[u] # NoSource => ~e[t.of[u]]
  PROVE  Fits(e, c, t, u)
BY DEF Blank, Fits, Shown

\* The datasource of what is told with v.
LEMMA ShellOf ==
  ASSUME NEW t, Placed(t), NEW v \in Visibles, NEW u \in Shell(v), t.of[u] # NoSource
  PROVE  u \in Visibles /\ t.of[u] = IF v = ListPart THEN Listed ELSE Main
BY Kinds DEF Placed, Shell

\* Only who is told is touched, and fits; unless the datasource vanishes, then
\* it is disabled at once.
LEMMA ToldFits ==
  ASSUME Safe, Informed(automatic, enabled, columns, todo, vis), Walking, AtIterator # End
  PROVE  LET do == todo[1].do
             d == todo[1].d
             v == AtIterator
             s == Told(do, vis, v)
         IN  /\ do # "vanishes" \/ ~enabled[d] =>
                  \E V \in SUBSET Shell(v) :
                    Same(vis, s, V) /\ \A u \in V : Fits(enabled, columns, s, u)
             /\ do \in {"enabled", "disabled"} => Fits(enabled, columns, s, v)
             /\ \/ FitsGrid(automatic, enabled, columns, vis)
                \/ v = Grid /\ do \in {"disabled", "columns_created"}
                => FitsGrid(automatic, enabled, columns, s)
<1> DEFINE do == todo[1].do
           d == todo[1].d
           v == AtIterator
           s == Told(do, vis, v)
           a == automatic
           e == enabled
           c == columns
           Touched == \E V \in SUBSET Shell(v) : Same(vis, s, V) /\ \A u \in V : Fits(e, c, s, u)
           Gridded == FitsGrid(a, e, c, vis) => FitsGrid(a, e, c, s)
           Done == /\ do # "vanishes" \/ ~e[d] => Touched
                   /\ do \in {"enabled", "disabled"} => Fits(e, c, s, v)
                   /\ \/ FitsGrid(a, e, c, vis)
                      \/ v = Grid /\ do \in {"disabled", "columns_created"}
                      => FitsGrid(a, e, c, s)
<1>1. /\ todo # <<>> /\ do \in Walks /\ d \in Datasources /\ v \in Visibles /\ vis.of[v] = d
      /\ d = (IF v = ListPart THEN Listed ELSE Main)
  BY WalkIs
<1>2. Types /\ vis \in Vis /\ Linked(vis) /\ Placed(vis)
  BY DEF Safe, Types
<1>3. /\ do \in {"enabled", "columns_created"} => e[d]
      /\ do \in {"disabled", "columns_gone"} => ~e[d]
  BY <1>1, ToldOf
<1> HIDE DEF v
<1>4. /\ Placed(s) /\ Same(vis, s, Shell(v)) /\ s.of[Grid] \in {vis.of[Grid], NoSource}
  <2>1. vis.of[v] \in Datasources
    BY <1>1
  <2> HIDE DEF d, do
  <2> QED
    BY <1>1, <1>2, <2>1, ToldIs DEF Moved
<1>5. v \in Shell(v) /\ {v} \in SUBSET Shell(v) /\ Main # NoSource /\ Main \in Datasources
      /\ Grid \notin DataVisibles /\ Grid # ListPart /\ Grid \in Visibles
      /\ (v = Grid => GridColumns \in SUBSET Shell(v)) /\ (v # Grid => v \in DataVisibles)
  BY <1>1, Kinds DEF Shell
<1> HIDE DEF s
<1>6. ASSUME s.cols = vis.cols PROVE Gridded
  BY <1>4, <1>5, <1>6 DEF FitsGrid
<1>7. ASSUME ~e[d], NEW u \in Shell(v), Blank(s, u) PROVE Fits(e, c, s, u)
  <2>1. s.of[u] # NoSource => s.of[u] = d
    BY <1>1, <1>4, ShellOf
  <2> QED
    BY <1>7, <2>1, BlankFits
<1>8. ASSUME do = "enabled" PROVE Done
  <2>1. s = Enabled(vis, v)
    BY <1>8 DEF Told, s
  <2>2. /\ Repointed(vis, s, v)
        /\ v \in DataVisibles /\ enabled[d] => s.column[v] = Shown(enabled, columns, s, v)
    <3> HIDE DEF d
    <3> QED
      BY <1>1, <1>2, <2>1, EnabledIs
  <2>3. Same(vis, s, {v}) /\ s.cols = vis.cols
    BY <1>2, <2>2, RepointedIs DEF Repointed
  <2>4. Fits(e, c, s, v)
    BY <1>3, <1>8, <2>2 DEF Fits
  <2>5. Touched
    BY <1>5, <2>3, <2>4
  <2> QED
    BY <1>6, <1>8, <2>3, <2>4, <2>5
<1>9. ASSUME do = "disabled" PROVE Done
  <2>1. s = Disabled(vis, v)
    BY <1>9 DEF Told, s
  <2>2. /\ v # Grid => Blank(s, v)
        /\ v # Grid \/ ~automatic => Repointed(vis, s, v)
        /\ v = Grid /\ automatic => s.cols = {} /\ \A u \in GridColumns : Blank(s, u)
    BY <1>1, <1>2, <2>1, DisabledIs
  <2>3. Fits(e, c, s, v)
    <3>1. v # Grid => Fits(e, c, s, v)
      BY <1>3, <1>5, <1>7, <1>9, <2>2
    <3> QED
      BY <1>5, <3>1 DEF Fits
  <2>4. CASE v # Grid \/ ~automatic
    <3>1. Same(vis, s, {v}) /\ s.cols = vis.cols
      BY <1>2, <2>2, <2>4, RepointedIs DEF Repointed
    <3>2. Touched
      BY <1>5, <2>3, <3>1
    <3>3. v = Grid => FitsGrid(a, e, c, s)
      BY <2>4 DEF FitsGrid
    <3> QED
      BY <1>6, <1>9, <2>3, <3>1, <3>2, <3>3
  <2>5. CASE v = Grid /\ automatic
    <3>1. \A u \in Shell(v) : Blank(s, u)
      BY <1>5, <2>2, <2>5 DEF Shell, Blank
    <3>2. Touched
      BY <1>3, <1>4, <1>7, <1>9, <3>1
    <3>3. ~e[Main] /\ s.cols = {}
      BY <1>1, <1>3, <1>5, <1>9, <2>2, <2>5
    <3>4. FitsGrid(a, e, c, s)
      BY <3>3 DEF FitsGrid
    <3> QED
      BY <1>9, <2>3, <3>2, <3>4
  <2> QED
    BY <2>4, <2>5
<1>10. ASSUME do = "vanishes" PROVE Done
  <2>1. s = Released(vis, v)
    BY <1>10 DEF Told, s
  <2>2. s.cols = vis.cols /\ \A u \in Shell(v) : Blank(s, u)
    BY <1>1, <1>2, <2>1, ReleasedIs
  <2>3. ~e[d] => Touched
    BY <1>4, <1>7, <2>2
  <2> QED
    BY <1>6, <1>10, <2>2, <2>3
<1>11. ASSUME do = "deleted" PROVE Done
  <2>1. s = Deleted(vis, v)
    BY <1>11 DEF Told, s
  <2>2. Same(vis, s, {v}) /\ s.cols = vis.cols /\ s.of[v] = NoSource
    BY <1>1, <1>2, <2>1, DeletedIs DEF Moved
  <2>3. Touched
    BY <1>5, <2>2 DEF Fits
  <2> QED
    BY <1>6, <1>11, <2>2, <2>3
<1>12. ASSUME do = "columns_gone" PROVE Done
  <2>1. s = ColumnsGone(vis, v)
    BY <1>12 DEF Told, s
  <2>2. Repointed(vis, s, v) /\ Same(vis, s, {v}) /\ Blank(s, v)
    BY <1>1, <1>2, <2>1, ColumnsGoneIs DEF Moved
  <2>3. s.cols = vis.cols
    BY <2>2 DEF Repointed
  <2>4. Touched
    BY <1>3, <1>5, <1>7, <1>12, <2>2
  <2> QED
    BY <1>6, <1>12, <2>3, <2>4
<1>13. ASSUME do = "columns_created" /\ v = Grid /\ automatic PROVE Done
  <2>1. s = ColsCreated(vis)
    BY <1>13 DEF Told, s
  <2>2. /\ Same(vis, s, GridColumns) /\ s.cols = columns[d]
        /\ \A u \in GridColumns : Fits(e, c, s, u)
    <3>1. vis.of[Grid] = d /\ d # NoSource
      BY <1>1, <1>5, <1>13
    <3> QED
      BY <1>2, <1>13, <2>1, <3>1, ColsCreatedIs DEF Moved
  <2>3. Touched
    BY <1>5, <1>13, <2>2
  <2>4. FitsGrid(a, e, c, s)
    BY <1>1, <1>3, <1>5, <1>13, <2>2 DEF FitsGrid
  <2> QED
    BY <1>13, <2>3, <2>4
<1>14. ASSUME do = "columns_created" /\ (v # Grid \/ ~automatic) PROVE Done
  <2>1. s = vis
    BY <1>14 DEF Told, ColsCreated, s
  <2>2. Same(vis, s, {}) /\ {} \in SUBSET Shell(v) /\ \A u \in {} : Fits(e, c, s, u)
    BY <2>1 DEF Same
  <2>3. Touched
    BY <2>2
  <2>4. v = Grid => FitsGrid(a, e, c, s)
    BY <1>14 DEF FitsGrid
  <2> QED
    BY <1>6, <1>14, <2>1, <2>3, <2>4
<1>15. ASSUME do = "row_changed" PROVE Done
  <2>1. s = vis
    BY <1>15 DEF Told, s
  <2>2. Same(vis, s, {}) /\ {} \in SUBSET Shell(v) /\ \A u \in {} : Fits(e, c, s, u)
    BY <2>1 DEF Same
  <2>3. Touched
    BY <2>2
  <2> QED
    BY <1>6, <1>15, <2>1, <2>3
<1>16. Done
  BY <1>1, <1>8, <1>9, <1>10, <1>11, <1>12, <1>13, <1>14, <1>15 DEF Walks, Restarting
<1> QED
  BY <1>16 DEF s, v

\* What one visible does when it is told changes nothing for those that fit,
\* and it fits itself.
LEMMA TellKeeps ==
  ASSUME Safe, Informed(automatic, enabled, columns, todo, vis), TellVisible
  PROVE  LET do == todo[1].do
             d == todo[1].d
             v == AtIterator
             e == enabled
             c == columns
         IN  /\ \A x \in Datasources :
                  \/ do = "vanishes" /\ e[d] /\ x = d
                  \/ Keeps(automatic, e, c, vis, e, c, vis', x)
             /\ \A x \in Datasources : x # d => Marked(automatic, vis, e, c, vis', x)
             /\ do \in {"enabled", "disabled"} /\ Greeted(e, c, vis, d) => Greeted(e, c, vis', d)
             /\ \/ FitsGrid(automatic, e, c, vis)
                \/ v = Grid /\ do \in {"disabled", "columns_created"}
                => FitsGrid(automatic, e, c, vis')
             /\ Grid \in vis'.handled => Grid \in vis.handled \/ v = Grid
<1> DEFINE do == todo[1].do
           d == todo[1].d
           v == AtIterator
           s == Told(do, vis, v)
           t == vis'
           a == automatic
           e == enabled
           c == columns
<1>1. /\ Walking /\ v # End
      /\ t = IF do \in Restarting /\ do # "deleted"
             THEN [s EXCEPT !.handled = s.handled \cup {v}] ELSE s
  BY DEF TellVisible
<1>2. /\ do \in Walks /\ d \in Datasources /\ v \in Visibles /\ vis.of[v] = d
      /\ d = (IF v = ListPart THEN Listed ELSE Main)
  BY <1>1, WalkIs
<1>3. Types /\ vis \in Vis /\ Linked(vis) /\ Placed(vis)
  BY DEF Safe, Types
<1>4. /\ do # "vanishes" \/ ~e[d] =>
           \E V \in SUBSET Shell(v) : Same(vis, s, V) /\ \A u \in V : Fits(e, c, s, u)
      /\ do \in {"enabled", "disabled"} => Fits(e, c, s, v)
      /\ \/ FitsGrid(a, e, c, vis)
         \/ v = Grid /\ do \in {"disabled", "columns_created"}
         => FitsGrid(a, e, c, s)
  BY <1>1, ToldFits
<1> HIDE DEF v
<1>5. Moved(columns, vis, s, Shell(v))
  <2>1. vis.of[v] \in Datasources
    BY <1>2
  <2> HIDE DEF d, do
  <2> QED
    BY <1>2, <1>3, <2>1, ToldIs
<1> HIDE DEF s, t, a, e, c
<1>6. Same(vis, s, Shell(v)) /\ Placed(s) /\ s \in Vis /\ s.handled \subseteq vis.handled
  BY <1>5 DEF Moved
<1>7. Rehandled(s, t) /\ t.handled \subseteq vis.handled \cup {v}
  <2>1. s.handled \cup {v} \in SUBSET Visibles
    BY <1>2, <1>6, VisIs
  <2>2. Rehandled(s, s)
    BY <1>6 DEF Rehandled
  <2> QED
    BY <1>1, <1>6, <2>1, <2>2, RehandledIs
<1>8. t.of = s.of /\ \A u : Fits(e, c, s, u) <=> Fits(e, c, t, u)
  BY <1>7, RehandledSame DEF Rehandled
<1>9. FitsGrid(a, e, c, s) <=> FitsGrid(a, e, c, t)
  BY <1>7 DEF Rehandled, FitsGrid
<1>10. \A u \in Shell(v) : s.of[u] # NoSource => s.of[u] = d
  BY <1>2, <1>6, ShellOf
<1>11. v \in Shell(v) /\ DataVisibles \subseteq Visibles
  BY Kinds DEF Shell
<1>12. \A u \in Visibles \ Shell(v) : s.of[u] = vis.of[u]
  BY <1>6 DEF Same
<1>13. NoSource \notin Datasources
  BY Kinds
<1>14. ASSUME NEW x \in Datasources, NEW u \in DataVisibles, s.of[u] = x,
              vis.of[u] = x => Fits(e, c, vis, u),
              ~(do = "vanishes" /\ e[d] /\ x = d)
       PROVE  Fits(e, c, s, u)
  <2>1. CASE u \in Visibles \ Shell(v)
    <3>1. u \in DataVisibles \ Shell(v) /\ Fits(e, c, vis, u)
      BY <1>12, <1>14, <2>1
    <3> QED
      BY <1>6, <3>1, SameIs
  <2>2. CASE u \in Shell(v)
    <3>1. x = d
      BY <1>10, <1>13, <1>14, <2>2
    <3>2. PICK V \in SUBSET Shell(v) : Same(vis, s, V) /\ \A w \in V : Fits(e, c, s, w)
      BY <1>4, <1>14, <3>1
    <3>3. CASE u \in V
      BY <3>2, <3>3
    <3>4. CASE u \notin V
      <4>1. u \in DataVisibles \ V /\ s.of[u] = vis.of[u]
        BY <1>11, <3>2, <3>4 DEF Same
      <4> QED
        BY <1>14, <3>2, <4>1, SameIs
    <3> QED
      BY <3>3, <3>4
  <2> QED
    BY <1>11, <2>1, <2>2
<1>15. \A x \in Datasources : \/ do = "vanishes" /\ e[d] /\ x = d
                              \/ Keeps(a, e, c, vis, e, c, t, x)
  BY <1>4, <1>8, <1>9, <1>14 DEF Keeps
<1>16. ASSUME NEW x \in Datasources, x # d PROVE Marked(a, vis, e, c, t, x)
  <2>1. ASSUME NEW u \in DataVisibles, t.of[u] = x, u \in t.handled
        PROVE  vis.of[u] = x /\ u \in vis.handled
    <3>1. u \notin Shell(v) /\ u \in Visibles
      BY <1>8, <1>10, <1>11, <1>13, <1>16, <2>1
    <3> QED
      BY <1>7, <1>8, <1>11, <1>12, <2>1, <3>1
  <2>2. x = Main /\ Grid \in t.handled => Grid \in vis.handled
    BY <1>2, <1>7, <1>16, Kinds
  <2> QED
    BY <2>1, <2>2 DEF Marked
<1>17. ASSUME do \in {"enabled", "disabled"}, Greeted(e, c, vis, d) PROVE Greeted(e, c, t, d)
  <2> SUFFICES ASSUME NEW u \in DataVisibles, t.of[u] = d, u \in t.handled
               PROVE  Fits(e, c, t, u)
    BY DEF Greeted
  <2>1. CASE u = v
    BY <1>4, <1>8, <1>17, <2>1
  <2>2. CASE u # v
    <3>1. vis.of[u] = d => Fits(e, c, vis, u)
      BY <1>7, <1>17, <2>2 DEF Greeted
    <3> QED
      BY <1>2, <1>8, <1>14, <1>17, <3>1
  <2> QED
    BY <2>1, <2>2
<1>18. /\ \/ FitsGrid(a, e, c, vis)
          \/ v = Grid /\ do \in {"disabled", "columns_created"}
          => FitsGrid(a, e, c, t)
       /\ Grid \in t.handled => Grid \in vis.handled \/ v = Grid
  BY <1>4, <1>7, <1>9
<1> QED
  BY <1>15, <1>16, <1>17, <1>18 DEF v, t, a, e, c

LEMMA TellVisibleKnowing ==
  ASSUME Safe, Knowing, TellVisible
  PROVE  Informed(automatic, enabled, columns, todo', vis')
<1> DEFINE do == todo[1].do
           d == todo[1].d
           v == AtIterator
           list == vis.list[d]
           s == Told(do, vis, v)
           it == NextAfter(do, s, list, v)
           p == Iterated(todo, it)
           C == CallsOf(do, v)
           t == vis'
           a == automatic
           e == enabled
           c == columns
<1>1. /\ Walking /\ v # End /\ todo[1].it # Start
      /\ t = (IF do \in Restarting /\ do # "deleted"
              THEN [s EXCEPT !.handled = s.handled \cup {v}] ELSE s)
      /\ todo' = C \o p
  BY DEF TellVisible, Iterated, Walking
<1>2. /\ todo \in Seq(Items) /\ todo # <<>> /\ do \in Walks /\ d \in Datasources
      /\ list \in Seq(Visibles) /\ IsInjective(list)
      /\ v \in Visibles /\ v \in Range(list)
      /\ d = (IF v = ListPart THEN Listed ELSE Main)
      /\ \E i \in 1..Len(list) :
           /\ v = list[i]
           /\ do \notin Restarting => i = Position(list, todo[1].it)
  BY <1>1, WalkIs
<1>3. /\ Types /\ Placed(vis) /\ Stacked(todo) /\ Informed(a, e, c, todo, vis)
  BY DEF Safe, Knowing
<1>4. /\ \A x \in Datasources : \/ do = "vanishes" /\ e[d] /\ x = d
                                \/ Keeps(a, e, c, vis, e, c, t, x)
      /\ \A x \in Datasources : x # d => Marked(a, vis, e, c, t, x)
      /\ do \in {"enabled", "disabled"} /\ Greeted(e, c, vis, d) => Greeted(e, c, t, d)
      /\ \/ FitsGrid(a, e, c, vis)
         \/ v = Grid /\ do \in {"disabled", "columns_created"}
         => FitsGrid(a, e, c, t)
      /\ Grid \in t.handled => Grid \in vis.handled \/ v = Grid
  BY <1>3, TellKeeps
<1>5. it \in Iterators
  BY <1>1, NextAfterIs
<1>6. do = "columns_created" =>
        /\ v # Grid => s = vis
        /\ it = After(s.list[d], v)
  BY DEF Told, NextAfter, Restarting
<1> HIDE DEF v, s, it, C, t, a, e, c
<1>7. /\ p \in Seq(Items) /\ Len(p) = Len(todo) /\ DOMAIN p = DOMAIN todo
      /\ p[1].do = do /\ p[1].d = d /\ p[1].it = it /\ Over(todo, p, 1)
      /\ \A i \in 2..Len(todo) : p[i] = todo[i]
  BY <1>2, <1>5, IteratedIs, IteratedOver, Zenon
<1> HIDE DEF p
<1>8. Len(todo) \in Nat /\ DOMAIN todo = 1..Len(todo) /\ Len(todo) > 0 /\ 1 \in DOMAIN todo /\ 1 + 1 = 2
  <2>1. Len(todo) \in Nat /\ DOMAIN todo = 1..Len(todo) /\ Len(todo) > 0
    BY <1>2, ItemsAre, Zenon
  <2>2. \A n \in Nat : n > 0 => 1 \in 1..n
    OBVIOUS
  <2> QED
    BY <2>1, <2>2
<1>9. Going(a, e, c, todo, vis, 1) /\ Creating(a, e, c, vis, todo[1])
  BY <1>2, <1>3, <1>8 DEF Informed
<1>10. do \in Restarting => todo[1].it = Begin
  <2>1. Resting(todo, 1)
    BY <1>3, <1>8 DEF Stacked, Chained
  <2> QED
    BY <1>1, <2>1 DEF Resting
<1>11. ASSUME NEW q, NEW m, q[m].do = do, q[m].d = d PROVE Going(a, e, c, q, t, m)
  <2>1. CASE do = "enabled"
    <3>1. e[d] /\ (d = Main => FitsGrid(a, e, c, vis)) /\ Greeted(e, c, vis, d)
      BY <1>9, <1>10, <2>1 DEF Going, Restarting
    <3> QED
      BY <1>4, <1>11, <2>1, <3>1 DEF Going
  <2>2. CASE do = "disabled"
    <3>1. /\ ~e[d] /\ Greeted(e, c, vis, d)
          /\ d = Main /\ Grid \in vis.handled => FitsGrid(a, e, c, vis)
      BY <1>9, <1>10, <2>2 DEF Going, Restarting
    <3> QED
      BY <1>4, <1>11, <2>2, <3>1 DEF Going
  <2>3. CASE do = "vanishes"
    <3>1. ASSUME ~e[d] PROVE Settled(a, e, c, t, d)
      <4>1. Keeps(a, e, c, vis, e, c, t, d)
        BY <1>2, <1>4, <3>1, Zenon
      <4>2. Settled(a, e, c, vis, d)
        BY <1>9, <2>3, <3>1 DEF Going
      <4> QED
        BY <4>1, <4>2, KeepsSettled
    <3> QED
      BY <1>11, <2>3, <3>1 DEF Going
  <2>4. CASE do \notin {"enabled", "disabled", "vanishes"}
    BY <1>11, <2>4 DEF Going
  <2> QED
    BY <2>1, <2>2, <2>3, <2>4
<1>12. ASSUME NEW q, NEW m \in DOMAIN q, q[m].do = do, q[m].d = d
       PROVE  \A x \in Datasources :
                \/ Telling(e, q, x)
                \/ Settled(a, e, c, t, x)
                \/ e[x] = e[x] /\ Keeps(a, e, c, vis, e, c, t, x) /\ ~Tells(e, todo[1], x)
  <2> TAKE x \in Datasources
  <2>1. CASE Tells(e, todo[1], x)
    <3>1. Tells(e, q[m], x)
      BY <1>12, <2>1 DEF Tells
    <3> QED
      BY <3>1 DEF Telling
  <2>2. CASE ~Tells(e, todo[1], x)
    <3>1. ~(do = "vanishes" /\ e[d] /\ x = d)
      BY <2>2 DEF Tells
    <3> QED
      BY <1>4, <2>2, <3>1
  <2> QED
    BY <2>1, <2>2
<1>13. d = Listed => /\ e[Main] = e[Main] /\ Keeps(a, e, c, vis, e, c, t, Main)
                     /\ Marked(a, vis, e, c, t, Main)
  BY <1>4, Kinds
<1>14. ASSUME C = <<>> PROVE Informed(a, e, c, todo', t)
  <2>1. todo' = p
    BY <1>1, <1>7, <1>14
  <2>2. \A i \in 1..1 : Going(a, e, c, p, t, i)
    BY <1>7, <1>11
  <2>3. ASSUME do = "columns_created" PROVE Going(a, e, c, p, t, 1 + 1)
    <3>1. Then(todo, 1, "enabled")
      BY <1>3, <1>8, <2>3 DEF Stacked, Chained, Enabling
    <3>2. 2 \in DOMAIN todo /\ todo[2] = Item("enabled", d) /\ 2 \in 2..Len(todo)
      BY <1>8, <3>1 DEF Then
    <3>3. p[2].do = "enabled" /\ p[2].d = d /\ p[2].it = Start /\ todo[2].do = "enabled" /\ todo[2].d = d
      BY <1>7, <3>2 DEF Item
    <3>4. e[d]
      BY <1>3, <3>2, <3>3 DEF Informed, Going
    <3> QED
      BY <1>7, <1>8, <2>3, <3>3, <3>4, Kinds DEF Going
  <2>4. Creating(a, e, c, t, p[1])
    <3> SUFFICES ASSUME do = "columns_created", Grid \in Range(t.list[d]) \ Ahead(t.list[d], it)
                 PROVE  FitsGrid(a, e, c, t)
      BY <1>7 DEF Creating
    <3>1. CASE v = Grid
      BY <1>4, <3>1
    <3>2. CASE v # Grid
      <4>1. t = vis /\ it = After(list, v)
        BY <1>1, <1>6, <3>2 DEF Restarting
      <4>2. PICK i \in 1..Len(list) : v = list[i] /\ i = Position(list, todo[1].it)
        BY <1>2, Zenon DEF Restarting
      <4>3. { list[j] : j \in i..Len(list) } \subseteq Ahead(list, After(list, list[i])) \cup {list[i]}
        BY <1>2, AfterIs, Zenon
      <4>4. Ahead(list, todo[1].it) \subseteq Ahead(list, it) \cup {v}
        BY <4>1, <4>2, <4>3, Zenon DEF Ahead
      <4>5. Grid \in Range(list) \ Ahead(list, todo[1].it)
        BY <3>2, <4>1, <4>4
      <4>6. FitsGrid(a, e, c, vis)
        BY <1>1, <1>9, <4>5 DEF Creating
      <4> QED
        BY <1>4, <4>6
    <3> QED
      BY <3>1, <3>2
  <2>5. \A x \in Datasources :
          \/ Telling(e, p, x)
          \/ Settled(a, e, c, t, x)
          \/ e[x] = e[x] /\ Keeps(a, e, c, vis, e, c, t, x) /\ ~Tells(e, todo[1], x)
    BY <1>7, <1>8, <1>12
  <2>6. Informed(a, e, c, p, t)
    <3> HIDE DEF d, do
    <3> QED
      BY <1>2, <1>3, <1>7, <1>13, <2>2, <2>3, <2>4, <2>5, StepInformed, Zenon DEF d, do
  <2> QED
    BY <2>1, <2>6
<1>15. ASSUME v = Combo, do \in {"enabled", "disabled", "vanishes"},
              NEW what \in {"enable", "disable"}, C = <<Item(what, Listed)>>
       PROVE  Informed(a, e, c, todo', t)
  <2> DEFINE call == Item(what, Listed)
             q == <<call>> \o p
  <2>1. call \in Items /\ call.do = what /\ call.d = Listed
    <3>1. what \in Dos
      BY <1>15 DEF Dos
    <3> QED
      BY <3>1, ItemIs, Kinds
  <2> HIDE DEF call
  <2>2. todo' = q
    BY <1>1, <1>15 DEF call
  <2>3. /\ q \in Seq(Items) /\ Len(q) = Len(todo) + 1 /\ q[1] = call
        /\ \A i \in 1..Len(todo) : q[i + 1] = p[i]
    BY <1>7, <1>8, <2>1
  <2> HIDE DEF q
  <2>4. q[2] = p[1] /\ 2 \in DOMAIN q
    <3>1. 1 \in 1..Len(todo) /\ 2 \in 1..(Len(todo) + 1)
      BY <1>8
    <3> QED
      BY <1>8, <2>3, <3>1
  <2>5. d = Main /\ Main # Listed
    BY <1>2, <1>15, Kinds
  <2>6. Over(todo, q, 2)
    <3>1. Len(q) = (Len(todo) - 1) + 2
      BY <1>8, <2>3
    <3>2. \A i \in 2..Len(todo) : q[(i - 1) + 2] = todo[i]
      <4> TAKE i \in 2..Len(todo)
      <4>1. i \in 1..Len(todo) /\ (i - 1) + 2 = i + 1
        BY <1>8
      <4> QED
        BY <1>7, <2>3, <4>1
    <3> QED
      BY <2>3, <2>5, <3>1, <3>2 DEF Over
  <2>7. \A i \in 1..2 : Going(a, e, c, q, t, i)
    <3>1. Going(a, e, c, q, t, 1)
      BY <2>1, <2>3 DEF Going
    <3>2. Going(a, e, c, q, t, 2)
      BY <1>7, <1>11, <2>4
    <3> QED
      BY <3>1, <3>2
  <2>8. Creating(a, e, c, t, q[1])
    BY <2>1, <2>3 DEF Creating
  <2>9. \A x \in Datasources :
          \/ Telling(e, q, x)
          \/ Settled(a, e, c, t, x)
          \/ e[x] = e[x] /\ Keeps(a, e, c, vis, e, c, t, x) /\ ~Tells(e, todo[1], x)
    BY <1>7, <1>12, <2>4
  <2>10. do # "columns_created"
    BY <1>15
  <2>11. Informed(a, e, c, q, t)
    <3> HIDE DEF d, do
    <3> QED
      BY <1>2, <1>3, <1>13, <2>6, <2>7, <2>8, <2>9, <2>10, StepInformed, Zenon DEF d, do
  <2> QED
    BY <2>2, <2>11
<1>16. \/ C = <<>>
       \/ /\ do \in {"enabled", "disabled", "vanishes"} /\ v = Combo
          /\ \E what \in {"enable", "disable"} : C = <<Item(what, Listed)>>
  BY <1>3, CallsAre DEF C
<1>17. Informed(a, e, c, todo', t)
  BY <1>14, <1>15, <1>16
<1> QED
  BY <1>17 DEF a, e, c, t

\* Between the calls everybody fits.
LEMMA IdleSettled ==
  ASSUME NEW a, NEW e, NEW c, NEW s, Informed(a, e, c, <<>>, s), NEW x \in Datasources
  PROVE  Settled(a, e, c, s, x)
<1>1. DOMAIN <<>> = {}
  OBVIOUS
<1> QED
  BY <1>1 DEF Informed, Telling

\* A call begins when everybody fits.
LEMMA StartsInformed ==
  ASSUME NEW a, NEW e, NEW c, NEW s, \A x \in Datasources : Settled(a, e, c, s, x),
         NEW p \in Seq(Items),
         \A i \in DOMAIN p : p[i].it = Start /\ p[i].do \notin {"enabled", "disabled"}
  PROVE  Informed(a, e, c, p, s)
<1>1. ASSUME NEW i \in DOMAIN p PROVE Going(a, e, c, p, s, i)
  <2>1. p[i].d \in Datasources
    BY ItemsAre
  <2> QED
    BY <2>1 DEF Going
<1>2. ASSUME p # <<>> PROVE Creating(a, e, c, s, p[1])
  <2>1. 1 \in DOMAIN p
    BY <1>2, ItemsAre
  <2> QED
    BY <2>1 DEF Creating
<1> QED
  BY <1>1, <1>2 DEF Informed

LEMMA OneStarts ==
  ASSUME NEW a, NEW e, NEW c, NEW s, \A x \in Datasources : Settled(a, e, c, s, x),
         NEW p,
         \/ p = <<>>
         \/ \E what \in {"enable", "disable", "row_changed"}, d \in Datasources :
              p = <<Item(what, d)>>
  PROVE  Informed(a, e, c, p, s)
<1>1. CASE p = <<>>
  <2>1. p \in Seq(Items) /\ DOMAIN p = {}
    BY <1>1
  <2> QED
    BY <2>1, StartsInformed
<1>2. ASSUME NEW what \in {"enable", "disable", "row_changed"}, NEW d \in Datasources,
             p = <<Item(what, d)>>
      PROVE  Informed(a, e, c, p, s)
  <2> DEFINE call == Item(what, d)
  <2>1. call \in Items /\ call.do = what /\ call.it = Start
    <3>1. what \in Dos
      BY DEF Dos, Walks
    <3> QED
      BY <3>1, ItemIs
  <2>2. p = <<call>>
    BY <1>2
  <2> HIDE DEF call
  <2>3. p \in Seq(Items) /\ DOMAIN p = {1} /\ p[1] = call
    BY <2>1, <2>2
  <2> QED
    BY <2>1, <2>3, StartsInformed
<1> QED
  BY <1>1, <1>2

LEMMA SetEnabledKnowing ==
  ASSUME Safe, Knowing, NEW d \in Datasources, SetEnabled(d)
  PROVE  Informed(automatic, enabled, columns, todo', vis)
<1>1. /\ todo = <<>> /\ \E what \in {"enable", "disable"} : todo' = <<Item(what, d)>>
  BY DEF SetEnabled, Idle
<1>2. \A x \in Datasources : Settled(automatic, enabled, columns, vis, x)
  BY <1>1, IdleSettled DEF Knowing
<1>3. \E what \in {"enable", "disable", "row_changed"}, x \in Datasources : todo' = <<Item(what, x)>>
  BY <1>1
<1> QED
  BY <1>2, <1>3, OneStarts

LEMMA GotoRowKnowing ==
  ASSUME Safe, Knowing, GotoRow
  PROVE  Informed(automatic, enabled, columns, todo', vis)
<1>1. todo = <<>> /\ todo' = <<Item("row_changed", Main)>>
  BY DEF GotoRow, Idle
<1>2. \A x \in Datasources : Settled(automatic, enabled, columns, vis, x)
  BY <1>1, IdleSettled DEF Knowing
<1>3. \E what \in {"enable", "disable", "row_changed"}, x \in Datasources : todo' = <<Item(what, x)>>
  BY <1>1, Kinds
<1> QED
  BY <1>2, <1>3, OneStarts

LEMMA SourceVanishesKnowing ==
  ASSUME Safe, Knowing, NEW d \in Datasources, SourceVanishes(d)
  PROVE  Informed(automatic, enabled, columns, todo', vis)
<1> DEFINE vanish == Item("vanishes", d)
           off == Item("disable", d)
           p == <<vanish, off>>
<1>1. todo = <<>> /\ todo' = p
  BY DEF SourceVanishes, Idle
<1>2. \A x \in Datasources : Settled(automatic, enabled, columns, vis, x)
  BY <1>1, IdleSettled DEF Knowing
<1>3. /\ vanish \in Items /\ vanish.do = "vanishes" /\ vanish.it = Start
      /\ off \in Items /\ off.do = "disable" /\ off.it = Start
  <2>1. "vanishes" \in Dos /\ "disable" \in Dos
    BY DEF Dos, Walks, Restarting
  <2> QED
    BY <2>1, ItemIs
<1> HIDE DEF vanish, off
<1>4. /\ p \in Seq(Items) /\ DOMAIN p = {1, 2} /\ p[1] = vanish /\ p[2] = off
  BY <1>3
<1> HIDE DEF p
<1> QED
  BY <1>1, <1>2, <1>3, <1>4, StartsInformed

LEMMA DeleteDatasourceKnowing ==
  ASSUME Safe, Knowing, NEW d \in Datasources, DeleteDatasource(d)
  PROVE  Informed(automatic, enabled, columns, todo', vis)
<1> DEFINE told == Item("deleted", d)
           delete == Item("delete_columns", d)
           destroy == Item("destroy", d)
           p == <<told, delete, destroy>>
<1>1. todo = <<>> /\ todo' = p
  BY DEF DeleteDatasource, Idle
<1>2. \A x \in Datasources : Settled(automatic, enabled, columns, vis, x)
  BY <1>1, IdleSettled DEF Knowing
<1>3. /\ told \in Items /\ told.do = "deleted" /\ told.it = Start
      /\ delete \in Items /\ delete.do = "delete_columns" /\ delete.it = Start
      /\ destroy \in Items /\ destroy.do = "destroy" /\ destroy.it = Start
  <2>1. "deleted" \in Dos /\ "delete_columns" \in Dos /\ "destroy" \in Dos
    BY DEF Dos, Walks, Restarting
  <2> QED
    BY <2>1, ItemIs
<1> HIDE DEF told, delete, destroy
<1>4. /\ p \in Seq(Items) /\ DOMAIN p = {1, 2, 3}
      /\ p[1] = told /\ p[2] = delete /\ p[3] = destroy
  BY <1>3
<1> HIDE DEF p
<1> QED
  BY <1>1, <1>2, <1>3, <1>4, StartsInformed

\* Those that change fit afterwards, and so does the grid.
LEMMA SettledAgain ==
  ASSUME NEW a, NEW e, NEW c, NEW s, NEW t, NEW V, Same(s, t, V),
         \A u \in V : Fits(e, c, t, u), FitsGrid(a, e, c, t),
         NEW x \in Datasources, \A y \in Datasources : Settled(a, e, c, s, y)
  PROVE  Settled(a, e, c, t, x)
<1>1. ASSUME NEW u \in DataVisibles, t.of[u] = x PROVE Fits(e, c, t, u)
  <2>1. CASE u \notin V
    <3>1. u \in DataVisibles \ V /\ u \in Visibles \ V
      BY <2>1, Kinds
    <3>2. s.of[u] = x
      BY <1>1, <3>1 DEF Same
    <3>3. Fits(e, c, s, u)
      BY <3>2 DEF Settled
    <3> QED
      BY <3>1, <3>3, SameIs
  <2> QED
    BY <2>1
<1> QED
  BY <1>1 DEF Settled

\* An automatic grid without a datasource has no columns.
LEMMA SetDatasourceKnowing ==
  ASSUME Safe, Knowing, NEW v \in Fields \cup {Grid, Combo, ListPart}, NEW d \in Datasources,
         SetDatasource(v, d)
  PROVE  Informed(automatic, enabled, columns, todo', vis')
<1> DEFINE t == Attached(vis, v, d)
           a == automatic
           e == enabled
           c == columns
<1>1. /\ (v = ListPart) = (d = Listed) /\ vis' = t /\ todo = <<>>
      /\ vis.of[v] = NoSource /\ d \in alive
      /\ todo' = IF v = ListPart /\ vis.of[Combo] # NoSource
                 THEN <<Item(IF enabled[vis.of[Combo]] THEN "enable" ELSE "disable", d)>>
                 ELSE CallsOf(IF enabled[d] THEN "enabled" ELSE "disabled", v)
  BY DEF SetDatasource, Idle
<1>2. v \in Visibles /\ v \notin GridColumns /\ Main # NoSource /\ Grid \in Visibles /\ Main # Listed
      /\ Main \in Datasources /\ Datasources = {Main, Listed}
  BY VisiblesAssumption, Kinds DEF DataVisibles
<1>3. Types /\ vis \in Vis /\ Linked(vis) /\ Placed(vis)
  BY DEF Safe, Types
<1>4. /\ Same(vis, t, Shell(v))
      /\ \A u \in Shell(v) : Fits(e, c, t, u)
      /\ v # Grid \/ ~a \/ ~e[d] => t.cols = vis.cols
      /\ v = Grid /\ a /\ e[d] => t.cols = c[d]
  BY <1>1, <1>2, <1>3, AttachedIs DEF Moved
<1>5. \A x \in Datasources : Settled(a, e, c, vis, x)
  BY <1>1, IdleSettled DEF Knowing
<1> HIDE DEF t
<1>6. FitsGrid(a, e, c, t)
  <2>1. CASE v = Grid
    <3>1. d = Main
      BY <1>1, <1>2, <2>1, Kinds
    <3>2. a => vis.cols = {}
      BY <1>1, <2>1, <3>1 DEF Knowing, Living
    <3> QED
      BY <1>4, <2>1, <3>1, <3>2 DEF FitsGrid
  <2>2. CASE v # Grid
    <3>1. Grid \notin Shell(v)
      BY <2>2 DEF Shell
    <3>2. t.of[Grid] = vis.of[Grid] /\ t.cols = vis.cols
      BY <1>2, <1>4, <2>2, <3>1 DEF Same
    <3>3. FitsGrid(a, e, c, vis)
      BY <1>2, <1>5 DEF Settled
    <3> QED
      BY <3>2, <3>3 DEF FitsGrid
  <2> QED
    BY <2>1, <2>2
<1>7. \A x \in Datasources : Settled(a, e, c, t, x)
  <2> HIDE DEF a, e, c
  <2> QED
    BY <1>4, <1>5, <1>6, SettledAgain
<1>8. \/ todo' = <<>>
      \/ \E what \in {"enable", "disable", "row_changed"}, x \in Datasources :
           todo' = <<Item(what, x)>>
  <2>1. CASE v = ListPart /\ vis.of[Combo] # NoSource
    BY <1>1, <2>1
  <2>2. CASE ~(v = ListPart /\ vis.of[Combo] # NoSource)
    <3> DEFINE do == IF enabled[d] THEN "enabled" ELSE "disabled"
    <3>1. todo' = CallsOf(do, v)
      BY <1>1, <2>2
    <3> HIDE DEF do
    <3>2. CallsOf(do, v) = <<>> \/ \E what \in {"enable", "disable"} : CallsOf(do, v) = <<Item(what, Listed)>>
      BY CallsAre DEF Safe
    <3> QED
      BY <3>1, <3>2, Kinds
  <2> QED
    BY <2>1, <2>2
<1>9. Informed(a, e, c, todo', t)
  <2> HIDE DEF a, e, c
  <2> QED
    BY <1>7, <1>8, OneStarts
<1> QED
  BY <1>1, <1>9

\* Columns that are created while the datasource is disabled are shown later.
LEMMA SetViewColumnKnowing ==
  ASSUME Safe, Knowing, SetViewColumn
  PROVE  Informed(automatic, enabled, columns', todo', vis')
<1> DEFINE d == vis.of[ListPart]
           k == columns'
           t == vis'
<1>1. PICK names : /\ columns[d] # {} => names = columns[d]
                   /\ k = [columns EXCEPT ![d] = names]
                   /\ t = [vis EXCEPT !.view = IF ViewName \in names THEN <<d, ViewName>> ELSE Null]
  BY DEF SetViewColumn
<1>2. /\ todo = <<>> /\ d \in alive /\ todo' = todo
  BY DEF SetViewColumn, Idle
<1>3. vis \in Vis /\ d \in Datasources /\ columns \in [Datasources -> SUBSET Names]
  BY <1>2 DEF Safe, Types
<1>4. \A x \in Datasources : k[x] = columns[x] \/ ~enabled[x]
  <2>1. \A x \in Datasources : x # d => k[x] = columns[x]
    BY <1>1, <1>3
  <2>2. k[d] = columns[d] \/ columns[d] = {}
    BY <1>1, <1>3
  <2>3. columns[d] = {} => ~enabled[d]
    BY <1>2 DEF Knowing, Living
  <2> QED
    BY <2>1, <2>2, <2>3
<1>5. t.of = vis.of /\ t.column = vis.column /\ t.cols = vis.cols
  <2> DEFINE w == IF ViewName \in names THEN <<d, ViewName>> ELSE Null
  <2>1. vis = [list |-> vis.list, of |-> vis.of, column |-> vis.column, view |-> vis.view,
               cols |-> vis.cols, handled |-> vis.handled]
    BY <1>3 DEF Vis
  <2>2. t = [vis EXCEPT !.view = w]
    BY <1>1
  <2> HIDE DEF t, w
  <2>3. t = [list |-> vis.list, of |-> vis.of, column |-> vis.column, view |-> w,
             cols |-> vis.cols, handled |-> vis.handled]
    BY <2>1, <2>2
  <2> QED
    BY <2>3
<1> HIDE DEF t, k
<1>6. \A x \in Datasources : Settled(automatic, enabled, columns, vis, x)
  BY <1>2, IdleSettled DEF Knowing
<1>7. ASSUME NEW x \in Datasources PROVE Settled(automatic, enabled, k, t, x)
  <2>1. Keeps(automatic, enabled, columns, vis, enabled, k, vis, x)
    BY <1>4, SameKeeps
  <2>2. Settled(automatic, enabled, k, vis, x)
    BY <1>6, <2>1, KeepsSettled
  <2>3. \A u : Fits(enabled, k, vis, u) <=> Fits(enabled, k, t, u)
    BY <1>5 DEF Fits, Shown
  <2>4. FitsGrid(automatic, enabled, k, vis) <=> FitsGrid(automatic, enabled, k, t)
    BY <1>5 DEF FitsGrid
  <2> QED
    BY <1>5, <2>2, <2>3, <2>4 DEF Settled
<1>8. Informed(automatic, enabled, k, todo', t)
  BY <1>2, <1>7, OneStarts
<1> QED
  BY <1>8 DEF k, t

LEMMA DeleteVisibleKnowing ==
  ASSUME Safe, Knowing, NEW v \in Fields \cup {Grid, Combo}, DeleteVisible(v)
  PROVE  /\ Informed(automatic, enabled, columns, todo', vis')
         /\ \/ vis'.of[Grid] = vis.of[Grid] /\ vis'.cols = vis.cols
            \/ automatic => vis'.cols = {}
<1> DEFINE t == vis'
           a == automatic
           e == enabled
           c == columns
<1>1. /\ todo = <<>> /\ todo' = todo
      /\ t = CASE v = Grid  -> [ColsCleared(Detached(vis, {v})) EXCEPT
                                  !.cols = IF automatic THEN {} ELSE Names]
               [] v = Combo -> Detached(vis, {v, ListPart})
               [] OTHER     -> Detached(vis, {v})
  BY DEF DeleteVisible, Idle
<1>2. vis \in Vis /\ Linked(vis) /\ Placed(vis)
  BY DEF Safe, Types
<1>3. v \in Visibles /\ ListPart \in Visibles /\ Combo # Grid /\ Grid \in Visibles /\ Grid # ListPart
      /\ Main # NoSource /\ Main \in Datasources /\ Grid \notin GridColumns
  BY Kinds
<1>4. \A x \in Datasources : Settled(a, e, c, vis, x)
  BY <1>1, IdleSettled DEF Knowing
<1> HIDE DEF t, a, e, c
<1>5. FitsGrid(a, e, c, vis)
  BY <1>3, <1>4 DEF Settled
<1>6. ASSUME NEW V \in SUBSET Visibles, t = Detached(vis, V), Grid \notin V
      PROVE  /\ \A x \in Datasources : Settled(a, e, c, t, x)
             /\ t.of[Grid] = vis.of[Grid] /\ t.cols = vis.cols
  <2>1. /\ Same(vis, t, V) /\ t.cols = vis.cols
        /\ \A u \in V : t.of[u] = NoSource
    BY <1>2, <1>6, DetachedIs
  <2>2. \A u \in V : Fits(e, c, t, u)
    BY <2>1 DEF Fits
  <2>3. t.of[Grid] = vis.of[Grid]
    BY <1>3, <1>6, <2>1 DEF Same
  <2>4. FitsGrid(a, e, c, t)
    BY <1>5, <2>1, <2>3 DEF FitsGrid
  <2> QED
    BY <1>4, <2>1, <2>2, <2>3, <2>4, SettledAgain
<1>7. ASSUME v = Grid
      PROVE  /\ \A x \in Datasources : Settled(a, e, c, t, x)
             /\ automatic => t.cols = {}
  <2> DEFINE r == Detached(vis, {v})
             s == ColsCleared(r)
             names == IF automatic THEN {} ELSE Names
             w == Regridded(s, names)
  <2>1. t = w
    BY <1>1, <1>3, <1>7 DEF Regridded
  <2>2. Moved(columns, vis, r, {v}) /\ r.of[Grid] = NoSource
    <3>1. {v} \in SUBSET Visibles /\ Grid \in {v}
      BY <1>3, <1>7
    <3> QED
      BY <1>2, <3>1, DetachedMoved, DetachedIs
  <2> HIDE DEF r
  <2>3. /\ Moved(columns, r, s, GridColumns)
        /\ \A u \in GridColumns : s.of[u] = NoSource
    BY <2>2, ColsClearedIs DEF Moved
  <2> HIDE DEF s
  <2>4. names \in SUBSET Names
    OBVIOUS
  <2>9. automatic => names = {}
    OBVIOUS
  <2> HIDE DEF names
  <2>5. t.of = s.of /\ t.column = s.column /\ t.view = s.view /\ t.cols = names
    BY <2>1, <2>3, <2>4, RegriddedIs DEF Moved
  <2> DEFINE V == {Grid} \cup GridColumns
  <2>6. Same(vis, s, V) /\ s.of[Grid] = NoSource
    <3>1. Same(vis, r, {Grid}) /\ Same(r, s, GridColumns)
      BY <1>7, <2>2, <2>3 DEF Moved
    <3>2. s.of[Grid] = NoSource
      BY <1>3, <2>2, <3>1 DEF Same
    <3> QED
      BY <3>1, <3>2, SameTwice
  <2>7. Same(vis, t, V) /\ \A u \in V : Fits(e, c, t, u)
    BY <2>3, <2>5, <2>6 DEF Same, Fits
  <2>8. FitsGrid(a, e, c, t)
    BY <1>3, <2>5, <2>6 DEF FitsGrid
  <2> HIDE DEF V
  <2>10. \A x \in Datasources : Settled(a, e, c, t, x)
    BY <1>4, <2>7, <2>8, SettledAgain
  <2> QED
    BY <2>5, <2>9, <2>10
<1>8. ASSUME v # Grid
      PROVE  /\ \A x \in Datasources : Settled(a, e, c, t, x)
             /\ t.of[Grid] = vis.of[Grid] /\ t.cols = vis.cols
  <2>1. CASE v = Combo
    <3>1. t = Detached(vis, {v, ListPart}) /\ {v, ListPart} \in SUBSET Visibles /\ Grid \notin {v, ListPart}
      BY <1>1, <1>3, <2>1
    <3> QED
      BY <1>6, <3>1
  <2>2. CASE v # Combo
    <3>1. t = Detached(vis, {v}) /\ {v} \in SUBSET Visibles /\ Grid \notin {v}
      BY <1>1, <1>3, <1>8, <2>2
    <3> QED
      BY <1>6, <3>1
  <2> QED
    BY <2>1, <2>2
<1>9. \A x \in Datasources : Settled(a, e, c, t, x)
  BY <1>7, <1>8
<1>10. Informed(a, e, c, todo', t)
  BY <1>1, <1>9, OneStarts
<1>11. (t.of[Grid] = vis.of[Grid] /\ t.cols = vis.cols) \/ (automatic => t.cols = {})
  BY <1>7, <1>8
<1> QED
  BY <1>10, <1>11 DEF a, e, c, t

\* Nothing that an item relies on is lost.
LEMMA KeptInformed ==
  ASSUME NEW a, NEW e, NEW c, NEW s, NEW t, NEW q \in Seq(Items), Informed(a, e, c, q, s),
         \A x \in Datasources : Keeps(a, e, c, s, e, c, t, x) /\ Marked(a, s, e, c, t, x),
         t.list = s.list
  PROVE  Informed(a, e, c, q, t)
<1>0. Main \in Datasources
  BY Kinds
<1>1. FitsGrid(a, e, c, s) => FitsGrid(a, e, c, t)
  BY <1>0 DEF Keeps
<1>2. \A x \in Datasources : Telling(e, q, x) \/ Settled(a, e, c, t, x)
  BY KeepsSettled DEF Informed
<1>3. ASSUME NEW i \in DOMAIN q PROVE Going(a, e, c, q, t, i)
  <2> DEFINE d == q[i].d
  <2>1. d \in Datasources
    BY ItemsAre
  <2>2. Going(a, e, c, q, s, i) /\ Keeps(a, e, c, s, e, c, t, d) /\ Marked(a, s, e, c, t, d)
    BY <2>1 DEF Informed
  <2>3. CASE i = 2 /\ q[1].do = "columns_created"
    <3>1. ASSUME Greeted(e, c, s, d) PROVE Greeted(e, c, t, d)
      BY <2>2, <3>1 DEF Greeted, Keeps, Marked
    <3>2. Settled(a, e, c, s, d) => Settled(a, e, c, t, d)
      BY <2>2, KeepsSettled
    <3>3. d = Main /\ Grid \in t.handled => Grid \in s.handled \/ FitsGrid(a, e, c, t)
      BY <2>2 DEF Marked
    <3> QED
      BY <1>1, <2>2, <2>3, <3>1, <3>2, <3>3 DEF Going
  <2>4. CASE ~(i = 2 /\ q[1].do = "columns_created")
    <3>1. q[i] = q[i] /\ e[q[i].d] = e[q[i].d]
      OBVIOUS
    <3> QED
      BY <2>2, <2>4, <3>1, GoingOn
  <2> QED
    BY <2>3, <2>4
<1>4. q # <<>> => Creating(a, e, c, t, q[1])
  BY <1>1 DEF Informed, Creating
<1> QED
  BY <1>2, <1>3, <1>4 DEF Informed

\* What a widget fetches when it paints itself is what it should show.
LEMMA PaintKnowing ==
  ASSUME Safe, Knowing, NEW v \in Fields \cup {ListPart}, Paint(v)
  PROVE  Informed(automatic, enabled, columns, todo, vis') /\ Repointed(vis, vis', v)
<1> DEFINE t == Fetched(vis, v)
           d == vis.of[v]
           f == ColumnByName(d, ShownName(v))
           a == automatic
           e == enabled
           c == columns
<1>1. vis' = t /\ t # vis
  BY DEF Paint
<1>2. Types /\ vis \in Vis /\ todo \in Seq(Items) /\ Informed(a, e, c, todo, vis)
  BY DEF Safe, Types, Knowing
<1>3. v \in DataVisibles /\ v \in Visibles
  BY Kinds
<1>4. vis.column[v] = Null /\ d # NoSource /\ e[d]
  BY <1>1 DEF Fetched
<1>5. d \in Datasources
  BY <1>2, <1>3, <1>4, VisIs
<1>6. f = In(c, d, ShownName(v))
  BY <1>2, <1>3, <1>5, InIs, GridColumnKinds
<1> HIDE DEF f
<1>7. Repointed(vis, t, v) /\ t.column[v] = f
  BY <1>2, <1>3, <1>4, FetchedIs DEF f
<1> HIDE DEF t, a, e, c
<1>8. Fits(e, c, vis, v) => Fits(e, c, t, v)
  <2> SUFFICES ASSUME Fits(e, c, vis, v) PROVE t.column[v] = Shown(e, c, t, v)
    BY DEF Fits
  <2>1. Shown(e, c, vis, v) = Null
    BY <1>3, <1>4 DEF Fits
  <2>2. f = Shown(e, c, vis, v)
    BY <1>4, <1>6, <2>1 DEF Shown
  <2>3. Shown(e, c, t, v) = Shown(e, c, vis, v)
    BY <1>7 DEF Shown, Repointed
  <2> QED
    BY <1>7, <2>2, <2>3
<1>9. ASSUME NEW u \in DataVisibles PROVE Fits(e, c, vis, u) => Fits(e, c, t, u)
  <2>1. CASE u = v
    BY <1>8, <2>1
  <2>2. CASE u # v
    <3>1. u \in DataVisibles \ {v} /\ Same(vis, t, {v})
      BY <1>2, <1>7, <2>2, RepointedIs
    <3> QED
      BY <3>1, SameIs
  <2> QED
    BY <2>1, <2>2
<1>10. t.of = vis.of /\ t.cols = vis.cols /\ t.handled = vis.handled /\ t.list = vis.list
  BY <1>7 DEF Repointed
<1>11. \A x \in Datasources : Keeps(a, e, c, vis, e, c, t, x) /\ Marked(a, vis, e, c, t, x)
  BY <1>9, <1>10 DEF Keeps, Marked, FitsGrid
<1>12. Informed(a, e, c, todo, t)
  BY <1>2, <1>10, <1>11, KeptInformed
<1> QED
  BY <1>1, <1>7, <1>12 DEF a, e, c

-----------------------------------------------------------------------------
(* Which datasources do not come back.                                     *)

LEMMA JoinedDoomed ==
  ASSUME NEW h \in Seq(Items), NEW p \in Seq(Items), NEW q,
         \A i \in DOMAIN h : h[i].do \notin {"vanishes", "deleted", "destroy"},
         Doomed(p) \subseteq Doomed(q)
  PROVE  h \o p \in Seq(Items) /\ Doomed(h \o p) \subseteq Doomed(q)
<1> DEFINE r == h \o p
<1>1. /\ r \in Seq(Items) /\ Len(r) = Len(h) + Len(p)
      /\ \A i \in 1..Len(h) : r[i] = h[i]
      /\ \A i \in 1..Len(p) : r[i + Len(h)] = p[i]
  BY JoinedIs
<1>2. /\ Len(h) \in Nat /\ Len(p) \in Nat /\ DOMAIN h = 1..Len(h) /\ DOMAIN p = 1..Len(p)
      /\ DOMAIN r = 1..Len(r)
  BY <1>1
<1> HIDE DEF r
<1>3. ASSUME NEW i \in DOMAIN r, r[i].do \in {"vanishes", "deleted", "destroy"}
      PROVE  r[i].d \in Doomed(p)
  <2>1. i \notin 1..Len(h)
    BY <1>1, <1>2, <1>3
  <2>2. i - Len(h) \in 1..Len(p) /\ (i - Len(h)) + Len(h) = i
    BY <1>1, <1>2, <2>1
  <2>3. r[i] = p[i - Len(h)]
    BY <1>1, <2>2
  <2> QED
    BY <1>2, <1>3, <2>2, <2>3 DEF Doomed
<1>4. Doomed(r) \subseteq Doomed(p)
  BY <1>3 DEF Doomed
<1> QED
  BY <1>1, <1>4 DEF r

LEMMA TailDoomed ==
  ASSUME NEW q \in Seq(Items), q # <<>>
  PROVE  Tail(q) \in Seq(Items) /\ Doomed(Tail(q)) \subseteq Doomed(q)
<1>1. /\ Tail(q) \in Seq(Items)
      /\ \A i \in 1..Len(Tail(q)) : Tail(q)[i] = q[i + 1] /\ i + 1 \in DOMAIN q
  BY TailOver
<1>2. DOMAIN Tail(q) = 1..Len(Tail(q))
  BY <1>1
<1> QED
  BY <1>1, <1>2 DEF Doomed

LEMMA IteratedDoomed ==
  ASSUME NEW q \in Seq(Items), q # <<>>, NEW it \in Iterators
  PROVE  Iterated(q, it) \in Seq(Items) /\ Doomed(Iterated(q, it)) \subseteq Doomed(q)
<1> DEFINE p == Iterated(q, it)
<1>1. /\ p \in Seq(Items) /\ DOMAIN p = DOMAIN q
      /\ p[1].do = q[1].do /\ p[1].d = q[1].d /\ \A i \in 2..Len(q) : p[i] = q[i]
  BY IteratedIs
<1> HIDE DEF p
<1>2. \A i \in DOMAIN q : p[i].do = q[i].do /\ p[i].d = q[i].d
  <2>1. DOMAIN q = 1..Len(q) /\ Len(q) \in Nat
    BY ItemsAre
  <2>2. \A i \in 1..Len(q) : i = 1 \/ i \in 2..Len(q)
    BY <2>1
  <2> QED
    BY <1>1, <2>1, <2>2
<1>3. Doomed(p) \subseteq Doomed(q)
  BY <1>1, <1>2 DEF Doomed
<1> QED
  BY <1>1, <1>3 DEF p

\* A call that is made below another.
LEMMA CallDoomed ==
  ASSUME NEW what \in {"enable", "disable", "delete_columns", "query", "columns_gone",
                       "columns_created", "enabled", "disabled"},
         NEW d \in Datasources, NEW p \in Seq(Items), NEW q, Doomed(p) \subseteq Doomed(q)
  PROVE  /\ <<Item(what, d)>> \o p \in Seq(Items)
         /\ Doomed(<<Item(what, d)>> \o p) \subseteq Doomed(q)
<1> DEFINE call == Item(what, d)
           h == <<call>>
<1>1. call \in Items /\ call.do = what
  <2>1. what \in Dos
    BY DEF Dos, Walks, Restarting
  <2> QED
    BY <2>1, ItemIs
<1> HIDE DEF call
<1>2. h \in Seq(Items) /\ \A i \in DOMAIN h : h[i].do \notin {"vanishes", "deleted", "destroy"}
  BY <1>1
<1> HIDE DEF h
<1>3. h \o p \in Seq(Items) /\ Doomed(h \o p) \subseteq Doomed(q)
  BY <1>2, JoinedDoomed
<1> QED
  BY <1>3 DEF h, call

\* Two of them.
LEMMA CallsDoomed ==
  ASSUME NEW what \in {"columns_created", "disable", "columns_gone"},
         NEW then \in {"enabled", "enable", "delete_columns"},
         NEW d \in Datasources, NEW p \in Seq(Items), NEW q, Doomed(p) \subseteq Doomed(q)
  PROVE  /\ <<Item(what, d), Item(then, d)>> \o p \in Seq(Items)
         /\ Doomed(<<Item(what, d), Item(then, d)>> \o p) \subseteq Doomed(q)
<1> DEFINE call == Item(what, d)
           next == Item(then, d)
           h == <<call, next>>
<1>1. call \in Items /\ call.do = what /\ next \in Items /\ next.do = then
  <2>1. what \in Dos /\ then \in Dos
    BY DEF Dos, Walks, Restarting
  <2> QED
    BY <2>1, ItemIs
<1> HIDE DEF call, next
<1>2. h \in Seq(Items) /\ DOMAIN h = {1, 2} /\ h[1] = call /\ h[2] = next
  BY <1>1
<1> HIDE DEF h
<1>3. \A i \in DOMAIN h : h[i].do \notin {"vanishes", "deleted", "destroy"}
  BY <1>1, <1>2
<1>4. h \o p \in Seq(Items) /\ Doomed(h \o p) \subseteq Doomed(q)
  BY <1>2, <1>3, JoinedDoomed
<1> QED
  BY <1>4 DEF h, call, next

\* No call of a datasource makes another vanish, nor deletes it.
LEMMA StepDoomed ==
  ASSUME Safe, Step
  PROVE  Doomed(todo') \subseteq Doomed(todo)
<1> DEFINE d == todo[1].d
           rest == Tail(todo)
<1>0. todo # <<>>
  BY Zenon DEF Step, BeginWalk, TellVisible, ScriptRequeries, EndWalk, Walking, Enable, DeleteColumns,
         QuerySucceeds, QueryFails, Disable, Destroy, Doing
<1>1. todo \in Seq(Items) /\ d \in Datasources
  BY <1>0, ItemsAre DEF Safe, Types
<1>2. rest \in Seq(Items) /\ Doomed(rest) \subseteq Doomed(todo)
  BY <1>0, <1>1, TailDoomed
<1>3. ASSUME NEW it \in Iterators
      PROVE  Iterated(todo, it) \in Seq(Items) /\ Doomed(Iterated(todo, it)) \subseteq Doomed(todo)
  BY <1>0, <1>1, IteratedDoomed
<1>4. CASE BeginWalk
  <2>1. todo' = Iterated(todo, Begin) /\ Begin \in Iterators
    BY <1>4 DEF BeginWalk, Iterated, Iterators
  <2> QED
    BY <1>3, <2>1
<1>5. CASE TellVisible
  <2> DEFINE do == todo[1].do
             v == AtIterator
             s == Told(do, vis, v)
             it == NextAfter(do, s, vis.list[d], v)
             C == CallsOf(do, v)
             p == Iterated(todo, it)
  <2>1. Walking /\ v # End /\ todo' = C \o p
    BY <1>5 DEF TellVisible, Iterated
  <2>2. it \in Iterators
    BY <2>1, NextAfterIs
  <2> HIDE DEF it, v
  <2>3. p \in Seq(Items) /\ Doomed(p) \subseteq Doomed(todo)
    BY <1>3, <2>2
  <2> HIDE DEF p
  <2>4. C = <<>> \/ \E what \in {"enable", "disable"} : C = <<Item(what, Listed)>>
    BY CallsAre DEF Safe
  <2> HIDE DEF C
  <2>5. CASE C = <<>>
    <3>1. todo' = p
      BY <2>1, <2>3, <2>5
    <3> QED
      BY <2>3, <3>1
  <2>6. ASSUME NEW what \in {"enable", "disable"}, C = <<Item(what, Listed)>>
        PROVE  Doomed(todo') \subseteq Doomed(todo)
    <3>1. Doomed(<<Item(what, Listed)>> \o p) \subseteq Doomed(todo)
      BY <2>3, CallDoomed, Kinds
    <3> QED
      BY <2>1, <2>6, <3>1
  <2> QED
    BY <2>4, <2>5, <2>6
<1>6. CASE ScriptRequeries
  <2> DEFINE it == After(vis.list[d], AtIterator)
             p == Iterated(todo, it)
  <2>1. PICK x \in Datasources :
          /\ Walking /\ todo[1].do = "row_changed" /\ AtIterator # End
          /\ todo' = <<Item("disable", x), Item("enable", x)>> \o p
    BY <1>6 DEF ScriptRequeries, Iterated
  <2>2. it \in Iterators
    BY <2>1, NextAfterIs
  <2> HIDE DEF it
  <2>3. p \in Seq(Items) /\ Doomed(p) \subseteq Doomed(todo)
    BY <1>3, <2>2
  <2> HIDE DEF p
  <2>4. Doomed(<<Item("disable", x), Item("enable", x)>> \o p) \subseteq Doomed(todo)
    BY <2>3, CallsDoomed
  <2> QED
    BY <2>1, <2>4
<1>7. CASE EndWalk \/ DeleteColumns \/ QueryFails \/ Destroy
  <2>1. todo' = rest
    BY <1>7 DEF EndWalk, DeleteColumns, QueryFails, Destroy
  <2> QED
    BY <1>2, <2>1
<1> HIDE DEF d, rest
<1>8. CASE Enable
  <2> DEFINE q == <<Item("query", d)>> \o rest
  <2>1. q \in Seq(Items) /\ Doomed(q) \subseteq Doomed(todo)
    BY <1>1, <1>2, CallDoomed
  <2>2. Doomed(<<Item("columns_gone", d), Item("delete_columns", d)>> \o q) \subseteq Doomed(todo)
    <3> HIDE DEF q
    <3> QED
      BY <1>1, <2>1, CallsDoomed
  <2>3. todo' = (IF enabled[d] THEN rest
                 ELSE (IF columns[d] = {} THEN <<>>
                       ELSE <<Item("columns_gone", d), Item("delete_columns", d)>>)
                      \o <<Item("query", d)>> \o rest)
    BY <1>8 DEF Enable, d, rest
  <2>4. CASE enabled[d]
    BY <1>2, <2>3, <2>4
  <2>5. CASE ~enabled[d] /\ columns[d] = {}
    <3>1. todo' = <<>> \o <<Item("query", d)>> \o rest
      BY <2>3, <2>5
    <3>2. <<>> \o <<Item("query", d)>> = <<Item("query", d)>>
      OBVIOUS
    <3>3. todo' = q
      BY <3>1, <3>2
    <3> QED
      BY <2>1, <3>3
  <2>6. CASE ~enabled[d] /\ columns[d] # {}
    <3> DEFINE h == <<Item("columns_gone", d), Item("delete_columns", d)>>
               k == <<Item("query", d)>>
    <3>1. todo' = (h \o k) \o rest
      BY <2>3, <2>6
    <3>2. h \in Seq(Items) /\ k \in Seq(Items)
      <4>1. "columns_gone" \in Dos /\ "delete_columns" \in Dos /\ "query" \in Dos
        BY DEF Dos, Walks, Restarting
      <4>2. Item("columns_gone", d) \in Items /\ Item("delete_columns", d) \in Items
            /\ Item("query", d) \in Items
        BY <1>1, <4>1, ItemIs
      <4> QED
        BY <4>2
    <3>3. /\ h \o k \in Seq(Items)
          /\ \A i \in DOMAIN (h \o k) : (h \o k)[i].do \notin {"vanishes", "deleted", "destroy"}
      <4> DEFINE r == h \o k
      <4>1. /\ r \in Seq(Items) /\ DOMAIN r = {1, 2, 3} /\ r[1] = Item("columns_gone", d)
            /\ r[2] = Item("delete_columns", d) /\ r[3] = Item("query", d)
        BY <3>2
      <4> HIDE DEF r
      <4>2. \A i \in DOMAIN r : r[i].do \notin {"vanishes", "deleted", "destroy"}
        BY <4>1 DEF Item
      <4> QED
        BY <4>1, <4>2 DEF r
    <3>4. Doomed((h \o k) \o rest) \subseteq Doomed(todo)
      <4> HIDE DEF h, k
      <4> QED
        BY <1>2, <3>3, JoinedDoomed
    <3> QED
      BY <3>1, <3>4
  <2> QED
    BY <2>4, <2>5, <2>6
<1>9. CASE QuerySucceeds
  <2>1. todo' = <<Item("columns_created", d), Item("enabled", d)>> \o rest
    BY <1>9 DEF QuerySucceeds, d, rest
  <2>2. Doomed(<<Item("columns_created", d), Item("enabled", d)>> \o rest) \subseteq Doomed(todo)
    BY <1>1, <1>2, CallsDoomed
  <2> QED
    BY <2>1, <2>2
<1>10. CASE Disable
  <2>1. todo' = IF enabled[d] THEN <<Item("disabled", d)>> \o rest ELSE rest
    BY <1>10 DEF Disable, d, rest
  <2>2. Doomed(<<Item("disabled", d)>> \o rest) \subseteq Doomed(todo)
    BY <1>1, <1>2, CallDoomed
  <2> QED
    BY <1>2, <2>1, <2>2
<1> QED
  BY <1>4, <1>5, <1>6, <1>7, <1>8, <1>9, <1>10 DEF Step

\* The columns of the grid go with its datasource.
LEMMA TellVisibleLiving ==
  ASSUME Safe, Knowing, TellVisible, automatic, Main \in alive, vis'.of[Grid] = NoSource
  PROVE  vis'.cols = {}
<1> DEFINE do == todo[1].do
           d == todo[1].d
           v == AtIterator
           s == Told(do, vis, v)
           t == vis'
<1>1. /\ Walking /\ v # End
      /\ t = IF do \in Restarting /\ do # "deleted"
             THEN [s EXCEPT !.handled = s.handled \cup {v}] ELSE s
  BY DEF TellVisible
<1>2. /\ todo # <<>> /\ todo \in Seq(Items) /\ do \in Walks /\ d \in Datasources
      /\ v \in Visibles /\ vis.of[v] = d
      /\ d = (IF v = ListPart THEN Listed ELSE Main)
  BY <1>1, WalkIs
<1>3. Types /\ vis \in Vis /\ Linked(vis) /\ Placed(vis)
  BY DEF Safe, Types
<1>4. vis.of[Grid] = NoSource => vis.cols = {}
  BY DEF Knowing, Living
<1>5. ~(do \in {"vanishes", "deleted"} /\ d = Main)
  <2>1. 1 \in DOMAIN todo
    BY <1>2, ItemsAre
  <2>2. do \in {"vanishes", "deleted"} => d \in Doomed(todo)
    BY <2>1 DEF Doomed
  <2> QED
    BY <2>2 DEF Knowing, Living
<1>6. Grid \in Visibles /\ Grid # ListPart /\ Main # Listed /\ NoSource \notin Datasources
  BY Kinds
<1> HIDE DEF v
<1>7. /\ Moved(columns, vis, s, Shell(v))
      /\ do \notin {"vanishes", "deleted"} => s.of[v] = vis.of[v]
  <2>1. vis.of[v] \in Datasources
    BY <1>2
  <2> HIDE DEF d, do
  <2> QED
    BY <1>2, <1>3, <2>1, ToldIs
<1>8. Same(vis, s, Shell(v))
  BY <1>7 DEF Moved
<1>9. s.cols = vis.cols \/ s.cols = {} \/ v = Grid
  <2>1. CASE do = "enabled"
    <3>1. s = Enabled(vis, v)
      BY <2>1 DEF Told
    <3>2. Repointed(vis, s, v)
      <4> HIDE DEF d
      <4> QED
        BY <1>2, <1>3, <3>1, EnabledIs
    <3> QED
      BY <3>2 DEF Repointed
  <2>2. CASE do = "disabled"
    <3>1. s = Disabled(vis, v)
      BY <2>2 DEF Told
    <3>2. v # Grid => Repointed(vis, s, v)
      BY <1>2, <1>3, <3>1, DisabledIs
    <3> QED
      BY <3>2 DEF Repointed
  <2>3. CASE do = "vanishes"
    <3>1. s = Released(vis, v)
      BY <2>3 DEF Told
    <3> QED
      BY <1>2, <1>3, <3>1, ReleasedIs
  <2>4. CASE do = "deleted"
    <3>1. s = Deleted(vis, v)
      BY <2>4 DEF Told
    <3> QED
      BY <1>2, <1>3, <3>1, DeletedIs
  <2>5. CASE do = "columns_gone"
    <3>1. s = ColumnsGone(vis, v)
      BY <2>5 DEF Told
    <3>2. Repointed(vis, s, v)
      BY <1>2, <1>3, <3>1, ColumnsGoneIs
    <3> QED
      BY <3>2 DEF Repointed
  <2>6. CASE do = "row_changed" \/ (do = "columns_created" /\ v # Grid)
    BY <2>6 DEF Told
  <2> QED
    BY <1>2, <2>1, <2>2, <2>3, <2>4, <2>5, <2>6 DEF Walks, Restarting
<1> HIDE DEF s, t
<1>10. t.of = s.of /\ t.cols = s.cols
  <2>1. s \in Vis /\ s.handled \cup {v} \in SUBSET Visibles
    BY <1>2, <1>7, VisIs DEF Moved
  <2>2. do \in Restarting /\ do # "deleted" => Rehandled(s, t)
    BY <1>1, <2>1, RehandledIs
  <2> QED
    BY <1>1, <2>2 DEF Rehandled
<1>11. CASE v = Grid
  <2>1. d = Main /\ do \notin {"vanishes", "deleted"}
    BY <1>2, <1>5, <1>6, <1>11
  <2>2. t.of[Grid] = Main
    BY <1>2, <1>7, <1>10, <1>11, <2>1
  <2> QED
    BY <1>2, <1>6, <2>1, <2>2 DEF t
<1>12. CASE v # Grid
  <2>1. Grid \in Visibles \ Shell(v)
    BY <1>6, <1>12 DEF Shell
  <2>2. s.of[Grid] = vis.of[Grid]
    BY <1>8, <2>1 DEF Same
  <2> QED
    BY <1>4, <1>9, <1>10, <1>12, <2>2 DEF t
<1> QED
  BY <1>11, <1>12

\* A query yields columns, and those of a datasource that goes on are deleted
\* only to be queried again.
LEMMA StepLiving ==
  ASSUME Safe, Knowing, Step
  PROVE  Living(automatic, alive, enabled', columns', todo', vis')
<1> DEFINE d == todo[1].d
           Kept == \A x \in alive : enabled'[x] => columns'[x] # {}
           Gridless == automatic /\ Main \in alive /\ vis'.of[Grid] = NoSource => vis'.cols = {}
<1>1. /\ todo \in Seq(Items) /\ alive \in SUBSET Datasources /\ vis \in Vis
      /\ enabled \in [Datasources -> BOOLEAN] /\ columns \in [Datasources -> SUBSET Names]
      /\ Stacked(todo) /\ Working(enabled, columns, todo, vis)
  BY DEF Safe, Types
<1>2. /\ Doomed(todo) \cap alive = {}
      /\ \A x \in alive : enabled[x] => columns[x] # {}
      /\ automatic /\ Main \in alive /\ vis.of[Grid] = NoSource => vis.cols = {}
  BY DEF Knowing, Living
<1>3. Doomed(todo') \cap alive = {}
  BY <1>2, StepDoomed
<1>4. vis' = vis => Gridless
  BY <1>2
<1>5. enabled' = enabled /\ columns' = columns => Kept
  BY <1>2
<1>6. CASE BeginWalk \/ EndWalk
  <2>1. enabled' = enabled /\ columns' = columns
    BY <1>6 DEF BeginWalk, EndWalk
  <2>2. vis'.of = vis.of /\ vis'.cols = vis.cols
    <3>1. CASE BeginWalk
      <4> DEFINE handled == IF todo[1].do \in Restarting \cup {"columns_created"}
                            THEN vis.handled \ Range(vis.list[d]) ELSE vis.handled
      <4>1. vis' = [vis EXCEPT !.handled = handled]
        BY <3>1 DEF BeginWalk
      <4>2. handled \in SUBSET Visibles
        <5>1. vis.handled \in SUBSET Visibles
          BY <1>1, VisIs
        <5> QED
          BY <5>1
      <4> HIDE DEF handled
      <4>3. Rehandled(vis, vis')
        BY <1>1, <4>1, <4>2, RehandledIs
      <4> QED
        BY <4>3 DEF Rehandled
    <3>2. CASE EndWalk
      <4>1. Rehandled(vis, [vis EXCEPT !.handled = {}])
        BY <1>1, RehandledIs
      <4> QED
        BY <3>2, <4>1 DEF EndWalk, Rehandled
    <3> QED
      BY <1>6, <3>1, <3>2
  <2> QED
    BY <1>2, <1>3, <1>5, <2>1, <2>2 DEF Living
<1>7. CASE TellVisible
  <2>1. enabled' = enabled /\ columns' = columns
    BY <1>7 DEF TellVisible
  <2>2. Gridless
    BY <1>7, TellVisibleLiving
  <2> QED
    BY <1>3, <1>5, <2>1, <2>2 DEF Living
<1>8. CASE ScriptRequeries \/ Enable \/ QueryFails
  <2>1. enabled' = enabled /\ columns' = columns /\ vis' = vis
    BY <1>8 DEF ScriptRequeries, Enable, QueryFails
  <2> QED
    BY <1>3, <1>4, <1>5, <2>1 DEF Living
<1>9. CASE Disable \/ Destroy
  <2>1. enabled' = [enabled EXCEPT ![d] = FALSE] /\ columns' = columns /\ vis' = vis
    BY <1>9 DEF Disable, Destroy
  <2>2. \A x \in Datasources : enabled'[x] => enabled[x]
    BY <1>1, <2>1
  <2>3. Kept
    BY <1>1, <1>2, <2>1, <2>2
  <2> QED
    BY <1>3, <1>4, <2>1, <2>3 DEF Living
<1>10. CASE QuerySucceeds
  <2>1. PICK names \in Queries[d] :
          /\ todo # <<>> /\ d \in alive
          /\ columns' = [columns EXCEPT ![d] = names] /\ enabled' = [enabled EXCEPT ![d] = TRUE]
          /\ vis' = vis
    BY <1>10 DEF QuerySucceeds, Doing
  <2>2. names # {}
    BY <1>1, <2>1, VisiblesAssumption
  <2>3. Kept
    BY <1>1, <1>2, <2>1, <2>2
  <2> QED
    BY <1>3, <1>4, <2>1, <2>3 DEF Living
<1>11. CASE DeleteColumns
  <2> DEFINE pointers == [v \in DataVisibles |-> Lost(d, vis.column[v])]
             w == Lost(d, vis.view)
  <2>1. /\ todo # <<>> /\ todo[1].do = "delete_columns"
        /\ columns' = [columns EXCEPT ![d] = {}] /\ enabled' = enabled
        /\ vis' = [vis EXCEPT !.column = pointers, !.view = w]
    BY <1>11 DEF DeleteColumns, Doing
  <2> HIDE DEF pointers, w
  <2>2. vis'.of = vis.of /\ vis'.cols = vis.cols
    <3>1. vis = [list |-> vis.list, of |-> vis.of, column |-> vis.column, view |-> vis.view,
                 cols |-> vis.cols, handled |-> vis.handled]
      BY <1>1 DEF Vis
    <3>2. vis' = [list |-> vis.list, of |-> vis.of, column |-> pointers, view |-> w,
                  cols |-> vis.cols, handled |-> vis.handled]
      BY <2>1, <3>1
    <3> QED
      BY <3>2
  <2>3. ~enabled[d] \/ d \notin alive
    <3>1. 1 \in DOMAIN todo /\ 1 + 1 = 2
      BY <1>1, <2>1, ItemsAre
    <3>2. Then(todo, 1, "query") \/ Then(todo, 1, "destroy")
      BY <1>1, <2>1, <3>1 DEF Stacked, Chained, Enabling
    <3>3. 2 \in DOMAIN todo /\ (todo[2] = Item("query", d) \/ todo[2] = Item("destroy", d))
      BY <3>1, <3>2 DEF Then
    <3> HIDE DEF d
    <3>4. CASE todo[2] = Item("query", d)
      <4>1. todo[2].do = "query" /\ todo[2].d = d
        BY <3>4 DEF Item
      <4> QED
        BY <1>1, <3>3, <4>1 DEF Working
    <3>5. CASE todo[2] = Item("destroy", d)
      <4>1. todo[2].do = "destroy" /\ todo[2].d = d
        BY <3>5 DEF Item
      <4>2. d \in Doomed(todo)
        BY <3>3, <4>1 DEF Doomed
      <4> QED
        BY <1>2, <4>2
    <3> QED
      BY <3>3, <3>4, <3>5
  <2>4. Kept
    BY <1>1, <1>2, <2>1, <2>3
  <2> QED
    BY <1>2, <1>3, <2>2, <2>4 DEF Living
<1> QED
  BY <1>6, <1>7, <1>8, <1>9, <1>10, <1>11 DEF Step

\* A datasource that is told to vanish or that is deleted is not enabled again.
LEMMA IdleLiving ==
  ASSUME Safe, Knowing, todo = <<>>,
         NEW k, NEW p, NEW t, NEW l, l \subseteq alive,
         Doomed(p) \cap l = {},
         \A x \in l : enabled[x] => k[x] = columns[x] \/ k[x] # {},
         \/ t.of[Grid] = vis.of[Grid] /\ t.cols = vis.cols
         \/ t.of[Grid] # NoSource
         \/ automatic => t.cols = {}
  PROVE  Living(automatic, l, enabled, k, p, t)
BY DEF Knowing, Living

LEMMA CallsNotDoomed ==
  ASSUME NEW p, p = <<>> \/ \E what \in {"enable", "disable", "row_changed"}, d \in Datasources :
                              p = <<Item(what, d)>>
  PROVE  Doomed(p) = {}
<1>1. CASE p = <<>>
  <2>1. DOMAIN p = {}
    BY <1>1
  <2> QED
    BY <2>1 DEF Doomed
<1>2. ASSUME NEW what \in {"enable", "disable", "row_changed"}, NEW d \in Datasources,
             p = <<Item(what, d)>>
      PROVE  Doomed(p) = {}
  <2>1. DOMAIN p = {1} /\ p[1] = Item(what, d)
    BY <1>2
  <2>2. p[1].do = what
    BY <2>1 DEF Item
  <2> QED
    BY <2>1, <2>2 DEF Doomed
<1> QED
  BY <1>1, <1>2

LEMMA InitKnowing ==
  ASSUME Init
  PROVE  Knowing
<1>1. /\ enabled = [d \in Datasources |-> FALSE] /\ todo = <<>> /\ DOMAIN todo = {}
      /\ vis.of = [v \in Visibles |-> NoSource] /\ vis.cols = IF automatic THEN {} ELSE Names
  BY DEF Init
<1>2. Main \in Datasources /\ NoSource \notin Datasources /\ Grid \in Visibles /\ DataVisibles \subseteq Visibles
      /\ alive = Datasources
  BY Kinds DEF Init
<1>3. \A x \in Datasources : Settled(automatic, enabled, columns, vis, x)
  BY <1>1, <1>2 DEF Settled, FitsGrid
<1>4. Informed(automatic, enabled, columns, todo, vis)
  BY <1>1, <1>3, OneStarts
<1>5. Living(automatic, alive, enabled, columns, todo, vis)
  BY <1>1, <1>2, CallsNotDoomed DEF Living
<1> QED
  BY <1>4, <1>5 DEF Knowing

LEMMA StepKnowing ==
  ASSUME Safe, Knowing, Step
  PROVE  Informed(automatic, enabled', columns', todo', vis')
<1>1. CASE BeginWalk
  BY <1>1, BeginWalkKnowing DEF BeginWalk
<1>2. CASE TellVisible
  BY <1>2, TellVisibleKnowing DEF TellVisible
<1>3. CASE ScriptRequeries
  BY <1>3, ScriptRequeriesKnowing DEF ScriptRequeries
<1>4. CASE EndWalk
  BY <1>4, EndWalkKnowing DEF EndWalk
<1>5. CASE Enable
  BY <1>5, EnableKnowing DEF Enable
<1>6. CASE DeleteColumns
  BY <1>6, DeleteColumnsKnowing DEF DeleteColumns
<1>7. CASE QuerySucceeds
  BY <1>7, QuerySucceedsKnowing DEF QuerySucceeds
<1>8. CASE QueryFails
  BY <1>8, QueryFailsKnowing DEF QueryFails
<1>9. CASE Disable
  BY <1>9, DisableKnowing DEF Disable
<1>10. CASE Destroy
  BY <1>10, DestroyKnowing DEF Destroy
<1> QED
  BY <1>1, <1>2, <1>3, <1>4, <1>5, <1>6, <1>7, <1>8, <1>9, <1>10 DEF Step

LEMMA NextKnowing ==
  ASSUME Safe, Knowing, [Next]_vars
  PROVE  Knowing'
<1>1. CASE UNCHANGED vars
  BY <1>1 DEF vars, Knowing
<1>2. CASE Step
  <2>1. automatic' = automatic /\ alive' = alive
    BY <1>2, Zenon DEF Step, BeginWalk, TellVisible, ScriptRequeries, EndWalk, Enable, DeleteColumns,
                QuerySucceeds, QueryFails, Disable, Destroy
  <2> QED
    BY <1>2, <2>1, StepKnowing, StepLiving DEF Knowing
<1>3. ASSUME NEW d \in Datasources, SetEnabled(d) PROVE Knowing'
  <2>1. /\ todo = <<>> /\ UNCHANGED <<automatic, alive, enabled, columns, vis>>
        /\ \E what \in {"enable", "disable"} : todo' = <<Item(what, d)>>
    BY <1>3 DEF SetEnabled, Idle
  <2>2. \E what \in {"enable", "disable", "row_changed"}, x \in Datasources : todo' = <<Item(what, x)>>
    BY <2>1
  <2>3. Doomed(todo') = {}
    BY <2>2, CallsNotDoomed
  <2>4. Living(automatic, alive, enabled, columns, todo', vis)
    BY <2>1, <2>3, IdleLiving
  <2> QED
    BY <1>3, <2>1, <2>4, SetEnabledKnowing DEF Knowing
<1>4. CASE GotoRow
  <2>1. /\ todo = <<>> /\ UNCHANGED <<automatic, alive, enabled, columns, vis>>
        /\ todo' = <<Item("row_changed", Main)>>
    BY <1>4 DEF GotoRow, Idle
  <2>2. Doomed(todo') = {}
    BY <2>1, CallsNotDoomed, Kinds
  <2>3. Living(automatic, alive, enabled, columns, todo', vis)
    BY <2>1, <2>2, IdleLiving
  <2> QED
    BY <1>4, <2>1, <2>3, GotoRowKnowing DEF Knowing
<1>5. ASSUME NEW d \in Datasources, SourceVanishes(d) PROVE Knowing'
  <2>1. /\ todo = <<>> /\ UNCHANGED <<automatic, enabled, columns, vis>>
        /\ todo' = <<Item("vanishes", d), Item("disable", d)>> /\ alive' = alive \ {d}
    BY <1>5 DEF SourceVanishes, Idle
  <2>2. Doomed(todo') \subseteq {d}
    <3>1. DOMAIN todo' = {1, 2} /\ todo'[1] = Item("vanishes", d) /\ todo'[2] = Item("disable", d)
      BY <2>1
    <3>2. todo'[1].d = d /\ todo'[2].d = d
      BY <3>1 DEF Item
    <3> QED
      BY <3>1, <3>2 DEF Doomed
  <2>3. Living(automatic, alive', enabled, columns, todo', vis)
    BY <2>1, <2>2, IdleLiving
  <2> QED
    BY <1>5, <2>1, <2>3, SourceVanishesKnowing DEF Knowing
<1>6. ASSUME NEW d \in Datasources, DeleteDatasource(d) PROVE Knowing'
  <2>1. /\ todo = <<>> /\ UNCHANGED <<automatic, enabled, columns, vis>>
        /\ todo' = <<Item("deleted", d), Item("delete_columns", d), Item("destroy", d)>>
        /\ alive' = alive \ {d}
    BY <1>6 DEF DeleteDatasource, Idle
  <2>2. Doomed(todo') \subseteq {d}
    <3>1. /\ DOMAIN todo' = {1, 2, 3} /\ todo'[1] = Item("deleted", d)
          /\ todo'[2] = Item("delete_columns", d) /\ todo'[3] = Item("destroy", d)
      BY <2>1
    <3>2. todo'[1].d = d /\ todo'[2].d = d /\ todo'[3].d = d
      BY <3>1 DEF Item
    <3> QED
      BY <3>1, <3>2 DEF Doomed
  <2>3. Living(automatic, alive', enabled, columns, todo', vis)
    BY <2>1, <2>2, IdleLiving
  <2> QED
    BY <1>6, <2>1, <2>3, DeleteDatasourceKnowing DEF Knowing
<1>7. ASSUME NEW v \in Fields \cup {Grid, Combo, ListPart}, NEW d \in Datasources,
             SetDatasource(v, d)
      PROVE  Knowing'
  <2>1. /\ todo = <<>> /\ UNCHANGED <<automatic, alive, enabled, columns>>
        /\ (v = ListPart) = (d = Listed) /\ vis' = Attached(vis, v, d)
    BY <1>7 DEF SetDatasource, Idle
  <2>2. Doomed(todo') = {}
    <3>1. CASE v = ListPart /\ vis.of[Combo] # NoSource
      <4>1. todo' = <<Item(IF enabled[vis.of[Combo]] THEN "enable" ELSE "disable", d)>>
        BY <1>7, <3>1 DEF SetDatasource
      <4>2. todo' = <<Item("enable", d)>> \/ todo' = <<Item("disable", d)>>
        BY <4>1
      <4> QED
        BY <4>2, CallsNotDoomed
    <3>2. CASE ~(v = ListPart /\ vis.of[Combo] # NoSource)
      <4> DEFINE do == IF enabled[d] THEN "enabled" ELSE "disabled"
      <4>1. todo' = CallsOf(do, v)
        BY <1>7, <3>2 DEF SetDatasource
      <4> HIDE DEF do
      <4>2. CallsOf(do, v) = <<>> \/ \E what \in {"enable", "disable"} : CallsOf(do, v) = <<Item(what, Listed)>>
        BY CallsAre DEF Safe
      <4> QED
        BY <4>1, <4>2, CallsNotDoomed, Kinds
    <3> QED
      BY <3>1, <3>2
  <2>3. (vis'.of[Grid] = vis.of[Grid] /\ vis'.cols = vis.cols) \/ vis'.of[Grid] # NoSource
    <3> DEFINE t == Attached(vis, v, d)
    <3>1. v \in Visibles /\ v \notin GridColumns /\ Grid \in Visibles /\ d # NoSource
      BY VisiblesAssumption, Kinds DEF DataVisibles
    <3>2. Types /\ vis \in Vis /\ Linked(vis) /\ Placed(vis)
      BY DEF Safe, Types
    <3>3. /\ Same(vis, t, Shell(v)) /\ t.of[v] = d
          /\ v # Grid => t.cols = vis.cols
      BY <2>1, <3>1, <3>2, AttachedIs DEF Moved
    <3>4. vis' = t
      BY <2>1
    <3> HIDE DEF t
    <3>5. v # Grid => t.of[Grid] = vis.of[Grid]
      BY <3>1, <3>3 DEF Same, Shell
    <3> QED
      BY <3>1, <3>3, <3>4, <3>5
  <2>4. Living(automatic, alive, enabled, columns, todo', vis')
    BY <2>1, <2>2, <2>3, IdleLiving
  <2> QED
    BY <1>7, <2>1, <2>4, SetDatasourceKnowing DEF Knowing
<1>8. CASE SetViewColumn
  <2> DEFINE d == vis.of[ListPart]
  <2>1. PICK names \in IF columns[d] # {} THEN {columns[d]} ELSE Queries[d] :
          /\ columns' = [columns EXCEPT ![d] = names]
          /\ vis' = [vis EXCEPT !.view = IF ViewName \in names THEN <<d, ViewName>> ELSE Null]
    BY <1>8 DEF SetViewColumn
  <2>2. /\ todo = <<>> /\ todo' = todo /\ d \in alive
        /\ UNCHANGED <<automatic, alive, enabled>>
    BY <1>8 DEF SetViewColumn, Idle
  <2>3. /\ vis \in Vis /\ d \in Datasources /\ columns \in [Datasources -> SUBSET Names]
        /\ alive \in SUBSET Datasources
    BY <2>2 DEF Safe, Types
  <2>4. names # {}
    BY <2>1, <2>3, VisiblesAssumption
  <2>5. \A x \in alive : enabled[x] => columns'[x] = columns[x] \/ columns'[x] # {}
    BY <2>1, <2>3, <2>4
  <2>6. vis'.of = vis.of /\ vis'.cols = vis.cols
    <3> DEFINE w == IF ViewName \in names THEN <<d, ViewName>> ELSE Null
    <3>1. vis = [list |-> vis.list, of |-> vis.of, column |-> vis.column, view |-> vis.view,
                 cols |-> vis.cols, handled |-> vis.handled]
      BY <2>3 DEF Vis
    <3>2. vis' = [vis EXCEPT !.view = w]
      BY <2>1
    <3> HIDE DEF w
    <3>3. vis' = [list |-> vis.list, of |-> vis.of, column |-> vis.column, view |-> w,
                  cols |-> vis.cols, handled |-> vis.handled]
      BY <3>1, <3>2
    <3> QED
      BY <3>3
  <2>7. Doomed(todo') = {}
    BY <2>2, CallsNotDoomed
  <2>8. Living(automatic, alive, enabled, columns', todo', vis')
    BY <2>2, <2>5, <2>6, <2>7, IdleLiving
  <2> QED
    BY <1>8, <2>2, <2>8, SetViewColumnKnowing DEF Knowing
<1>9. ASSUME NEW v \in Fields \cup {Grid, Combo}, DeleteVisible(v) PROVE Knowing'
  <2>1. /\ todo = <<>> /\ todo' = todo /\ UNCHANGED <<automatic, alive, enabled, columns>>
    BY <1>9 DEF DeleteVisible, Idle
  <2>2. /\ Informed(automatic, enabled, columns, todo', vis')
        /\ \/ vis'.of[Grid] = vis.of[Grid] /\ vis'.cols = vis.cols
           \/ automatic => vis'.cols = {}
    BY <1>9, DeleteVisibleKnowing
  <2>3. Doomed(todo') = {}
    BY <2>1, CallsNotDoomed
  <2>4. Living(automatic, alive, enabled, columns, todo', vis')
    BY <2>1, <2>2, <2>3, IdleLiving
  <2> QED
    BY <2>1, <2>2, <2>4 DEF Knowing
<1>10. ASSUME NEW v \in Fields \cup {ListPart}, Paint(v) PROVE Knowing'
  <2>1. UNCHANGED <<automatic, alive, enabled, columns, todo>>
    BY <1>10 DEF Paint
  <2>2. Informed(automatic, enabled, columns, todo, vis') /\ Repointed(vis, vis', v)
    BY <1>10, PaintKnowing
  <2>3. Living(automatic, alive, enabled, columns, todo, vis')
    BY <2>2 DEF Knowing, Living, Repointed
  <2> QED
    BY <2>1, <2>2, <2>3 DEF Knowing
<1> QED
  BY <1>1, <1>2, <1>3, <1>4, <1>5, <1>6, <1>7, <1>8, <1>9, <1>10 DEF Next

\* Whoever of the visibles is not being told, nor will be by a call under way,
\* shows what its datasource has, although the walks interrupt each other and
\* share p_already_handled.
THEOREM WhoIsNotToldFits == ASSUME CarefulScripts PROVE Spec => []Knowing
<1>1. Init => Knowing
  BY InitKnowing
<1>2. Safe /\ Knowing /\ [Next]_vars => Knowing'
  BY NextKnowing
<1> QED
  BY <1>1, <1>2, CallsKeepTogether, PTL DEF Spec

\* When datasource_enable, datasource_disable or any other call returns, every
\* field, column of the grid, combobox and list shows its column, or none of a
\* datasource that is disabled, and an automatic grid has the columns of the
\* last query.
THEOREM EverybodyIsTold == ASSUME CarefulScripts PROVE Spec => []EverybodyTold
<1>1. Safe /\ Knowing => EverybodyTold
  <2> SUFFICES ASSUME Safe, Knowing, todo = <<>>
               PROVE  /\ \A v \in DataVisibles : vis.of[v] # NoSource => vis.column[v] = Expected(v)
                      /\ automatic /\ vis.of[Grid] # NoSource =>
                           vis.cols = IF enabled[vis.of[Grid]] THEN columns[vis.of[Grid]] ELSE {}
    BY DEF EverybodyTold, Idle
  <2>1. \A x \in Datasources : Settled(automatic, enabled, columns, vis, x)
    BY IdleSettled DEF Knowing
  <2>2. ASSUME NEW v \in DataVisibles, vis.of[v] # NoSource PROVE vis.column[v] = Expected(v)
    <3>1. vis.of[v] \in Datasources
      BY <2>2, Kinds DEF Safe, Placed
    <3>2. vis.column[v] = Shown(enabled, columns, vis, v)
      BY <2>1, <2>2, <3>1 DEF Settled, Fits
    <3>3. Expected(v) = Shown(enabled, columns, vis, v)
      BY DEF Expected, Shown, ColumnByName, In
    <3> QED
      BY <3>2, <3>3
  <2>3. vis.of[Grid] # NoSource => vis.of[Grid] = Main
    BY Kinds DEF Safe, Placed
  <2>4. FitsGrid(automatic, enabled, columns, vis)
    BY <2>1, Kinds DEF Settled
  <2> QED
    BY <2>2, <2>3, <2>4 DEF FitsGrid
<1> QED
  BY <1>1, CallsKeepTogether, WhoIsNotToldFits, PTL
=============================================================================
