-------------------------- MODULE CsvImportProofs ---------------------------
(***************************************************************************)
(* What an import makes of any file: each row gets into the table with its *)
(* values in their columns, or is reported, or holds nothing, whatever the *)
(* server and the user answer, and the types of a new table are those of   *)
(* the values it was guessed from.                                         *)
(***************************************************************************)
EXTENDS CsvReadProofs

\* The files the properties speak of.
LEMMA ClearIs ==
  ASSUME Unambiguous
  PROVE  ClearFile(file)
BY DEF Unambiguous, ClearFile, ClearRow, Clear

LEMMA LeastOfTwo ==
  ASSUME NEW a \in Nat, NEW b \in Nat
  PROVE  Min({a, b}) = IF a <= b THEN a ELSE b
<1>1. Min({a, b}) \in {a, b} /\ \A n \in {a, b} : Min({a, b}) <= n
  BY Least
<1> QED
  BY <1>1

-----------------------------------------------------------------------------
(* Types.                                                                  *)

TypeNames == {"text", "integer", "float"}

LEMMA InterpretedType ==
  ASSUME NEW t
  PROVE  InterpretColumntype(t) \in TypeNames
BY DEF InterpretColumntype, TypeNames

\* The mark of a quoted value is neither digit nor point.
LEMMA MarkedText ==
  ASSUME NEW t \in Seq(Characters)
  PROVE  InterpretColumntype(<<Mark>> \o t) = "text"
<1> DEFINE u == <<Mark>> \o t
           P == { i \in DOMAIN u : u[i] = Point }
           D == { i \in DOMAIN u : u[i] \in Digits }
<1>1. /\ Len(u) = Len(t) + 1 /\ Len(t) \in Nat /\ DOMAIN u = 1..Len(u) /\ u[1] = Mark
  BY CharactersAssumption
<1> HIDE DEF u
<1>2. Mark # Point /\ Mark \notin Digits /\ Point \notin Digits
  BY CharactersAssumption DEF Digits
<1>3. P \in SUBSET (2..Len(u)) /\ D \in SUBSET (2..Len(u)) /\ P \cap D = {}
  <2>1. \A i \in 1..Len(u) : i # 1 => i \in 2..Len(u)
    BY <1>1
  <2> QED
    BY <1>1, <1>2, <2>1
<1>4. IsFiniteSet(2..Len(u)) /\ Cardinality(2..Len(u)) = Len(t)
  <2>1. Len(u) \in Int /\ 2 \in Int
    BY <1>1
  <2>2. IsFiniteSet(2..Len(u)) /\ Cardinality(2..Len(u)) = IF 2 > Len(u) THEN 0 ELSE Len(u) - 2 + 1
    BY <2>1, FS_Interval
  <2> QED
    BY <1>1, <2>2
<1> HIDE DEF P, D
<1>5. IsFiniteSet(P) /\ IsFiniteSet(D) /\ Cardinality(P \cup D) <= Len(t)
  <2>1. P \cup D \in SUBSET (2..Len(u))
    BY <1>3
  <2> QED
    BY <1>3, <1>4, <2>1, FS_Subset
<1>6. Cardinality(P \cup D) = Cardinality(P) + Cardinality(D)
  <2>1. Cardinality(P \cup D) = Cardinality(P) + Cardinality(D) - Cardinality(P \cap D)
    BY <1>5, FS_Union
  <2>2. Cardinality(P \cap D) = 0
    BY <1>3, FS_EmptySet
  <2>3. Cardinality(P) \in Nat /\ Cardinality(D) \in Nat
    BY <1>5, FS_CardinalityType
  <2> QED
    BY <2>1, <2>2, <2>3
<1>7. Cardinality(P) + Cardinality(D) < Len(u)
  <2>1. Cardinality(P) \in Nat /\ Cardinality(D) \in Nat
    BY <1>5, FS_CardinalityType
  <2> DEFINE p == Cardinality(P)
             q == Cardinality(D)
  <2>2. p + q <= Len(t)
    BY <1>5, <1>6
  <2> HIDE DEF p, q
  <2>3. p + q < Len(u)
    <3>1. p \in Nat /\ q \in Nat
      BY <2>1 DEF p, q
    <3> QED
      BY <1>1, <2>2, <3>1
  <2> QED
    BY <2>3 DEF p, q
<1> QED
  BY <1>7 DEF InterpretColumntype, P, D, u

\* A type is widened and never narrowed.
LEMMA MergedType ==
  \A t, u \in TypeNames :
    /\ Merged(t, u) \in TypeNames
    /\ Merged(t, u) = "integer" <=> t = "integer" /\ u = "integer"
    /\ Merged(t, u) = "text" <=> t = "text" \/ u = "text"
BY DEF Merged, TypeNames

GuessBy(c, g, n) ==
  LET values == lines[n].marked
      type == Merged(g.type, InterpretColumntype(values[c]))
      v == IntegerOf(values[c])
  IN  IF c \notin DOMAIN values THEN g
      ELSE [type |-> type,
            value |-> IF type = "integer" /\ v > g.value /\ g.value > 0 THEN v ELSE -1]
Guessing == INSTANCE FoldLemmas WITH Op <- GuessBy

First(c) ==
  LET first == lines[HeaderLines + 1].marked[c]
  IN  [type |-> InterpretColumntype(first),
       value |-> IF InterpretColumntype(first) = "integer" THEN IntegerOf(first) ELSE -1]

\* Column c after k lines of the preview.
After(c, k) == Guessing!Fold(c, First(c), [i \in 1..k |-> HeaderLines + 1 + i])

\* The guess is a fold over the lines of the preview.
LEMMA GuessedIs ==
  ASSUME NEW c
  PROVE  Guessed(c) = After(c, Cardinality(PreviewLines))
BY Zenon DEF Guessed, After, First, GuessBy, Guessing!Fold, Guessing!Greatest, FoldLeft, MapThenFoldSet, Max

LEMMA AfterIs ==
  ASSUME NEW c, NEW k \in Nat
  PROVE  /\ After(c, 0) = First(c)
         /\ After(c, k + 1) = GuessBy(c, After(c, k), HeaderLines + 1 + (k + 1))
<1>0. HeaderLines \in Nat
  BY DEF HeaderLines
<1>1. [i \in 1..0 |-> HeaderLines + 1 + i] = <<>>
  OBVIOUS
<1>2. After(c, 0) = First(c)
  BY <1>1, Guessing!FoldEmpty DEF After
<1> DEFINE h == HeaderLines
           s == [i \in 1..k |-> h + 1 + i]
           t == [i \in 1..(k + 1) |-> h + 1 + i]
           x == h + 1 + (k + 1)
<1> HIDE DEF h
<1>3. s \in Seq(Nat) /\ t = Append(s, x) /\ x \in Nat
  BY <1>0 DEF h
<1> HIDE DEF s, t, x
<1>4. Guessing!Fold(c, First(c), Append(s, x)) = GuessBy(c, Guessing!Fold(c, First(c), s), x)
  BY <1>3, Guessing!FoldAppend
<1> QED
  BY <1>2, <1>3, <1>4 DEF After, s, t, x, h

\* The type of a column after some lines, by the types of the values in them.
TypeSeen(c, k, type) ==
  LET seen == { n \in (HeaderLines + 1)..(HeaderLines + 1 + k) : c \in DOMAIN lines[n].marked }
      T(n) == InterpretColumntype(lines[n].marked[c])
  IN  /\ type \in TypeNames
      /\ type = "integer" <=> \A n \in seen : T(n) = "integer"
      /\ type = "text" <=> \E n \in seen : T(n) = "text"

LEMMA TypesSeen ==
  ASSUME NEW c, c \in DOMAIN lines[HeaderLines + 1].marked
  PROVE  \A k \in Nat : TypeSeen(c, k, After(c, k).type)
<1> DEFINE h == HeaderLines + 1
           seen(k) == { n \in h..(h + k) : c \in DOMAIN lines[n].marked }
           T(n) == InterpretColumntype(lines[n].marked[c])
           S == { k \in Nat : TypeSeen(c, k, After(c, k).type) }
<1>1. h \in Nat
  BY DEF HeaderLines
<1>2. \A k : \A t : TypeSeen(c, k, t) <=> /\ t \in TypeNames
                                          /\ t = "integer" <=> \A n \in seen(k) : T(n) = "integer"
                                          /\ t = "text" <=> \E n \in seen(k) : T(n) = "text"
  BY DEF TypeSeen
<1>3. \A n : T(n) \in TypeNames
  BY InterpretedType
<1>4. First(c).type = T(h)
  BY DEF First
<1>5. c \in DOMAIN lines[h].marked
  OBVIOUS
<1>6. \A g, n : GuessBy(c, g, n).type = IF c \notin DOMAIN lines[n].marked THEN g.type ELSE Merged(g.type, T(n))
  BY DEF GuessBy
<1>7. \A k \in Nat : After(c, k + 1) = GuessBy(c, After(c, k), h + (k + 1))
  BY AfterIs
<1>8. After(c, 0) = First(c)
  BY AfterIs
<1> HIDE DEF h, T
<1>9. 0 \in S
  <2>1. h..(h + 0) = {h}
    BY <1>1
  <2>2. seen(0) = {h}
    BY <1>5, <2>1
  <2> HIDE DEF seen
  <2>3. T(h) \in TypeNames
    BY <1>3
  <2>4. T(h) = "integer" <=> \A n \in seen(0) : T(n) = "integer"
    BY <2>2
  <2>5. T(h) = "text" <=> \E n \in seen(0) : T(n) = "text"
    BY <2>2
  <2> QED
    BY <1>2, <1>4, <1>8, <2>3, <2>4, <2>5
<1>10. ASSUME NEW k \in S PROVE k + 1 \in S
  <2> DEFINE t == After(c, k).type
             u == After(c, k + 1).type
             n == h + (k + 1)
  <2>1. k \in Nat /\ TypeSeen(c, k, t)
    BY <1>10
  <2>2. h..(h + (k + 1)) = (h..(h + k)) \cup {n}
    BY <1>1, <2>1
  <2>3. seen(k + 1) = seen(k) \cup (IF c \in DOMAIN lines[n].marked THEN {n} ELSE {})
    BY <2>2
  <2>4. u = IF c \notin DOMAIN lines[n].marked THEN t ELSE Merged(t, T(n))
    BY <1>6, <1>7, <2>1
  <2>5. /\ t \in TypeNames
        /\ t = "integer" <=> \A m \in seen(k) : T(m) = "integer"
        /\ t = "text" <=> \E m \in seen(k) : T(m) = "text"
    BY <1>2, <2>1
  <2>6. T(n) \in TypeNames
    BY <1>3
  <2>7. /\ Merged(t, T(n)) \in TypeNames
        /\ Merged(t, T(n)) = "integer" <=> t = "integer" /\ T(n) = "integer"
        /\ Merged(t, T(n)) = "text" <=> t = "text" \/ T(n) = "text"
    BY <2>5, <2>6, MergedType
  <2> HIDE DEF seen, t, u, n
  <2>8. /\ u \in TypeNames
        /\ u = "integer" <=> \A m \in seen(k + 1) : T(m) = "integer"
        /\ u = "text" <=> \E m \in seen(k + 1) : T(m) = "text"
    <3>1. CASE c \notin DOMAIN lines[n].marked
      BY <2>3, <2>4, <2>5, <3>1
    <3>2. CASE c \in DOMAIN lines[n].marked
      BY <2>3, <2>4, <2>5, <2>7, <3>2
    <3> QED
      BY <3>1, <3>2
  <2>9. TypeSeen(c, k + 1, u)
    BY <1>2, <2>8
  <2> QED
    BY <2>1, <2>9 DEF u
<1>11. S \in SUBSET Nat /\ \A k \in S : k + 1 \in S
  BY <1>10
<1> HIDE DEF S
<1>12. S = Nat
  BY <1>9, <1>11, SetInduction
<1> QED
  BY <1>12 DEF S

Known == file \in Files /\ setting \in Settings /\ LinesRead(file, lines)

\* A quoted value is text; of others the type is that of the text.
LEMMA ValueTyped ==
  ASSUME NEW x, Proper(x)
  PROVE  /\ InterpretColumntype(Value(FALSE, x)) = "integer" <=> IsNumber(x, {"integer"})
         /\ InterpretColumntype(Value(FALSE, x)) = "text" <=> ~IsNumber(x, {"integer", "float"})
<1>1. CASE x.quoted
  <2>1. x.text \in Seq(Characters)
    BY DEF Proper, Inner
  <2>2. InterpretColumntype(Value(FALSE, x)) = "text"
    BY <1>1, <2>1, MarkedText DEF Value
  <2> QED
    BY <1>1, <2>2 DEF IsNumber
<1>2. CASE ~x.quoted
  <2>1. Value(FALSE, x) = x.text
    BY <1>2 DEF Value
  <2>2. InterpretColumntype(x.text) \in TypeNames
    BY InterpretedType
  <2> QED
    BY <1>2, <2>1, <2>2 DEF IsNumber, TypeNames
<1> QED
  BY <1>1, <1>2

\* The values of a line as the guess of types sees them.
LEMMA MarkedRead ==
  ASSUME NEW r, ProperRow(r)
  PROVE  /\ DOMAIN RowValues(FALSE, r) = IF IsBlank(r) THEN {} ELSE DOMAIN r
         /\ Len(RowValues(FALSE, r)) \in Nat
         /\ DOMAIN RowValues(FALSE, r) = 1..Len(RowValues(FALSE, r))
         /\ ~IsBlank(r) => \A c \in DOMAIN r : RowValues(FALSE, r)[c] = Value(FALSE, r[c])
<1>1. Len(r) \in Nat /\ DOMAIN r = 1..Len(r)
  BY DEF ProperRow
<1>2. CASE IsBlank(r)
  BY <1>2 DEF RowValues
<1>3. CASE ~IsBlank(r)
  <2>1. RowValues(FALSE, r) = [i \in 1..Len(r) |-> Value(FALSE, r[i])]
    BY <1>3 DEF RowValues, Cells
  <2>2. Len(RowValues(FALSE, r)) = Len(r)
    <3> DEFINE V(i) == Value(FALSE, r[i])
               n == Len(r)
    <3>1. RowValues(FALSE, r) = [i \in 1..n |-> V(i)] /\ n \in Nat
      BY <1>1, <2>1
    <3> HIDE DEF V, n
    <3>2. Len([i \in 1..n |-> V(i)]) = n
      BY <3>1
    <3> QED
      BY <3>1, <3>2 DEF n
  <2> QED
    BY <1>1, <1>3, <2>1, <2>2
<1> QED
  BY <1>2, <1>3

\* The rows that are previewed are the lines that have been read for it.
LEMMA PreviewIs ==
  ASSUME Known
  PROVE  /\ Cardinality(PreviewLines) \in Nat
         /\ Cardinality(PreviewLines) <= MaxPreview
         /\ \A n \in Nat :
              n \in Previewed <=> n \in (HeaderLines + 1)..(HeaderLines + 1 + Cardinality(PreviewLines))
                                  /\ n <= Len(file.rows)
<1> DEFINE h == HeaderLines + 1
           rows == Len(file.rows)
           last == IF file.last THEN rows + 1 ELSE rows
           top == IF h + MaxPreview <= last THEN h + MaxPreview ELSE last
           m == IF top < h THEN 0 ELSE top - h
<1>1. h \in {1, 2} /\ rows \in Nat /\ MaxPreview \in Nat
  BY RowsProper, PreviewAssumption DEF HeaderLines, Known
<1>2. /\ Len(lines) \in Nat /\ Len(lines) >= MaxPreview + 2
      /\ \A k \in 1..Len(lines) : lines[k].eof <=> (k > rows \/ (k = rows /\ ~file.last))
  BY DEF Known, LinesRead, LineIs
<1>3. PreviewLines = { n \in (h + 1)..(h + MaxPreview) : \A k \in h..(n - 1) : ~lines[k].eof }
  <2>1. HeaderLines + 2 = h + 1
    BY DEF HeaderLines
  <2> QED
    BY <2>1 DEF PreviewLines
<1> HIDE DEF h, rows
<1>4. last \in Nat /\ (last = rows \/ last = rows + 1)
  BY <1>1
<1>5. \A k \in 1..Len(lines) : lines[k].eof <=> k >= last
  <2> SUFFICES ASSUME NEW k \in 1..Len(lines) PROVE lines[k].eof <=> k >= last
    OBVIOUS
  <2>1. lines[k].eof <=> (k > rows \/ (k = rows /\ ~file.last))
    BY <1>2
  <2>2. CASE file.last
    <3>1. k > rows <=> k >= rows + 1
      BY <1>1
    <3> QED
      BY <2>1, <2>2, <3>1
  <2>3. CASE ~file.last
    <3>1. (k > rows \/ k = rows) <=> k >= rows
      BY <1>1
    <3> QED
      BY <2>1, <2>3, <3>1
  <2> QED
    BY <2>2, <2>3
<1> HIDE DEF last
<1>6. top \in Nat /\ top <= last /\ top <= h + MaxPreview /\ (top = last \/ top = h + MaxPreview)
  BY <1>1, <1>4
<1> HIDE DEF top
<1>7. ASSUME NEW n \in (h + 1)..(h + MaxPreview)
      PROVE  (\A k \in h..(n - 1) : ~lines[k].eof) <=> n <= top
  <2>1. \A k \in h..(n - 1) : k \in 1..Len(lines)
    BY <1>1, <1>2
  <2>2. CASE n <= top
    <3>1. \A k \in h..(n - 1) : ~(k >= last)
      BY <1>1, <1>4, <1>6, <2>2
    <3> QED
      BY <1>5, <2>1, <2>2, <3>1
  <2>3. CASE ~(n <= top)
    <3>1. n - 1 \in h..(n - 1) /\ n - 1 >= last
      BY <1>1, <1>4, <1>6, <2>3
    <3> QED
      BY <1>5, <2>1, <2>3, <3>1
  <2> QED
    BY <2>2, <2>3
<1>8. PreviewLines = (h + 1)..top
  <2>1. \A n \in (h + 1)..top : n \in (h + 1)..(h + MaxPreview) /\ n <= top
    BY <1>1, <1>6
  <2>2. \A n \in (h + 1)..(h + MaxPreview) : n <= top => n \in (h + 1)..top
    BY <1>1, <1>6
  <2>3. PreviewLines = { n \in (h + 1)..(h + MaxPreview) : n <= top }
    BY <1>3, <1>7
  <2> QED
    BY <2>1, <2>2, <2>3
<1>9. Cardinality(PreviewLines) = m
  <2>1. h + 1 \in Int /\ top \in Int
    BY <1>1, <1>6
  <2>2. Cardinality((h + 1)..top) = IF h + 1 > top THEN 0 ELSE top - (h + 1) + 1
    BY <2>1, FS_Interval
  <2> QED
    BY <1>1, <1>6, <1>8, <2>2
<1>10. m \in Nat /\ m <= MaxPreview
  BY <1>1, <1>6
<1>11. ASSUME NEW n \in Nat PROVE n \in Previewed <=> n \in h..(h + m) /\ n <= rows
  <2> DEFINE least == Min({h + MaxPreview, rows})
  <2>1. least = IF h + MaxPreview <= rows THEN h + MaxPreview ELSE rows
    BY <1>1, LeastOfTwo
  <2>2. n \in Previewed <=> n >= h /\ n <= least
    <3>1. Previewed = h..least
      BY DEF Previewed, h, rows
    <3>2. least \in Nat
      BY <1>1, <2>1
    <3> HIDE DEF least
    <3> QED
      BY <1>1, <3>1, <3>2
  <2> HIDE DEF least
  <2>3. n <= least <=> n <= h + MaxPreview /\ n <= rows
    BY <1>1, <2>1
  <2>4. n \in h..(h + m) <=> n >= h /\ n <= h + m
    BY <1>1, <1>10
  <2>5. (n >= h /\ n <= h + MaxPreview /\ n <= rows) <=> (n >= h /\ n <= h + m /\ n <= rows)
    BY <1>1, <1>4, <1>6
  <2> QED
    BY <2>2, <2>3, <2>4, <2>5
<1> HIDE DEF m
<1> QED
  BY <1>9, <1>10, <1>11 DEF h, rows

\* The number of columns of a new table.
LEMMA NewWidthIs ==
  ASSUME Known
  PROVE  /\ NewWidth \in Nat /\ Names \in Nat /\ NewWidth <= Names
         /\ \A c \in 1..NewWidth : c \in DOMAIN lines[HeaderLines + 1].marked
<1>1. /\ Len(lines) \in Nat /\ Len(lines) >= MaxPreview + 2 /\ MaxPreview \in Nat
      /\ \A k \in 1..Len(lines) : LineIs(file, k, lines[k])
  BY PreviewAssumption DEF Known, LinesRead
<1>2. 1 \in 1..Len(lines) /\ HeaderLines + 1 \in 1..Len(lines)
  BY <1>1 DEF HeaderLines
<1>3. /\ Len(file.rows) \in Nat
      /\ \A k \in 1..Len(file.rows) : ProperRow(file.rows[k])
  BY RowsProper DEF Known
<1>4. ASSUME NEW k \in 1..Len(lines)
      PROVE  /\ Len(lines[k].values) \in Nat
             /\ Len(lines[k].marked) \in Nat /\ DOMAIN lines[k].marked = 1..Len(lines[k].marked)
  <2>1. LineIs(file, k, lines[k])
    BY <1>1
  <2>2. CASE k <= Len(file.rows)
    <3> DEFINE r == file.rows[k]
    <3>1. ProperRow(r)
      <4>1. k \in 1..Len(file.rows)
        BY <1>1, <1>3, <2>2
      <4> QED
        BY <1>3, <4>1
    <3>2. lines[k].values = RowValues(TRUE, r) /\ lines[k].marked = RowValues(FALSE, r)
      BY <2>1, <2>2 DEF LineIs
    <3> HIDE DEF r
    <3>3. Len(RowValues(TRUE, r)) \in Nat
      <4>1. Len(r) \in Nat
        BY <3>1 DEF ProperRow
      <4>2. Len(Cells(TRUE, r, Len(r))) = Len(r)
        BY <4>1 DEF Cells
      <4> QED
        BY <4>1, <4>2 DEF RowValues
    <3> QED
      BY <3>1, <3>2, <3>3, MarkedRead
  <2>3. CASE ~(k <= Len(file.rows))
    BY <2>1, <2>3 DEF LineIs
  <2> QED
    BY <2>2, <2>3
<1>5. Names \in Nat
  <2>1. Len(setting.given) \in Nat
    BY SettingsAssumption DEF Known
  <2> QED
    BY <1>2, <1>4, <2>1 DEF Names
<1> DEFINE w == Len(lines[HeaderLines + 1].marked)
<1>6. w \in Nat /\ DOMAIN lines[HeaderLines + 1].marked = 1..w
  BY <1>2, <1>4
<1> HIDE DEF w
<1>7. NewWidth = IF Names <= w THEN Names ELSE w
  BY <1>5, <1>6, LeastOfTwo DEF NewWidth, w
<1> QED
  BY <1>5, <1>6, <1>7

\* The types of a new table are those of the values previewed.
LEMMA NewTypesFit ==
  ASSUME Known, NEW c \in 1..NewWidth
  PROVE  LET seen == { file.rows[k][c] : k \in { l \in Previewed : c \in DOMAIN file.rows[l]
                                                                   /\ ~IsBlank(file.rows[l]) } }
         IN  /\ NewTypes[c] \in {"integer", "auto"} <=> \A f \in seen : IsNumber(f, {"integer"})
             /\ NewTypes[c] = "text" <=> ~\A f \in seen : IsNumber(f, {"integer", "float"})
<1> DEFINE h == HeaderLines + 1
           m == Cardinality(PreviewLines)
           rows == file.rows
           K == { l \in Previewed : c \in DOMAIN rows[l] /\ ~IsBlank(rows[l]) }
           L == { n \in h..(h + m) : c \in DOMAIN lines[n].marked }
           T(n) == InterpretColumntype(lines[n].marked[c])
           g == Guessed(c).type
<1>1. h \in {1, 2} /\ MaxPreview \in Nat /\ m \in Nat /\ m <= MaxPreview
  BY PreviewIs, PreviewAssumption DEF HeaderLines
<1>2. /\ Len(lines) \in Nat /\ Len(lines) >= MaxPreview + 2
      /\ \A k \in 1..Len(lines) : LineIs(file, k, lines[k])
  BY DEF Known, LinesRead
<1>3. Len(rows) \in Nat /\ \A k \in 1..Len(rows) : ProperRow(rows[k])
  BY RowsProper DEF Known
<1>4. /\ g \in TypeNames
      /\ g = "integer" <=> \A n \in L : T(n) = "integer"
      /\ g = "text" <=> \E n \in L : T(n) = "text"
  <2>1. c \in DOMAIN lines[HeaderLines + 1].marked
    BY NewWidthIs
  <2>2. TypeSeen(c, m, g)
    BY <1>1, <2>1, TypesSeen, GuessedIs
  <2> QED
    BY <2>2 DEF TypeSeen
<1>5. \A n \in Nat : n \in Previewed <=> n \in h..(h + m) /\ n <= Len(rows)
  BY PreviewIs
<1>6. Previewed \subseteq Nat
  BY <1>1 DEF Previewed
<1> HIDE DEF h, m, rows, g
<1>7. ASSUME NEW n \in h..(h + m)
      PROVE  /\ n \in L <=> n \in K
             /\ n \in K => (T(n) = "integer" <=> IsNumber(rows[n][c], {"integer"}))
             /\ n \in K => (T(n) = "text" <=> ~IsNumber(rows[n][c], {"integer", "float"}))
  <2>1. n \in 1..Len(lines) /\ n \in Nat
    BY <1>1, <1>2
  <2>2. LineIs(file, n, lines[n])
    BY <1>2, <2>1
  <2>3. CASE n <= Len(rows)
    <3> DEFINE r == rows[n]
    <3>1. n \in Previewed
      BY <1>5, <2>1, <2>3
    <3>2. ProperRow(r)
      <4>1. n \in 1..Len(rows)
        BY <1>3, <2>1, <2>3
      <4> QED
        BY <1>3, <4>1
    <3>3. lines[n].marked = RowValues(FALSE, r)
      BY <2>2, <2>3 DEF LineIs, rows
    <3> HIDE DEF r
    <3>4. /\ DOMAIN RowValues(FALSE, r) = IF IsBlank(r) THEN {} ELSE DOMAIN r
          /\ ~IsBlank(r) => \A d \in DOMAIN r : RowValues(FALSE, r)[d] = Value(FALSE, r[d])
      BY <3>2, MarkedRead
    <3>5. n \in K <=> c \in DOMAIN r /\ ~IsBlank(r)
      BY <3>1 DEF r
    <3>6. n \in L <=> n \in K
      BY <3>3, <3>4, <3>5
    <3>7. n \in K => T(n) = InterpretColumntype(Value(FALSE, r[c])) /\ Proper(r[c])
      BY <3>2, <3>3, <3>4, <3>5 DEF ProperRow
    <3> HIDE DEF K, L, T
    <3>8. n \in K => (T(n) = "integer" <=> IsNumber(r[c], {"integer"}))
      BY <3>7, ValueTyped
    <3>9. n \in K => (T(n) = "text" <=> ~IsNumber(r[c], {"integer", "float"}))
      BY <3>7, ValueTyped
    <3> QED
      BY <3>6, <3>8, <3>9 DEF r
  <2>4. CASE ~(n <= Len(rows))
    <3>1. lines[n].marked = <<>>
      BY <2>2, <2>4 DEF LineIs, rows
    <3>2. n \notin Previewed
      BY <1>5, <2>1, <2>4
    <3> QED
      BY <3>1, <3>2
  <2> QED
    BY <2>3, <2>4
<1>8. \A n \in K : n \in h..(h + m)
  BY <1>5, <1>6
<1> HIDE DEF K, T
<1>9. L = K
  BY <1>7, <1>8
<1> HIDE DEF L
<1>10. g = "integer" <=> \A k \in K : IsNumber(rows[k][c], {"integer"})
  BY <1>4, <1>7, <1>8, <1>9
<1>11. g = "text" <=> ~\A k \in K : IsNumber(rows[k][c], {"integer", "float"})
  BY <1>4, <1>7, <1>8, <1>9
<1>12. /\ NewTypes[c] \in {"integer", "auto"} <=> g = "integer"
       /\ NewTypes[c] = "text" <=> g = "text"
  <2>1. NewTypes[c] = IF c = AutoColumn THEN "auto" ELSE g
    BY DEF NewTypes, g
  <2>2. c = AutoColumn => g = "integer"
    <3> DEFINE up == { d \in 1..NewWidth : Guessed(d).type = "integer" /\ Guessed(d).value > 0 }
    <3>1. AutoColumn # NoColumn => up # {} /\ AutoColumn = Min(up)
      BY DEF AutoColumn
    <3>2. c # NoColumn
      BY NewWidthIs, SettingsAssumption
    <3>3. up \in SUBSET Nat
      BY NewWidthIs
    <3>4. up # {} => Min(up) \in up
      <4> HIDE DEF up
      <4> QED
        BY <3>3, Least
    <3>5. c = AutoColumn => c \in up
      BY <3>1, <3>2, <3>4
    <3> QED
      BY <3>5 DEF g
  <2> QED
    BY <1>4, <2>1, <2>2 DEF TypeNames
<1> QED
  BY <1>10, <1>11, <1>12 DEF K, rows

-----------------------------------------------------------------------------
(* The values of a line, entered.                                           *)

\* What a column can be set to, or nothing; what the server stores.
Contents == Seq(Characters) \cup {Garbled, Unset}

Entries == [from : Nat, row : [Columns -> Contents \cup {Null, Assigned}]]

Targets ==
  [changed : BOOLEAN, ignore : BOOLEAN, new : [Columns -> Contents],
   auto : Nat \cup {NoColumn}, from : Nat, stored : Seq(Entries)]

\* Nothing is pending between two lines.
Settled(t) == ~t.changed /\ t.new = NothingNew

Filling(values, t, i) == SetValue(t, imp.list[i], values[i])
Fill == INSTANCE FoldLemmas WITH Op <- Filling

FilledTo(values, t, n) == Fill!Fold(values, t, [i \in 1..n |-> i])

\* set_asstring for one value after the other.
LEMMA SetValuesIs ==
  ASSUME NEW t, NEW values
  PROVE  SetValues(t, values) = FilledTo(values, t, Min({Len(imp.list), Len(values)}))
BY Zenon DEF SetValues, FilledTo, Filling, Fill!Fold, Fill!Greatest, FoldLeft, MapThenFoldSet, Max

LEMMA FilledToIs ==
  ASSUME NEW values, NEW t, NEW n \in Nat
  PROVE  /\ FilledTo(values, t, 0) = t
         /\ FilledTo(values, t, n + 1) = SetValue(FilledTo(values, t, n), imp.list[n + 1], values[n + 1])
<1>1. [i \in 1..0 |-> i] = <<>>
  OBVIOUS
<1>2. FilledTo(values, t, 0) = t
  BY <1>1, Fill!FoldEmpty DEF FilledTo
<1> DEFINE s == [i \in 1..n |-> i]
           r == [i \in 1..(n + 1) |-> i]
<1>3. s \in Seq(Nat) /\ r = Append(s, n + 1) /\ n + 1 \in Nat
  OBVIOUS
<1> HIDE DEF s, r
<1>4. Fill!Fold(values, t, Append(s, n + 1)) = Filling(values, Fill!Fold(values, t, s), n + 1)
  BY <1>3, Fill!FoldAppend
<1> QED
  BY <1>2, <1>3, <1>4 DEF FilledTo, Filling, s, r

\* The value is for a column that takes it.
Taken(values, a, i) ==
  /\ imp.list[i] \notin {NoColumn, a}
  /\ ~(IsNumeric(imp.types[imp.list[i]]) /\ values[i] = <<>>)

\* The values are for the columns of their numbers, or for none.
Aligned(n) == \A i \in 1..n : imp.list[i] \in {i, NoColumn}

ReadOf(values, a, n, new) ==
  [c \in Columns |-> IF c \in 1..n /\ imp.list[c] = c /\ Taken(values, a, c)
                     THEN Read(imp.types[c], values[c]) ELSE new[c]]

Filled(values, t, n, u) ==
  /\ u \in Targets /\ u.auto = t.auto /\ u.from = t.from /\ u.stored = t.stored /\ u.ignore = t.ignore
  /\ u.changed <=> t.changed \/ \E i \in 1..n : Taken(values, t.auto, i)
  /\ (~\E i \in 1..n : Taken(values, t.auto, i)) => u = t
  /\ Aligned(n) => u.new = ReadOf(values, t.auto, n, t.new)

\* No values, one value, one more value, all values.
LEMMA NothingFilled ==
  ASSUME NEW values, NEW t \in Targets
  PROVE  Filled(values, t, 0, t)
<1>1. 1..0 = {}
  OBVIOUS
<1>2. t.new = [c \in Columns |-> t.new[c]]
  BY DEF Targets
<1>3. ReadOf(values, t.auto, 0, t.new) = [c \in Columns |-> t.new[c]]
  BY <1>1 DEF ReadOf
<1> QED
  BY <1>1, <1>2, <1>3 DEF Filled

LEMMA ColumnSet ==
  ASSUME NEW u \in Targets, NEW c, c # u.auto, NEW x \in Contents
  PROVE  LET w == SetColumn(u, c, x)
         IN  /\ w \in Targets /\ w.auto = u.auto /\ w.from = u.from /\ w.stored = u.stored /\ w.ignore = u.ignore
             /\ w.changed
             /\ w.new = [d \in Columns |-> IF d = c THEN x ELSE u.new[d]]
<1> DEFINE w == SetColumn(u, c, x)
<1>1. w = [u EXCEPT !.new[c] = x, !.changed = TRUE]
  BY DEF SetColumn
<1>2. /\ w.auto = u.auto /\ w.from = u.from /\ w.stored = u.stored /\ w.ignore = u.ignore
      /\ w.changed = TRUE /\ w.new = [u.new EXCEPT ![c] = x]
  BY <1>1 DEF Targets
<1>3. w.new = [d \in Columns |-> IF d = c THEN x ELSE u.new[d]]
  BY <1>2 DEF Targets
<1>4. w \in Targets
  <2>1. [u.new EXCEPT ![c] = x] \in [Columns -> Contents]
    BY DEF Targets
  <2> QED
    BY <1>1, <2>1 DEF Targets
<1> QED
  BY <1>2, <1>3, <1>4

LEMMA ReadType ==
  ASSUME NEW type, NEW text \in Seq(Characters)
  PROVE  Read(type, text) \in {text, Garbled} /\ Read(type, text) \in Contents
BY DEF Read, Contents

LEMMA FilledNext ==
  ASSUME NEW values, NEW t \in Targets, NEW n \in Nat, values[n + 1] \in Seq(Characters),
         NEW u, Filled(values, t, n, u)
  PROVE  Filled(values, t, n + 1, SetValue(u, imp.list[n + 1], values[n + 1]))
<1> DEFINE c == imp.list[n + 1]
           x == Read(imp.types[c], values[n + 1])
           a == t.auto
           w == SetValue(u, c, values[n + 1])
<1>1. /\ u \in Targets /\ u.auto = a /\ u.from = t.from /\ u.stored = t.stored /\ u.ignore = t.ignore
      /\ u.changed <=> t.changed \/ \E i \in 1..n : Taken(values, a, i)
      /\ (~\E i \in 1..n : Taken(values, a, i)) => u = t
      /\ Aligned(n) => u.new = ReadOf(values, a, n, t.new)
  BY DEF Filled
<1>2. \A i \in 1..(n + 1) : i \in 1..n \/ i = n + 1
  OBVIOUS
<1>3. (\A i \in 1..n : i \in 1..(n + 1)) /\ n + 1 \in 1..(n + 1) /\ n + 1 \notin 1..n
  OBVIOUS
<1>4. Aligned(n + 1) => Aligned(n) /\ c \in {n + 1, NoColumn}
  BY <1>3 DEF Aligned
<1>5. x \in Contents
  BY ReadType
<1>6. NoColumn \notin Columns
  BY BatchWriteAssumption
<1>7. CASE ~Taken(values, a, n + 1)
  <2>1. w = u
    <3>1. c = NoColumn \/ c = a \/ (IsNumeric(imp.types[c]) /\ values[n + 1] = <<>>)
      BY <1>7 DEF Taken
    <3>2. w = IF c = NoColumn \/ (IsNumeric(imp.types[c]) /\ values[n + 1] = <<>>) THEN u ELSE SetColumn(u, c, x)
      BY DEF SetValue
    <3>3. c = a => SetColumn(u, c, x) = u
      BY <1>1 DEF SetColumn
    <3> QED
      BY <3>1, <3>2, <3>3
  <2>2. (\E i \in 1..(n + 1) : Taken(values, a, i)) <=> \E i \in 1..n : Taken(values, a, i)
    BY <1>2, <1>3, <1>7
  <2>3. ReadOf(values, a, n + 1, t.new) = ReadOf(values, a, n, t.new)
    <3>1. ASSUME NEW d \in Columns
          PROVE  (d \in 1..(n + 1) /\ imp.list[d] = d /\ Taken(values, a, d)) <=> (d \in 1..n /\ imp.list[d] = d /\ Taken(values, a, d))
      BY <1>2, <1>3, <1>7
    <3> QED
      BY <3>1 DEF ReadOf
  <2> HIDE DEF w, a, c
  <2> QED
    BY <1>1, <1>4, <2>1, <2>2, <2>3 DEF Filled, w, a, c
<1>8. CASE Taken(values, a, n + 1)
  <2>1. c # NoColumn /\ c # a /\ ~(IsNumeric(imp.types[c]) /\ values[n + 1] = <<>>)
    BY <1>8 DEF Taken
  <2>2. w = SetColumn(u, c, x)
    BY <2>1 DEF SetValue
  <2> HIDE DEF x, w, c, a
  <2>3. /\ w \in Targets /\ w.auto = u.auto /\ w.from = u.from /\ w.stored = u.stored /\ w.ignore = u.ignore
        /\ w.changed
        /\ w.new = [d \in Columns |-> IF d = c THEN x ELSE u.new[d]]
    BY <1>1, <1>5, <2>1, <2>2, ColumnSet
  <2>4. \E i \in 1..(n + 1) : Taken(values, a, i)
    BY <1>3, <1>8
  <2>5. Aligned(n + 1) => w.new = ReadOf(values, a, n + 1, t.new)
    <3> SUFFICES ASSUME Aligned(n + 1) PROVE w.new = ReadOf(values, a, n + 1, t.new)
      OBVIOUS
    <3>1. Aligned(n) /\ c = n + 1
      BY <1>4, <2>1
    <3>2. imp.list[n + 1] = n + 1 /\ x = Read(imp.types[n + 1], values[n + 1])
      BY <3>1 DEF x, c
    <3>3. u.new = ReadOf(values, a, n, t.new)
      BY <1>1, <3>1
    <3>4. ASSUME NEW d \in Columns
          PROVE  (IF d = n + 1 THEN x ELSE u.new[d])
                 = IF d \in 1..(n + 1) /\ imp.list[d] = d /\ Taken(values, a, d)
                   THEN Read(imp.types[d], values[d]) ELSE t.new[d]
      <4>1. CASE d = n + 1
        BY <1>3, <1>8, <3>2, <4>1
      <4>2. CASE d # n + 1
        <5>1. d \in 1..(n + 1) <=> d \in 1..n
          BY <1>2, <1>3, <4>2
        <5>2. u.new[d] = IF d \in 1..n /\ imp.list[d] = d /\ Taken(values, a, d)
                         THEN Read(imp.types[d], values[d]) ELSE t.new[d]
          BY <3>3 DEF ReadOf
        <5> QED
          BY <4>2, <5>1, <5>2
      <4> QED
        BY <4>1, <4>2
    <3> QED
      BY <2>3, <3>1, <3>4 DEF ReadOf
  <2> QED
    BY <1>1, <2>3, <2>4, <2>5 DEF Filled, w, a, c
<1> QED
  BY <1>7, <1>8

LEMMA FilledAll ==
  ASSUME NEW values \in Seq(Seq(Characters)), NEW t \in Targets
  PROVE  \A n \in Nat : n <= Len(values) => Filled(values, t, n, FilledTo(values, t, n))
<1> DEFINE S == { n \in Nat : n <= Len(values) => Filled(values, t, n, FilledTo(values, t, n)) }
<1>1. 0 \in S
  BY FilledToIs, NothingFilled
<1>2. ASSUME NEW n \in S PROVE n + 1 \in S
  <2> SUFFICES ASSUME n + 1 <= Len(values) PROVE Filled(values, t, n + 1, FilledTo(values, t, n + 1))
    OBVIOUS
  <2>1. n \in Nat /\ n <= Len(values) /\ values[n + 1] \in Seq(Characters)
    OBVIOUS
  <2>2. Filled(values, t, n, FilledTo(values, t, n))
    BY <1>2, <2>1
  <2>3. FilledTo(values, t, n + 1) = SetValue(FilledTo(values, t, n), imp.list[n + 1], values[n + 1])
    BY <2>1, FilledToIs
  <2> QED
    BY <2>1, <2>2, <2>3, FilledNext
<1>3. S \in SUBSET Nat /\ \A n \in S : n + 1 \in S
  BY <1>2
<1> HIDE DEF S
<1>4. S = Nat
  BY <1>1, <1>3, SetInduction
<1> QED
  BY <1>4 DEF S

-----------------------------------------------------------------------------
(* The row they make.                                                       *)

\* The table before anything has been entered.
LEMMA EmptyTargetType ==
  ASSUME NEW a \in Nat \cup {NoColumn}
  PROVE  /\ EmptyTarget(a) \in Targets /\ Settled(EmptyTarget(a)) /\ ~EmptyTarget(a).ignore
         /\ EmptyTarget(a).auto = a /\ EmptyTarget(a).stored = <<>>
BY DEF EmptyTarget, Targets, Settled, NothingNew, Contents

\* The next line is begun with nothing pending, the flag of a refused line kept.
LEMMA RowBegun ==
  ASSUME NEW t \in Targets, Settled(t), NEW line \in Nat, NEW wanted, NEW accepted
  PROVE  LET u == SetmodeInsertrow(t, line, wanted, accepted)
         IN  /\ u \in Targets /\ ~u.changed /\ u.ignore = t.ignore /\ u.new = NothingNew
             /\ u.from = line /\ u.auto = t.auto /\ u.stored = t.stored
<1> DEFINE u == SetmodeInsertrow(t, line, wanted, accepted)
<1>1. u = [t EXCEPT !.from = line]
  BY DEF SetmodeInsertrow, Settled
<1> QED
  BY <1>1 DEF Targets, Settled

\* What is inserted is an entry.
LEMMA InsertedType ==
  ASSUME NEW t \in Targets
  PROVE  [from |-> t.from, row |-> Inserted(t)] \in Entries
BY DEF Inserted, Targets, Entries

\* The target after the row has been stored, refused, discarded, or was none.
Closing(t, accepted) ==
  LET s == StoreChangedData(t, accepted)
  IN  IF s.ok THEN s.target ELSE SetIgnoreChangedData(s.target)

LEMMA RowClosed ==
  ASSUME NEW t \in Targets, NEW accepted \in BOOLEAN
  PROVE  LET w == Closing(t, accepted)
             ok == StoreChangedData(t, accepted).ok
         IN  /\ w \in Targets /\ Settled(w) /\ w.auto = t.auto
             /\ ok <=> ~t.changed \/ t.ignore \/ accepted
             /\ w.ignore <=> ~ok
             /\ w.stored = IF t.changed /\ ~t.ignore /\ accepted
                           THEN Append(t.stored, [from |-> t.from, row |-> Inserted(t)]) ELSE t.stored
<1> DEFINE w == Closing(t, accepted)
           e == [from |-> t.from, row |-> Inserted(t)]
<1>1. NothingNew \in [Columns -> Contents]
  BY DEF NothingNew, Contents
<1>2. CASE ~t.changed \/ t.ignore
  <2>1. w = [[t EXCEPT !.changed = FALSE, !.new = NothingNew] EXCEPT !.ignore = FALSE] /\ StoreChangedData(t, accepted).ok
    BY <1>2 DEF Closing, StoreChangedData, ResetChangedData
  <2>2. w \in Targets /\ ~w.changed /\ ~w.ignore /\ w.new = NothingNew /\ w.auto = t.auto /\ w.stored = t.stored
    BY <1>1, <2>1 DEF Targets
  <2> QED
    BY <1>2, <2>1, <2>2 DEF Settled
<1>3. CASE t.changed /\ ~t.ignore /\ accepted
  <2>1. w = [[t EXCEPT !.changed = FALSE, !.new = NothingNew] EXCEPT !.stored = Append(@, e)] /\ StoreChangedData(t, accepted).ok
    BY <1>3 DEF Closing, StoreChangedData, ResetChangedData
  <2>2. Append(t.stored, e) \in Seq(Entries)
    <3>1. e \in Entries /\ t.stored \in Seq(Entries)
      BY InsertedType DEF Targets
    <3> HIDE DEF e
    <3> QED
      BY <3>1
  <2> HIDE DEF e
  <2>3. w \in Targets /\ ~w.changed /\ ~w.ignore /\ w.new = NothingNew /\ w.auto = t.auto /\ w.stored = Append(t.stored, e)
    BY <1>1, <1>3, <2>1, <2>2 DEF Targets
  <2> QED
    BY <1>3, <2>1, <2>3 DEF Settled, e
<1>4. CASE t.changed /\ ~t.ignore /\ ~accepted
  <2>1. w = [[t EXCEPT !.changed = FALSE, !.new = NothingNew] EXCEPT !.ignore = TRUE] /\ ~StoreChangedData(t, accepted).ok
    BY <1>4 DEF Closing, StoreChangedData, SetIgnoreChangedData, ResetChangedData
  <2>2. w \in Targets /\ ~w.changed /\ w.ignore /\ w.new = NothingNew /\ w.auto = t.auto /\ w.stored = t.stored
    BY <1>1, <2>1 DEF Targets
  <2> QED
    BY <1>4, <2>1, <2>2 DEF Settled
<1> QED
  BY <1>2, <1>3, <1>4

\* The row that is stored of the values.
RowOf(values, a, n) ==
  [c \in Columns |-> IF c \in 1..n /\ imp.list[c] = c /\ Taken(values, a, c) THEN Read(imp.types[c], values[c])
                     ELSE IF c = a THEN Assigned ELSE Null]

\* The row is stored if there is something to store, no line refused before it
\* has left its flag, and it is accepted.
Entered(values, t, line, accepted, n, u) ==
  LET w == Closing(u, accepted)
      ok == StoreChangedData(u, accepted).ok
      some == \E i \in 1..n : Taken(values, t.auto, i)
  IN  /\ w \in Targets /\ Settled(w) /\ w.auto = t.auto
      /\ ok <=> ~some \/ t.ignore \/ accepted
      /\ w.ignore <=> ~ok
      /\ ~(some /\ ~t.ignore /\ accepted) => w.stored = t.stored
      /\ some /\ ~t.ignore /\ accepted =>
           \E e \in Entries : /\ w.stored = Append(t.stored, e) /\ e.from = line
                              /\ Aligned(n) => e.row = RowOf(values, t.auto, n)

LEMMA LineEntered ==
  ASSUME NEW values \in Seq(Seq(Characters)), NEW t \in Targets, Settled(t), Len(imp.list) \in Nat,
         NEW line \in Nat, NEW wanted, NEW accepted \in BOOLEAN,
         Unset # Garbled, \A i \in 1..Len(values) : values[i] # Unset
  PROVE  Entered(values, t, line, accepted, Min({Len(imp.list), Len(values)}),
                 SetValues(SetmodeInsertrow(t, line, wanted, accepted), values))
<1> DEFINE n == Min({Len(imp.list), Len(values)})
           b == SetmodeInsertrow(t, line, wanted, accepted)
           u == SetValues(b, values)
           w == Closing(u, accepted)
           some == \E i \in 1..n : Taken(values, t.auto, i)
           e == [from |-> u.from, row |-> Inserted(u)]
<1>1. n \in Nat /\ n <= Len(values)
  <2>1. Len(values) \in Nat
    OBVIOUS
  <2>2. n = IF Len(imp.list) <= Len(values) THEN Len(imp.list) ELSE Len(values)
    BY <2>1, LeastOfTwo
  <2> HIDE DEF n
  <2> QED
    BY <2>1, <2>2
<1>2. /\ b \in Targets /\ ~b.changed /\ b.ignore = t.ignore /\ b.new = NothingNew
      /\ b.from = line /\ b.auto = t.auto /\ b.stored = t.stored
  BY RowBegun
<1> HIDE DEF b
<1>3. Filled(values, b, n, u)
  <2>1. u = FilledTo(values, b, n)
    BY SetValuesIs
  <2> HIDE DEF n, u
  <2> QED
    BY <1>1, <1>2, <2>1, FilledAll
<1> HIDE DEF n, u
<1>4. /\ u \in Targets /\ u.auto = t.auto /\ u.from = line /\ u.stored = t.stored /\ u.ignore = t.ignore
      /\ u.changed <=> some
      /\ Aligned(n) => u.new = ReadOf(values, t.auto, n, NothingNew)
  BY <1>2, <1>3 DEF Filled
<1>5. /\ w \in Targets /\ Settled(w) /\ w.auto = u.auto
      /\ StoreChangedData(u, accepted).ok <=> ~u.changed \/ u.ignore \/ accepted
      /\ w.ignore <=> ~StoreChangedData(u, accepted).ok
      /\ w.stored = IF u.changed /\ ~u.ignore /\ accepted THEN Append(u.stored, e) ELSE u.stored
  BY <1>4, RowClosed
<1> HIDE DEF w, some
<1>6. e \in Entries /\ e.from = line
  BY <1>4, InsertedType
<1>7. Aligned(n) => e.row = RowOf(values, t.auto, n)
  <2> SUFFICES ASSUME Aligned(n) PROVE Inserted(u) = RowOf(values, t.auto, n)
    OBVIOUS
  <2>1. u.new = ReadOf(values, t.auto, n, NothingNew)
    BY <1>4
  <2>2. ASSUME NEW c \in Columns
        PROVE  (IF u.new[c] # Unset THEN u.new[c] ELSE IF c = t.auto THEN Assigned ELSE Null)
               = IF c \in 1..n /\ imp.list[c] = c /\ Taken(values, t.auto, c) THEN Read(imp.types[c], values[c])
                 ELSE IF c = t.auto THEN Assigned ELSE Null
    <3>1. u.new[c] = IF c \in 1..n /\ imp.list[c] = c /\ Taken(values, t.auto, c) THEN Read(imp.types[c], values[c]) ELSE Unset
      BY <2>1 DEF ReadOf, NothingNew
    <3>2. c \in 1..n => Read(imp.types[c], values[c]) # Unset
      <4> SUFFICES ASSUME c \in 1..n PROVE Read(imp.types[c], values[c]) # Unset
        OBVIOUS
      <4>1. c \in 1..Len(values)
        BY <1>1
      <4>2. values[c] \in Seq(Characters)
        <5> DEFINE X == Seq(Characters)
        <5>1. values \in Seq(X)
          OBVIOUS
        <5> HIDE DEF X
        <5>2. values[c] \in X
          BY <4>1, <5>1
        <5> QED
          BY <5>2 DEF X
      <4>3. Read(imp.types[c], values[c]) \in {values[c], Garbled}
        BY <4>2, ReadType
      <4> QED
        BY <4>1, <4>3
    <3> QED
      BY <3>1, <3>2
  <2> QED
    BY <1>4, <2>2 DEF Inserted, RowOf
<1> HIDE DEF e
<1>8. some /\ ~t.ignore /\ accepted => w.stored = Append(t.stored, e)
  BY <1>4, <1>5
<1> QED
  <2>1. Entered(values, t, line, accepted, n, u)
    BY <1>4, <1>5, <1>6, <1>7, <1>8 DEF Entered, w, some
  <2> QED
    BY <2>1 DEF n, u, b

-----------------------------------------------------------------------------
(* The invariant.                                                           *)

\* The types that can be guessed.
LEMMA GuessedType ==
  ASSUME Known, NEW c \in 1..NewWidth
  PROVE  Guessed(c).type \in TypeNames
<1>1. c \in DOMAIN lines[HeaderLines + 1].marked
  BY NewWidthIs
<1>2. Cardinality(PreviewLines) \in Nat
  BY PreviewIs
<1>3. TypeSeen(c, Cardinality(PreviewLines), Guessed(c).type)
  BY <1>1, <1>2, TypesSeen, GuessedIs
<1> QED
  BY <1>3 DEF TypeSeen

AllTypes == {"text", "integer", "float", "auto"}

Imports ==
  [phase : {"called", "crashed", "importing", "returned"}, eof : BOOLEAN, stuck : BOOLEAN,
   line : Nat, values : Seq(Seq(Characters)), list : Seq(Columns \cup Nat \cup {NoColumn}),
   types : Seq(AllTypes), cancel : BOOLEAN, errors : SUBSET Nat, result : BOOLEAN]

NewList == [i \in 1..Names |-> IF i <= NewWidth THEN i ELSE NoColumn]

TypesInv ==
  /\ file \in Files /\ setting \in Settings /\ lines = Lines(file)
  /\ imp \in Imports
  /\ target \in Targets /\ Settled(target)

\* Before a line has been read, nothing is stored and nothing reported.
Untouched ==
  imp.phase \in {"called", "crashed"} \/ imp.line = 0 =>
    imp.line = 0 /\ imp.errors = {} /\ target.stored = <<>> /\ ~imp.result /\ ~imp.eof

\* The values of column c the types were guessed from.
Seen(c) ==
  { file.rows[k][c] : k \in { l \in Previewed : c \in DOMAIN file.rows[l]
                                                /\ ~IsBlank(file.rows[l]) } }

\* A column of this type fits the values seen.
FitsSeen(type, c) ==
  /\ type \in {"integer", "auto"} <=> \A f \in Seen(c) : IsNumber(f, {"integer"})
  /\ type = "text" <=> ~\A f \in Seen(c) : IsNumber(f, {"integer", "float"})

\* The import works with the types and the columns the table was given.
Prepared ==
  imp.phase = "importing" =>
    /\ imp.line \in HeaderLines..Len(lines)
    /\ ~imp.result
    /\ setting.append => imp.types = setting.types /\ imp.list = AppendList
    /\ ~setting.append => /\ Len(imp.types) = NewWidth /\ imp.list = NewList
                          /\ \A c \in 1..NewWidth : FitsSeen(imp.types[c], c)

\* The line that has been read last.
OnLine ==
  imp.line > HeaderLines => imp.line <= Len(lines) /\ imp.values = lines[imp.line].values

\* Where the rows of the table, and those reported, come from.
InOrder ==
  /\ imp.errors \subseteq (HeaderLines + 1)..imp.line
  /\ \A i \in DOMAIN target.stored :
       /\ target.stored[i].from \in (HeaderLines + 1)..imp.line
       /\ target.stored[i].from \in DOMAIN file.rows \ imp.errors
  /\ \A i, j \in DOMAIN target.stored : i < j => target.stored[i].from < target.stored[j].from

\* Each value has its column.
Fits ==
  /\ setting.given = <<>>
  /\ setting.append => \A k \in DOMAIN file.rows : Len(file.rows[k]) <= Len(setting.types)

RowsKept ==
  Fits => \A i \in DOMAIN target.stored :
            target.stored[i].row = [c \in Columns |-> Kept(file.rows[target.stored[i].from], c)]

\* A line that is missing comes behind one that was reported.
Accounted ==
  \A k \in (HeaderLines + 1)..imp.line :
    k <= Len(file.rows) =>
      \/ HoldsNothing(file.rows[k])
      \/ k \in imp.errors
      \/ \E i \in DOMAIN target.stored : target.stored[i].from = k
      \/ k - 1 \in imp.errors

\* The flag that is still set was set for the line read last.
FlagIsNew == target.ignore => imp.line \in imp.errors

AtEnd == imp.eof \/ imp.result => imp.line >= Len(file.rows)

Inv ==
  /\ TypesInv /\ Untouched /\ Prepared /\ OnLine /\ InOrder /\ RowsKept /\ Accounted /\ FlagIsNew /\ AtEnd

\* What is known of the lines once the file is.
LEMMA KnownIs ==
  ASSUME TypesInv, ClearFile(file)
  PROVE  /\ Known
         /\ Len(file.rows) \in Nat /\ DOMAIN file.rows = 1..Len(file.rows)
         /\ \A k \in 1..Len(file.rows) : ProperRow(file.rows[k])
         /\ Len(lines) \in Nat /\ Len(lines) >= Len(file.rows) + 1 /\ Len(lines) >= 2
         /\ \A k \in 1..Len(lines) : LineIs(file, k, lines[k])
         /\ HeaderLines \in {0, 1}
<1>1. Known
  BY LinesAre DEF TypesInv, Known
<1>2. /\ Len(lines) \in Nat /\ Len(lines) >= Len(file.rows) + 1 /\ Len(lines) >= MaxPreview + 2
      /\ \A k \in 1..Len(lines) : LineIs(file, k, lines[k])
  BY <1>1 DEF Known, LinesRead
<1>3. MaxPreview \in Nat
  BY PreviewAssumption
<1> QED
  BY <1>1, <1>2, <1>3, RowsProper DEF TypesInv, HeaderLines

LEMMA InvInit == Init /\ ClearFile(file) => Inv
<1> SUFFICES ASSUME Init, ClearFile(file) PROVE Inv
  OBVIOUS
<1>1. /\ file \in Files /\ setting \in Settings /\ lines = Lines(file)
      /\ imp = [phase |-> "called", eof |-> FALSE, stuck |-> FALSE, line |-> 0,
                values |-> <<>>, list |-> <<>>, types |-> <<>>,
                cancel |-> FALSE, errors |-> {}, result |-> FALSE]
      /\ target = EmptyTarget(NoColumn)
  BY DEF Init
<1>2. target \in Targets /\ Settled(target) /\ ~target.ignore /\ target.stored = <<>>
  BY <1>1, EmptyTargetType
<1>3. imp \in Imports
  BY <1>1 DEF Imports
<1>4. HeaderLines \in {0, 1}
  BY DEF HeaderLines
<1>5. TypesInv
  BY <1>1, <1>2, <1>3 DEF TypesInv
<1>6. imp.phase = "called" /\ imp.line = 0 /\ imp.errors = {} /\ ~imp.result /\ ~imp.eof
  BY <1>1
<1>7. (HeaderLines + 1)..0 = {} /\ ~(0 > HeaderLines)
  BY <1>4
<1>8. Untouched /\ Prepared /\ OnLine /\ InOrder /\ RowsKept /\ Accounted /\ FlagIsNew /\ AtEnd
  BY <1>2, <1>6, <1>7 DEF Untouched, Prepared, OnLine, InOrder, RowsKept, Accounted, FlagIsNew, AtEnd
<1> QED
  BY <1>5, <1>8 DEF Inv

-----------------------------------------------------------------------------
(* The line that is read, and its values.                                  *)

LEMMA LineValues ==
  ASSUME TypesInv, ClearFile(file), NEW k \in 1..Len(lines)
  PROVE  /\ lines[k].values \in Seq(Seq(Characters))
         /\ \A i \in 1..Len(lines[k].values) : lines[k].values[i] # Unset
         /\ k <= Len(file.rows) /\ ~IsBlank(file.rows[k]) =>
              /\ Len(lines[k].values) = Len(file.rows[k])
              /\ \A i \in DOMAIN file.rows[k] : lines[k].values[i] = file.rows[k][i].text
         /\ k > Len(file.rows) \/ IsBlank(file.rows[k]) => lines[k].values = <<>>
         /\ lines[k].eof => k >= Len(file.rows)
<1>1. LineIs(file, k, lines[k]) /\ Len(file.rows) \in Nat /\ k \in Nat
  BY KnownIs
<1>2. CASE k <= Len(file.rows)
  <2> DEFINE r == file.rows[k]
  <2>1. k \in 1..Len(file.rows) /\ k \in DOMAIN file.rows
    BY <1>1, <1>2, KnownIs
  <2>2. ProperRow(r)
    BY <2>1, KnownIs
  <2>3. lines[k].values = IF IsBlank(r) THEN <<>> ELSE Texts(r)
    <3>1. lines[k].values = RowValues(TRUE, r)
      BY <1>1, <1>2 DEF LineIs
    <3> HIDE DEF r
    <3> QED
      BY <2>2, <3>1, DataRead
  <2>4. \A i \in DOMAIN r : r[i].text # Unset
    BY <2>1, UnsetAssumption DEF TypesInv
  <2>5. lines[k].eof => k >= Len(file.rows)
    BY <1>1, <1>2 DEF LineIs
  <2>6. ~(k > Len(file.rows))
    BY <1>1, <1>2
  <2> SUFFICES /\ lines[k].values \in Seq(Seq(Characters))
               /\ \A i \in 1..Len(lines[k].values) : lines[k].values[i] # Unset
               /\ ~IsBlank(r) => /\ Len(lines[k].values) = Len(r)
                                 /\ \A i \in DOMAIN r : lines[k].values[i] = r[i].text
    BY <2>3, <2>5, <2>6
  <2> HIDE DEF r
  <2>7. CASE IsBlank(r)
    BY <2>3, <2>7
  <2>8. CASE ~IsBlank(r)
    <3>1. Len(r) \in Nat /\ DOMAIN r = 1..Len(r) /\ \A i \in DOMAIN r : r[i].text \in Seq(Characters)
      BY <2>2 DEF ProperRow, Proper, Inner
    <3>2. lines[k].values = [i \in 1..Len(r) |-> r[i].text]
      BY <2>3, <2>8, <3>1 DEF Texts
    <3> DEFINE X == Seq(Characters)
               V(i) == r[i].text
               n == Len(r)
    <3>3. \A i \in 1..n : V(i) \in X /\ V(i) # Unset
      BY <2>4, <3>1
    <3>4. lines[k].values = [i \in 1..n |-> V(i)] /\ n \in Nat
      BY <3>1, <3>2
    <3> HIDE DEF X, V, n
    <3>5. lines[k].values \in Seq(X) /\ Len(lines[k].values) = n /\ \A i \in 1..n : lines[k].values[i] = V(i)
      BY <3>3, <3>4
    <3>6. \A i \in 1..Len(lines[k].values) : lines[k].values[i] # Unset
      BY <3>3, <3>5
    <3> QED
      BY <3>1, <3>5, <3>6 DEF X, V, n
  <2> QED
    BY <2>7, <2>8
<1>3. CASE ~(k <= Len(file.rows))
  <2>1. lines[k].values = <<>> /\ k >= Len(file.rows)
    BY <1>1, <1>3 DEF LineIs
  <2> QED
    BY <1>3, <2>1
<1> QED
  BY <1>2, <1>3

-----------------------------------------------------------------------------
(* Each step keeps it.                                                      *)

\* What of the import a step leaves as it is.
LEMMA Unread ==
  ASSUME UNCHANGED <<file, setting, lines, target>>, Inv,
         imp'.line = imp.line, imp'.errors = imp.errors, imp'.types = imp.types, imp'.list = imp.list,
         imp'.values = imp.values, imp'.eof = imp.eof, imp' \in Imports,
         imp'.phase # "called", imp'.phase # "importing",
         imp'.phase = "crashed" => imp.phase = "called",
         imp'.result => imp.eof
  PROVE  Inv'
<1>1. TypesInv'
  BY DEF Inv, TypesInv, Settled
<1>2. Untouched'
  BY DEF Inv, Untouched
<1>3. Prepared'
  BY DEF Prepared
<1>4. OnLine' /\ InOrder'
  BY DEF Inv, OnLine, InOrder, HeaderLines
<1>5. \A row, c : Kept(row, c)' = Kept(row, c)
  BY DEF Kept
<1>6. RowsKept'
  BY <1>5 DEF Inv, RowsKept, Fits
<1>7. \A row : HoldsNothing(row)' <=> HoldsNothing(row)
  BY DEF HoldsNothing
<1>8. Accounted'
  BY <1>7 DEF Inv, Accounted, HeaderLines
<1>9. AtEnd' /\ FlagIsNew'
  BY DEF Inv, AtEnd, FlagIsNew
<1> QED
  BY <1>1, <1>2, <1>3, <1>4, <1>6, <1>8, <1>9 DEF Inv

\* Calls that end, or crash, or have not begun.
LEMMA Stops ==
  ASSUME Inv, NotInitialized \/ Crash \/ Return
  PROVE  Inv'
<1>1. \/ imp \in Imports /\ imp.phase = "importing"
      \/ imp.phase = "called"
      \/ ~(NotInitialized \/ Crash \/ Return)
  BY DEF Inv, TypesInv, NotInitialized, Crash, Return
<1>2. imp \in Imports
  BY DEF Inv, TypesInv
<1>3. CASE NotInitialized \/ Crash
  <2>1. PICK p \in {"returned", "crashed"} : imp' = [imp EXCEPT !.phase = p] /\ imp.phase = "called"
    BY <1>3 DEF NotInitialized, Crash
  <2>2. /\ imp' \in Imports /\ imp'.phase = p
        /\ imp'.line = imp.line /\ imp'.errors = imp.errors /\ imp'.types = imp.types /\ imp'.list = imp.list
        /\ imp'.values = imp.values /\ imp'.eof = imp.eof /\ imp'.result = imp.result
    BY <1>2, <2>1 DEF Imports
  <2>3. ~imp.result
    BY <2>1 DEF Inv, Untouched
  <2>4. UNCHANGED <<file, setting, lines, target>>
    BY <1>3 DEF NotInitialized, Crash
  <2> QED
    BY <2>1, <2>2, <2>3, <2>4, Unread
<1>4. CASE Return
  <2>1. imp' = [imp EXCEPT !.phase = "returned", !.result = ~imp.cancel] /\ (imp.eof \/ imp.cancel)
        /\ UNCHANGED <<file, setting, lines, target>>
    BY <1>4 DEF Return
  <2>2. /\ imp' \in Imports /\ imp'.phase = "returned"
        /\ imp'.line = imp.line /\ imp'.errors = imp.errors /\ imp'.types = imp.types /\ imp'.list = imp.list
        /\ imp'.values = imp.values /\ imp'.eof = imp.eof /\ imp'.result = ~imp.cancel
    BY <1>2, <2>1 DEF Imports
  <2>3. imp'.result => imp.eof
    BY <2>1, <2>2
  <2> QED
    BY <2>1, <2>2, <2>3, Unread
<1> QED
  BY <1>3, <1>4

-----------------------------------------------------------------------------
\* The auto_inc column is a number or none.
LEMMA AutoType ==
  ASSUME NEW types
  PROVE  DOMAIN types \subseteq Nat => AutoOf(types) \in Nat \cup {NoColumn}
<1>1. CASE "auto" \in Range(types)
  <2>1. \E c \in DOMAIN types : types[c] = "auto"
    BY <1>1 DEF Range
  <2>2. (CHOOSE c \in DOMAIN types : types[c] = "auto") \in DOMAIN types
    BY <2>1
  <2> QED
    BY <1>1, <2>2 DEF AutoOf
<1>2. CASE "auto" \notin Range(types)
  BY <1>2 DEF AutoOf
<1> QED
  BY <1>1, <1>2

\* The types and the columns of a new table.
LEMMA NewTypesType ==
  ASSUME Known
  PROVE  /\ NewTypes \in Seq(AllTypes) /\ Len(NewTypes) = NewWidth /\ DOMAIN NewTypes = 1..NewWidth
         /\ NewList \in Seq(Columns \cup Nat \cup {NoColumn})
<1>1. NewWidth \in Nat /\ Names \in Nat
  BY NewWidthIs
<1>2. \A c \in 1..NewWidth : (IF c = AutoColumn THEN "auto" ELSE Guessed(c).type) \in AllTypes
  BY GuessedType DEF TypeNames, AllTypes
<1> DEFINE w == NewWidth
           G(c) == IF c = AutoColumn THEN "auto" ELSE Guessed(c).type
<1>3. NewTypes = [c \in 1..w |-> G(c)]
  BY DEF NewTypes
<1>4. w \in Nat /\ \A c \in 1..w : G(c) \in AllTypes
  BY <1>1, <1>2
<1> HIDE DEF w, G
<1>5. NewTypes \in Seq(AllTypes) /\ Len(NewTypes) = w /\ DOMAIN NewTypes = 1..w
  BY <1>3, <1>4
<1>6. NewList \in Seq(Columns \cup Nat \cup {NoColumn})
  BY <1>1 DEF NewList
<1> QED
  BY <1>5, <1>6 DEF w

\* The columns of a table that exists.
LEMMA AppendListType ==
  ASSUME setting \in Settings
  PROVE  AppendList \in Seq(Columns \cup Nat \cup {NoColumn})
<1> DEFINE X == Columns \cup Nat \cup {NoColumn}
           all == [c \in DOMAIN setting.types |-> c]
           twice == IF setting.header /\ setting.given = <<>> THEN all ELSE <<>>
<1>1. setting.given \in Seq(Columns) /\ Len(setting.types) \in Nat /\ DOMAIN setting.types = 1..Len(setting.types)
  BY SettingsAssumption
<1>2. setting.given \in Seq(X)
  BY <1>1
<1>3. all \in Seq(X)
  BY <1>1
<1> HIDE DEF all, X
<1>4. twice \in Seq(X)
  BY <1>3
<1> HIDE DEF twice
<1>5. (setting.given \o twice) \o all \in Seq(X)
  BY <1>2, <1>3, <1>4
<1>6. AppendList = (setting.given \o twice) \o all
  BY DEF AppendList, twice, all
<1> QED
  BY <1>5, <1>6 DEF X

\* What is made of the file and the settings stays the same.
LEMMA Same ==
  ASSUME file' = file, setting' = setting, lines' = lines
  PROVE  /\ HeaderLines' = HeaderLines /\ AppendList' = AppendList
         /\ NewList' = NewList /\ NewWidth' = NewWidth
         /\ \A type, c : FitsSeen(type, c)' <=> FitsSeen(type, c)
         /\ Fits' <=> Fits
<1>1. HeaderLines' = HeaderLines /\ AppendList' = AppendList
  BY DEF HeaderLines, AppendList
<1>2. Names' = Names
  BY DEF Names
<1>3. NewWidth' = NewWidth
  BY <1>1, <1>2 DEF NewWidth
<1>4. NewList' = NewList
  BY <1>2, <1>3 DEF NewList
<1>5. Previewed' = Previewed
  BY <1>1 DEF Previewed
<1>6. \A c : Seen(c)' = Seen(c)
  BY <1>5 DEF Seen, IsBlank
<1>7. \A type, c : FitsSeen(type, c)' <=> FitsSeen(type, c)
  BY <1>6 DEF FitsSeen
<1>8. Fits' <=> Fits
  BY DEF Fits
<1> QED
  BY <1>1, <1>3, <1>4, <1>7, <1>8

\* The table has been prepared.
LEMMA Initializes ==
  ASSUME Inv, ClearFile(file), InitializeTable
  PROVE  Inv'
<1> DEFINE types == IF setting.append THEN setting.types ELSE NewTypes
           list == IF setting.append THEN AppendList ELSE NewList
<1>1. /\ imp.phase = "called"
      /\ imp' = [imp EXCEPT !.phase = "importing", !.line = HeaderLines,
                   !.stuck = setting.header /\ lines[1].eof, !.types = types, !.list = list]
      /\ target' = EmptyTarget(AutoOf(types))
      /\ UNCHANGED <<file, setting, lines>>
  BY DEF InitializeTable, NewList
<1>2. TypesInv /\ imp \in Imports /\ setting \in Settings
  BY DEF Inv, TypesInv
<1>3. Known /\ HeaderLines \in {0, 1} /\ Len(lines) \in Nat /\ Len(lines) >= 2
  BY <1>2, KnownIs
<1>4. types \in Seq(AllTypes) /\ list \in Seq(Columns \cup Nat \cup {NoColumn})
  <2>1. setting.types \in Seq(AllTypes)
    BY <1>2, SettingsAssumption DEF AllTypes
  <2> QED
    BY <1>2, <1>3, <2>1, NewTypesType, AppendListType
<1>5. AutoOf(types) \in Nat \cup {NoColumn}
  <2> HIDE DEF types
  <2>1. DOMAIN types \subseteq Nat
    BY <1>4
  <2> QED
    BY <2>1, AutoType
<1>6. imp.errors = {} /\ ~imp.result /\ ~imp.eof
  BY <1>1 DEF Inv, Untouched
<1> HIDE DEF types, list
<1>7. target' \in Targets /\ Settled(target)' /\ ~target'.ignore /\ target'.stored = <<>>
  BY <1>1, <1>5, EmptyTargetType DEF Settled
<1>8. /\ imp' \in Imports /\ imp'.phase = "importing" /\ imp'.line = HeaderLines
      /\ imp'.errors = {} /\ ~imp'.result /\ ~imp'.eof /\ imp'.types = types /\ imp'.list = list
  <2>1. (setting.header /\ lines[1].eof) \in BOOLEAN
    OBVIOUS
  <2>2. HeaderLines \in Nat
    BY <1>3
  <2> QED
    BY <1>1, <1>2, <1>4, <1>6, <2>1, <2>2 DEF Imports
<1>9. TypesInv'
  BY <1>1, <1>2, <1>7, <1>8 DEF TypesInv
<1>10. Untouched'
  BY <1>7, <1>8 DEF Untouched
<1>11. /\ HeaderLines' = HeaderLines /\ AppendList' = AppendList
       /\ NewList' = NewList /\ NewWidth' = NewWidth
       /\ \A type, c : FitsSeen(type, c)' <=> FitsSeen(type, c)
  BY <1>1, Same
<1>12. Prepared'
  <2>1. HeaderLines \in HeaderLines..Len(lines)
    BY <1>3
  <2>2. setting.append => types = setting.types /\ list = AppendList
    BY DEF types, list
  <2>3. ASSUME ~setting.append
        PROVE  Len(types) = NewWidth /\ list = NewList /\ \A c \in 1..NewWidth : FitsSeen(types[c], c)
    <3>1. types = NewTypes /\ list = NewList
      BY <2>3 DEF types, list
    <3>2. \A c \in 1..NewWidth : FitsSeen(NewTypes[c], c)
      BY <1>3, NewTypesFit DEF FitsSeen, Seen
    <3> QED
      BY <1>3, <3>1, <3>2, NewTypesType
  <2> QED
    BY <1>1, <1>8, <1>11, <2>1, <2>2, <2>3 DEF Prepared
<1>13. (HeaderLines + 1)..HeaderLines = {} /\ ~(HeaderLines > HeaderLines)
  BY <1>3
<1>14. OnLine' /\ InOrder' /\ RowsKept' /\ Accounted' /\ FlagIsNew' /\ AtEnd'
  BY <1>7, <1>8, <1>11, <1>13 DEF OnLine, InOrder, RowsKept, Accounted, FlagIsNew, AtEnd
<1> QED
  BY <1>9, <1>10, <1>12, <1>14 DEF Inv

\* The columns the values of a line go to.
ListFits ==
  /\ Len(imp.types) \in Nat /\ DOMAIN imp.types = 1..Len(imp.types)
  /\ Len(imp.list) \in Nat /\ DOMAIN imp.list = 1..Len(imp.list)
  /\ Fits => /\ Len(imp.types) <= Len(imp.list)
             /\ \A i \in 1..Len(imp.types) : imp.list[i] = i
             /\ ~setting.append => \A i \in (Len(imp.types) + 1)..Len(imp.list) : imp.list[i] = NoColumn

\* A table that exists takes the n-th value in its n-th column.
LEMMA AppendListFits ==
  ASSUME setting \in Settings, setting.given = <<>>
  PROVE  /\ Len(AppendList) \in Nat /\ Len(setting.types) <= Len(AppendList)
         /\ \A i \in 1..Len(setting.types) : AppendList[i] = i
<1> DEFINE all == [c \in DOMAIN setting.types |-> c]
           twice == IF setting.header /\ setting.given = <<>> THEN all ELSE <<>>
           n == Len(setting.types)
<1>1. n \in Nat /\ DOMAIN setting.types = 1..n
  BY SettingsAssumption
<1>2. all \in Seq(Nat) /\ Len(all) = n /\ \A i \in 1..n : all[i] = i
  BY <1>1
<1> HIDE DEF all
<1>3. AppendList = (<<>> \o twice) \o all
  BY DEF AppendList, twice, all
<1>4. \A q \in Seq(Nat) : <<>> \o q = q
  OBVIOUS
<1>5. CASE twice = <<>>
  <2>1. AppendList = all
    BY <1>2, <1>3, <1>4, <1>5
  <2> QED
    BY <1>1, <1>2, <2>1
<1>6. CASE twice = all
  <2>1. AppendList = all \o all
    BY <1>2, <1>3, <1>4, <1>6
  <2>2. Len(all \o all) = n + n /\ \A i \in 1..n : (all \o all)[i] = all[i]
    BY <1>1, <1>2
  <2> QED
    BY <1>1, <1>2, <2>1, <2>2
<1> QED
  BY <1>5, <1>6 DEF twice

\* So does a new one, and drops the values it has no column for.
LEMMA ListFitsIs ==
  ASSUME Inv, ClearFile(file), imp.phase = "importing"
  PROVE  ListFits
<1>1. TypesInv /\ imp \in Imports /\ setting \in Settings /\ Known
  BY KnownIs DEF Inv, TypesInv
<1>2. /\ Len(imp.types) \in Nat /\ DOMAIN imp.types = 1..Len(imp.types)
      /\ Len(imp.list) \in Nat /\ DOMAIN imp.list = 1..Len(imp.list)
  BY <1>1 DEF Imports
<1>3. CASE setting.append
  <2>1. imp.types = setting.types /\ imp.list = AppendList
    BY <1>3 DEF Inv, Prepared
  <2> QED
    BY <1>1, <1>2, <1>3, <2>1, AppendListFits DEF ListFits, Fits
<1>4. CASE ~setting.append
  <2>1. Len(imp.types) = NewWidth /\ imp.list = NewList
    BY <1>4 DEF Inv, Prepared
  <2>2. NewWidth \in Nat /\ Names \in Nat /\ NewWidth <= Names
    BY <1>1, NewWidthIs
  <2>3. Len(NewList) = Names /\ \A i \in 1..Names : NewList[i] = IF i <= NewWidth THEN i ELSE NoColumn
    BY <2>2 DEF NewList
  <2> QED
    BY <1>2, <2>1, <2>2, <2>3 DEF ListFits
<1> QED
  BY <1>3, <1>4

\* The values of a line, put into their columns, are what is kept of a row.
LEMMA LineKept ==
  ASSUME Inv, ClearFile(file), imp.phase = "importing", NEW l \in 1..Len(lines), l <= Len(file.rows),
         NEW n, n = Min({Len(imp.list), Len(lines[l].values)})
  PROVE  /\ (~\E i \in 1..n : Taken(lines[l].values, target.auto, i)) => HoldsNothing(file.rows[l])
         /\ Fits => /\ Aligned(n)
                    /\ RowOf(lines[l].values, target.auto, n) = [c \in Columns |-> Kept(file.rows[l], c)]
<1> DEFINE v == lines[l].values
           r == file.rows[l]
<1>1. TypesInv /\ ListFits /\ setting \in Settings
  BY ListFitsIs DEF Inv, TypesInv
<1>2. /\ v \in Seq(Seq(Characters))
      /\ ~IsBlank(r) => Len(v) = Len(r) /\ \A i \in DOMAIN r : v[i] = r[i].text
      /\ IsBlank(r) => v = <<>>
  BY <1>1, LineValues
<1>3. ProperRow(r) /\ l \in 1..Len(file.rows) /\ l \in DOMAIN file.rows
  <2>1. Len(file.rows) \in Nat /\ DOMAIN file.rows = 1..Len(file.rows)
        /\ \A k \in 1..Len(file.rows) : ProperRow(file.rows[k])
    BY <1>1, KnownIs
  <2>2. l \in 1..Len(file.rows)
    BY <2>1
  <2> QED
    BY <2>1, <2>2
<1>4. Len(r) \in Nat /\ DOMAIN r = 1..Len(r)
  BY <1>3 DEF ProperRow
<1> DEFINE p == Len(imp.list)
           q == Len(v)
<1>5. p \in Nat /\ q \in Nat /\ DOMAIN imp.list = 1..p
  BY <1>1, <1>2 DEF ListFits
<1>6. n = IF p <= q THEN p ELSE q
  BY <1>5, LeastOfTwo
<1>7. n \in Nat /\ n <= p /\ n <= q
  <2> HIDE DEF p, q
  <2> QED
    BY <1>5, <1>6
<1>8. \A i \in DOMAIN r \cap DOMAIN imp.list : ~IsBlank(r) => i \in 1..n /\ v[i] = r[i].text
  BY <1>2, <1>4, <1>5, <1>6
<1>9. (~\E i \in 1..n : Taken(v, target.auto, i)) => HoldsNothing(r)
  BY <1>8 DEF Taken, HoldsNothing
<1>10. IsBlank(r) => n = 0
  <2>1. IsBlank(r) => q = 0
    BY <1>2
  <2> QED
    BY <1>7, <2>1
<1>11. ASSUME Fits PROVE Aligned(n)
  <2>1. ASSUME setting.append PROVE n <= Len(imp.types)
    <3>1. Len(r) <= Len(imp.types) /\ Len(imp.types) \in Nat
      BY <1>1, <1>3, <1>11, <2>1 DEF Fits, ListFits, Inv, Prepared
    <3> QED
      BY <1>2, <1>4, <1>7, <1>10, <3>1
  <2>2. ASSUME NEW i \in 1..n PROVE imp.list[i] \in {i, NoColumn}
    <3>1. i \in 1..p
      BY <1>5, <1>7
    <3> QED
      BY <1>1, <1>11, <1>7, <2>1, <3>1 DEF ListFits
  <2> QED
    BY <2>2 DEF Aligned
<1>12. ASSUME Fits, NEW c \in Columns
       PROVE  (IF c \in 1..n /\ imp.list[c] = c /\ Taken(v, target.auto, c) THEN Read(imp.types[c], v[c])
               ELSE IF c = target.auto THEN Assigned ELSE Null) = Kept(r, c)
  <2>1. CASE c = target.auto
    <3>1. ~(imp.list[c] = c /\ Taken(v, target.auto, c))
      BY <2>1 DEF Taken
    <3> QED
      BY <2>1, <3>1 DEF Kept
  <2>2. CASE c # target.auto /\ c \in DOMAIN imp.types \cap DOMAIN r /\ ~IsBlank(r)
    <3>1. c \in 1..Len(imp.types) /\ imp.list[c] = c /\ c \in 1..p
      BY <1>1, <1>5, <1>12, <2>2 DEF ListFits
    <3>2. c \in 1..n /\ v[c] = r[c].text
      BY <1>5, <1>8, <2>2, <3>1
    <3>3. c # NoColumn
      BY <3>2, SettingsAssumption
    <3>4. Taken(v, target.auto, c) <=> ~(IsNumeric(imp.types[c]) /\ r[c].text = <<>>)
      BY <2>2, <3>1, <3>2, <3>3 DEF Taken
    <3> QED
      BY <2>2, <3>1, <3>2, <3>4 DEF Kept
  <2>3. CASE c # target.auto /\ ~(c \in DOMAIN imp.types \cap DOMAIN r /\ ~IsBlank(r))
    <3>1. ASSUME c \in 1..n, imp.list[c] = c PROVE FALSE
      <4>1. ~IsBlank(r)
        BY <1>10, <3>1
      <4>2. c \in DOMAIN r /\ c \in 1..p /\ c \in Nat
        BY <1>2, <1>4, <1>5, <1>7, <3>1, <4>1, SMTT(30)
      <4>3. c \notin 1..Len(imp.types)
        BY <1>1, <2>3, <4>1, <4>2 DEF ListFits
      <4>4. Len(imp.types) \in Nat /\ c > Len(imp.types)
        BY <1>1, <4>2, <4>3 DEF ListFits
      <4>5. CASE setting.append
        <5>1. Len(r) <= Len(imp.types)
          BY <1>1, <1>3, <1>12, <4>5 DEF Fits, Inv, Prepared
        <5> QED
          BY <1>4, <4>2, <4>4, <5>1
      <4>6. CASE ~setting.append
        <5>1. imp.list[c] = NoColumn
          BY <1>1, <1>5, <1>12, <4>2, <4>4, <4>6 DEF ListFits
        <5> QED
          BY <3>1, <4>2, <5>1, SettingsAssumption
      <4> QED
        BY <4>5, <4>6
    <3> QED
      BY <2>3, <3>1 DEF Kept
  <2> QED
    BY <2>1, <2>2, <2>3
<1>13. Fits => RowOf(v, target.auto, n) = [c \in Columns |-> Kept(r, c)]
  <2> HIDE DEF v, r
  <2> QED
    BY <1>12 DEF RowOf
<1> QED
  BY <1>9, <1>11, <1>13

\* One turn of the loop.
LEMMA LineImported ==
  ASSUME Inv, ClearFile(file), ImportLine
  PROVE  Inv'
<1> DEFINE l == Min({imp.line + 1, Len(lines)})
           v == lines[l].values
           n == Min({Len(imp.list), Len(v)})
           some == \E i \in 1..n : Taken(v, target.auto, i)
           rows == file.rows
<1>1. TypesInv /\ imp \in Imports /\ imp.phase = "importing" /\ ~imp.eof /\ ListFits
      /\ UNCHANGED <<file, setting, lines>> /\ target \in Targets /\ Settled(target)
  BY ListFitsIs DEF Inv, TypesInv, ImportLine
<1>2. /\ Len(rows) \in Nat /\ DOMAIN rows = 1..Len(rows)
      /\ Len(lines) \in Nat /\ Len(lines) >= Len(rows) + 1 /\ Len(lines) >= 2
      /\ HeaderLines \in {0, 1} /\ imp.line \in HeaderLines..Len(lines)
  BY <1>1, KnownIs DEF Inv, Prepared
<1>3. l = IF imp.line + 1 <= Len(lines) THEN imp.line + 1 ELSE Len(lines)
  <2>1. imp.line + 1 \in Nat
    BY <1>2
  <2> QED
    BY <1>2, <2>1, LeastOfTwo
<1> HIDE DEF l, rows
<1>4. /\ l \in 1..Len(lines) /\ l \in Nat /\ l > HeaderLines /\ l >= imp.line
      /\ l = imp.line + 1 \/ (l = imp.line /\ l > Len(rows))
  BY <1>2, <1>3
<1>5. /\ v \in Seq(Seq(Characters))
      /\ \A i \in 1..Len(v) : v[i] # Unset
      /\ l > Len(rows) => v = <<>>
      /\ lines[l].eof => l >= Len(rows)
  BY <1>1, <1>4, LineValues DEF rows
<1>6. some => l = imp.line + 1 /\ l <= Len(rows)
  <2>1. l > Len(rows) => ~some
    <3>1. l > Len(rows) => Len(v) = 0
      BY <1>5
    <3>2. Len(v) = 0 => n = 0
      <4>1. Len(imp.list) \in Nat
        BY <1>1 DEF ListFits
      <4> DEFINE p == Len(imp.list)
                 q == Len(v)
      <4>2. q \in Nat
        BY <1>5
      <4>3. n = IF p <= q THEN p ELSE q
        BY <4>1, <4>2, LeastOfTwo
      <4> HIDE DEF p, q, n
      <4>4. p \in Nat /\ (q = 0 => n = 0)
        BY <4>1, <4>2, <4>3 DEF p
      <4> QED
        BY <4>4 DEF q
    <3> QED
      BY <3>1, <3>2
  <2> QED
    BY <1>2, <1>4, <2>1
<1>7. PICK wanted \in BOOLEAN, accepted \in BOOLEAN, gives_up \in BOOLEAN :
        \E stops \in (IF setting.dialog THEN BOOLEAN ELSE {FALSE}) :
          LET line == Min({imp.line + 1, Len(lines)})
              values == lines[line].values
              begun == SetmodeInsertrow(target, line, wanted, accepted)
              s == StoreChangedData(SetValues(begun, values), accepted)
          IN  /\ target' = IF s.ok THEN s.target ELSE SetIgnoreChangedData(s.target)
              /\ imp' = [imp EXCEPT
                   !.line = line, !.values = values, !.eof = lines[line].eof /\ ~imp.stuck,
                   !.errors = IF s.ok THEN @ ELSE @ \cup {line},
                   !.cancel = IF s.ok THEN stops ELSE gives_up]
  BY Zenon DEF ImportLine
<1> DEFINE u == SetValues(SetmodeInsertrow(target, l, wanted, accepted), v)
           ok == StoreChangedData(u, accepted).ok
<1>8. /\ target' \in Targets /\ Settled(target)' /\ target'.auto = target.auto
      /\ ok <=> ~some \/ target.ignore \/ accepted
      /\ target'.ignore <=> ~ok
      /\ ~(some /\ ~target.ignore /\ accepted) => target'.stored = target.stored
      /\ some /\ ~target.ignore /\ accepted =>
           \E e \in Entries : /\ target'.stored = Append(target.stored, e) /\ e.from = l
                              /\ Aligned(n) => e.row = RowOf(v, target.auto, n)
  <2>1. Len(imp.list) \in Nat
    BY <1>1 DEF ListFits
  <2>2. Settled(target)' <=> Settled(target')
    BY DEF Settled
  <2>3. target' = Closing(u, accepted)
    BY <1>7, Zenon DEF Closing, l
  <2> DEFINE w == Closing(u, accepted)
  <2> HIDE DEF v
  <2>4. Entered(v, target, l, accepted, n, u)
    <3>1. Unset # Garbled
      BY UnsetAssumption
    <3>2. target \in Targets /\ Settled(target) /\ l \in Nat /\ accepted \in BOOLEAN
          /\ v \in Seq(Seq(Characters)) /\ \A i \in 1..Len(v) : v[i] # Unset
      BY <1>1, <1>4, <1>5
    <3> QED
      BY <2>1, <3>1, <3>2, LineEntered
  <2>5. /\ w \in Targets /\ Settled(w) /\ w.auto = target.auto
        /\ ok <=> ~some \/ target.ignore \/ accepted
        /\ w.ignore <=> ~ok
        /\ ~(some /\ ~target.ignore /\ accepted) => w.stored = target.stored
        /\ some /\ ~target.ignore /\ accepted =>
             \E e \in Entries : /\ w.stored = Append(target.stored, e) /\ e.from = l
                                /\ Aligned(n) => e.row = RowOf(v, target.auto, n)
    <3> HIDE DEF u, n
    <3> QED
      BY <2>4 DEF Entered
  <2> HIDE DEF u, ok, some, n, w
  <2> QED
    BY <2>2, <2>3, <2>5 DEF w
<1> HIDE DEF u, some
<1>9. PICK cancel \in BOOLEAN :
        imp' = [imp EXCEPT
                 !.line = l, !.values = v, !.eof = lines[l].eof /\ ~imp.stuck,
                 !.errors = IF ok THEN @ ELSE @ \cup {l}, !.cancel = cancel]
  <2>1. PICK stops \in (IF setting.dialog THEN BOOLEAN ELSE {FALSE}) :
          imp' = [imp EXCEPT
                   !.line = l, !.values = v, !.eof = lines[l].eof /\ ~imp.stuck,
                   !.errors = IF ok THEN @ ELSE @ \cup {l},
                   !.cancel = IF ok THEN stops ELSE gives_up]
    BY <1>7, Zenon DEF u, l
  <2>2. stops \in BOOLEAN
    OBVIOUS
  <2> WITNESS (IF ok THEN stops ELSE gives_up) \in BOOLEAN
  <2> QED
    BY <2>1
<1>10. imp' \in Imports /\ imp'.phase = "importing" /\ imp'.line = l /\ imp'.values = v
      /\ imp'.eof = (lines[l].eof /\ ~imp.stuck) /\ imp'.errors = (IF ok THEN imp.errors ELSE imp.errors \cup {l})
      /\ imp'.types = imp.types /\ imp'.list = imp.list /\ imp'.result = imp.result
  <2> DEFINE eof == lines[l].eof /\ ~imp.stuck
             errors == IF ok THEN imp.errors ELSE imp.errors \cup {l}
  <2>1. eof \in BOOLEAN
    OBVIOUS
  <2>2. errors \in SUBSET Nat
    BY <1>1, <1>4 DEF Imports
  <2>3. imp' = [imp EXCEPT !.line = l, !.values = v, !.eof = eof, !.errors = errors, !.cancel = cancel]
    BY <1>9
  <2> HIDE DEF v, eof, errors, ok
  <2>5. imp' \in Imports /\ imp'.phase = imp.phase /\ imp'.line = l /\ imp'.values = v
        /\ imp'.eof = eof /\ imp'.errors = errors
        /\ imp'.types = imp.types /\ imp'.list = imp.list /\ imp'.result = imp.result
    BY <1>1, <1>4, <1>5, <2>1, <2>2, <2>3 DEF Imports
  <2> QED
    BY <1>1, <2>5 DEF eof, errors
<1> HIDE DEF ok
<1>11. /\ HeaderLines' = HeaderLines /\ AppendList' = AppendList
       /\ NewList' = NewList /\ NewWidth' = NewWidth
       /\ \A type, c : FitsSeen(type, c)' <=> FitsSeen(type, c)
       /\ Fits' <=> Fits
  BY <1>1, Same
<1>12. TypesInv'
  BY <1>1, <1>8, <1>10 DEF TypesInv
<1>13. Untouched'
  BY <1>2, <1>4, <1>10 DEF Untouched
<1>14. ~imp.result /\ Prepared'
  <2>1. imp.phase = "importing" /\ l \in HeaderLines..Len(lines)
    BY <1>1, <1>2, <1>4
  <2>2. /\ ~imp.result
        /\ setting.append => imp.types = setting.types /\ imp.list = AppendList
        /\ ~setting.append => /\ Len(imp.types) = NewWidth /\ imp.list = NewList
                              /\ \A c \in 1..NewWidth : FitsSeen(imp.types[c], c)
    BY <2>1 DEF Inv, Prepared
  <2> HIDE DEF v
  <2> QED
    BY <1>1, <1>10, <1>11, <2>1, <2>2 DEF Prepared
<1>15. OnLine'
  BY <1>1, <1>4, <1>10 DEF OnLine
<1>16. AtEnd'
  BY <1>1, <1>5, <1>10, <1>14 DEF AtEnd, rows
<1>17. InOrder /\ RowsKept /\ Accounted /\ FlagIsNew
  BY DEF Inv
<1>18. target.stored \in Seq(Entries) /\ Len(target.stored) \in Nat
       /\ DOMAIN target.stored = 1..Len(target.stored)
  BY <1>1 DEF Targets
<1>19. \A row : /\ HoldsNothing(row)' <=> HoldsNothing(row)
                /\ \A c : Kept(row, c)' = Kept(row, c)
  BY <1>8, <1>10 DEF HoldsNothing, Kept, IsBlank
<1>20. FlagIsNew'
  BY <1>8, <1>10 DEF FlagIsNew
\* A line that is new, its row stored.
<1>21. CASE some /\ ~target.ignore /\ accepted
  <2>1. l = imp.line + 1 /\ l <= Len(rows) /\ ok /\ imp'.errors = imp.errors
    BY <1>6, <1>8, <1>10, <1>21
  <2>2. PICK e \in Entries : /\ target'.stored = Append(target.stored, e) /\ e.from = l
                             /\ Aligned(n) => e.row = RowOf(v, target.auto, n)
    BY <1>8, <1>21
  <2> DEFINE m == Len(target.stored)
             S == target.stored
  <2>3. /\ DOMAIN target'.stored = 1..(m + 1) /\ target'.stored[m + 1] = e
        /\ \A i \in 1..m : target'.stored[i] = S[i]
    BY <1>18, <2>2
  <2>4. DOMAIN S = 1..m /\ m \in Nat
    BY <1>18
  <2>5. Fits => e.row = [c \in Columns |-> Kept(rows[l], c)]
    BY <1>1, <1>4, <2>1, <2>2, LineKept DEF rows
  <2> HIDE DEF m, S, v, n
  <2>6. InOrder'
    <3>1. /\ imp.errors \subseteq (HeaderLines + 1)..imp.line
          /\ \A i \in 1..m : /\ S[i].from \in (HeaderLines + 1)..imp.line
                             /\ S[i].from \in DOMAIN rows \ imp.errors
          /\ \A i, j \in 1..m : i < j => S[i].from < S[j].from
      BY <1>17, <2>4 DEF InOrder, S, rows
    <3>2. l \in (HeaderLines + 1)..l /\ l \in DOMAIN rows \ imp.errors
      BY <1>2, <1>4, <2>1, <3>1
    <3>3. \A k \in (HeaderLines + 1)..imp.line : k \in (HeaderLines + 1)..l /\ k < l
      BY <1>2, <1>4, <2>1
    <3>4. \A i \in 1..(m + 1) : i \in 1..m \/ i = m + 1
      BY <2>4
    <3>5. \A i \in DOMAIN target'.stored :
            /\ target'.stored[i].from \in (HeaderLines + 1)..l
            /\ target'.stored[i].from \in DOMAIN rows \ imp.errors
      BY <2>2, <2>3, <3>1, <3>2, <3>3, <3>4
    <3>6. \A i, j \in DOMAIN target'.stored : i < j => target'.stored[i].from < target'.stored[j].from
      <4> SUFFICES ASSUME NEW i \in 1..(m + 1), NEW j \in 1..(m + 1), i < j
                   PROVE  target'.stored[i].from < target'.stored[j].from
        BY <2>3
      <4>1. i \in 1..m
        BY <2>4
      <4>2. CASE j \in 1..m
        BY <2>3, <3>1, <4>1, <4>2
      <4>3. CASE j = m + 1
        <5>1. target'.stored[i].from = S[i].from /\ S[i].from \in (HeaderLines + 1)..imp.line
          BY <2>3, <3>1, <4>1
        <5>2. target'.stored[j].from = l
          BY <2>2, <2>3, <4>3
        <5> QED
          BY <3>3, <5>1, <5>2
      <4> QED
        BY <3>4, <4>2, <4>3
    <3>7. imp.errors \subseteq (HeaderLines + 1)..l
      BY <3>1, <3>3
    <3> QED
      BY <1>1, <1>10, <1>11, <2>1, <3>5, <3>6, <3>7 DEF InOrder, rows
  <2>7. RowsKept'
    <3>1. Fits => \A i \in 1..m : S[i].row = [c \in Columns |-> Kept(rows[S[i].from], c)]
      BY <1>17, <2>4 DEF RowsKept, S, rows
    <3>2. \A i \in 1..(m + 1) : i \in 1..m \/ i = m + 1
      BY <2>4
    <3>3. ASSUME Fits, NEW i \in DOMAIN target'.stored
          PROVE  target'.stored[i].row = [c \in Columns |-> Kept(rows[target'.stored[i].from], c)]
      <4>1. CASE i \in 1..m
        BY <2>3, <3>1, <3>3, <4>1
      <4>2. CASE i = m + 1
        BY <2>2, <2>3, <2>5, <3>3, <4>2
      <4> QED
        BY <2>3, <3>2, <4>1, <4>2
    <3> QED
      BY <1>1, <1>11, <1>19, <3>3 DEF RowsKept, rows
  <2>8. Accounted'
    <3>1. \A k \in (HeaderLines + 1)..l : k \in (HeaderLines + 1)..imp.line \/ k = l
      BY <1>2, <2>1
    <3>2. \A i \in 1..m : i \in 1..(m + 1)
      BY <2>4
    <3>3. m + 1 \in 1..(m + 1)
      BY <2>4
    <3>4. \A k \in (HeaderLines + 1)..imp.line : k <= Len(rows) =>
            \/ HoldsNothing(rows[k]) \/ k \in imp.errors \/ \E i \in 1..m : S[i].from = k
            \/ k - 1 \in imp.errors
      BY <1>17, <2>4 DEF Accounted, S, rows
    <3>5. \A k \in (HeaderLines + 1)..l : k <= Len(rows) =>
            \/ HoldsNothing(rows[k]) \/ k \in imp.errors \/ \E i \in DOMAIN target'.stored : target'.stored[i].from = k
            \/ k - 1 \in imp.errors
      BY <2>2, <2>3, <3>1, <3>2, <3>3, <3>4
    <3> QED
      BY <1>1, <1>10, <1>11, <1>19, <2>1, <3>5 DEF Accounted, rows
  <2> QED
    BY <1>12, <1>13, <1>14, <1>15, <1>16, <1>20, <2>6, <2>7, <2>8 DEF Inv
\* Nothing is stored: the line is refused, it comes behind one that was, or it
\* holds nothing.
<1>22. CASE ~(some /\ ~target.ignore /\ accepted)
  <2>1. target'.stored = target.stored
    BY <1>8, <1>22
  <2>2. imp'.errors = imp.errors \/ (some /\ imp'.errors = imp.errors \cup {l})
    BY <1>8, <1>10
  <2>3. imp.errors \subseteq imp'.errors
    BY <2>2
  <2>4. (HeaderLines + 1)..imp.line \subseteq (HeaderLines + 1)..l /\ l \in (HeaderLines + 1)..l
    BY <1>2, <1>4
  <2> HIDE DEF v, n
  <2>5. InOrder'
    <3>1. imp'.errors \subseteq (HeaderLines + 1)..l
      BY <1>17, <2>2, <2>4 DEF InOrder
    <3>2. some => l \notin (HeaderLines + 1)..imp.line
      BY <1>2, <1>6
    <3>3. \A i \in DOMAIN target.stored : /\ target.stored[i].from \in (HeaderLines + 1)..l
                                         /\ target.stored[i].from \in DOMAIN rows \ imp'.errors
      BY <1>17, <2>2, <2>4, <3>2 DEF InOrder, rows
    <3> QED
      BY <1>1, <1>10, <1>11, <1>17, <2>1, <3>1, <3>3 DEF InOrder, rows
  <2>6. RowsKept'
    BY <1>1, <1>11, <1>17, <1>19, <2>1 DEF RowsKept
  <2>7. ASSUME NEW k \in (HeaderLines + 1)..l, k <= Len(rows)
        PROVE  \/ HoldsNothing(rows[k]) \/ k \in imp'.errors
               \/ \E i \in DOMAIN target.stored : target.stored[i].from = k
               \/ k - 1 \in imp'.errors
    <3>1. CASE k \in (HeaderLines + 1)..imp.line
      BY <1>17, <2>3, <2>7, <3>1 DEF Accounted, rows
    <3>2. CASE k \notin (HeaderLines + 1)..imp.line
      <4>1. k = l
        BY <1>2, <1>4, <2>7, <3>2
      <4>2. CASE some
        <5>1. CASE target.ignore
          BY <1>2, <1>6, <1>17, <2>3, <4>1, <4>2, <5>1 DEF FlagIsNew
        <5>2. CASE ~target.ignore
          BY <1>8, <1>10, <1>22, <4>1, <4>2, <5>2
        <5> QED
          BY <5>1, <5>2
      <4>3. CASE ~some
        BY <1>1, <1>4, <2>7, <4>1, <4>3, LineKept DEF rows, some, n, v
      <4> QED
        BY <4>2, <4>3
    <3> QED
      BY <3>1, <3>2
  <2>8. Accounted'
    BY <1>1, <1>10, <1>11, <1>19, <2>1, <2>7 DEF Accounted, rows
  <2> QED
    BY <1>12, <1>13, <1>14, <1>15, <1>16, <1>20, <2>5, <2>6, <2>8 DEF Inv
<1> QED
  BY <1>21, <1>22

\* No step breaks the invariant, and the file stays.
LEMMA InvNext ==
  ASSUME Inv, ClearFile(file), [Next]_vars
  PROVE  Inv'
<1>1. CASE NotInitialized \/ Crash \/ Return
  BY <1>1, Stops
<1>2. CASE InitializeTable
  BY <1>2, Initializes
<1>3. CASE ImportLine
  BY <1>3, LineImported
<1>4. CASE UNCHANGED vars
  <2>1. UNCHANGED <<file, setting, lines, imp, target>>
    BY <1>4 DEF vars
  <2>2. /\ HeaderLines' = HeaderLines /\ AppendList' = AppendList
        /\ NewList' = NewList /\ NewWidth' = NewWidth
        /\ \A type, c : FitsSeen(type, c)' <=> FitsSeen(type, c)
        /\ Fits' <=> Fits
    BY <2>1, Same
  <2>3. TypesInv' /\ Untouched' /\ OnLine' /\ InOrder' /\ FlagIsNew' /\ AtEnd'
    <3>1. TypesInv' /\ Untouched'
      BY <2>1, <2>2 DEF Inv, TypesInv, Settled, Untouched
    <3>2. OnLine' /\ InOrder'
      BY <2>1, <2>2 DEF Inv, OnLine, InOrder
    <3>3. FlagIsNew' /\ AtEnd'
      BY <2>1, <2>2 DEF Inv, FlagIsNew, AtEnd
    <3> QED
      BY <3>1, <3>2, <3>3
  <2>4. Prepared'
    BY <2>1, <2>2 DEF Inv, Prepared
  <2>5. \A row : /\ HoldsNothing(row)' <=> HoldsNothing(row)
                 /\ \A c : Kept(row, c)' = Kept(row, c)
    <3>1. \A row, c : Kept(row, c)' = Kept(row, c)
      BY <2>1, SMTT(30) DEF Kept, IsBlank
    <3>2. \A row : HoldsNothing(row)' <=> HoldsNothing(row)
      BY <2>1, SMTT(30) DEF HoldsNothing, Kept, IsBlank
    <3> QED
      BY <3>1, <3>2
  <2>6. RowsKept' /\ Accounted'
    BY <2>1, <2>2, <2>5 DEF Inv, RowsKept, Accounted
  <2> QED
    BY <2>3, <2>4, <2>6 DEF Inv
<1> QED
  BY <1>1, <1>2, <1>3, <1>4 DEF Next

LEMMA FileKept ==
  ASSUME [Next]_vars
  PROVE  file' = file
BY DEF Next, vars, NotInitialized, Crash, InitializeTable, ImportLine, Return

\* The invariant is about files that can be read back, and such a file stays one.
Cleared == ClearFile(file) => Inv

\* The inductive invariant of the import: where execute is in the file, what it
\* has made of the lines before, and what is still to be entered (execute and
\* initialize_table of hk_importcsv).
THEOREM ImportKeepsInv == Spec => []Cleared
<1>1. Init => Cleared
  BY InvInit DEF Cleared
<1>2. Cleared /\ [Next]_vars => Cleared'
  <2> SUFFICES ASSUME Cleared, [Next]_vars, ClearFile(file)' PROVE Inv'
    BY DEF Cleared
  <2>1. file' = file
    BY FileKept
  <2>2. ClearFile(file)
    BY <2>1 DEF ClearFile
  <2> QED
    BY <2>2, InvNext DEF Cleared
<1> QED
  BY <1>1, <1>2, PTL DEF Spec

\* A file without a quote that can be mistaken is one that can be read back.
LEMMA ClearRows ==
  ASSUME Cleared, Unambiguous
  PROVE  Inv /\ ClearFile(file)
BY ClearIs DEF Cleared

\* The values of a line are the texts of the row.
LEMMA LineData ==
  ASSUME TypesInv, ClearFile(file), NEW k \in 1..Len(lines)
  PROVE  lines[k].values = IF k > Len(file.rows) \/ IsBlank(file.rows[k]) THEN <<>>
                           ELSE Texts(file.rows[k])
<1>1. /\ Len(file.rows) \in Nat /\ k \in Nat /\ LineIs(file, k, lines[k])
      /\ \A i \in 1..Len(file.rows) : ProperRow(file.rows[i])
  BY KnownIs
<1>2. CASE ~(k <= Len(file.rows))
  <2>1. lines[k].values = <<>>
    BY <1>1, <1>2 DEF LineIs
  <2> QED
    BY <1>1, <1>2, <2>1
<1>3. CASE k <= Len(file.rows)
  <2> DEFINE r == file.rows[k]
  <2>1. lines[k].values = RowValues(TRUE, r)
    BY <1>1, <1>3 DEF LineIs
  <2>2. ProperRow(r)
    BY <1>1, <1>3
  <2> HIDE DEF r
  <2>3. lines[k].values = IF IsBlank(r) THEN <<>> ELSE Texts(r)
    BY <2>1, <2>2, DataRead
  <2> QED
    BY <1>1, <1>3, <2>3 DEF r
<1> QED
  BY <1>2, <1>3

\* The values that are imported of a line are those of its row, whatever quotes,
\* separators and ends of line are in them: get_line and create_valuelist undo
\* what was written.
THEOREM ReadsLinesAsRows == Spec => []LinesAreRows
<1>1. Cleared => LinesAreRows
  <2> SUFFICES ASSUME Cleared, Reading, Unambiguous
               PROVE  imp.values = IF imp.line > Len(file.rows) \/ IsBlank(file.rows[imp.line]) THEN <<>>
                                   ELSE Texts(file.rows[imp.line])
    BY DEF LinesAreRows
  <2>1. Inv /\ TypesInv /\ ClearFile(file) /\ imp \in Imports
    BY ClearRows DEF Inv, TypesInv
  <2>2. Len(lines) \in Nat /\ HeaderLines \in {0, 1}
    BY <2>1, KnownIs
  <2>3. imp.line \in 1..Len(lines) /\ imp.values = lines[imp.line].values
    BY <2>1, <2>2 DEF Inv, OnLine, Reading, Imports
  <2> QED
    BY <2>1, <2>3, LineData
<1> QED
  BY <1>1, ImportKeepsInv, PTL

\* What a row of the table holds is what one row of the file has for its columns,
\* in the order of the file: no value is left over from a row that was refused
\* (the loop of execute over the lines, and the pending values of the columns).
THEOREM PutsValuesInTheirColumns == Spec => []ValuesInTheirColumns
<1>1. Cleared => ValuesInTheirColumns
  <2> SUFFICES ASSUME Cleared, Unambiguous, Fits
               PROVE  /\ \A i \in DOMAIN target.stored :
                           /\ target.stored[i].from \in DOMAIN file.rows \ imp.errors
                           /\ target.stored[i].row = [c \in Columns |-> Kept(file.rows[target.stored[i].from], c)]
                      /\ \A i, j \in DOMAIN target.stored :
                           i < j => target.stored[i].from < target.stored[j].from
    BY DEF ValuesInTheirColumns, Fits
  <2> QED
    BY ClearRows DEF Inv, InOrder, RowsKept
<1> QED
  BY <1>1, ImportKeepsInv, PTL

\* A row that is read is in the table or reported, or has nothing to store, or
\* comes right behind a reported one, whose ignore flag discards it; execute
\* returns true only behind the last one.
THEOREM LosesOnlyBehindRefused == Spec => []LostOnlyBehindRefused
<1>1. Cleared => LostOnlyBehindRefused
  <2> SUFFICES ASSUME Cleared, Reading, Unambiguous
               PROVE  /\ \A k \in (HeaderLines + 1)..Min({imp.line, Len(file.rows)}) :
                           \/ HoldsNothing(file.rows[k])
                           \/ k \in imp.errors
                           \/ \E i \in DOMAIN target.stored : target.stored[i].from = k
                           \/ k - 1 \in imp.errors
                      /\ imp.result => imp.line >= Len(file.rows)
    BY DEF LostOnlyBehindRefused, RowsRead, IsAccounted
  <2>1. Inv /\ TypesInv /\ ClearFile(file) /\ imp.line \in Nat
    BY ClearRows DEF Inv, TypesInv, Imports
  <2>2. Len(file.rows) \in Nat /\ HeaderLines \in {0, 1}
    BY <2>1, KnownIs
  <2> DEFINE m == Min({imp.line, Len(file.rows)})
  <2>3. m \in Nat /\ m <= imp.line /\ m <= Len(file.rows)
    <3>1. m = IF imp.line <= Len(file.rows) THEN imp.line ELSE Len(file.rows)
      BY <2>1, <2>2, LeastOfTwo
    <3> HIDE DEF m
    <3> QED
      BY <2>1, <2>2, <3>1
  <2> HIDE DEF m
  <2>4. \A k \in (HeaderLines + 1)..m : k \in (HeaderLines + 1)..imp.line /\ k <= Len(file.rows)
    BY <2>1, <2>2, <2>3
  <2>5. Accounted /\ AtEnd
    BY <2>1 DEF Inv
  <2> QED
    BY <2>4, <2>5 DEF Accounted, AtEnd, m
<1> QED
  BY <1>1, ImportKeepsInv, PTL

\* The types of a new table are those all values of the preview have in common,
\* in whatever order the lines come (initialize_table and interpret_columntype).
THEOREM GuessesFittingTypes == Spec => []TypesFitPreview
<1>1. Cleared => TypesFitPreview
  <2> SUFFICES ASSUME Cleared, imp.phase = "importing", ~setting.append, Unambiguous
               PROVE  \A c \in DOMAIN imp.types : FitsSeen(imp.types[c], c)
    BY DEF TypesFitPreview, FitsSeen, Seen
  <2>1. Inv /\ imp \in Imports
    BY ClearRows DEF Inv, TypesInv
  <2>2. DOMAIN imp.types = 1..Len(imp.types)
    BY <2>1 DEF Imports
  <2> QED
    BY <2>1, <2>2 DEF Inv, Prepared
<1> QED
  BY <1>1, ImportKeepsInv, PTL
=============================================================================
