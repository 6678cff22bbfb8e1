--------------------------- MODULE CsvReadProofs ----------------------------
(***************************************************************************)
(* What hk_importcsv reads of a file is what was written into it: for any  *)
(* characters, rows and ends of line, the calls of get_line give the lines *)
(* of the file, and create_valuelist gives of each the values of its row.  *)
(***************************************************************************)
EXTENDS CsvImport, SequenceTheorems, FiniteSetTheorems, WellFoundedInduction, TLAPS

-----------------------------------------------------------------------------
(* The folds of the component, by instances of FoldLemmas.                 *)

\* create_valuelist scans a line.
ScanBy(datamode, s, c) == Scan(s, c, datamode)
Scanning == INSTANCE FoldLemmas WITH Op <- ScanBy

\* Quotes are doubled.
DoubleBy(p, acc, c) == acc \o (IF c = TextDelimiter THEN <<c, c>> ELSE <<c>>)
Doubling == INSTANCE FoldLemmas WITH Op <- DoubleBy

\* Fields are joined to a section.
JoinBy(fields, acc, i) == acc \o (IF i = 1 THEN <<>> ELSE <<BetweenFields>>) \o fields[i]
Joining == INSTANCE FoldLemmas WITH Op <- JoinBy

\* get_line is called again and again.
ReadBy(text, acc, i) == Append(acc, GetLine(IF i = 1 THEN text ELSE Last(acc).rest))
Calling == INSTANCE FoldLemmas WITH Op <- ReadBy

\* Whether a text has had an even number of quotes so far, or has ended a row.
WatchBy(p, q, c) ==
  IF q = "ended" THEN q
  ELSE IF c = TextDelimiter THEN (IF q = "even" THEN "odd" ELSE "even")
  ELSE IF c = RowDelimiter /\ q = "even" THEN "ended"
  ELSE q
Watching == INSTANCE FoldLemmas WITH Op <- WatchBy

Run(datamode, s, text) == Scanning!Fold(datamode, s, text)
Watch(q, text) == Watching!Fold(0, q, text)
Joined(fields, k) == Joining!Fold(fields, <<>>, [i \in 1..k |-> i])

-----------------------------------------------------------------------------
(* Induction, see FoldLemmas.                                              *)

LEMMA SetInduction ==
  ASSUME NEW S \in SUBSET Nat, 0 \in S, \A n \in S : n + 1 \in S
  PROVE  S = Nat
  BY Scanning!SetInduction

LEMMA Least ==
  ASSUME NEW S \in SUBSET Nat, S # {}
  PROVE  Min(S) \in S /\ \A n \in S : Min(S) <= n
  BY Scanning!LeastExists DEF Min

LEMMA SeqInduction ==
  ASSUME NEW X, NEW S, <<>> \in S, \A s \in Seq(X), x \in X : s \in S => Append(s, x) \in S
  PROVE  Seq(X) \subseteq S
  BY Scanning!SeqInduction

-----------------------------------------------------------------------------
(* The folds.                                                             *)

\* create_valuelist is a run of the scan over the line.
LEMMA CreateValuelistIs ==
  ASSUME NEW line, NEW datamode
  PROVE  CreateValuelist(line, datamode) =
           LET row == Append(WithoutFirst(line, CarriageReturn), NewLine)
               s == Run(datamode, [state |-> "start", field |-> <<>>, values |-> <<>>], row)
           IN  IF Len(row) < 2 THEN <<>>
               ELSE IF s.state = "start" THEN s.values ELSE Append(s.values, s.field)
  BY Zenon DEF CreateValuelist, Run, ScanBy, Scanning!Fold, Scanning!Greatest, FoldLeft, MapThenFoldSet, Max

LEMMA DoubledIs ==
  ASSUME NEW text
  PROVE  Doubled(text) = Doubling!Fold(0, <<>>, text)
  BY Zenon DEF Doubled, DoubleBy, Doubling!Fold, Doubling!Greatest, FoldLeft, MapThenFoldSet, Max

LEMMA CsvSectionIs ==
  ASSUME NEW fields, NEW end, NEW k, DOMAIN fields = 1..k
  PROVE  CsvSection(fields, end) = Joined(fields, k) \o end
<1> DEFINE s == [i \in DOMAIN fields |-> i]
<1>1. CsvSection(fields, end) = Joining!Fold(fields, <<>>, s) \o end
  BY Zenon DEF CsvSection, JoinBy, Joining!Fold, Joining!Greatest, FoldLeft, MapThenFoldSet, Max
<1>2. s = [i \in 1..k |-> i]
  OBVIOUS
<1> HIDE DEF s
<1> QED
  BY <1>1, <1>2 DEF Joined

\* The equations of these folds.
LEMMA RunIs ==
  ASSUME NEW datamode, NEW s
  PROVE  /\ Run(datamode, s, <<>>) = s
         /\ \A t \in Seq(Characters), c \in Characters :
              Run(datamode, s, Append(t, c)) = Scan(Run(datamode, s, t), c, datamode)
         /\ \A t, u \in Seq(Characters) :
              Run(datamode, s, t \o u) = Run(datamode, Run(datamode, s, t), u)
  BY Scanning!FoldEmpty, Scanning!FoldAppend, Scanning!FoldConcat DEF Run, ScanBy

LEMMA WatchIs ==
  ASSUME NEW q
  PROVE  /\ Watch(q, <<>>) = q
         /\ \A t \in Seq(Characters), c \in Characters :
              Watch(q, Append(t, c)) = WatchBy(0, Watch(q, t), c)
         /\ \A t, u \in Seq(Characters) : Watch(q, t \o u) = Watch(Watch(q, t), u)
  BY Watching!FoldEmpty, Watching!FoldAppend, Watching!FoldConcat DEF Watch

LEMMA RunNext ==
  ASSUME NEW datamode, NEW s, NEW t \in Seq(Characters), NEW c \in Characters
  PROVE  Run(datamode, s, Append(t, c)) = Scan(Run(datamode, s, t), c, datamode)
BY Scanning!FoldAppend DEF Run, ScanBy

LEMMA WatchNext ==
  ASSUME NEW q, NEW t \in Seq(Characters), NEW c \in Characters
  PROVE  Watch(q, Append(t, c)) = WatchBy(0, Watch(q, t), c)
BY Watching!FoldAppend DEF Watch

LEMMA JoinedIs ==
  ASSUME NEW fields, NEW k \in Nat
  PROVE  /\ Joined(fields, 0) = <<>>
         /\ Joined(fields, k + 1) = JoinBy(fields, Joined(fields, k), k + 1)
<1>1. [i \in 1..0 |-> i] = <<>>
  OBVIOUS
<1>2. Joined(fields, 0) = <<>>
  BY <1>1, Joining!FoldEmpty DEF Joined
<1> DEFINE s == [i \in 1..k |-> i]
           t == [i \in 1..(k + 1) |-> i]
<1>3. s \in Seq(Nat) /\ t = Append(s, k + 1) /\ k + 1 \in Nat
  OBVIOUS
<1> HIDE DEF s, t
<1>4. Joining!Fold(fields, <<>>, Append(s, k + 1)) = JoinBy(fields, Joining!Fold(fields, <<>>, s), k + 1)
  BY <1>3, Joining!FoldAppend
<1> QED
  BY <1>2, <1>3, <1>4 DEF Joined, s, t

-----------------------------------------------------------------------------
(* The characters of a file.                                               *)

Inner == Characters \ {CarriageReturn}
Bare == Inner \ {TextDelimiter, BetweenFields, RowDelimiter}

\* The state of the scan within or behind a value.
Cell(q, f, v) == [state |-> q, field |-> f, values |-> v]

\* What of a text is read within quotes, and without.
LEMMA RunBare ==
  ASSUME NEW d, NEW v
  PROVE  \A w \in Seq(Bare) :
           /\ Run(d, Cell("start", <<>>, v), w) = Cell(IF w = <<>> THEN "start" ELSE "normal", w, v)
           /\ Watch("even", w) = "even"
<1> DEFINE Right(w) == /\ Run(d, Cell("start", <<>>, v), w) = Cell(IF w = <<>> THEN "start" ELSE "normal", w, v)
                       /\ Watch("even", w) = "even"
           S == { w \in Seq(Bare) : Right(w) }
<1>1. <<>> \in S
  BY RunIs, WatchIs
<1>2. ASSUME NEW w \in Seq(Bare), NEW c \in Bare, w \in S PROVE Append(w, c) \in S
  <2>1. w \in Seq(Characters) /\ c \in Characters /\ Append(w, c) \in Seq(Bare) /\ Append(w, c) # <<>>
    BY DEF Bare, Inner
  <2>2. c # TextDelimiter /\ ~EndsField(c) /\ c # RowDelimiter
    BY DEF Bare, EndsField
  <2>3. Run(d, Cell("start", <<>>, v), Append(w, c)) = Scan(Run(d, Cell("start", <<>>, v), w), c, d)
    BY <2>1, RunNext
  <2>4. Run(d, Cell("start", <<>>, v), w) = Cell(IF w = <<>> THEN "start" ELSE "normal", w, v)
    BY <1>2
  <2>5. Run(d, Cell("start", <<>>, v), Append(w, c)) = Cell("normal", Append(w, c), v)
    <3>1. \A q \in {"start", "normal"} : Scan(Cell(q, w, v), c, d) = Cell("normal", Append(w, c), v)
      BY <2>2 DEF Scan, Cell
    <3> QED
      BY <2>3, <2>4, <3>1
  <2>6. Watch("even", Append(w, c)) = "even"
    BY <1>2, <2>1, <2>2, WatchIs DEF WatchBy
  <2> QED
    BY <2>1, <2>5, <2>6
<1> HIDE DEF S
<1>3. Seq(Bare) \subseteq S
  BY <1>1, <1>2, SeqInduction
<1> QED
  BY <1>3 DEF S

\* Doubling quotes, character by character.
LEMMA DoubledNext ==
  /\ Doubled(<<>>) = <<>>
  /\ \A w \in Seq(Characters), c \in Characters : Doubled(Append(w, c)) = DoubleBy(0, Doubled(w), c)
BY DoubledIs, Doubling!FoldEmpty, Doubling!FoldAppend

LEMMA DoubledType ==
  \A w \in Seq(Inner) : Doubled(w) \in Seq(Inner)
<1> DEFINE S == { w \in Seq(Inner) : Doubled(w) \in Seq(Inner) }
<1>1. <<>> \in S
  <2>1. <<>> \in Seq(Inner)
    OBVIOUS
  <2> QED
    BY <2>1, DoubledNext
<1>2. ASSUME NEW w \in Seq(Inner), NEW c \in Inner, w \in S PROVE Append(w, c) \in S
  <2>1. w \in Seq(Characters) /\ c \in Characters /\ Append(w, c) \in Seq(Inner) /\ Doubled(w) \in Seq(Inner)
    BY <1>2 DEF Inner
  <2>2. Doubled(Append(w, c)) = DoubleBy(0, Doubled(w), c)
    BY <2>1, DoubledNext
  <2>3. DoubleBy(0, Doubled(w), c) \in Seq(Inner)
    BY <2>1 DEF DoubleBy
  <2> QED
    BY <2>1, <2>2, <2>3
<1> HIDE DEF S
<1>3. Seq(Inner) \subseteq S
  BY <1>1, <1>2, SeqInduction
<1> QED
  BY <1>3 DEF S

\* A text without quotes stays as it is.
LEMMA NothingDoubled ==
  \A w \in Seq(Inner \ {TextDelimiter}) : Doubled(w) = w
<1> DEFINE X == Inner \ {TextDelimiter}
           S == { w \in Seq(X) : Doubled(w) = w }
<1>1. <<>> \in S
  BY DoubledNext
<1>2. ASSUME NEW w \in Seq(X), NEW c \in X, w \in S PROVE Append(w, c) \in S
  <2>1. w \in Seq(Characters) /\ c \in Characters /\ Append(w, c) \in Seq(X) /\ Doubled(w) = w /\ c # TextDelimiter
    BY <1>2 DEF Inner
  <2>2. Doubled(Append(w, c)) = DoubleBy(0, w, c)
    BY <2>1, DoubledNext
  <2>3. DoubleBy(0, w, c) = w \o <<c>>
    BY <2>1 DEF DoubleBy
  <2>4. w \o <<c>> = Append(w, c)
    BY <2>1
  <2> QED
    BY <2>1, <2>2, <2>3, <2>4
<1> HIDE DEF X, S
<1>3. Seq(X) \subseteq S
  BY <1>1, <1>2, SeqInduction
<1> QED
  BY <1>3 DEF S, X

\* The scan of a quoted text with its quotes doubled gives the text.
LEMMA RunQuoted ==
  ASSUME NEW d, NEW v, NEW f \in Seq(Characters)
  PROVE  \A w \in Seq(Inner) :
           /\ Run(d, Cell("quoted", f, v), Doubled(w)) = Cell("quoted", f \o w, v)
           /\ Watch("odd", Doubled(w)) = "odd"
<1> DEFINE b == Cell("quoted", f, v)
           Right(w) == /\ Run(d, b, Doubled(w)) = Cell("quoted", f \o w, v)
                       /\ Watch("odd", Doubled(w)) = "odd"
           S == { w \in Seq(Inner) : Right(w) }
<1>0. b = Cell("quoted", f, v)
  OBVIOUS
<1> HIDE DEF b
<1>1. <<>> \in S
  <2>1. f \o <<>> = f /\ <<>> \in Seq(Inner)
    OBVIOUS
  <2>2. Run(d, b, <<>>) = b /\ Watch("odd", <<>>) = "odd"
    BY RunIs, WatchIs
  <2>3. Doubled(<<>>) = <<>>
    BY DoubledNext
  <2> QED
    BY <1>0, <2>1, <2>2, <2>3
<1>2. ASSUME NEW w \in Seq(Inner), NEW c \in Inner, w \in S PROVE Append(w, c) \in S
  <2> DEFINE u == Doubled(w)
             g == f \o w
  <2>1. /\ w \in Seq(Characters) /\ c \in Characters /\ Append(w, c) \in Seq(Inner)
        /\ u \in Seq(Characters)
    <3>1. u \in Seq(Inner)
      BY DoubledType
    <3> HIDE DEF u
    <3> QED
      BY <3>1 DEF Inner
  <2>2. Run(d, b, u) = Cell("quoted", g, v) /\ Watch("odd", u) = "odd"
    BY <1>2
  <2>3. Doubled(Append(w, c)) = DoubleBy(0, u, c)
    BY <2>1, DoubledNext
  <2>4. f \o Append(w, c) = Append(g, c)
    BY <2>1
  <2> HIDE DEF u, g
  <2>5. Run(d, b, Append(u, c)) = Scan(Cell("quoted", g, v), c, d)
    BY <2>1, <2>2, RunNext
  <2>6. Watch("odd", Append(u, c)) = WatchBy(0, "odd", c)
    BY <2>1, <2>2, WatchNext
  <2>7. CASE c = TextDelimiter
    <3> DEFINE t == Append(u, c)
    <3>1. DoubleBy(0, u, c) = Append(t, c) /\ t \in Seq(Characters)
      BY <2>1, <2>7 DEF DoubleBy
    <3>2. Run(d, b, t) = Cell("maybe_end", g, v)
      BY <2>5, <2>7 DEF Scan, Cell
    <3>3. Watch("odd", t) = "even"
      BY <2>6, <2>7 DEF WatchBy
    <3> HIDE DEF t
    <3>4. Run(d, b, Append(t, c)) = Scan(Cell("maybe_end", g, v), c, d)
      BY <2>1, <3>1, <3>2, RunNext
    <3>5. Scan(Cell("maybe_end", g, v), c, d) = Cell("quoted", Append(g, c), v)
      BY <2>7 DEF Scan, Cell
    <3>6. Watch("odd", Append(t, c)) = WatchBy(0, "even", c)
      BY <2>1, <3>1, <3>3, WatchNext
    <3>7. WatchBy(0, "even", c) = "odd"
      BY <2>7 DEF WatchBy
    <3> QED
      BY <2>1, <2>3, <2>4, <3>1, <3>4, <3>5, <3>6, <3>7
  <2>8. CASE c # TextDelimiter
    <3>1. DoubleBy(0, u, c) = Append(u, c)
      BY <2>1, <2>8 DEF DoubleBy
    <3>2. Scan(Cell("quoted", g, v), c, d) = Cell("quoted", Append(g, c), v)
      BY <2>8 DEF Scan, Cell
    <3>3. WatchBy(0, "odd", c) = "odd"
      BY <2>8 DEF WatchBy
    <3> QED
      BY <2>1, <2>3, <2>4, <2>5, <2>6, <3>1, <3>2, <3>3
  <2> QED
    BY <2>7, <2>8
<1> HIDE DEF S
<1>3. Seq(Inner) \subseteq S
  BY <1>1, <1>2, SeqInduction
<1> QED
  BY <1>0, <1>3 DEF S

-----------------------------------------------------------------------------
(* A value.                                                                 *)

\* A value as the files have it.
Proper(x) ==
  /\ x \in [text : Seq(Inner), quoted : BOOLEAN]
  /\ ~x.quoted => x.text \in Seq(Bare)

\* What is written of it, into a file that doubles quotes or does not.
Piece(doubled, x) == CsvField(IF doubled THEN Doubled(x.text) ELSE x.text, x.quoted)

\* None of its quotes can be mistaken.
Clear(doubled, x) == doubled \/ TextDelimiter \notin ToSet(x.text)

\* What create_valuelist makes of it.
Value(d, x) == IF x.quoted /\ ~d THEN <<Mark>> \o x.text ELSE x.text

\* What is written of a value.
LEMMA PieceIs ==
  ASSUME NEW doubled, NEW x, Proper(x), Clear(doubled, x)
  PROVE  Piece(doubled, x) = IF x.quoted THEN <<TextDelimiter>> \o Doubled(x.text) \o <<TextDelimiter>>
                             ELSE x.text
<1>1. CASE x.quoted
  <2>1. ~doubled => Doubled(x.text) = x.text
    <3> SUFFICES ASSUME ~doubled PROVE Doubled(x.text) = x.text
      OBVIOUS
    <3>1. x.text \in Seq(Inner)
      BY DEF Proper
    <3>2. \A i \in 1..Len(x.text) : x.text[i] # TextDelimiter
      BY <3>1 DEF Clear, ToSet
    <3>3. x.text \in Seq(Inner \ {TextDelimiter})
      BY <3>1, <3>2
    <3> QED
      BY <3>3, NothingDoubled
  <2> QED
    BY <1>1, <2>1 DEF Piece, CsvField
<1>2. CASE ~x.quoted
  <2>1. x.text \in Seq(Inner \ {TextDelimiter})
    <3>1. x.text \in Seq(Bare) /\ Bare \subseteq Inner \ {TextDelimiter}
      BY <1>2 DEF Proper, Bare
    <3> QED
      BY <3>1
  <2>2. Doubled(x.text) = x.text
    BY <2>1, NothingDoubled
  <2> QED
    BY <1>2, <2>2 DEF Piece, CsvField
<1> QED
  BY <1>1, <1>2

\* A text of one character, and a text behind another one.
LEMMA RunOne ==
  ASSUME NEW d, NEW s, NEW c \in Characters
  PROVE  Run(d, s, <<c>>) = Scan(s, c, d)
<1>1. <<>> \in Seq(Characters) /\ <<c>> = Append(<<>>, c)
  OBVIOUS
<1>2. Run(d, s, <<>>) = s
  BY RunIs
<1>3. Run(d, s, Append(<<>>, c)) = Scan(Run(d, s, <<>>), c, d)
  BY <1>1, RunNext
<1> QED
  BY <1>1, <1>2, <1>3

LEMMA WatchOne ==
  ASSUME NEW q, NEW c \in Characters
  PROVE  Watch(q, <<c>>) = WatchBy(0, q, c)
<1>1. <<>> \in Seq(Characters) /\ <<c>> = Append(<<>>, c)
  OBVIOUS
<1>2. Watch(q, <<>>) = q
  BY WatchIs
<1>3. Watch(q, Append(<<>>, c)) = WatchBy(0, Watch(q, <<>>), c)
  BY <1>1, WatchNext
<1> QED
  BY <1>1, <1>2, <1>3

LEMMA RunConcat ==
  ASSUME NEW d, NEW s, NEW t \in Seq(Characters), NEW u \in Seq(Characters)
  PROVE  Run(d, s, t \o u) = Run(d, Run(d, s, t), u)
BY Scanning!FoldConcat DEF Run

LEMMA WatchConcat ==
  ASSUME NEW q, NEW t \in Seq(Characters), NEW u \in Seq(Characters)
  PROVE  Watch(q, t \o u) = Watch(Watch(q, t), u)
BY Watching!FoldConcat DEF Watch

\* The scan is at the end of the value f, with the values v before it.
Behind(s, f, v) == \E q \in {"start", "normal", "maybe_end"} : s = Cell(q, f, v)

\* A value that is written is read.
LEMMA FieldRead ==
  ASSUME NEW d, NEW v, NEW doubled, NEW x, Proper(x), Clear(doubled, x)
  PROVE  /\ Piece(doubled, x) \in Seq(Inner)
         /\ Behind(Run(d, Cell("start", <<>>, v), Piece(doubled, x)), Value(d, x), v)
         /\ Watch("even", Piece(doubled, x)) = "even"
         /\ Piece(doubled, x) = <<>> <=> ~x.quoted /\ x.text = <<>>
<1> DEFINE w == x.text
           b == Cell("start", <<>>, v)
<1>1. CASE ~x.quoted
  <2>1. w \in Seq(Bare) /\ w \in Seq(Inner)
    BY <1>1 DEF Proper
  <2>2. Piece(doubled, x) = w /\ Value(d, x) = w
    BY <1>1, PieceIs DEF Value
  <2> HIDE DEF w
  <2>3. Run(d, b, w) = Cell(IF w = <<>> THEN "start" ELSE "normal", w, v) /\ Watch("even", w) = "even"
    BY <2>1, RunBare
  <2>4. Behind(Run(d, b, w), w, v)
    BY <2>3 DEF Behind
  <2> QED
    BY <1>1, <2>1, <2>2, <2>3, <2>4 DEF w
<1>2. CASE x.quoted
  <2> DEFINE q == <<TextDelimiter>>
             u == Doubled(w)
             f == IF d THEN <<>> ELSE <<Mark>>
             p == q \o u
  <2>1. w \in Seq(Inner) /\ u \in Seq(Inner)
    <3>1. w \in Seq(Inner)
      BY DEF Proper
    <3> HIDE DEF w
    <3> QED
      BY <3>1, DoubledType
  <2>2. TextDelimiter \in Characters /\ TextDelimiter \in Inner /\ Mark \in Characters
    BY CharactersAssumption DEF Inner
  <2>3. Piece(doubled, x) = p \o q /\ Value(d, x) = f \o w
    <3>1. Piece(doubled, x) = q \o u \o q
      BY <1>2, PieceIs
    <3>2. d => <<>> \o w = w
      BY <2>1
    <3>3. Value(d, x) = f \o w
      BY <1>2, <3>2 DEF Value
    <3> QED
      BY <3>1, <3>3
  <2> HIDE DEF w, u
  <2>4. /\ q \in Seq(Inner) /\ p \in Seq(Inner) /\ p \o q \in Seq(Inner) /\ p \o q # <<>>
        /\ q \in Seq(Characters) /\ u \in Seq(Characters) /\ p \in Seq(Characters)
        /\ f \in Seq(Characters)
    BY <2>1, <2>2 DEF Inner
  <2>5. Run(d, b, q) = Cell("quoted", f, v)
    <3>1. Run(d, b, q) = Scan(b, TextDelimiter, d)
      BY <2>2, RunOne
    <3> QED
      BY <3>1 DEF Scan, Cell
  <2>6. Watch("even", q) = "odd"
    <3>1. Watch("even", q) = WatchBy(0, "even", TextDelimiter)
      BY <2>2, WatchOne
    <3> QED
      BY <3>1 DEF WatchBy
  <2>0. q \in Seq(Characters) /\ u \in Seq(Characters) /\ p \in Seq(Characters) /\ p = q \o u
    BY <2>4
  <2> HIDE DEF f, b, p, q
  <2>7. Run(d, b, p) = Cell("quoted", f \o w, v)
    <3>1. Run(d, b, p) = Run(d, Run(d, b, q), u)
      BY <2>0, RunConcat
    <3>2. Run(d, Cell("quoted", f, v), u) = Cell("quoted", f \o w, v)
      BY <2>1, <2>4, RunQuoted DEF u
    <3> QED
      BY <2>5, <3>1, <3>2
  <2>8. Watch("even", p) = "odd"
    <3>1. Watch("even", p) = Watch(Watch("even", q), u)
      BY <2>0, WatchConcat
    <3>2. Watch("odd", u) = "odd"
      BY <2>1, <2>4, RunQuoted DEF u
    <3> QED
      BY <2>6, <3>1, <3>2
  <2>9. Run(d, b, p \o q) = Cell("maybe_end", f \o w, v)
    <3>1. p \in Seq(Characters) /\ q \in Seq(Characters)
      BY <2>0
    <3>1a. Run(d, b, p \o q) = Run(d, Run(d, b, p), q)
      BY <3>1, RunConcat
    <3>2. Run(d, Cell("quoted", f \o w, v), q) = Scan(Cell("quoted", f \o w, v), TextDelimiter, d)
      BY <2>2, RunOne DEF q
    <3>3. Scan(Cell("quoted", f \o w, v), TextDelimiter, d) = Cell("maybe_end", f \o w, v)
      BY DEF Scan, Cell
    <3> QED
      BY <2>7, <3>1a, <3>2, <3>3
  <2>10. Watch("even", p \o q) = "even"
    <3>1. Watch("even", p \o q) = Watch(Watch("even", p), q)
      BY <2>0, WatchConcat
    <3>2. Watch("odd", q) = WatchBy(0, "odd", TextDelimiter)
      BY <2>2, WatchOne DEF q
    <3>3. WatchBy(0, "odd", TextDelimiter) = "even"
      BY DEF WatchBy
    <3> QED
      BY <2>8, <3>1, <3>2, <3>3
  <2>11. Behind(Run(d, b, p \o q), f \o w, v)
    BY <2>9 DEF Behind
  <2> QED
    BY <1>2, <2>3, <2>4, <2>10, <2>11 DEF b
<1> QED
  BY <1>1, <1>2

-----------------------------------------------------------------------------
(* The values of a row.                                                     *)

ProperRow(r) ==
  /\ r \in Seq([text : Seq(Inner), quoted : BOOLEAN])
  /\ \A i \in DOMAIN r : Proper(r[i])

ClearRow(doubled, r) == \A i \in DOMAIN r : Clear(doubled, r[i])

Pieces(doubled, r) == [i \in DOMAIN r |-> Piece(doubled, r[i])]

Cells(d, r, k) == [i \in 1..k |-> Value(d, r[i])]

Fresh == Cell("start", <<>>, <<>>)

\* A delimiter behind a value adds it to the values.
LEMMA ValueEnds ==
  ASSUME NEW d, NEW s, NEW f, NEW v, Behind(s, f, v), NEW c \in {BetweenFields, RowDelimiter}
  PROVE  Scan(s, c, d) = Cell("start", <<>>, Append(v, f))
<1>1. c # TextDelimiter /\ EndsField(c)
  BY CharactersAssumption DEF EndsField
<1>2. PICK q \in {"start", "normal", "maybe_end"} : s = Cell(q, f, v)
  BY DEF Behind
<1> QED
  BY <1>1, <1>2 DEF Scan, Cell

LEMMA CellsNext ==
  ASSUME NEW d, NEW r, NEW k \in Nat
  PROVE  /\ Cells(d, r, 0) = <<>>
         /\ Append(Cells(d, r, k), Value(d, r[k + 1])) = Cells(d, r, k + 1)
<1> DEFINE V(i) == Value(d, r[i])
           X == { V(i) : i \in 1..(k + 1) }
<1> SUFFICES /\ [i \in 1..0 |-> V(i)] = <<>>
             /\ Append([i \in 1..k |-> V(i)], V(k + 1)) = [i \in 1..(k + 1) |-> V(i)]
  BY DEF Cells
<1> HIDE DEF V
<1>1. k + 1 \in 1..(k + 1) /\ \A i \in 1..k : i \in 1..(k + 1)
  OBVIOUS
<1>2. [i \in 1..k |-> V(i)] \in Seq(X) /\ V(k + 1) \in X
  BY <1>1
<1> QED
  BY <1>2

\* What is read of the first k values of a row, and their delimiters.
SectionRead(d, doubled, r, k) ==
  LET j == Joined(Pieces(doubled, r), k)
  IN  /\ j \in Seq(Inner)
      /\ Behind(Run(d, Fresh, j), Value(d, r[k]), Cells(d, r, k - 1))
      /\ Watch("even", j) = "even"
      /\ j = <<>> <=> k = 1 /\ ~r[1].quoted /\ r[1].text = <<>>

\* The first value of a row, and one more.
LEMMA SectionFirst ==
  ASSUME NEW d, NEW doubled, NEW r, ProperRow(r), ClearRow(doubled, r), Len(r) >= 1
  PROVE  SectionRead(d, doubled, r, 1)
<1> DEFINE p == Piece(doubled, r[1])
<1>1. 1 \in DOMAIN r /\ Proper(r[1]) /\ Clear(doubled, r[1])
  <2>1. 1 \in DOMAIN r
    BY DEF ProperRow
  <2> QED
    BY <2>1 DEF ProperRow, ClearRow
<1>2. Pieces(doubled, r)[1] = p
  BY <1>1 DEF Pieces
<1>3. /\ p \in Seq(Inner)
      /\ Behind(Run(d, Cell("start", <<>>, <<>>), p), Value(d, r[1]), <<>>)
      /\ Watch("even", p) = "even"
      /\ p = <<>> <=> ~r[1].quoted /\ r[1].text = <<>>
  BY <1>1, FieldRead
<1> HIDE DEF p
<1>4. Joined(Pieces(doubled, r), 1) = p
  <2>1. Joined(Pieces(doubled, r), 0) = <<>>
    BY JoinedIs
  <2>2. Joined(Pieces(doubled, r), 0 + 1) = JoinBy(Pieces(doubled, r), Joined(Pieces(doubled, r), 0), 0 + 1)
    BY JoinedIs
  <2>3. JoinBy(Pieces(doubled, r), <<>>, 1) = <<>> \o <<>> \o p
    BY <1>2 DEF JoinBy
  <2>4. <<>> \o <<>> \o p = p
    BY <1>3
  <2> QED
    BY <2>1, <2>2, <2>3, <2>4
<1>5. Cells(d, r, 1 - 1) = <<>>
  BY CellsNext
<1> QED
  BY <1>3, <1>4, <1>5 DEF SectionRead, Fresh

LEMMA SectionNext ==
  ASSUME NEW d, NEW doubled, NEW r, ProperRow(r), ClearRow(doubled, r),
         NEW k \in Nat, k >= 1, k + 1 <= Len(r), SectionRead(d, doubled, r, k)
  PROVE  SectionRead(d, doubled, r, k + 1)
<1> DEFINE j == Joined(Pieces(doubled, r), k)
           p == Piece(doubled, r[k + 1])
           v == Cells(d, r, k)
           b == Cell("start", <<>>, v)
           sep == <<BetweenFields>>
           t == j \o sep
<1>1. k + 1 \in DOMAIN r /\ Proper(r[k + 1]) /\ Clear(doubled, r[k + 1])
  <2>1. k + 1 \in DOMAIN r
    BY DEF ProperRow
  <2> QED
    BY <2>1 DEF ProperRow, ClearRow
<1>2. Pieces(doubled, r)[k + 1] = p
  BY <1>1 DEF Pieces
<1>3. /\ p \in Seq(Inner)
      /\ Behind(Run(d, b, p), Value(d, r[k + 1]), v)
      /\ Watch("even", p) = "even"
  BY <1>1, FieldRead
<1>4. /\ j \in Seq(Inner)
      /\ Behind(Run(d, Fresh, j), Value(d, r[k]), Cells(d, r, k - 1))
      /\ Watch("even", j) = "even"
  BY DEF SectionRead
<1> HIDE DEF p, j, v, b
<1>5. BetweenFields \in Characters /\ BetweenFields \in Inner /\ BetweenFields \notin {TextDelimiter, RowDelimiter}
  BY CharactersAssumption DEF Inner
<1>6. Joined(Pieces(doubled, r), k + 1) = t \o p
  <2>1. Joined(Pieces(doubled, r), k + 1) = JoinBy(Pieces(doubled, r), j, k + 1)
    BY JoinedIs DEF j
  <2>2. k + 1 # 1
    OBVIOUS
  <2> QED
    BY <1>2, <2>1, <2>2 DEF JoinBy
<1>7. /\ sep \in Seq(Inner) /\ t \in Seq(Inner) /\ t \o p \in Seq(Inner) /\ t \o p # <<>>
      /\ sep \in Seq(Characters) /\ j \in Seq(Characters) /\ p \in Seq(Characters) /\ t \in Seq(Characters)
  BY <1>3, <1>4, <1>5 DEF Inner
<1>8. sep \in Seq(Characters) /\ j \in Seq(Characters)
  BY <1>7
<1>9. p \in Seq(Characters) /\ t \in Seq(Characters)
  BY <1>7
<1>10. Run(d, Fresh, t) = b
  <2>1. Run(d, Fresh, j \o sep) = Run(d, Run(d, Fresh, j), sep)
    <3> HIDE DEF sep
    <3> QED
      BY <1>8, RunConcat
  <2>2. Run(d, Run(d, Fresh, j), sep) = Scan(Run(d, Fresh, j), BetweenFields, d)
    BY <1>5, RunOne
  <2>3. Scan(Run(d, Fresh, j), BetweenFields, d) = Cell("start", <<>>, Append(Cells(d, r, k - 1), Value(d, r[k])))
    BY <1>4, ValueEnds
  <2>4. Append(Cells(d, r, k - 1), Value(d, r[k])) = v
    <3>1. k - 1 \in Nat /\ (k - 1) + 1 = k
      OBVIOUS
    <3> QED
      BY <3>1, CellsNext DEF v
  <2> QED
    BY <2>1, <2>2, <2>3, <2>4 DEF b
<1>11. Watch("even", t) = "even"
  <2>1. Watch("even", j \o sep) = Watch(Watch("even", j), sep)
    <3> HIDE DEF sep
    <3> QED
      BY <1>8, WatchConcat
  <2>2. Watch("even", sep) = WatchBy(0, "even", BetweenFields)
    BY <1>5, WatchOne
  <2>3. WatchBy(0, "even", BetweenFields) = "even"
    BY <1>5 DEF WatchBy
  <2> QED
    BY <1>4, <2>1, <2>2, <2>3
<1> HIDE DEF t
<1>12. Run(d, Fresh, t \o p) = Run(d, b, p)
  <2>1. Run(d, Fresh, t \o p) = Run(d, Run(d, Fresh, t), p)
    BY <1>9, RunConcat
  <2> QED
    BY <1>10, <2>1
<1>13. Watch("even", t \o p) = "even"
  <2>1. Watch("even", t \o p) = Watch(Watch("even", t), p)
    BY <1>9, WatchConcat
  <2> QED
    BY <1>3, <1>11, <2>1
<1>14. (k + 1) - 1 = k /\ k + 1 # 1
  OBVIOUS
<1> QED
  BY <1>3, <1>6, <1>7, <1>12, <1>13, <1>14 DEF SectionRead, v

\* So the values of a row are read, whatever is in them.
LEMMA SectionsRead ==
  ASSUME NEW d, NEW doubled, NEW r, ProperRow(r), ClearRow(doubled, r)
  PROVE  \A k \in 1..Len(r) : SectionRead(d, doubled, r, k)
<1> DEFINE S == { k \in Nat : k + 1 <= Len(r) => SectionRead(d, doubled, r, k + 1) }
<1>1. Len(r) \in Nat
  BY DEF ProperRow
<1>2. 0 \in S
  BY <1>1, SectionFirst
<1>3. ASSUME NEW k \in S PROVE k + 1 \in S
  <2> SUFFICES ASSUME (k + 1) + 1 <= Len(r) PROVE SectionRead(d, doubled, r, (k + 1) + 1)
    OBVIOUS
  <2>1. k + 1 \in Nat /\ k + 1 >= 1 /\ k + 1 <= Len(r)
    BY <1>1
  <2>2. SectionRead(d, doubled, r, k + 1)
    BY <1>3, <2>1
  <2> QED
    BY <2>1, <2>2, SectionNext
<1>4. S \in SUBSET Nat /\ \A k \in S : k + 1 \in S
  BY <1>3
<1> HIDE DEF S
<1>5. S = Nat
  BY <1>2, <1>4, SetInduction
<1> SUFFICES ASSUME NEW k \in 1..Len(r) PROVE SectionRead(d, doubled, r, k)
  OBVIOUS
<1>6. k - 1 \in Nat /\ (k - 1) + 1 = k /\ k <= Len(r)
  BY <1>1
<1> QED
  BY <1>5, <1>6 DEF S

RowText(doubled, r) == Joined(Pieces(doubled, r), Len(r))

\* The lines that hold it.
LinesOf(doubled, r) == {RowText(doubled, r), Append(RowText(doubled, r), CarriageReturn)}

\* The values that are read of a row.
RowValues(d, r) == IF IsBlank(r) THEN <<>> ELSE Cells(d, r, Len(r))

\* A row is its values, and a blank line if it is a single empty one.
LEMMA RowTextIs ==
  ASSUME NEW d, NEW doubled, NEW r, ProperRow(r), ClearRow(doubled, r)
  PROVE  LET u == RowText(doubled, r)
         IN  /\ u \in Seq(Inner) /\ u \in Seq(Characters)
             /\ Watch("even", u) = "even"
             /\ u = <<>> <=> r = <<>> \/ IsBlank(r)
             /\ u # <<>> => Scan(Run(d, Fresh, u), RowDelimiter, d) = Cell("start", <<>>, Cells(d, r, Len(r)))
<1> DEFINE u == RowText(doubled, r)
           n == Len(r)
<1>1. n \in Nat /\ (n = 0 <=> r = <<>>) /\ DOMAIN r = 1..n
  BY DEF ProperRow
<1>2. CASE n = 0
  <2>1. u = <<>>
    BY <1>2, JoinedIs DEF RowText
  <2>2. Watch("even", <<>>) = "even" /\ <<>> \in Seq(Inner) /\ <<>> \in Seq(Characters)
    BY WatchIs
  <2> HIDE DEF u, n
  <2> QED
    BY <1>1, <1>2, <2>1, <2>2 DEF u
<1>3. CASE n # 0
  <2>1. n \in 1..n /\ 1 \in 1..n
    BY <1>1, <1>3
  <2>2. SectionRead(d, doubled, r, n)
    BY <2>1, SectionsRead
  <2>3. /\ u \in Seq(Inner)
        /\ Behind(Run(d, Fresh, u), Value(d, r[n]), Cells(d, r, n - 1))
        /\ Watch("even", u) = "even"
        /\ u = <<>> <=> n = 1 /\ ~r[1].quoted /\ r[1].text = <<>>
    BY <2>2 DEF SectionRead, RowText
  <2> HIDE DEF u, n
  <2>4. Scan(Run(d, Fresh, u), RowDelimiter, d) = Cell("start", <<>>, Cells(d, r, n))
    <3>1. Scan(Run(d, Fresh, u), RowDelimiter, d) = Cell("start", <<>>, Append(Cells(d, r, n - 1), Value(d, r[n])))
      BY <2>3, ValueEnds
    <3>2. n - 1 \in Nat /\ (n - 1) + 1 = n
      BY <1>1, <1>3
    <3>3. Append(Cells(d, r, n - 1), Value(d, r[n])) = Cells(d, r, n)
      BY <3>2, CellsNext
    <3> QED
      BY <3>1, <3>3
  <2>5. u \in Seq(Characters)
    BY <2>3 DEF Inner
  <2>6. u = <<>> <=> r = <<>> \/ IsBlank(r)
    BY <1>1, <1>3, <2>3 DEF IsBlank, n
  <2> QED
    BY <2>3, <2>4, <2>5, <2>6 DEF u, n
<1> QED
  BY <1>2, <1>3

\* A carriage return at the end of a line is dropped, and a row holds no other.
LEMMA WithoutReturn ==
  ASSUME NEW u \in Seq(Inner), NEW line \in {u, Append(u, CarriageReturn)}
  PROVE  WithoutFirst(line, CarriageReturn) = u
<1>1. \A i \in DOMAIN u : u[i] # CarriageReturn
  BY DEF Inner
<1>2. CASE line = u
  BY <1>1, <1>2 DEF WithoutFirst
<1>3. CASE line = Append(u, CarriageReturn)
  <2> DEFINE n == Len(u)
             at == { i \in DOMAIN line : line[i] = CarriageReturn }
  <2>1. n \in Nat /\ DOMAIN u = 1..n
    OBVIOUS
  <2>2. DOMAIN line = 1..(n + 1) /\ Len(line) = n + 1 /\ line[n + 1] = CarriageReturn /\ \A i \in 1..n : line[i] = u[i]
    BY <1>3
  <2>3. at = {n + 1}
    BY <1>1, <2>1, <2>2
  <2>4. Min({n + 1}) = n + 1
    BY <2>1 DEF Min
  <2>5. SubSeq(line, 1, (n + 1) - 1) = u /\ SubSeq(line, (n + 1) + 1, n + 1) = <<>> /\ u \o <<>> = u
    BY <1>3
  <2> HIDE DEF n
  <2> QED
    BY <2>2, <2>3, <2>4, <2>5 DEF WithoutFirst, RemoveAt
<1> QED
  BY <1>2, <1>3

\* create_valuelist reads of a line the values of the row.
LEMMA RowRead ==
  ASSUME NEW d, NEW doubled, NEW r, ProperRow(r), ClearRow(doubled, r), NEW line \in LinesOf(doubled, r)
  PROVE  CreateValuelist(line, d) = RowValues(d, r)
<1> DEFINE u == RowText(doubled, r)
           row == Append(WithoutFirst(line, CarriageReturn), NewLine)
           s == Run(d, Fresh, row)
<1>1. /\ u \in Seq(Inner) /\ u \in Seq(Characters)
      /\ u = <<>> <=> r = <<>> \/ IsBlank(r)
      /\ u # <<>> => Scan(Run(d, Fresh, u), RowDelimiter, d) = Cell("start", <<>>, Cells(d, r, Len(r)))
  BY RowTextIs
<1>2. CreateValuelist(line, d) = IF Len(row) < 2 THEN <<>> ELSE IF s.state = "start" THEN s.values ELSE Append(s.values, s.field)
  BY CreateValuelistIs DEF Fresh, Cell
<1>3. line \in {u, Append(u, CarriageReturn)}
  BY DEF LinesOf
<1>4. RowDelimiter = NewLine /\ RowDelimiter \in Characters
  BY CharactersAssumption
<1> HIDE DEF u
<1>5. row = Append(u, RowDelimiter)
  BY <1>1, <1>3, <1>4, WithoutReturn
<1>6. Len(Append(u, RowDelimiter)) = Len(u) + 1 /\ Len(u) \in Nat /\ (Len(u) = 0 <=> u = <<>>)
  BY <1>1
<1>7. s = Scan(Run(d, Fresh, u), RowDelimiter, d)
  BY <1>1, <1>4, <1>5, RunNext
<1> HIDE DEF row, s
<1>8. CASE u = <<>>
  <2>1. CreateValuelist(line, d) = <<>>
    BY <1>2, <1>5, <1>6, <1>8
  <2>2. r = <<>> => Cells(d, r, Len(r)) = <<>>
    BY CellsNext
  <2> QED
    BY <1>1, <1>8, <2>1, <2>2 DEF RowValues
<1>9. CASE u # <<>>
  <2>1. s = Cell("start", <<>>, Cells(d, r, Len(r)))
    BY <1>1, <1>7, <1>9
  <2>2. s.state = "start" /\ s.values = Cells(d, r, Len(r))
    BY <2>1 DEF Cell
  <2>3. ~(Len(row) < 2)
    BY <1>5, <1>6, <1>9
  <2> QED
    BY <1>1, <1>2, <1>9, <2>2, <2>3 DEF RowValues
<1> QED
  BY <1>8, <1>9

\* get_line of a file that has come to its end.
LEMMA NothingRead ==
  ASSUME NEW d
  PROVE  CreateValuelist(<<>>, d) = <<>>
<1>1. WithoutFirst(<<>>, CarriageReturn) = <<>>
  BY DEF WithoutFirst
<1>2. Len(Append(<<>>, NewLine)) = 1
  OBVIOUS
<1> QED
  BY <1>1, <1>2, CreateValuelistIs

-----------------------------------------------------------------------------
(* Where rows end.                                                         *)

QuotesBefore(text, n) == { j \in 1..n : text[j] = TextDelimiter }

\* What Watch says of a text.
Watched(u) ==
  LET n == Cardinality(QuotesBefore(u, Len(u)))
  IN  /\ Watch("even", u) \in {"even", "odd", "ended"}
      /\ Watch("even", u) = "even" => RowEnds(u) = {} /\ n % 2 = 0
      /\ Watch("even", u) = "odd" => RowEnds(u) = {} /\ n % 2 = 1

\* The quotes of a row are balanced behind each of its values.
LEMMA WatchedNext ==
  ASSUME NEW u \in Seq(Characters), NEW c \in Characters, Watched(u)
  PROVE  Watched(Append(u, c))
<1> DEFINE t == Append(u, c)
           m == Len(u)
           before == QuotesBefore(u, m)
           after == QuotesBefore(t, m + 1)
<1>1. /\ m \in Nat /\ m + 1 \in Nat /\ DOMAIN u = 1..m /\ DOMAIN t = 1..(m + 1) /\ Len(t) = m + 1
      /\ t[m + 1] = c /\ \A i \in 1..m : t[i] = u[i] /\ i \in 1..(m + 1)
  OBVIOUS
<1>2. Watch("even", t) = WatchBy(0, Watch("even", u), c)
  BY WatchNext
<1> HIDE DEF t, m
<1>3. \A i \in 1..(m + 1) : QuotesBefore(t, i - 1) = QuotesBefore(u, i - 1)
  <2> SUFFICES ASSUME NEW i \in 1..(m + 1) PROVE QuotesBefore(t, i - 1) = QuotesBefore(u, i - 1)
    OBVIOUS
  <2>1. \A j \in 1..(i - 1) : j \in 1..m
    BY <1>1
  <2> QED
    BY <1>1, <2>1 DEF QuotesBefore
<1>4. QuotesBefore(t, (m + 1) - 1) = before
  <2>1. m + 1 \in 1..(m + 1) /\ (m + 1) - 1 = m
    BY <1>1
  <2> QED
    BY <1>3, <2>1
<1>5. after = before \cup (IF c = TextDelimiter THEN {m + 1} ELSE {}) /\ m + 1 \notin before
  <2>1. \A j \in 1..(m + 1) : j \in 1..m \/ j = m + 1
    BY <1>1
  <2>2. m + 1 \notin 1..m
    BY <1>1
  <2> QED
    BY <1>1, <2>1, <2>2 DEF QuotesBefore
<1>6. IsFiniteSet(before) /\ Cardinality(before) \in Nat
  <2>1. before \in SUBSET (1..m) /\ IsFiniteSet(1..m)
    BY <1>1, FS_Interval DEF QuotesBefore
  <2> QED
    BY <2>1, FS_Subset, FS_CardinalityType
<1>7. Cardinality(after) = IF c = TextDelimiter THEN Cardinality(before) + 1 ELSE Cardinality(before)
  <2> HIDE DEF before, after
  <2>1. CASE c = TextDelimiter
    BY <1>5, <1>6, <2>1, FS_AddElement
  <2>2. CASE c # TextDelimiter
    BY <1>5, <2>2
  <2> QED
    BY <2>1, <2>2
<1>8. RowEnds(t) = RowEnds(u) \cup (IF c = RowDelimiter /\ Cardinality(before) % 2 = 0 THEN {m + 1} ELSE {})
  <2>1. RowEnds(t) = { i \in 1..(m + 1) : t[i] = RowDelimiter /\ Cardinality(QuotesBefore(t, i - 1)) % 2 = 0 }
    BY <1>1 DEF RowEnds, QuotesBefore
  <2>2. RowEnds(u) = { i \in 1..m : u[i] = RowDelimiter /\ Cardinality(QuotesBefore(u, i - 1)) % 2 = 0 }
    BY <1>1 DEF RowEnds, QuotesBefore
  <2>3. \A j \in 1..(m + 1) : j \in 1..m \/ j = m + 1
    BY <1>1
  <2>4. m + 1 \in 1..(m + 1)
    BY <1>1
  <2> HIDE DEF before
  <2> QED
    BY <1>1, <1>3, <1>4, <2>1, <2>2, <2>3, <2>4
<1> DEFINE n == Cardinality(before)
<1> HIDE DEF before, after
<1>9. n \in Nat /\ (n % 2 = 0 => (n + 1) % 2 = 1) /\ (n % 2 = 1 => (n + 1) % 2 = 0)
  BY <1>6
<1>10. /\ Watch("even", u) \in {"even", "odd", "ended"}
       /\ Watch("even", u) = "even" => RowEnds(u) = {} /\ n % 2 = 0
       /\ Watch("even", u) = "odd" => RowEnds(u) = {} /\ n % 2 = 1
  BY DEF Watched, before, m
<1> HIDE DEF n
<1>11. Cardinality(after) = IF c = TextDelimiter THEN n + 1 ELSE n
  BY <1>7 DEF n
<1>12. RowEnds(t) = RowEnds(u) \cup (IF c = RowDelimiter /\ n % 2 = 0 THEN {m + 1} ELSE {})
  BY <1>8 DEF n
<1>13. c = TextDelimiter => c # RowDelimiter
  BY CharactersAssumption
<1> DEFINE w == Watch("even", t)
           w0 == Watch("even", u)
           a == Cardinality(after)
<1>14. w = WatchBy(0, w0, c)
  BY <1>2
<1> SUFFICES /\ w \in {"even", "odd", "ended"}
             /\ w = "even" => RowEnds(t) = {} /\ a % 2 = 0
             /\ w = "odd" => RowEnds(t) = {} /\ a % 2 = 1
  BY <1>1 DEF Watched, after, t
<1> HIDE DEF w, a
<1>15. CASE w0 = "even"
  BY <1>9, <1>10, <1>11, <1>12, <1>13, <1>14, <1>15 DEF WatchBy, a
<1>16. CASE w0 = "odd"
  <2>1. n % 2 = 1 /\ RowEnds(u) = {} /\ n % 2 # 0
    BY <1>9, <1>10, <1>16
  <2>2. RowEnds(t) = {}
    BY <1>12, <2>1
  <2>3. w = IF c = TextDelimiter THEN "even" ELSE "odd"
    BY <1>14, <1>16 DEF WatchBy
  <2>4. a % 2 = IF c = TextDelimiter THEN 0 ELSE 1
    BY <1>9, <1>11, <2>1 DEF a
  <2> QED
    BY <2>2, <2>3, <2>4
<1>17. CASE w0 = "ended"
  BY <1>14, <1>17 DEF WatchBy
<1> QED
  BY <1>10, <1>15, <1>16, <1>17

LEMMA WatchedAll ==
  \A u \in Seq(Characters) : Watched(u)
<1> DEFINE S == { u \in Seq(Characters) : Watched(u) }
<1>1. <<>> \in S
  <2>1. Watch("even", <<>>) = "even"
    BY WatchIs
  <2>2. RowEnds(<<>>) = {} /\ QuotesBefore(<<>>, 0) = {} /\ Len(<<>>) = 0 /\ <<>> \in Seq(Characters)
    BY DEF RowEnds, QuotesBefore
  <2>3. Cardinality({}) = 0 /\ 0 % 2 = 0
    BY FS_EmptySet
  <2> QED
    BY <2>1, <2>2, <2>3 DEF Watched
<1>2. ASSUME NEW u \in Seq(Characters), NEW c \in Characters, u \in S PROVE Append(u, c) \in S
  BY <1>2, WatchedNext
<1> HIDE DEF S
<1>3. Seq(Characters) \subseteq S
  BY <1>1, <1>2, SeqInduction
<1> QED
  BY <1>3 DEF S

\* get_line of a row without an end, and of a row with one.
LEMMA GetLast ==
  ASSUME NEW u \in Seq(Characters), Watch("even", u) = "even"
  PROVE  GetLine(u) = [line |-> u, rest |-> <<>>, eof |-> TRUE]
<1>1. RowEnds(u) = {}
  BY WatchedAll DEF Watched
<1> QED
  BY <1>1 DEF GetLine

LEMMA GetNext ==
  ASSUME NEW u \in Seq(Characters), Watch("even", u) = "even", NEW v \in Seq(Characters)
  PROVE  GetLine(Append(u, RowDelimiter) \o v) = [line |-> u, rest |-> v, eof |-> FALSE]
<1> DEFINE text == Append(u, RowDelimiter) \o v
           m == Len(u)
           ends == RowEnds(text)
<1>1. RowEnds(u) = {} /\ Cardinality(QuotesBefore(u, m)) % 2 = 0
  BY WatchedAll DEF Watched
<1>2. RowDelimiter \in Characters
  BY CharactersAssumption
<1>3. /\ m \in Nat /\ m + 1 \in Nat /\ DOMAIN u = 1..m
      /\ DOMAIN text = 1..Len(text) /\ Len(text) \in Nat /\ m + 1 \in 1..Len(text)
      /\ text[m + 1] = RowDelimiter /\ \A i \in 1..m : text[i] = u[i] /\ i \in 1..Len(text)
  BY <1>2
<1>4. SubSeq(text, 1, (m + 1) - 1) = u /\ SubSeq(text, (m + 1) + 1, Len(text)) = v
  BY <1>2
<1> HIDE DEF text, m
<1>5. \A i \in 1..(m + 1) : QuotesBefore(text, i - 1) = QuotesBefore(u, i - 1)
  <2> SUFFICES ASSUME NEW i \in 1..(m + 1) PROVE QuotesBefore(text, i - 1) = QuotesBefore(u, i - 1)
    OBVIOUS
  <2>1. \A j \in 1..(i - 1) : j \in 1..m
    BY <1>3
  <2> QED
    BY <1>3, <2>1 DEF QuotesBefore
<1>6. ends = { i \in 1..Len(text) : text[i] = RowDelimiter /\ Cardinality(QuotesBefore(text, i - 1)) % 2 = 0 }
  BY <1>3 DEF RowEnds, QuotesBefore
<1>7. {} = { i \in 1..m : u[i] = RowDelimiter /\ Cardinality(QuotesBefore(u, i - 1)) % 2 = 0 }
  BY <1>1, <1>3 DEF RowEnds, QuotesBefore
<1>8. m + 1 \in ends
  <2>1. m + 1 \in 1..(m + 1) /\ (m + 1) - 1 = m
    BY <1>3
  <2>2. QuotesBefore(text, (m + 1) - 1) = QuotesBefore(u, m)
    BY <1>5, <2>1
  <2> QED
    BY <1>1, <1>3, <1>6, <2>2
<1>9. \A i \in 1..m : i \notin ends
  <2> SUFFICES ASSUME NEW i \in 1..m, i \in ends PROVE FALSE
    OBVIOUS
  <2>1. i \in 1..(m + 1)
    BY <1>3
  <2>2. QuotesBefore(text, i - 1) = QuotesBefore(u, i - 1) /\ text[i] = u[i]
    BY <1>3, <1>5, <2>1
  <2>3. text[i] = RowDelimiter /\ Cardinality(QuotesBefore(text, i - 1)) % 2 = 0
    BY <1>6
  <2> QED
    BY <1>7, <2>2, <2>3
<1>10. ends \in SUBSET Nat /\ \A i \in ends : i \in 1..Len(text)
  BY <1>3, <1>6
<1> HIDE DEF ends
<1>11. Min(ends) = m + 1
  <2>1. Min(ends) \in ends /\ \A i \in ends : Min(ends) <= i
    BY <1>8, <1>10, Least
  <2>2. Min(ends) \in Nat /\ Min(ends) <= m + 1 /\ Min(ends) \in 1..Len(text)
    BY <1>8, <1>10, <2>1
  <2>3. ~(Min(ends) \in 1..m)
    BY <1>9, <2>1
  <2> QED
    BY <1>3, <2>2, <2>3
<1> QED
  BY <1>4, <1>8, <1>11 DEF GetLine, text, ends

-----------------------------------------------------------------------------
(* A text that is put together, and taken apart again.                      *)

\* Rows are put one after the other.
FlattenBy(p, acc, t) == acc \o t
Flattening == INSTANCE FoldLemmas WITH Op <- FlattenBy

Flat(ss) == Flattening!Fold(0, <<>>, ss)

\* flatten of FlattenSeq.
Flattens(ss, g) == g = [i \in 1..Len(ss) |-> IF i = 1 THEN ss[i] ELSE g[i - 1] \o ss[i]]

Strings == Seq(Characters)

\* FlattenSeq by its fold.
LEMMA FlatIs ==
  /\ Flat(<<>>) = <<>>
  /\ \A ss \in Seq(Strings), t \in Strings : Flat(Append(ss, t)) = Flat(ss) \o t
BY Flattening!FoldEmpty, Flattening!FoldAppend DEF Flat, FlattenBy

LEMMA FlatType ==
  \A ss \in Seq(Strings) : Flat(ss) \in Strings
<1> DEFINE S == { ss \in Seq(Strings) : Flat(ss) \in Strings }
<1>1. <<>> \in S
  <2>1. <<>> \in Strings /\ <<>> \in Seq(Strings)
    BY DEF Strings
  <2> QED
    BY <2>1, FlatIs
<1>2. ASSUME NEW ss \in Seq(Strings), NEW t \in Strings, ss \in S PROVE Append(ss, t) \in S
  <2>1. Append(ss, t) \in Seq(Strings) /\ Flat(ss) \in Strings
    BY <1>2
  <2>2. Flat(ss) \o t \in Strings
    BY <2>1 DEF Strings
  <2> QED
    BY <2>1, <2>2, FlatIs
<1> HIDE DEF S
<1>3. Seq(Strings) \subseteq S
  BY <1>1, <1>2, SeqInduction
<1> QED
  BY <1>3 DEF S

LEMMA FlattenSeqIs ==
  ASSUME NEW ss \in Seq(Strings)
  PROVE  FlattenSeq(ss) = Flat(ss)
<1> DEFINE n == Len(ss)
           pre(i) == SubSeq(ss, 1, i)
           g == [i \in 1..n |-> Flat(pre(i))]
<1>1. n \in Nat /\ DOMAIN ss = 1..n /\ pre(n) = ss /\ (n = 0 <=> ss = <<>>)
  OBVIOUS
<1>2. ASSUME NEW i \in 1..n
      PROVE  /\ pre(i) = Append(pre(i - 1), ss[i]) /\ pre(i - 1) \in Seq(Strings) /\ ss[i] \in Strings
             /\ i = 1 => pre(i - 1) = <<>>
             /\ i # 1 => i - 1 \in 1..n
  OBVIOUS
<1> HIDE DEF n, pre
<1>3. ASSUME NEW i \in 1..n PROVE g[i] = IF i = 1 THEN ss[i] ELSE g[i - 1] \o ss[i]
  <2>1. Flat(pre(i)) = Flat(pre(i - 1)) \o ss[i]
    BY <1>2, FlatIs
  <2>2. i = 1 => Flat(pre(i - 1)) \o ss[i] = ss[i]
    <3>1. i = 1 => Flat(pre(i - 1)) = <<>>
      BY <1>2, FlatIs
    <3>2. ss[i] \in Strings
      BY <1>2
    <3>3. <<>> \o ss[i] = ss[i]
      BY <3>2 DEF Strings
    <3> QED
      BY <3>1, <3>3
  <2> QED
    BY <1>2, <2>1, <2>2
<1>4. Flattens(ss, g)
  <2>1. g = [i \in 1..n |-> g[i]]
    OBVIOUS
  <2> HIDE DEF g
  <2>2. g = [i \in 1..n |-> IF i = 1 THEN ss[i] ELSE g[i - 1] \o ss[i]]
    BY <1>3, <2>1
  <2> QED
    BY <2>2 DEF Flattens, n
<1> DEFINE h == CHOOSE k : Flattens(ss, k)
<1>5. Flattens(ss, h)
  BY <1>4
<1>6. FlattenSeq(ss) = IF n = 0 THEN ss ELSE h[n]
  BY DEF FlattenSeq, Flattens, n
<1> HIDE DEF h, g
<1>7. n # 0 => h[n] = g[n]
  <2> DEFINE S == { i \in Nat : i + 1 <= n => h[i + 1] = g[i + 1] }
  <2>1. \A i \in 1..n : h[i] = IF i = 1 THEN ss[i] ELSE h[i - 1] \o ss[i]
    BY <1>5 DEF Flattens, n
  <2>2. 0 \in S
    <3> SUFFICES ASSUME 0 + 1 <= n PROVE h[0 + 1] = g[0 + 1]
      OBVIOUS
    <3>1. 1 \in 1..n /\ 0 + 1 = 1
      BY <1>1
    <3> QED
      BY <1>3, <2>1, <3>1
  <2>3. ASSUME NEW i \in S PROVE i + 1 \in S
    <3> SUFFICES ASSUME (i + 1) + 1 <= n PROVE h[(i + 1) + 1] = g[(i + 1) + 1]
      OBVIOUS
    <3>1. (i + 1) + 1 \in 1..n /\ (i + 1) + 1 # 1 /\ ((i + 1) + 1) - 1 = i + 1 /\ i + 1 <= n
      BY <1>1
    <3>2. h[i + 1] = g[i + 1]
      BY <2>3, <3>1
    <3> QED
      BY <1>3, <2>1, <3>1, <3>2
  <2>4. S \in SUBSET Nat /\ \A i \in S : i + 1 \in S
    BY <2>3
  <2> HIDE DEF S
  <2>5. S = Nat
    BY <2>2, <2>4, SetInduction
  <2> SUFFICES ASSUME n # 0 PROVE h[n] = g[n]
    OBVIOUS
  <2>6. n - 1 \in Nat /\ (n - 1) + 1 = n /\ n <= n
    BY <1>1
  <2> QED
    BY <2>5, <2>6 DEF S
<1>8. n # 0 => g[n] = Flat(ss)
  BY <1>1 DEF g
<1> QED
  BY <1>1, <1>6, <1>7, <1>8, FlatIs

LEMMA Associative ==
  \A a, b, c \in Strings : (a \o b) \o c = a \o (b \o c)
BY ConcatAssociative DEF Strings

\* What is left of a text behind each of the strings it is made of.
Rests(ss, rest) ==
  /\ rest \in [0..Len(ss) -> Strings]
  /\ rest[Len(ss)] = <<>>
  /\ \A k \in 1..Len(ss) : rest[k - 1] = ss[k] \o rest[k]
  /\ rest[0] = Flat(ss)

\* One string is taken off the front.
LEMMA RestsNext ==
  ASSUME NEW ss \in Seq(Strings), NEW t \in Strings, NEW rest, Rests(ss, rest)
  PROVE  \E next : Rests(Append(ss, t), next)
<1> DEFINE n == Len(ss)
           next == [k \in 0..(n + 1) |-> IF k <= n THEN rest[k] \o t ELSE <<>>]
<1>1. /\ n \in Nat /\ n + 1 \in Nat /\ Len(Append(ss, t)) = n + 1
      /\ Append(ss, t)[n + 1] = t /\ \A i \in 1..n : Append(ss, t)[i] = ss[i] /\ ss[i] \in Strings
  OBVIOUS
<1>2. /\ \A k \in 0..n : rest[k] \in Strings
      /\ rest[n] = <<>> /\ rest[0] = Flat(ss)
      /\ \A k \in 1..n : rest[k - 1] = ss[k] \o rest[k]
  BY DEF Rests
<1> HIDE DEF n
<1>3. \A k \in 0..n : rest[k] \o t \in Strings
  <2> SUFFICES ASSUME NEW k \in 0..n PROVE rest[k] \o t \in Strings
    OBVIOUS
  <2>1. rest[k] \in Strings
    BY <1>2
  <2> QED
    BY <2>1 DEF Strings
<1>4. next \in [0..(n + 1) -> Strings]
  <2>1. <<>> \in Strings
    BY DEF Strings
  <2>2. \A k \in 0..(n + 1) : k <= n => k \in 0..n
    BY <1>1
  <2> QED
    BY <1>3, <2>1, <2>2
<1>5. next[n + 1] = <<>> /\ \A k \in 0..n : next[k] = rest[k] \o t
  <2>1. n + 1 \in 0..(n + 1) /\ ~(n + 1 <= n) /\ \A k \in 0..n : k \in 0..(n + 1) /\ k <= n
    BY <1>1
  <2> QED
    BY <2>1
<1> HIDE DEF next
<1>6. ASSUME NEW k \in 1..(n + 1) PROVE next[k - 1] = Append(ss, t)[k] \o next[k]
  <2>1. CASE k = n + 1
    <3>1. k - 1 = n /\ n \in 0..n
      BY <1>1, <2>1
    <3>2. next[k - 1] = <<>> \o t
      BY <1>2, <1>5, <3>1
    <3>3. <<>> \o t = t /\ t \o <<>> = t
      BY DEF Strings
    <3> QED
      BY <1>1, <1>5, <2>1, <3>2, <3>3
  <2>2. CASE k # n + 1
    <3>1. k \in 1..n /\ k \in 0..n /\ k - 1 \in 0..n
      BY <1>1, <2>2
    <3>2. next[k - 1] = (ss[k] \o rest[k]) \o t /\ next[k] = rest[k] \o t
      BY <1>2, <1>5, <3>1
    <3>3. ss[k] \in Strings /\ rest[k] \in Strings
      BY <1>1, <1>2, <3>1
    <3>4. (ss[k] \o rest[k]) \o t = ss[k] \o (rest[k] \o t)
      BY <3>3, Associative
    <3> QED
      BY <1>1, <3>1, <3>2, <3>4
  <2> QED
    BY <2>1, <2>2
<1>7. next[0] = Flat(Append(ss, t))
  <2>1. 0 \in 0..n
    BY <1>1
  <2> QED
    BY <1>2, <1>5, <2>1, FlatIs
<1>8. Rests(Append(ss, t), next)
  BY <1>1, <1>4, <1>5, <1>6, <1>7 DEF Rests
<1> QED
  BY <1>8

LEMMA RestsExist ==
  \A ss \in Seq(Strings) : \E rest : Rests(ss, rest)
<1> DEFINE S == { ss \in Seq(Strings) : \E rest : Rests(ss, rest) }
<1>1. <<>> \in S
  <2> DEFINE rest == [k \in 0..0 |-> <<>>]
  <2>1. <<>> \in Seq(Strings) /\ <<>> \in Strings /\ Len(<<>>) = 0
    BY DEF Strings
  <2>2. rest \in [0..0 -> Strings] /\ rest[0] = <<>> /\ 1..0 = {}
    BY <2>1
  <2> HIDE DEF rest
  <2>3. Rests(<<>>, rest)
    BY <2>1, <2>2, FlatIs DEF Rests
  <2> QED
    BY <2>1, <2>3
<1>2. ASSUME NEW ss \in Seq(Strings), NEW t \in Strings, ss \in S PROVE Append(ss, t) \in S
  <2>1. PICK rest : Rests(ss, rest)
    BY <1>2
  <2>2. Append(ss, t) \in Seq(Strings)
    OBVIOUS
  <2> QED
    BY <2>1, <2>2, RestsNext
<1> HIDE DEF S
<1>3. Seq(Strings) \subseteq S
  BY <1>1, <1>2, SeqInduction
<1> QED
  BY <1>3 DEF S

-----------------------------------------------------------------------------
(* How many row delimiters there are.                                      *)

Delimiters(t) == { i \in DOMAIN t : t[i] = RowDelimiter }

LEMMA DelimitersType ==
  ASSUME NEW t \in Strings
  PROVE  Delimiters(t) \in SUBSET (1..Len(t)) /\ IsFiniteSet(Delimiters(t)) /\ Cardinality(Delimiters(t)) \in Nat
<1>1. Len(t) \in Nat /\ DOMAIN t = 1..Len(t)
  BY DEF Strings
<1>2. Delimiters(t) \in SUBSET (1..Len(t)) /\ IsFiniteSet(1..Len(t))
  BY <1>1, FS_Interval DEF Delimiters
<1> QED
  BY <1>2, FS_Subset, FS_CardinalityType

\* Text in front adds to the delimiters behind it.
LEMMA MoreDelimiters ==
  ASSUME NEW t \in Strings, NEW u \in Strings
  PROVE  Cardinality(Delimiters(t)) <= Cardinality(Delimiters(t \o u))
<1>1. \A i \in DOMAIN t : i \in DOMAIN (t \o u) /\ (t \o u)[i] = t[i]
  BY DEF Strings
<1>2. t \o u \in Strings
  BY DEF Strings
<1>3. Delimiters(t) \in SUBSET Delimiters(t \o u)
  BY <1>1 DEF Delimiters
<1>4. IsFiniteSet(Delimiters(t \o u))
  BY <1>2, DelimitersType
<1> QED
  BY <1>3, <1>4, FS_Subset

LEMMA OneDelimiterMore ==
  ASSUME NEW t \in Strings
  PROVE  Cardinality(Delimiters(Append(t, RowDelimiter))) = Cardinality(Delimiters(t)) + 1
<1> DEFINE n == Len(t)
           u == Append(t, RowDelimiter)
<1>1. /\ n \in Nat /\ DOMAIN t = 1..n /\ DOMAIN u = 1..(n + 1) /\ u[n + 1] = RowDelimiter
      /\ \A i \in 1..n : u[i] = t[i]
  BY CharactersAssumption DEF Strings
<1> HIDE DEF n, u
<1>2. (\A i \in 1..(n + 1) : i \in 1..n \/ i = n + 1) /\ (\A i \in 1..n : i \in 1..(n + 1)) /\ n + 1 \in 1..(n + 1) /\ n + 1 \notin 1..n
  BY <1>1
<1>3. Delimiters(u) = Delimiters(t) \cup {n + 1} /\ n + 1 \notin Delimiters(t)
  BY <1>1, <1>2 DEF Delimiters
<1>4. IsFiniteSet(Delimiters(t))
  BY DelimitersType
<1>5. Cardinality(Delimiters(t) \cup {n + 1}) = Cardinality(Delimiters(t)) + 1
  BY <1>3, <1>4, FS_AddElement
<1> QED
  BY <1>3, <1>5 DEF u

\* Strings that end a row.
Ended == { Append(t, RowDelimiter) : t \in Strings }

\* As many strings that end a row, as many delimiters.
LEMMA EndedCounted ==
  \A ss \in Seq(Ended) : Flat(ss) \in Strings /\ Cardinality(Delimiters(Flat(ss))) >= Len(ss)
<1> DEFINE S == { ss \in Seq(Ended) : Cardinality(Delimiters(Flat(ss))) >= Len(ss) }
<1>1. Ended \subseteq Strings
  BY CharactersAssumption DEF Ended, Strings
<1>2. \A ss \in Seq(Ended) : ss \in Seq(Strings) /\ Flat(ss) \in Strings
  BY <1>1, FlatType
<1>3. <<>> \in S
  <2>1. <<>> \in Seq(Ended) /\ Len(<<>>) = 0 /\ Delimiters(<<>>) = {}
    BY DEF Delimiters
  <2>2. Cardinality({}) = 0 /\ 0 >= 0
    BY FS_EmptySet
  <2>3. Flat(<<>>) = <<>>
    BY FlatIs
  <2> QED
    BY <2>1, <2>2, <2>3
<1>4. ASSUME NEW ss \in Seq(Ended), NEW x \in Ended, ss \in S PROVE Append(ss, x) \in S
  <2>1. PICK t \in Strings : x = Append(t, RowDelimiter)
    BY DEF Ended
  <2> DEFINE u == Flat(ss)
  <2>2. u \in Strings /\ ss \in Seq(Strings) /\ x \in Strings
    BY <1>1, <1>2
  <2>3. Flat(Append(ss, x)) = u \o x
    BY <2>2, FlatIs
  <2>4. Cardinality(Delimiters(u)) >= Len(ss)
    BY <1>4
  <2> HIDE DEF u
  <2>5. u \o x = Append(u \o t, RowDelimiter) /\ u \o t \in Strings
    BY <2>1, <2>2, CharactersAssumption DEF Strings
  <2>6. Cardinality(Delimiters(Append(u \o t, RowDelimiter))) = Cardinality(Delimiters(u \o t)) + 1
    BY <2>5, OneDelimiterMore
  <2>7. Cardinality(Delimiters(u)) <= Cardinality(Delimiters(u \o t))
    BY <2>2, MoreDelimiters
  <2>8. Cardinality(Delimiters(u)) \in Nat /\ Cardinality(Delimiters(u \o t)) \in Nat
    BY <2>2, <2>5, DelimitersType
  <2>9. Len(Append(ss, x)) = Len(ss) + 1 /\ Len(ss) \in Nat /\ Append(ss, x) \in Seq(Ended)
    OBVIOUS
  <2>10. Cardinality(Delimiters(Flat(Append(ss, x)))) = Cardinality(Delimiters(u \o t)) + 1
    BY <2>3, <2>5, <2>6
  <2>11. Cardinality(Delimiters(u \o t)) + 1 >= Len(ss) + 1
    BY <2>4, <2>7, <2>8, <2>9
  <2> QED
    BY <2>9, <2>10, <2>11
<1> HIDE DEF S
<1>5. Seq(Ended) \subseteq S
  BY <1>3, <1>4, SeqInduction
<1> QED
  BY <1>2, <1>5 DEF S

-----------------------------------------------------------------------------
(* A file.                                                                  *)

\* A file of which no quote can be mistaken.
ClearFile(f) == \A k \in DOMAIN f.rows : ClearRow(f.doubled, f.rows[k])

\* The rows of a file hold proper values.
LEMMA RowsProper ==
  ASSUME NEW f \in Files
  PROVE  /\ Len(f.rows) \in Nat /\ DOMAIN f.rows = 1..Len(f.rows)
         /\ \A k \in 1..Len(f.rows) : ProperRow(f.rows[k])
         /\ f.last \in BOOLEAN /\ f.doubled \in BOOLEAN
         /\ f.end \in {<<RowDelimiter>>, <<CarriageReturn, RowDelimiter>>}
<1>1. /\ f \in [rows : Rows, doubled : BOOLEAN, last : BOOLEAN,
                end : {<<RowDelimiter>>, <<CarriageReturn, RowDelimiter>>}]
      /\ \A k \in DOMAIN f.rows : \A i \in DOMAIN f.rows[k] :
           \/ f.rows[k][i].quoted
           \/ f.rows[k][i].text \in
                Seq(Characters \ {CarriageReturn, TextDelimiter, BetweenFields, RowDelimiter})
  BY FilesAssumption
<1>2. f.rows \in Seq(Seq([text : Seq(Inner), quoted : BOOLEAN]))
  BY <1>1 DEF Rows, Inner
<1>3. Characters \ {CarriageReturn, TextDelimiter, BetweenFields, RowDelimiter} = Bare
  BY DEF Bare, Inner
<1>4. Len(f.rows) \in Nat /\ DOMAIN f.rows = 1..Len(f.rows)
  BY <1>2
<1>5. ASSUME NEW k \in 1..Len(f.rows) PROVE ProperRow(f.rows[k])
  <2>1. f.rows[k] \in Seq([text : Seq(Inner), quoted : BOOLEAN]) /\ k \in DOMAIN f.rows
    BY <1>2, <1>4
  <2>2. ASSUME NEW i \in DOMAIN f.rows[k] PROVE Proper(f.rows[k][i])
    <3>1. f.rows[k][i] \in [text : Seq(Inner), quoted : BOOLEAN]
      <4> DEFINE X == [text : Seq(Inner), quoted : BOOLEAN]
      <4>1. \A s \in Seq(X) : \A j \in DOMAIN s : s[j] \in X
        <5> HIDE DEF X
        <5> QED
          OBVIOUS
      <4> QED
        BY <2>1, <4>1
    <3>2. f.rows[k][i].quoted \/ f.rows[k][i].text \in Seq(Bare)
      BY <1>1, <1>3, <2>1
    <3> QED
      BY <3>1, <3>2 DEF Proper
  <2> QED
    BY <2>1, <2>2 DEF ProperRow
<1> QED
  BY <1>1, <1>4, <1>5

\* The row is written with an end, or it is the last one without.
Closed(f, k) == k # Len(f.rows) \/ f.last

WrittenRows(f) == [k \in DOMAIN f.rows |-> WrittenRow(f, k)]

LEMMA WrittenRowIs ==
  ASSUME NEW f \in Files, ClearFile(f), NEW k \in 1..Len(f.rows)
  PROVE  \E line \in LinesOf(f.doubled, f.rows[k]) :
           /\ line \in Strings /\ Watch("even", line) = "even"
           /\ WrittenRow(f, k) = IF Closed(f, k) THEN Append(line, RowDelimiter) ELSE line
           /\ Closed(f, k) \/ line = RowText(f.doubled, f.rows[k])
<1> DEFINE r == f.rows[k]
           u == RowText(f.doubled, r)
           end == IF k = Len(f.rows) /\ ~f.last THEN <<>> ELSE f.end
           w == [i \in DOMAIN r |-> CsvField(IF f.doubled THEN Doubled(r[i].text) ELSE r[i].text, r[i].quoted)]
<1>1. ProperRow(r) /\ ClearRow(f.doubled, r)
  BY RowsProper DEF ClearFile
<1>2. u \in Seq(Characters) /\ Watch("even", u) = "even"
  BY <1>1, RowTextIs
<1>3. WrittenRow(f, k) = u \o end
  <2>1. w = Pieces(f.doubled, r)
    BY DEF Pieces, Piece
  <2>2. WrittenRow(f, k) = CsvSection(w, end)
    BY DEF WrittenRow
  <2>3. DOMAIN w = 1..Len(r)
    BY <1>1 DEF ProperRow
  <2> HIDE DEF w, end, r
  <2>4. CsvSection(w, end) = Joined(w, Len(r)) \o end
    BY <2>3, CsvSectionIs
  <2> QED
    BY <2>1, <2>2, <2>4 DEF RowText
<1>4. f.end \in {<<RowDelimiter>>, <<CarriageReturn, RowDelimiter>>}
  BY RowsProper
<1>5. u \in LinesOf(f.doubled, r) /\ Append(u, CarriageReturn) \in LinesOf(f.doubled, r)
  BY DEF LinesOf
<1>6. CarriageReturn \in Characters /\ RowDelimiter \in Characters /\ CarriageReturn \notin {TextDelimiter, RowDelimiter}
  BY CharactersAssumption
<1> HIDE DEF u, r
<1>7. CASE ~Closed(f, k)
  <2>1. end = <<>>
    BY <1>7 DEF Closed
  <2>2. u \o <<>> = u
    BY <1>2
  <2> QED
    BY <1>2, <1>3, <1>5, <1>7, <2>1, <2>2 DEF Strings, u, r
<1>8. CASE Closed(f, k) /\ f.end = <<RowDelimiter>>
  <2>1. end = <<RowDelimiter>>
    BY <1>8 DEF Closed
  <2>2. u \o <<RowDelimiter>> = Append(u, RowDelimiter)
    BY <1>2, <1>6
  <2> QED
    BY <1>2, <1>3, <1>5, <1>8, <2>1, <2>2 DEF Strings, r
<1>9. CASE Closed(f, k) /\ f.end = <<CarriageReturn, RowDelimiter>>
  <2> DEFINE l == Append(u, CarriageReturn)
  <2>1. end = <<CarriageReturn, RowDelimiter>>
    BY <1>9 DEF Closed
  <2>2. u \o <<CarriageReturn, RowDelimiter>> = Append(l, RowDelimiter) /\ l \in Seq(Characters)
    BY <1>2, <1>6
  <2>3. Watch("even", l) = WatchBy(0, "even", CarriageReturn)
    BY <1>2, <1>6, WatchNext
  <2>4. WatchBy(0, "even", CarriageReturn) = "even"
    BY <1>6 DEF WatchBy
  <2> HIDE DEF l
  <2>5. l \in LinesOf(f.doubled, r)
    BY <1>5 DEF l
  <2> QED
    BY <1>3, <1>9, <2>1, <2>2, <2>3, <2>4, <2>5 DEF Strings, r
<1> QED
  BY <1>4, <1>7, <1>8, <1>9

LEMMA WrittenType ==
  ASSUME NEW f \in Files, ClearFile(f)
  PROVE  /\ WrittenRows(f) \in Seq(Strings) /\ Len(WrittenRows(f)) = Len(f.rows)
         /\ \A k \in 1..Len(f.rows) : WrittenRows(f)[k] = WrittenRow(f, k)
         /\ Written(f) = Flat(WrittenRows(f))
<1>1. Len(f.rows) \in Nat /\ DOMAIN f.rows = 1..Len(f.rows)
  BY RowsProper
<1>2. \A k \in 1..Len(f.rows) : WrittenRow(f, k) \in Strings
  <2> SUFFICES ASSUME NEW k \in 1..Len(f.rows) PROVE WrittenRow(f, k) \in Strings
    OBVIOUS
  <2>1. PICK line \in Strings : WrittenRow(f, k) = IF Closed(f, k) THEN Append(line, RowDelimiter) ELSE line
    BY WrittenRowIs
  <2> QED
    BY <2>1, CharactersAssumption DEF Strings
<1>3. WrittenRows(f) = [k \in 1..Len(f.rows) |-> WrittenRow(f, k)]
  BY <1>1 DEF WrittenRows
<1>4. WrittenRows(f) \in Seq(Strings) /\ Len(WrittenRows(f)) = Len(f.rows)
  BY <1>1, <1>2, <1>3
<1>5. FlattenSeq(WrittenRows(f)) = Flat(WrittenRows(f))
  BY <1>4, FlattenSeqIs
<1> QED
  BY <1>3, <1>4, <1>5 DEF Written, WrittenRows

-----------------------------------------------------------------------------
(* What the calls of get_line return.                                      *)

Reads(text, c) == Calling!Fold(text, <<>>, [i \in 1..c |-> i])

\* Each call of get_line goes on where the one before has stopped.
LEMMA ReadsIs ==
  ASSUME NEW text, NEW c \in Nat
  PROVE  /\ Reads(text, 0) = <<>>
         /\ Reads(text, c + 1) = Append(Reads(text, c), GetLine(IF c + 1 = 1 THEN text ELSE Last(Reads(text, c)).rest))
<1>1. [i \in 1..0 |-> i] = <<>>
  OBVIOUS
<1>2. Reads(text, 0) = <<>>
  BY <1>1, Calling!FoldEmpty DEF Reads
<1> DEFINE s == [i \in 1..c |-> i]
           t == [i \in 1..(c + 1) |-> i]
<1>3. s \in Seq(Nat) /\ t = Append(s, c + 1) /\ c + 1 \in Nat
  OBVIOUS
<1> HIDE DEF s, t
<1>4. Calling!Fold(text, <<>>, Append(s, c + 1)) = ReadBy(text, Calling!Fold(text, <<>>, s), c + 1)
  BY <1>3, Calling!FoldAppend
<1>5. Reads(text, c + 1) = ReadBy(text, Reads(text, c), c + 1)
  BY <1>3, <1>4 DEF Reads, s, t
<1> QED
  BY <1>2, <1>5 DEF ReadBy

\* The result of the k-th call.
Got(f, rest, k, g) ==
  LET n == Len(f.rows)
  IN  /\ g.eof <=> (k > n \/ (k = n /\ ~f.last))
      /\ k <= n => g.rest = rest[k] /\ g.line \in LinesOf(f.doubled, f.rows[k])
      /\ k > n => g.rest = <<>> /\ g.line = <<>>

\* One call gives one row.
LEMMA GotOne ==
  ASSUME NEW f \in Files, ClearFile(f), NEW rest, Rests(WrittenRows(f), rest), NEW k \in Nat, k >= 1
  PROVE  Got(f, rest, k, GetLine(IF k <= Len(f.rows) THEN rest[k - 1] ELSE <<>>))
<1> DEFINE n == Len(f.rows)
<1>1. n \in Nat /\ f.last \in BOOLEAN
  BY RowsProper
<1>2. /\ \A j \in 0..n : rest[j] \in Strings
      /\ rest[n] = <<>>
      /\ \A j \in 1..n : rest[j - 1] = WrittenRow(f, j) \o rest[j]
  BY WrittenType DEF Rests
<1> HIDE DEF n
<1>3. CASE k > n
  <2>1. Watch("even", <<>>) = "even" /\ <<>> \in Seq(Characters)
    BY WatchIs
  <2>2. GetLine(<<>>) = [line |-> <<>>, rest |-> <<>>, eof |-> TRUE]
    BY <2>1, GetLast
  <2>3. Got(f, rest, k, [line |-> <<>>, rest |-> <<>>, eof |-> TRUE])
    <3> DEFINE g == [line |-> <<>>, rest |-> <<>>, eof |-> TRUE]
    <3>1. g.eof /\ g.rest = <<>> /\ g.line = <<>>
      OBVIOUS
    <3> HIDE DEF g
    <3>2. ~(k <= n)
      BY <1>1, <1>3
    <3>3. Got(f, rest, k, g)
      BY <1>3, <3>1, <3>2 DEF Got, n
    <3> QED
      BY <3>3 DEF g
  <2>4. ~(k <= n)
    BY <1>1, <1>3
  <2> QED
    BY <2>2, <2>3, <2>4 DEF n
<1>4. CASE k <= n
  <2>1. k \in 1..n /\ k \in 0..n
    BY <1>1, <1>4
  <2>2. PICK line \in LinesOf(f.doubled, f.rows[k]) :
           /\ line \in Strings /\ Watch("even", line) = "even"
           /\ WrittenRow(f, k) = IF Closed(f, k) THEN Append(line, RowDelimiter) ELSE line
    BY <2>1, WrittenRowIs DEF n
  <2>3. rest[k - 1] = WrittenRow(f, k) \o rest[k] /\ rest[k] \in Strings
    BY <1>2, <2>1
  <2>4. CASE Closed(f, k)
    <3>1. rest[k - 1] = Append(line, RowDelimiter) \o rest[k]
      BY <2>2, <2>3, <2>4
    <3>2. GetLine(Append(line, RowDelimiter) \o rest[k]) = [line |-> line, rest |-> rest[k], eof |-> FALSE]
      BY <2>2, <2>3, GetNext DEF Strings
    <3>3. ~(k > n \/ (k = n /\ ~f.last))
      BY <1>1, <1>4, <2>1, <2>4 DEF Closed, n
    <3>4. Got(f, rest, k, [line |-> line, rest |-> rest[k], eof |-> FALSE])
      BY <1>1, <1>4, <3>3 DEF Got, n
    <3> QED
      BY <1>4, <3>1, <3>2, <3>4 DEF n
  <2>5. CASE ~Closed(f, k)
    <3>1. k = n /\ ~f.last
      BY <2>5 DEF Closed, n
    <3>2. rest[k - 1] = line
      <4>1. rest[k - 1] = line \o <<>>
        BY <1>2, <2>2, <2>3, <2>5, <3>1
      <4>2. line \o <<>> = line
        BY <2>2 DEF Strings
      <4> QED
        BY <4>1, <4>2
    <3>3. GetLine(line) = [line |-> line, rest |-> <<>>, eof |-> TRUE]
      BY <2>2, GetLast DEF Strings
    <3>4. Got(f, rest, k, [line |-> line, rest |-> <<>>, eof |-> TRUE])
      BY <1>1, <1>2, <3>1 DEF Got, n
    <3> QED
      BY <1>4, <3>2, <3>3, <3>4 DEF n
  <2> QED
    BY <2>4, <2>5
<1> QED
  BY <1>1, <1>3, <1>4

LEMMA GotAll ==
  ASSUME NEW f \in Files, ClearFile(f), NEW rest, Rests(WrittenRows(f), rest)
  PROVE  \A c \in Nat : /\ Reads(Written(f), c) \in [1..c -> { GetLine(t) : t \in Strings }]
                        /\ \A k \in 1..c : Got(f, rest, k, Reads(Written(f), c)[k])
<1> DEFINE n == Len(f.rows)
           text == Written(f)
           Results == { GetLine(t) : t \in Strings }
           S == { c \in Nat : /\ Reads(text, c) \in [1..c -> Results]
                              /\ \A k \in 1..c : Got(f, rest, k, Reads(text, c)[k]) }
<1>1. n \in Nat
  BY RowsProper
<1>2. /\ \A j \in 0..n : rest[j] \in Strings
      /\ rest[n] = <<>> /\ rest[0] = text
  BY WrittenType DEF Rests
<1>3. <<>> \in Strings
  BY DEF Strings
<1> HIDE DEF n, text, Results
<1>4. 0 \in S
  <2>1. <<>> \in [1..0 -> Results] /\ 1..0 = {}
    OBVIOUS
  <2> QED
    BY <2>1, ReadsIs
<1>5. ASSUME NEW c \in S PROVE c + 1 \in S
  <2> DEFINE a == Reads(text, c)
             t == IF c + 1 = 1 THEN text ELSE Last(a).rest
             b == Append(a, GetLine(t))
             start == IF c + 1 <= n THEN rest[(c + 1) - 1] ELSE <<>>
  <2>1. c \in Nat /\ a \in [1..c -> Results] /\ \A k \in 1..c : Got(f, rest, k, a[k])
    BY <1>5
  <2>2. Reads(text, c + 1) = b
    BY <2>1, ReadsIs
  <2>3. a \in Seq(Results) /\ Len(a) = c
    <3> HIDE DEF a
    <3> QED
      BY <2>1
  <2>4. t = start
    <3>1. CASE c = 0
      <4>1. c + 1 = 1 /\ (c + 1) - 1 = 0 /\ (~(c + 1 <= n) => n = 0)
        BY <1>1, <3>1
      <4> QED
        BY <1>2, <4>1
    <3>2. CASE c # 0
      <4>1. c \in 1..c /\ c + 1 # 1 /\ (c + 1) - 1 = c
        BY <2>1, <3>2
      <4>2. t = a[c].rest
        BY <2>3, <4>1 DEF Last
      <4>3. Got(f, rest, c, a[c])
        BY <2>1, <4>1
      <4>4. a[c].rest = IF c <= n THEN rest[c] ELSE <<>>
        BY <1>1, <2>1, <4>3 DEF Got, n
      <4>5. CASE c + 1 <= n
        <5>1. c <= n
          BY <1>1, <2>1, <4>5
        <5> QED
          BY <4>1, <4>2, <4>4, <4>5, <5>1
      <4>6. CASE ~(c + 1 <= n)
        <5>1. c <= n => c = n
          BY <1>1, <2>1, <4>6
        <5> QED
          BY <1>2, <4>2, <4>4, <4>6, <5>1
      <4> QED
        BY <4>5, <4>6
    <3> QED
      BY <3>1, <3>2
  <2>5. start \in Strings
    <3>1. c + 1 <= n => (c + 1) - 1 \in 0..n
      BY <1>1, <2>1
    <3> QED
      BY <1>2, <1>3, <3>1
  <2>6. Got(f, rest, c + 1, GetLine(start))
    <3>1. c + 1 \in Nat /\ c + 1 >= 1
      BY <2>1
    <3> QED
      BY <3>1, GotOne DEF n
  <2> HIDE DEF a, t, start
  <2>7. GetLine(t) \in Results
    BY <2>4, <2>5 DEF Results
  <2>8. /\ b \in [1..(c + 1) -> Results] /\ b[c + 1] = GetLine(t)
        /\ \A k \in 1..c : b[k] = a[k]
    <3> DEFINE x == GetLine(t)
    <3>1. x \in Results
      BY <2>7
    <3> HIDE DEF x
    <3>2. /\ Append(a, x) \in Seq(Results) /\ Len(Append(a, x)) = c + 1
          /\ Append(a, x)[c + 1] = x /\ \A k \in 1..c : Append(a, x)[k] = a[k]
      BY <2>1, <2>3, <3>1
    <3>3. Append(a, x) \in [1..(c + 1) -> Results]
      <4> DEFINE y == Append(a, x)
      <4>1. y \in Seq(Results) /\ Len(y) = c + 1
        BY <3>2
      <4> HIDE DEF y
      <4>2. y \in [1..(c + 1) -> Results]
        BY <4>1
      <4> QED
        BY <4>2 DEF y
    <3> QED
      BY <3>2, <3>3 DEF x
  <2>9. \A k \in 1..(c + 1) : k \in 1..c \/ k = c + 1
    BY <2>1
  <2> HIDE DEF b
  <2>10. \A k \in 1..(c + 1) : Got(f, rest, k, b[k])
    BY <2>1, <2>4, <2>6, <2>8, <2>9
  <2> QED
    BY <2>1, <2>2, <2>8, <2>10
<1>6. S \in SUBSET Nat /\ \A c \in S : c + 1 \in S
  BY <1>5
<1> HIDE DEF S
<1>7. S = Nat
  BY <1>4, <1>6, SetInduction
<1> QED
  BY <1>7 DEF S, Results, text

Calls(f) == Cardinality(Delimiters(Written(f))) + MaxPreview + 2

\* What Lines is made of.
LEMMA ReadsFold ==
  ASSUME NEW text, NEW c
  PROVE  FoldLeft(LAMBDA acc, i : Append(acc, GetLine(IF i = 1 THEN text ELSE Last(acc).rest)),
                  <<>>, [i \in 1..c |-> i]) = Reads(text, c)
BY Zenon DEF Reads, ReadBy, Calling!Fold, Calling!Greatest, FoldLeft, MapThenFoldSet, Max

LEMMA LinesUnfold ==
  ASSUME NEW f
  PROVE  Lines(f) = [i \in 1..Calls(f) |-> [values |-> CreateValuelist(Reads(Written(f), Calls(f))[i].line, TRUE),
                                            marked |-> CreateValuelist(Reads(Written(f), Calls(f))[i].line, FALSE),
                                            eof |-> Reads(Written(f), Calls(f))[i].eof]]
<1>1. Calls(f) = Cardinality({ i \in DOMAIN Written(f) : Written(f)[i] = RowDelimiter }) + MaxPreview + 2
  BY DEF Calls, Delimiters
<1>2. FoldLeft(LAMBDA acc, i : Append(acc, GetLine(IF i = 1 THEN Written(f) ELSE Last(acc).rest)),
               <<>>, [i \in 1..Calls(f) |-> i]) = Reads(Written(f), Calls(f))
  BY ReadsFold
<1> QED
  BY Zenon, <1>1, <1>2 DEF Lines

\* Every row but an unended last one ends with a delimiter.
LEMMA CallsSuffice ==
  ASSUME NEW f \in Files, ClearFile(f)
  PROVE  Calls(f) \in Nat /\ Calls(f) >= Len(f.rows) + 1 /\ Calls(f) >= MaxPreview + 2
<1> DEFINE n == Len(f.rows)
           w == WrittenRows(f)
           D(t) == Cardinality(Delimiters(t))
<1>1. n \in Nat
  BY RowsProper
<1>2. /\ w \in Seq(Strings) /\ Len(w) = n
      /\ \A k \in 1..n : w[k] = WrittenRow(f, k)
      /\ Written(f) = Flat(w)
  BY WrittenType
<1>3. \A k \in 1..n : Closed(f, k) => w[k] \in Ended
  <2> SUFFICES ASSUME NEW k \in 1..n, Closed(f, k) PROVE w[k] \in Ended
    OBVIOUS
  <2>1. \E line \in Strings : WrittenRow(f, k) = Append(line, RowDelimiter)
    BY WrittenRowIs
  <2> QED
    BY <1>2, <2>1 DEF Ended
<1>4. Flat(w) \in Strings
  BY <1>2, FlatType
<1>5. D(Flat(w)) \in Nat
  BY <1>4, DelimitersType
<1>6. \A k \in 1..n : k # n => Closed(f, k)
  BY DEF Closed
<1> HIDE DEF n, w
<1>7. D(Flat(w)) + 1 >= n
  <2>1. CASE n = 0
    BY <1>1, <1>5, <2>1
  <2>2. CASE n # 0
    <3> DEFINE ss == SubSeq(w, 1, n - 1)
    <3>1. /\ ss \in Seq(Strings) /\ w[n] \in Strings /\ w = Append(ss, w[n]) /\ Len(ss) = n - 1
          /\ \A k \in 1..(n - 1) : ss[k] = w[k] /\ k \in 1..n /\ k # n
      BY <1>1, <1>2, <2>2
    <3> HIDE DEF ss
    <3>2. \A k \in 1..(n - 1) : ss[k] \in Ended
      BY <1>3, <1>6, <3>1
    <3>3. ss \in Seq(Ended)
      BY <3>1, <3>2
    <3>4. Flat(ss) \in Strings /\ D(Flat(ss)) >= n - 1
      BY <3>1, <3>3, EndedCounted
    <3>5. Flat(w) = Flat(ss) \o w[n]
      BY <3>1, FlatIs
    <3>6. D(Flat(ss)) <= D(Flat(w))
      BY <3>1, <3>4, <3>5, MoreDelimiters
    <3>7. D(Flat(ss)) \in Nat
      BY <3>4, DelimitersType
    <3> HIDE DEF D
    <3> QED
      BY <1>1, <1>5, <3>4, <3>6, <3>7
  <2> QED
    BY <2>1, <2>2
<1> HIDE DEF D
<1>8. Calls(f) = D(Flat(w)) + MaxPreview + 2
  BY <1>2 DEF Calls, D
<1>9. MaxPreview \in Nat
  BY PreviewAssumption
<1>10. D(Flat(w)) + MaxPreview + 2 \in Nat /\ D(Flat(w)) + MaxPreview + 2 >= n + 1 /\ D(Flat(w)) + MaxPreview + 2 >= MaxPreview + 2
  BY <1>1, <1>5, <1>7, <1>9
<1> QED
  BY <1>8, <1>10 DEF n

\* The lines of a file are its rows, and nothing behind them.
LineIs(f, k, l) ==
  LET n == Len(f.rows)
  IN  /\ l.values = IF k <= n THEN RowValues(TRUE, f.rows[k]) ELSE <<>>
      /\ l.marked = IF k <= n THEN RowValues(FALSE, f.rows[k]) ELSE <<>>
      /\ l.eof <=> (k > n \/ (k = n /\ ~f.last))

LEMMA LineOf ==
  ASSUME NEW f \in Files, ClearFile(f), NEW rest, NEW k \in Nat, k >= 1, NEW g, Got(f, rest, k, g)
  PROVE  LineIs(f, k, [values |-> CreateValuelist(g.line, TRUE),
                       marked |-> CreateValuelist(g.line, FALSE), eof |-> g.eof])
<1> DEFINE n == Len(f.rows)
           l == [values |-> CreateValuelist(g.line, TRUE),
                 marked |-> CreateValuelist(g.line, FALSE), eof |-> g.eof]
<1>1. n \in Nat
  BY RowsProper
<1>2. l.values = CreateValuelist(g.line, TRUE) /\ l.marked = CreateValuelist(g.line, FALSE) /\ l.eof = g.eof
  OBVIOUS
<1>3. /\ g.eof <=> (k > n \/ (k = n /\ ~f.last))
      /\ k <= n => g.line \in LinesOf(f.doubled, f.rows[k])
      /\ k > n => g.line = <<>>
  BY DEF Got
<1> HIDE DEF l
<1>4. CASE k <= n
  <2>1. ProperRow(f.rows[k]) /\ ClearRow(f.doubled, f.rows[k])
    <3>1. k \in 1..n
      BY <1>1, <1>4
    <3> QED
      BY <3>1, RowsProper DEF ClearFile
  <2>2. g.line \in LinesOf(f.doubled, f.rows[k])
    BY <1>3, <1>4
  <2>3. CreateValuelist(g.line, TRUE) = RowValues(TRUE, f.rows[k])
    BY <2>1, <2>2, RowRead
  <2>4. CreateValuelist(g.line, FALSE) = RowValues(FALSE, f.rows[k])
    BY <2>1, <2>2, RowRead
  <2> HIDE DEF n
  <2>5. l.eof <=> (k > n \/ (k = n /\ ~f.last))
    BY <1>2, <1>3
  <2>6. LineIs(f, k, l)
    BY <1>2, <1>4, <2>3, <2>4, <2>5 DEF LineIs, n
  <2> QED
    BY <2>6 DEF l
<1>5. CASE k > n
  <2>1. ~(k <= n) /\ g.line = <<>>
    BY <1>1, <1>3, <1>5
  <2>2. CreateValuelist(<<>>, TRUE) = <<>> /\ CreateValuelist(<<>>, FALSE) = <<>>
    BY NothingRead
  <2> HIDE DEF n
  <2>3. l.eof <=> (k > n \/ (k = n /\ ~f.last))
    BY <1>2, <1>3
  <2>4. LineIs(f, k, l)
    BY <1>2, <2>1, <2>2, <2>3 DEF LineIs, n
  <2> QED
    BY <2>4 DEF l
<1> QED
  BY <1>1, <1>4, <1>5

LinesRead(f, ls) ==
  /\ Len(ls) \in Nat /\ DOMAIN ls = 1..Len(ls)
  /\ Len(ls) >= Len(f.rows) + 1 /\ Len(ls) >= MaxPreview + 2
  /\ \A k \in 1..Len(ls) : LineIs(f, k, ls[k])

\* What is read of a file are its rows.
LEMMA LinesAre ==
  ASSUME NEW f \in Files, ClearFile(f)
  PROVE  LinesRead(f, Lines(f))
<1> DEFINE c == Calls(f)
           a == Reads(Written(f), c)
           L(i) == [values |-> CreateValuelist(a[i].line, TRUE),
                    marked |-> CreateValuelist(a[i].line, FALSE), eof |-> a[i].eof]
           ls == [i \in 1..c |-> L(i)]
<1>1. Lines(f) = ls
  BY LinesUnfold
<1>2. c \in Nat /\ c >= Len(f.rows) + 1 /\ c >= MaxPreview + 2
  BY CallsSuffice
<1>3. PICK rest : Rests(WrittenRows(f), rest)
  BY WrittenType, RestsExist
<1>4. \A k \in 1..c : Got(f, rest, k, a[k])
  <2> HIDE DEF c
  <2> QED
    BY <1>2, <1>3, GotAll
<1> HIDE DEF c, a
<1>5. \A k \in 1..c : LineIs(f, k, L(k))
  <2> SUFFICES ASSUME NEW k \in 1..c PROVE LineIs(f, k, L(k))
    OBVIOUS
  <2>1. k \in Nat /\ k >= 1
    BY <1>2
  <2> QED
    BY <1>4, <2>1, LineOf
<1> HIDE DEF L
<1>6. Len(ls) = c /\ DOMAIN ls = 1..c /\ \A k \in 1..c : ls[k] = L(k)
  BY <1>2
<1> HIDE DEF ls
<1> QED
  BY <1>1, <1>2, <1>5, <1>6 DEF LinesRead

\* The values of a line of data are the texts of its row.
LEMMA DataRead ==
  ASSUME NEW r, ProperRow(r)
  PROVE  RowValues(TRUE, r) = IF IsBlank(r) THEN <<>> ELSE Texts(r)
<1>1. DOMAIN r = 1..Len(r)
  BY DEF ProperRow
<1>2. \A i \in 1..Len(r) : Value(TRUE, r[i]) = r[i].text
  BY DEF Value
<1>3. Cells(TRUE, r, Len(r)) = Texts(r)
  BY <1>1, <1>2 DEF Cells, Texts
<1> QED
  BY <1>3 DEF RowValues
=============================================================================
