---------------------------- MODULE ReportProofs ----------------------------
(***************************************************************************)
(* What a report reads and prints, for every result, layout and driver that*)
(* takes back a step, and wherever new pages and the end of the report fall:*)
(* it reads its datasource as with a cursor; it prints every row once and in*)
(* order, and in every section the row and the count that belong there; and*)
(* its headers and footers enclose the groups.                             *)
(***************************************************************************)
EXTENDS Report, FiniteSetTheorems, TLAPS

-----------------------------------------------------------------------------
(***************************************************************************)
(* The window of two rows, and the report that steps back and forward.     *)
(***************************************************************************)

Phases == {"idle", "row", "header", "foot", "break", "page", "next", "end"}

\* The report looks at the row before the one it has come to.
Back == phase \in {"foot", "break"}

BatchTypes ==
  /\ driver \in [steps : BOOLEAN, clears : BOOLEAN, knows : BOOLEAN]
  /\ batch \in [open : BOOLEAN, data : Seq(AllRows \cup {Dummy}),
                previous : BOOLEAN, counter : Nat, maxrows : Nat, read : Nat]
  /\ rows \in Seq(AllRows)

\* What is in the window while the datasource is enabled.
Window ==
  batch.open =>
    IF rows = <<>>
    THEN batch.counter = 0 /\ batch.maxrows = 0 /\ batch.read = 0
    ELSE /\ batch.read \in 1..Len(rows)
         /\ batch.counter = batch.read - 1
         /\ batch.maxrows = (IF driver.knows THEN Len(rows) ELSE batch.read)
         /\ Len(batch.data) = 2
         /\ batch.data[2] = rows[batch.read]
         /\ batch.read > 1 => batch.data[1] = rows[batch.read - 1]

\* When the report has stepped back, and that there was a row to step back to.
Stepping ==
  /\ phase \in Phases
  /\ batch.previous <=> Back
  /\ phase # "idle" => batch.open
  /\ Back \/ phase = "page" => batch.counter > 0

\* Where p_rowposition is relative to the row that was read last.
Positions ==
  /\ position \in Nat
  /\ phase \in {"row", "header", "page", "next"} => position = batch.counter
  /\ Back => position = batch.counter - 1

Inv == BatchTypes /\ Window /\ Stepping /\ Positions

-----------------------------------------------------------------------------
(* The window.                                                             *)

\* insert_data keeps the row read last and puts the new one behind it.
LEMMA InsertProperties ==
  ASSUME NEW data \in Seq(AllRows \cup {Dummy}), NEW row \in AllRows
  PROVE  /\ Insert(data, row) \in Seq(AllRows \cup {Dummy})
         /\ Len(Insert(data, row)) = 2
         /\ Insert(data, row)[2] = row
         /\ Len(data) = 2 => Insert(data, row)[1] = data[2]
<1>1. data # <<>> => data[Len(data)] \in AllRows \cup {Dummy}
  OBVIOUS
<1>2. (IF data = <<>> THEN Dummy ELSE data[Len(data)]) \in AllRows \cup {Dummy}
  BY <1>1
<1>3. Len(data) = 2 => data # <<>>
  OBVIOUS
<1> QED
  BY <1>2, <1>3 DEF Insert

\* enable() leaves the window on the first row.
LEMMA EnableWindow ==
  ASSUME BatchTypes, Enable, ~batch.previous, driver' = driver
  PROVE  /\ BatchTypes' /\ Window'
         /\ batch'.open /\ ~batch'.previous /\ batch'.counter = 0
<1>1. PICK r \in Results :
        LET b == [IF batch.open THEN Closed(batch) ELSE batch EXCEPT
                    !.open = TRUE, !.counter = 0, !.maxrows = 0, !.read = 0]
        IN  rows' = r /\ batch' = IF r = <<>> THEN b ELSE Fetched(b, r)
  BY DEF Enable
<1> DEFINE b == [IF batch.open THEN Closed(batch) ELSE batch EXCEPT
                   !.open = TRUE, !.counter = 0, !.maxrows = 0, !.read = 0]
<1>2. r \in Seq(AllRows)
  BY BatchAssumption
<1> DEFINE c == IF batch.open THEN Closed(batch) ELSE batch
<1>3. /\ b \in [open : BOOLEAN, data : Seq(AllRows \cup {Dummy}),
                previous : BOOLEAN, counter : Nat, maxrows : Nat, read : Nat]
      /\ b.open /\ ~b.previous /\ b.counter = 0 /\ b.maxrows = 0 /\ b.read = 0
  <2>1. <<>> \in Seq(AllRows \cup {Dummy})
    OBVIOUS
  <2>2. /\ c \in [open : BOOLEAN, data : Seq(AllRows \cup {Dummy}),
                  previous : BOOLEAN, counter : Nat, maxrows : Nat, read : Nat]
        /\ ~c.previous
    BY <2>1 DEF BatchTypes, Closed
  <2>3. b = [c EXCEPT !.open = TRUE, !.counter = 0, !.maxrows = 0, !.read = 0]
    OBVIOUS
  <2> HIDE DEF b, c
  <2> QED
    BY <2>2, <2>3
<1>4. CASE r = <<>>
  BY <1>1, <1>2, <1>3, <1>4 DEF BatchTypes, Window
<1>5. CASE r # <<>>
  <2>1. r[1] \in AllRows /\ Len(r) \in Nat /\ Len(r) >= 1
    BY <1>2, <1>5
  <2>2. batch' = Fetched(b, r) /\ rows' = r
    BY <1>1, <1>5
  <2> HIDE DEF b
  <2>3. /\ batch' = [b EXCEPT !.read = 1, !.data = Insert(b.data, r[1]),
                       !.maxrows = IF driver.knows THEN Len(r) ELSE 1]
    BY <2>2, <1>3 DEF Fetched
  <2>4. /\ Insert(b.data, r[1]) \in Seq(AllRows \cup {Dummy})
        /\ Len(Insert(b.data, r[1])) = 2
        /\ Insert(b.data, r[1])[2] = r[1]
    BY <2>1, <1>3, InsertProperties
  <2>5. (IF driver.knows THEN Len(r) ELSE 1) \in Nat
    BY <2>1
  <2>6. /\ batch' \in [open : BOOLEAN, data : Seq(AllRows \cup {Dummy}),
                       previous : BOOLEAN, counter : Nat, maxrows : Nat, read : Nat]
        /\ batch'.open /\ ~batch'.previous /\ batch'.counter = 0 /\ batch'.read = 1
        /\ batch'.maxrows = (IF driver.knows THEN Len(r) ELSE 1)
        /\ batch'.data = Insert(b.data, r[1])
    BY <1>3, <2>3, <2>4, <2>5
  <2>7. Window'
    BY <1>5, <2>1, <2>2, <2>4, <2>6 DEF Window
  <2> QED
    BY <1>2, <2>2, <2>6, <2>7 DEF BatchTypes
<1> QED
  BY <1>4, <1>5

\* goto_next either takes back a step, or reads a row, or does nothing.
LEMMA NextWindow ==
  ASSUME BatchTypes, Window, batch.open, GotoNext, driver.steps, driver' = driver,
         batch.previous => batch.counter > 0
  PROVE  /\ BatchTypes' /\ Window' /\ batch'.open /\ ~batch'.previous
         /\ rows' = rows
         /\ batch.previous => batch' = [batch EXCEPT !.previous = FALSE]
         /\ ~batch.previous =>
              IF batch.read < Len(rows)
              THEN batch'.counter = batch.counter + 1
              ELSE batch' = batch
<1>0. rows' = rows
  BY DEF GotoNext
<1>1. CASE batch.previous
  <2>1. batch' = [batch EXCEPT !.previous = FALSE]
    BY <1>1 DEF GotoNext
  <2> QED
    BY <1>0, <1>1, <2>1 DEF BatchTypes, Window
<1>2. CASE ~batch.previous /\ batch.read < Len(rows)
  <2>1. batch' = [Fetched(batch, rows) EXCEPT !.counter = @ + 1]
    BY <1>2 DEF GotoNext
  <2>2. rows # <<>> /\ batch.read + 1 \in 1..Len(rows)
    BY <1>2 DEF BatchTypes, Window
  <2>3. rows[batch.read + 1] \in AllRows
    BY <2>2 DEF BatchTypes
  <2> DEFINE data == Insert(batch.data, rows[batch.read + 1])
  <2>4. /\ data \in Seq(AllRows \cup {Dummy}) /\ Len(data) = 2
        /\ data[2] = rows[batch.read + 1]
        /\ data[1] = batch.data[2]
    BY <2>2, <2>3, InsertProperties DEF BatchTypes, Window
  <2> HIDE DEF data
  <2> DEFINE max == IF driver.knows THEN Len(rows) ELSE batch.maxrows + 1
  <2>5. batch' = [batch EXCEPT !.read = batch.read + 1, !.data = data,
                    !.maxrows = max, !.counter = batch.counter + 1]
    BY <2>1 DEF Fetched, data, BatchTypes
  <2>6. max \in Nat /\ batch.read + 1 \in Nat /\ batch.counter + 1 \in Nat
    BY DEF BatchTypes
  <2>a. max = (IF driver.knows THEN Len(rows) ELSE batch.maxrows + 1)
    OBVIOUS
  <2> HIDE DEF max
  <2>b. batch \in [open : BOOLEAN, data : Seq(AllRows \cup {Dummy}),
                   previous : BOOLEAN, counter : Nat, maxrows : Nat, read : Nat]
    BY DEF BatchTypes
  <2>c. /\ batch' \in [open : BOOLEAN, data : Seq(AllRows \cup {Dummy}),
                       previous : BOOLEAN, counter : Nat, maxrows : Nat, read : Nat]
        /\ batch'.open = batch.open /\ batch'.previous = batch.previous
        /\ batch'.counter = batch.counter + 1 /\ batch'.read = batch.read + 1
        /\ batch'.maxrows = max
        /\ batch'.data = data
    BY <2>b, <2>4, <2>5, <2>6
  <2>7. /\ batch' \in [open : BOOLEAN, data : Seq(AllRows \cup {Dummy}),
                       previous : BOOLEAN, counter : Nat, maxrows : Nat, read : Nat]
        /\ batch'.open /\ ~batch'.previous
        /\ batch'.counter = batch.counter + 1 /\ batch'.read = batch.read + 1
        /\ batch'.maxrows = (IF driver.knows THEN Len(rows) ELSE batch.maxrows + 1)
        /\ batch'.data = data
    BY <1>2, <2>c, <2>a
  <2>8. Window'
    BY <1>0, <1>2, <2>2, <2>4, <2>7 DEF Window, BatchTypes
  <2> QED
    BY <1>0, <1>2, <2>7, <2>8 DEF BatchTypes
<1>3. CASE ~batch.previous /\ ~(batch.read < Len(rows))
  <2>1. batch' = batch
    BY <1>3 DEF GotoNext
  <2> QED
    BY <1>0, <1>3, <2>1 DEF BatchTypes, Window
<1> QED
  BY <1>1, <1>2, <1>3

-----------------------------------------------------------------------------
(* The invariant.                                                          *)

LEMMA InvInit ==
  ASSUME ~SteppedBefore
  PROVE  ReportInit => Inv
<1> SUFFICES ASSUME ReportInit PROVE Inv
  OBVIOUS
<1>1. <<>> \in Seq(AllRows) /\ <<>> \in Seq(AllRows \cup {Dummy})
  OBVIOUS
<1>2. BatchTypes
  BY <1>1, BatchAssumption DEF ReportInit, BatchInit, BatchTypes
<1>3. ~batch.open /\ ~batch.previous /\ phase = "idle" /\ position = 0
  BY DEF ReportInit, BatchInit
<1>4. Window
  BY <1>3 DEF Window
<1>5. Stepping /\ Positions
  BY <1>3 DEF Stepping, Positions, Back, Phases
<1> QED
  BY <1>2, <1>4, <1>5 DEF Inv

\* The steps that print and leave the datasource alone.
LEMMA Printing ==
  ASSUME Inv, UNCHANGED <<driver, rows, batch, position>>, phase' \in Phases,
         phase' # "idle" => phase # "idle",
         Back' = Back, phase' = "page" => phase = "page",
         phase' \in {"row", "header", "next"} => phase \in {"row", "header", "next"}
  PROVE  Inv'
<1>1. BatchTypes' /\ Window'
  BY DEF Inv, BatchTypes, Window
<1>2. Stepping' /\ Positions'
  BY DEF Inv, Stepping, Positions
<1> QED
  BY <1>1, <1>2 DEF Inv

LEMMA InvNext ==
  ASSUME Inv, driver.steps, [Next]_vars
  PROVE  Inv'
<1> USE DEF Phases
<1>0. driver.steps
  OBVIOUS
<1>1. CASE Execute
  <2>1. ~batch.previous /\ driver' = driver
    BY <1>1 DEF Execute, Inv, Stepping, Back
  <2>2. /\ BatchTypes' /\ Window'
        /\ batch'.open /\ ~batch'.previous /\ batch'.counter = 0
    BY <1>1, <2>1, EnableWindow DEF Execute, Inv
  <2>3. BatchTypes' => batch'.previous \in BOOLEAN
    BY DEF BatchTypes
  <2> QED
    BY <1>1, <2>2, <2>3 DEF Execute, Inv, Stepping, Positions, Back
<1>2. CASE BeginRow
  BY <1>2, Printing DEF BeginRow, Back
<1>3. CASE NoHeader \/ UNCHANGED vars
  <2>1. UNCHANGED vars
    BY <1>3 DEF NoHeader
  <2> QED
    BY <2>1, Printing DEF vars, Inv, Stepping, Back
<1>4. CASE StepBack
  <2>1. batch' = [batch EXCEPT !.previous = TRUE] /\ rows' = rows /\ driver' = driver
    BY <1>4 DEF StepBack, GotoPrevious
  <2>2. batch.counter > 0
    BY <1>4 DEF StepBack, GroupEnds, RowPosition
  <2>3. BatchTypes' /\ Window'
    BY <2>1 DEF Inv, BatchTypes, Window
  <2>4. Stepping'
    BY <1>4, <2>1, <2>2 DEF StepBack, Inv, Stepping, Back, BatchTypes
  <2>5. Positions'
    BY <1>4, <2>1, <2>2 DEF StepBack, Inv, Positions, Back, BatchTypes
  <2> QED
    BY <2>3, <2>4, <2>5 DEF Inv
<1>5. CASE Footer
  BY <1>5, Printing DEF Footer, Footed, Back
<1>6. CASE StepToPage \/ StepForward
  <2>1. GotoNext /\ driver' = driver /\ position' = position + 1 /\ Back
    BY <1>6 DEF StepToPage, StepForward, Back
  <2>2. batch.previous /\ batch.counter > 0 /\ batch.open
    BY <2>1 DEF Inv, Stepping, Back
  <2>3. /\ BatchTypes' /\ Window' /\ batch'.open /\ ~batch'.previous
        /\ batch' = [batch EXCEPT !.previous = FALSE]
    BY <1>0, <2>1, <2>2, NextWindow DEF Inv
  <2>4. phase' \in {"page", "header"}
    BY <1>6 DEF StepToPage, StepForward
  <2>5. batch'.counter = batch.counter /\ position = batch.counter - 1
    BY <2>1, <2>3 DEF Inv, BatchTypes, Positions
  <2>6. Stepping'
    BY <2>2, <2>3, <2>4, <2>5 DEF Stepping, Back
  <2>7. Positions'
    BY <2>1, <2>4, <2>5 DEF Inv, BatchTypes, Positions, Back
  <2> QED
    BY <2>3, <2>6, <2>7 DEF Inv
<1>7. CASE NewPage
  <2>1. CASE stopped'
    BY <1>7, <2>1, Printing DEF NewPage, Back
  <2>2. CASE ~stopped'
    <3>1. /\ batch' = [batch EXCEPT !.previous = TRUE]
          /\ rows' = rows /\ driver' = driver
          /\ phase = "page" /\ phase' = "foot" /\ position' = position - 1
      BY <1>7, <2>2 DEF NewPage, GotoPrevious, Footed
    <3>2. batch.counter > 0 /\ position = batch.counter
      BY <3>1 DEF Inv, Stepping, Positions
    <3>3. BatchTypes' /\ Window'
      BY <3>1 DEF Inv, BatchTypes, Window
    <3>4. Stepping'
      BY <3>1, <3>2 DEF Inv, Stepping, Back, BatchTypes
    <3>5. Positions'
      BY <3>1, <3>2 DEF Inv, Positions, Back, BatchTypes
    <3> QED
      BY <3>3, <3>4, <3>5 DEF Inv
  <2> QED
    BY <2>1, <2>2
<1>8. CASE Header
  BY <1>8, Printing DEF Header, Back
<1>9. CASE Data
  BY <1>9, Printing DEF Data, Back
<1>10. CASE NextRow
  <2>1. /\ GotoNext /\ driver' = driver /\ phase = "next" /\ position' = position + 1
        /\ phase' = IF position' < batch'.maxrows /\ ~stopped THEN "row" ELSE "end"
    BY <1>10 DEF NextRow
  <2>2. ~batch.previous /\ batch.open /\ position = batch.counter
    BY <2>1 DEF Inv, Stepping, Positions, Back
  <2>3. /\ BatchTypes' /\ Window' /\ batch'.open /\ ~batch'.previous /\ rows' = rows
        /\ IF batch.read < Len(rows) THEN batch'.counter = batch.counter + 1
           ELSE batch' = batch
    BY <1>0, <2>1, <2>2, NextWindow DEF Inv
  <2>4. phase' = "row" => batch'.counter = position'
    <3>1. CASE batch.read < Len(rows)
      BY <2>1, <2>2, <2>3, <3>1
    <3>2. CASE ~(batch.read < Len(rows))
      <4>1. batch'.maxrows <= batch'.counter + 1
        BY <2>2, <2>3, <3>2 DEF Inv, Window, BatchTypes
      <4> QED
        BY <2>1, <2>2, <2>3, <3>2, <4>1 DEF Inv, BatchTypes
    <3> QED
      BY <3>1, <3>2
  <2>5. Stepping' /\ Positions'
    BY <2>1, <2>3, <2>4 DEF Inv, Stepping, Positions, Back, BatchTypes
  <2> QED
    BY <2>3, <2>5 DEF Inv
<1>11. CASE LastFooter
  BY <1>11, Printing DEF LastFooter, Back
<1>12. CASE Finish
  <2>1. /\ batch' = Closed(batch) /\ rows' = rows /\ driver' = driver
        /\ phase = "end" /\ phase' = "idle" /\ position' = position
    BY <1>12 DEF Finish, Disable
  <2>2. /\ batch' \in [open : BOOLEAN, data : Seq(AllRows \cup {Dummy}),
                       previous : BOOLEAN, counter : Nat, maxrows : Nat, read : Nat]
        /\ ~batch'.open /\ batch'.previous = batch.previous
    <3>1. <<>> \in Seq(AllRows \cup {Dummy})
      OBVIOUS
    <3>2. CASE driver.clears
      BY <2>1, <3>1, <3>2 DEF Closed, Inv, BatchTypes
    <3>3. CASE ~driver.clears
      BY <2>1, <3>3 DEF Closed, Inv, BatchTypes
    <3> QED
      BY <3>2, <3>3
  <2>3. BatchTypes' /\ Window'
    BY <2>1, <2>2 DEF Inv, BatchTypes, Window
  <2>4. Stepping' /\ Positions'
    BY <2>1, <2>2 DEF Inv, Stepping, Positions, Back
  <2> QED
    BY <2>3, <2>4 DEF Inv
<1> QED
  BY <1>1, <1>2, <1>3, <1>4, <1>5, <1>6, <1>7, <1>8, <1>9, <1>10, <1>11, <1>12
     DEF Next, PrintStep

-----------------------------------------------------------------------------
(* The window is the cursor's row.                                         *)

ShowsRow ==
  IF batch.open THEN Shown(batch) = Cursor!RowAt(rows, CursorAt)
                ELSE Shown(batch) = Nothing /\ CursorAt = 1

LEMMA ShownRow == Inv => ShowsRow
<1> SUFFICES ASSUME Inv PROVE ShowsRow
  OBVIOUS
<1> USE DEF Shown, CursorAt, ShowsRow
<1>1. CASE ~batch.open
  BY <1>1
<1>2. CASE batch.open /\ rows = <<>>
  <2>1. batch.counter = 0 /\ batch.maxrows = 0
    BY <1>2 DEF Inv, Window
  <2>2. DOMAIN rows = {}
    BY <1>2
  <2> QED
    BY <1>2, <2>1, <2>2 DEF Cursor!RowAt
<1>3. CASE batch.open /\ rows # <<>>
  <2>1. /\ batch.read \in 1..Len(rows) /\ batch.counter = batch.read - 1
        /\ batch.counter < batch.maxrows
        /\ Len(batch.data) = 2 /\ batch.data[2] = rows[batch.read]
        /\ batch.read > 1 => batch.data[1] = rows[batch.read - 1]
    BY <1>3 DEF Inv, BatchTypes, Window
  <2>2. batch.previous => batch.read > 1
    BY <2>1 DEF Inv, BatchTypes, Stepping
  <2>3. DOMAIN rows = 1..Len(rows) /\ Len(rows) \in Nat
    BY DEF Inv, BatchTypes
  <2>4. CASE batch.previous
    BY <1>3, <2>1, <2>2, <2>3, <2>4 DEF ColumnData, Cursor!RowAt
  <2>5. CASE ~batch.previous
    BY <1>3, <2>1, <2>3, <2>5 DEF ColumnData, Cursor!RowAt
  <2> QED
    BY <2>4, <2>5
<1> QED
  BY <1>1, <1>2, <1>3

LEMMA ShownRowAfter == Inv' => ShowsRow'
  BY ShownRow, PTL

\* A step that leaves the datasource alone leaves the cursor alone.
LEMMA CursorStutters ==
  ASSUME batch' = batch, rows' = rows
  PROVE  UNCHANGED Cursor!vars
BY DEF Cursor!vars, CursorAt, Shown, ColumnData

\* Every step of the report is a step of the cursor or leaves it alone.
LEMMA CursorNext ==
  ASSUME Inv, Inv', driver.steps, [Next]_vars
  PROVE  [Cursor!Next]_(Cursor!vars)
<1> USE DEF CursorAt, Phases
<1>0. ShowsRow'
  BY ShownRowAfter
<1>a. /\ batch.counter \in Nat /\ batch.read \in Nat /\ Len(rows) \in Nat
      /\ batch \in [open : BOOLEAN, data : Seq(AllRows \cup {Dummy}),
                    previous : BOOLEAN, counter : Nat, maxrows : Nat, read : Nat]
  BY DEF Inv, BatchTypes
<1>b. batch.open /\ batch.counter > 0 =>
        batch.counter < Len(rows) /\ batch.read = batch.counter + 1
  BY <1>a DEF Inv, Window
<1>c. batch.open /\ batch.read < Len(rows) => batch.read = batch.counter + 1
  BY <1>a DEF Inv, BatchTypes, Window
<1>1. CASE Execute
  <2>1. ~batch.previous /\ driver' = driver
    BY <1>1 DEF Execute, Inv, Stepping, Back
  <2>2. batch'.open /\ ~batch'.previous /\ batch'.counter = 0
    BY <1>1, <2>1, EnableWindow DEF Execute, Inv
  <2>3. Cursor!Open
    BY <2>2 DEF Cursor!Open
  <2> QED
    BY <1>0, <2>2, <2>3 DEF Cursor!Next, ShowsRow
<1>2. CASE \/ BeginRow \/ NoHeader \/ Footer \/ Header \/ Data \/ LastFooter
           \/ (NewPage /\ stopped') \/ UNCHANGED vars
  <2>1. batch' = batch /\ rows' = rows
    BY <1>2 DEF BeginRow, NoHeader, Footer, Header, Data, LastFooter, NewPage, vars
  <2> QED
    BY <2>1, CursorStutters
<1>3. CASE StepBack \/ (NewPage /\ ~stopped')
  <2>1. batch' = [batch EXCEPT !.previous = TRUE] /\ rows' = rows
    BY <1>3 DEF StepBack, NewPage, GotoPrevious
  <2>2. phase \in {"header", "page"} /\ phase' = "foot"
    BY <1>3 DEF StepBack, NewPage, Footed
  <2>3. batch.open /\ ~batch.previous /\ batch'.counter > 0
    BY <2>2 DEF Inv, Stepping, Back
  <2>4. batch'.open = batch.open /\ batch'.previous /\ batch'.counter = batch.counter
    BY <2>1, <2>3, <1>a
  <2>a. CursorAt = batch.counter + 1 /\ CursorAt' = batch.counter
    BY <2>3, <2>4, <1>a
  <2>b. batch.counter > 0 /\ rows' = rows
    BY <2>1, <2>3, <2>4
  <2>5. Cursor!Back
    <3> HIDE DEF CursorAt
    <3> QED
      BY <2>b, <2>3, <2>4, <2>a, <1>a DEF Cursor!Back
  <2> QED
    BY <1>0, <2>4, <2>5 DEF Cursor!Next, ShowsRow
<1>4. CASE StepToPage \/ StepForward
  <2>1. GotoNext /\ Back
    BY <1>4 DEF StepToPage, StepForward, Back
  <2>2. batch.previous /\ batch.counter > 0 /\ batch.open
    BY <2>1 DEF Inv, Stepping, Back
  <2>3. batch' = [batch EXCEPT !.previous = FALSE] /\ rows' = rows
    BY <2>1, <2>2 DEF GotoNext
  <2>4. batch'.open = batch.open /\ ~batch'.previous /\ batch'.counter = batch.counter
    BY <2>2, <2>3, <1>a
  <2>a. CursorAt = batch.counter /\ CursorAt' = batch.counter + 1
    BY <2>2, <2>4, <1>a
  <2>5. Cursor!Forward
    BY <2>2, <2>3, <2>4, <2>a, <1>a, <1>b DEF Cursor!Forward
  <2> QED
    BY <1>0, <2>4, <2>5 DEF Cursor!Next, ShowsRow
<1>5. CASE NextRow
  <2>1. GotoNext /\ driver' = driver
    BY <1>5 DEF NextRow
  <2>2. ~batch.previous /\ batch.open
    BY <1>5 DEF NextRow, Inv, Stepping, Back
  <2>3. /\ batch'.open /\ ~batch'.previous /\ rows' = rows
        /\ IF batch.read < Len(rows) THEN batch'.counter = batch.counter + 1
           ELSE batch' = batch
    BY <2>1, <2>2, NextWindow DEF Inv
  <2>4. CASE batch.read < Len(rows)
    <3>1. Cursor!Forward
      BY <2>2, <2>3, <2>4, <1>a, <1>c DEF Cursor!Forward
    <3> QED
      BY <1>0, <2>3, <3>1 DEF Cursor!Next, ShowsRow
  <2>5. CASE ~(batch.read < Len(rows))
    BY <2>3, <2>5, CursorStutters
  <2> QED
    BY <2>4, <2>5
<1>6. CASE Finish
  <2>1. batch.open /\ ~batch'.open /\ rows' = rows
    BY <1>6, <1>a DEF Finish, Disable, Closed
  <2>2. Cursor!Close
    BY <2>1 DEF Cursor!Close
  <2> QED
    BY <1>0, <2>1, <2>2 DEF Cursor!Next, ShowsRow
<1>7. \/ Execute \/ StepBack \/ StepToPage \/ StepForward \/ NextRow \/ Finish
      \/ BeginRow \/ NoHeader \/ Footer \/ Header \/ Data \/ LastFooter
      \/ NewPage \/ UNCHANGED vars
  BY DEF Next, PrintStep
<1> QED
  BY <1>1, <1>2, <1>3, <1>4, <1>5, <1>6, <1>7

-----------------------------------------------------------------------------
(* The theorems, for a driver that takes back a step and a datasource that  *)
(* was not moved back before the report was printed.                        *)

\* The driver stays the same, and so does that it takes back a step.
LEMMA DriverKept ==
  ASSUME driver.steps, [Next]_vars
  PROVE  driver'.steps
<1>1. driver' = driver
  BY DEF Next, PrintStep, Execute, BeginRow, NoHeader, StepBack, Footer, StepToPage,
         NewPage, StepForward, Header, Data, NextRow, LastFooter, Finish, vars
<1> QED
  BY <1>1

\* Where the window, the steps back and p_rowposition are while a report is
\* printed: what the theorem below is a conclusion of.
THEOREM AlwaysInv ==
  ASSUME \A d \in Drivers : d.steps, ~SteppedBefore
  PROVE  Spec => [](Inv /\ driver.steps)
<1>1. ReportInit => Inv /\ driver.steps
  BY InvInit DEF ReportInit, BatchInit
<1>2. Inv /\ driver.steps /\ [Next]_vars => (Inv /\ driver.steps)'
  BY InvNext, DriverKept
<1> QED
  BY <1>1, <1>2, PTL DEF Spec

\* p_rowposition is unsigned (hk_report.h): however often a report steps back
\* for footers and pages, it is never counted below 0
\* (widget_specific_batch_previous).
THEOREM RowPositionUnsigned ==
  ASSUME \A d \in Drivers : d.steps, ~SteppedBefore
  PROVE  Spec => [](position \in Nat)
<1>1. Inv => position \in Nat
  BY DEF Inv, Positions
<1> QED
  BY <1>1, AlwaysInv, PTL

\* With every driver that takes back a step, whatever the result, the layout
\* and the moment the report is stopped, the rows the report sees are those of
\* a cursor (hk_report::internal_execute over batch_goto_next/previous).
THEOREM ReportReadsAsCursor ==
  ASSUME \A d \in Drivers : d.steps, ~SteppedBefore
  PROVE  Spec => ReadsAsCursor
<1>1. ReportInit => Cursor!Init
  BY DEF ReportInit, BatchInit, Cursor!Init, CursorAt, Shown
<1>2. Inv /\ Inv' /\ driver.steps /\ [Next]_vars => [Cursor!Next]_(Cursor!vars)
  BY CursorNext
<1> QED
  BY <1>1, <1>2, AlwaysInv, PTL DEF Spec, ReadsAsCursor, Cursor!Spec

-----------------------------------------------------------------------------
(***************************************************************************)
(* What is printed of each row: the sections, and their counters.          *)
(***************************************************************************)

-----------------------------------------------------------------------------
(* Counting the rows among the sections.                                   *)

\* What the sections that are printed look like.
Seen == AllRows \cup {Nothing}

Outs == [kind : {"header", "footer", "data", "report", "page"}, pair : Int,
         row : Seen, count : Seq(Seen)]

\* The rows among the first i sections of o.
DataIn(o, i) == { j \in 1..i : o[j].kind = "data" }

Done == Cardinality(DataIn(out, Len(out)))

LEMMA PrintedIsDataIn ==
  /\ \A i : Printed(i) = Cardinality(DataIn(out, i))
  /\ Printed(Len(out)) = Done
BY DEF Printed, DataIn, Done

LEMMA DataInFinite ==
  ASSUME NEW o, NEW i \in Nat
  PROVE  IsFiniteSet(DataIn(o, i)) /\ Cardinality(DataIn(o, i)) \in Nat
<1>1. IsFiniteSet(1..i)
  BY FS_Interval
<1>2. DataIn(o, i) \in SUBSET (1..i)
  BY DEF DataIn
<1> HIDE DEF DataIn
<1>3. IsFiniteSet(DataIn(o, i))
  BY <1>1, <1>2, FS_Subset
<1> QED
  BY <1>3, FS_CardinalityType

\* One more section is one more row, or none.
LEMMA AppendCounts ==
  ASSUME NEW o \in Seq(Outs), NEW s \in Outs
  PROVE  /\ \A i \in 0..Len(o) : DataIn(Append(o, s), i) = DataIn(o, i)
         /\ Cardinality(DataIn(Append(o, s), Len(o) + 1))
              = Cardinality(DataIn(o, Len(o))) + (IF s.kind = "data" THEN 1 ELSE 0)
<1> DEFINE p == Append(o, s)
<1>1. /\ Len(o) \in Nat
      /\ \A j \in 1..Len(o) : p[j] = o[j]
      /\ p[Len(o) + 1] = s
  OBVIOUS
<1> HIDE DEF p
<1>2. \A i \in 0..Len(o) : DataIn(p, i) = DataIn(o, i)
  BY <1>1 DEF DataIn
<1>3. DataIn(p, Len(o) + 1)
        = DataIn(o, Len(o)) \cup (IF s.kind = "data" THEN {Len(o) + 1} ELSE {})
  BY <1>1 DEF DataIn
<1>4. Len(o) + 1 \notin DataIn(o, Len(o))
  BY <1>1 DEF DataIn
<1>5. IsFiniteSet(DataIn(o, Len(o)))
  BY <1>1, DataInFinite
<1>6. CASE s.kind = "data"
  <2>1. DataIn(p, Len(o) + 1) = DataIn(o, Len(o)) \cup {Len(o) + 1}
    BY <1>3, <1>6
  <2>2. Cardinality(DataIn(p, Len(o) + 1)) = Cardinality(DataIn(o, Len(o))) + 1
    BY <1>4, <1>5, <2>1, FS_AddElement
  <2> QED
    BY <1>2, <1>6, <2>2 DEF p
<1>7. CASE s.kind # "data"
  <2>1. DataIn(p, Len(o) + 1) = DataIn(o, Len(o))
    BY <1>3, <1>7
  <2>2. Cardinality(DataIn(o, Len(o))) \in Nat
    BY <1>1, DataInFinite
  <2> QED
    BY <1>2, <1>7, <2>1, <2>2 DEF p
<1> QED
  BY <1>6, <1>7

\* Section s is printed, and after it there may be a new page.
Adds(s) ==
  /\ out' \in Seq(Outs)
  /\ Len(out) + 1 \in DOMAIN out'
  /\ \A i \in DOMAIN out : i \in DOMAIN out' /\ out'[i] = out[i]
  /\ out'[Len(out) + 1] = s
  /\ \A i \in DOMAIN out' : i \in DOMAIN out \/ i = Len(out) + 1 \/ out'[i] = Page
  /\ \A i \in DOMAIN out : DataIn(out', i) = DataIn(out, i)
  /\ Cardinality(DataIn(out', Len(out) + 1)) = Done + (IF s.kind = "data" THEN 1 ELSE 0)
  /\ Done' = Cardinality(DataIn(out', Len(out) + 1))

LEMMA AppendAdds ==
  ASSUME out \in Seq(Outs), NEW s \in Outs, out' = Append(out, s)
  PROVE  Adds(s)
<1>1. /\ Len(out) \in Nat /\ DOMAIN out = 1..Len(out)
      /\ out' \in Seq(Outs) /\ Len(out') = Len(out) + 1
      /\ DOMAIN out' = 1..(Len(out) + 1)
      /\ \A i \in 1..Len(out) : out'[i] = out[i]
      /\ out'[Len(out) + 1] = s
  OBVIOUS
<1>2. /\ \A i \in 0..Len(out) : DataIn(out', i) = DataIn(out, i)
      /\ Cardinality(DataIn(out', Len(out) + 1)) = Done + (IF s.kind = "data" THEN 1 ELSE 0)
  BY AppendCounts DEF Done
<1>3. Done' = Cardinality(DataIn(out', Len(out) + 1))
  BY <1>1 DEF Done
<1> QED
  BY <1>1, <1>2, <1>3 DEF Adds

LEMMA OutputAdds ==
  ASSUME out \in Seq(Outs), NEW s \in Outs, NEW break \in BOOLEAN, Output(s, break),
         Nothing \in Seen
  PROVE  Adds(s)
<1>1. CASE ~break
  <2>1. out' = Append(out, s)
    BY <1>1 DEF Output
  <2> QED
    BY <2>1, AppendAdds
<1>2. CASE break
  <2> DEFINE o == Append(out, s)
  <2>1. <<>> \in Seq(Seen)
    OBVIOUS
  <2>2. Page \in Outs /\ Page.kind = "page"
    BY <2>1 DEF Page, Outs
  <2>3. /\ Len(out) \in Nat /\ DOMAIN out = 1..Len(out)
        /\ o \in Seq(Outs) /\ Len(o) = Len(out) + 1
        /\ \A i \in 1..Len(out) : o[i] = out[i]
        /\ o[Len(out) + 1] = s
    OBVIOUS
  <2>4. out' = Append(o, Page)
    <3>1. out' = out \o <<s, Page>>
      BY <1>2 DEF Output
    <3>2. \A t : out \o <<s, t>> = Append(Append(out, s), t)
      OBVIOUS
    <3> QED
      BY <3>1, <3>2
  <2>5. /\ \A i \in 0..Len(out) : DataIn(o, i) = DataIn(out, i)
        /\ Cardinality(DataIn(o, Len(out) + 1)) = Done + (IF s.kind = "data" THEN 1 ELSE 0)
    BY AppendCounts DEF Done
  <2> HIDE DEF o
  <2>6. /\ out' \in Seq(Outs) /\ Len(out') = Len(out) + 2
        /\ DOMAIN out' = 1..(Len(out) + 2)
        /\ \A i \in 1..(Len(out) + 1) : out'[i] = o[i]
        /\ out'[Len(out) + 2] = Page
    BY <2>2, <2>3, <2>4
  <2>7. /\ \A i \in 0..(Len(out) + 1) : DataIn(out', i) = DataIn(o, i)
        /\ Cardinality(DataIn(out', Len(out) + 2)) = Cardinality(DataIn(o, Len(out) + 1))
    <3>1. /\ \A i \in 0..Len(o) : DataIn(Append(o, Page), i) = DataIn(o, i)
          /\ Cardinality(DataIn(Append(o, Page), Len(o) + 1))
               = Cardinality(DataIn(o, Len(o))) + (IF Page.kind = "data" THEN 1 ELSE 0)
      BY <2>2, <2>3, AppendCounts
    <3>2. Cardinality(DataIn(o, Len(o))) \in Nat
      BY <2>3, DataInFinite
    <3> QED
      BY <2>2, <2>3, <2>4, <3>1, <3>2
  <2>8. Done' = Cardinality(DataIn(out', Len(out) + 1))
    BY <2>3, <2>6, <2>7 DEF Done
  <2>9. Cardinality(DataIn(out', Len(out) + 1)) = Done + (IF s.kind = "data" THEN 1 ELSE 0)
    BY <2>3, <2>5, <2>7
  <2>10. \A i \in DOMAIN out : DataIn(out', i) = DataIn(out, i)
    BY <2>3, <2>5, <2>7
  <2> QED
    BY <2>3, <2>6, <2>8, <2>9, <2>10 DEF Adds
<1> QED
  BY <1>1, <1>2

-----------------------------------------------------------------------------
(* Every row is printed once.                                              *)

Types ==
  /\ layout \in Layouts
  /\ at \in 1..(N + 1) /\ foot \in 0..N
  /\ footers \in BOOLEAN /\ stopped \in BOOLEAN
  /\ last = [p \in 1..N |-> last[p]]
  /\ counted \in [Counters -> Seq(Seen)]
  /\ out \in Seq(Outs)
  /\ phase \in {"break", "page"} => foot >= at

\* The row the report has come to.
Row == batch.counter + 1

\* The rows printed are those before that row.
Progress ==
  /\ phase \in {"row", "header", "foot", "break", "page"} => Done = batch.counter
  /\ phase = "next" => Done = Row /\ at = N + 1
  /\ phase = "end" /\ ~stopped => Done = Turns /\ Row = Turns
  /\ Complete => Done = Turns

\* A row is printed without its data only when the report has been stopped,
\* and then it is the last.
RowsPrinted ==
  \A i \in DOMAIN out : out[i].kind = "data" =>
    \/ out[i].row = Cursor!RowAt(rows, Cardinality(DataIn(out, i)))
    \/ /\ stopped /\ phase \in {"next", "end", "idle"}
       /\ Cardinality(DataIn(out, i)) = Done

RowInv == Types /\ Progress /\ RowsPrinted

\* What is shown is the row the report has come to, or the one before it.
LEMMA HereIsRow ==
  ASSUME Inv, phase # "idle"
  PROVE  /\ Here \in Seen
         /\ ~Back => Here = Cursor!RowAt(rows, Row)
         /\ Back => Here = Cursor!RowAt(rows, batch.counter)
<1>1. batch.open /\ (batch.previous <=> Back)
  BY DEF Inv, Stepping
<1>2. Shown(batch) = Cursor!RowAt(rows, CursorAt)
  BY <1>1, ShownRow DEF ShowsRow
<1>3. CursorAt = batch.counter + (IF batch.previous THEN 0 ELSE 1) /\ batch.counter \in Nat
  BY <1>1 DEF CursorAt, Inv, BatchTypes
<1>4. \A i : Cursor!RowAt(rows, i) \in Seen
  BY DEF Inv, BatchTypes, Seen, Cursor!RowAt
<1> QED
  BY <1>1, <1>2, <1>3, <1>4 DEF Here, Row

\* Whether there is a row to come to, and where the result ends.
LEMMA RowInResult ==
  ASSUME Inv, phase # "idle"
  PROVE  /\ batch.counter \in Nat /\ Len(rows) \in Nat
         /\ DOMAIN rows = 1..Len(rows)
         /\ rows = <<>> <=> MaxRows = 0
         /\ rows = <<>> <=> Len(rows) = 0
         /\ rows = <<>> => Row = 1 /\ MaxRows = 0
         /\ rows # <<>> => MaxRows > 0 /\ Row \in 1..Len(rows) /\ batch.read = Row
BY DEF Inv, BatchTypes, Window, Stepping, MaxRows, Row

LEMMA SectionType ==
  ASSUME Inv, phase # "idle", Types, NEW kind \in {"header", "footer", "data", "report"},
         NEW p \in Int, NEW count \in Seq(Seen)
  PROVE  /\ Section(kind, p, count) \in Outs
         /\ Section(kind, p, count).kind = kind
         /\ Section(kind, p, count).pair = p
         /\ ~stopped => /\ Section(kind, p, count).row = Here
                        /\ Section(kind, p, count).count = count
<1>1. Here \in Seen /\ Nothing \in Seen /\ <<>> \in Seq(Seen)
  BY HereIsRow DEF Seen
<1> QED
  BY <1>1 DEF Section, Outs

LEMMA CountType ==
  ASSUME Inv, phase # "idle", Types, NEW s \in Counters
  PROVE  Count(s) \in Seq(Seen)
<1>1. Here \in Seen /\ counted[s] \in Seq(Seen)
  BY HereIsRow DEF Types
<1> QED
  BY <1>1 DEF Count

LEMMA PairsType ==
  ASSUME Types
  PROVE  /\ N \in Nat /\ Counters = 0..(N + 1)
         /\ DataSection \in Counters /\ ReportFooter \in Counters
         /\ 1..N \subseteq Counters
<1>1. N \in Nat
  BY ReportAssumption DEF Types, N
<1> QED
  BY <1>1 DEF Counters, DataSection, ReportFooter

\* A section that prints no row leaves the rows as they are.
LEMMA AddsNoRow ==
  ASSUME Types, RowsPrinted, NEW s \in Outs, Adds(s), s.kind # "data", UNCHANGED <<rows, stopped>>,
         phase \in {"next", "end", "idle"} => phase' \in {"next", "end", "idle"}
  PROVE  RowsPrinted' /\ Done' = Done
<1>1. Done' = Done
  BY DataInFinite, SMTT(20) DEF Adds, Done, Types
<1>2. SUFFICES ASSUME NEW i \in DOMAIN out', out'[i].kind = "data"
      PROVE  \/ out'[i].row = Cursor!RowAt(rows, Cardinality(DataIn(out', i)))
             \/ /\ stopped /\ phase' \in {"next", "end", "idle"}
                /\ Cardinality(DataIn(out', i)) = Done
  BY <1>1 DEF RowsPrinted, Cursor!RowAt
<1>3. i \in DOMAIN out
  BY <1>2 DEF Adds, Page
<1>4. out'[i] = out[i] /\ DataIn(out', i) = DataIn(out, i)
  BY <1>3 DEF Adds
<1> QED
  BY <1>2, <1>3, <1>4 DEF RowsPrinted

\* A step that prints nothing leaves the rows as they are.
LEMMA PrintsNothing ==
  ASSUME RowsPrinted, out' = out, rows' = rows, stopped => stopped',
         phase \in {"next", "end", "idle"} /\ stopped => phase' \in {"next", "end", "idle"}
  PROVE  RowsPrinted' /\ Done' = Done
BY DEF RowsPrinted, Done, Cursor!RowAt

LEMMA TypesNext ==
  ASSUME Inv, Types, [Next]_vars
  PROVE  Types'
<1>0. /\ N \in Nat /\ Counters = 0..(N + 1) /\ 1..N \subseteq Counters
      /\ DataSection \in Counters /\ ReportFooter \in Counters
  BY PairsType
<1>a. <<>> \in Seq(Seen) /\ Nothing \in Seen
  BY DEF Seen
<1>b. Page \in Outs
  BY <1>a DEF Page, Outs
<1>c. ASSUME layout' = layout
      PROVE  N' = N /\ Counters' = Counters
  BY <1>c DEF N, Counters
<1>d. /\ at \in 1..(N + 1) /\ foot \in 0..N /\ layout \in Layouts
      /\ footers \in BOOLEAN /\ stopped \in BOOLEAN
      /\ last = [p \in 1..N |-> last[p]]
      /\ counted \in [Counters -> Seq(Seen)] /\ out \in Seq(Outs)
  BY DEF Types
<1>e. \A p \in 1..N : \A v : LET l == [last EXCEPT ![p] = v] IN l = [q \in 1..N |-> l[q]]
  BY <1>d
<1>1. CASE Execute
  <2>1. layout' = layout /\ at' = at /\ foot' = foot /\ footers' = footers
        /\ stopped' = FALSE /\ out' = <<>> /\ phase' = "row"
        /\ last' = [p \in 1..N |-> Blank]
    BY <1>1 DEF Execute
  <2>2. counted' \in [Counters -> Seq(Seen)]
    BY <1>1, <1>0, <1>a, <1>d DEF Execute
  <2>3. out' \in Seq(Outs)
    BY <2>1
  <2>4. last' = [p \in 1..N |-> last'[p]]
    BY <2>1
  <2> QED
    BY <1>c, <1>d, <2>1, <2>2, <2>3, <2>4 DEF Types
<1>2. CASE BeginRow
  <2>1. at' = 1 /\ phase' = "header" /\ stopped' \in BOOLEAN /\ footers' = TRUE
        /\ UNCHANGED <<layout, foot, last, counted, out>>
    BY <1>2, <1>d DEF BeginRow, MayStop
  <2> QED
    BY <1>0, <1>c, <1>d, <2>1 DEF Types
<1>3. CASE NoHeader \/ UNCHANGED vars
  <2>1. UNCHANGED vars
    BY <1>3 DEF NoHeader
  <2> QED
    BY <1>c, <1>d, <2>1 DEF Types, vars
<1>4. CASE StepBack
  <2>1. phase' = "foot" /\ foot' = N
        /\ UNCHANGED <<layout, at, footers, last, counted, stopped, out>>
    BY <1>4 DEF StepBack
  <2> QED
    BY <1>0, <1>c, <1>d, <2>1 DEF Types
<1>5. CASE Footer
  <2>0. foot \in 1..N /\ foot >= at /\ phase # "idle"
    BY <1>5, <1>0, <1>d DEF Footer
  <2>1. /\ UNCHANGED <<layout, at, footers, stopped>>
        /\ \/ phase' = "break" /\ foot' = foot
           \/ phase' = "foot" /\ foot' = foot - 1
    BY <1>5 DEF Footer, Footed
  <2>a. foot' \in 0..N /\ (phase' \in {"break", "page"} => foot' >= at')
    BY <1>0, <1>d, <2>0, <2>1
  <2>2. last' = [p \in 1..N |-> last'[p]]
    <3>1. last' = last \/ last' = [last EXCEPT ![foot] = Blank]
      BY <1>5 DEF Footer, Footed
    <3> QED
      BY <1>d, <1>e, <2>0, <3>1
  <2>3. counted' \in [Counters -> Seq(Seen)]
    <3>1. counted' = counted \/ counted' = [counted EXCEPT ![foot] = <<>>]
      BY <1>5 DEF Footer
    <3> QED
      BY <1>a, <1>d, <3>1
  <2>4. out' \in Seq(Outs)
    <3>1. out' = out \/ out' = Append(out, Section("footer", foot, counted[foot]))
      BY <1>5 DEF Footer
    <3>2. foot \in Int /\ counted[foot] \in Seq(Seen)
      BY <1>0, <1>d, <2>0
    <3> DEFINE s == Section("footer", foot, counted[foot])
    <3>3. s \in Outs
      BY <2>0, <3>2, SectionType
    <3>4. out' = out \/ out' = Append(out, s)
      BY <3>1
    <3> HIDE DEF s
    <3> QED
      BY <1>d, <3>4, <3>3, SMTT(20)
  <2> QED
    BY <1>c, <1>d, <2>1, <2>a, <2>2, <2>3, <2>4 DEF Types
<1>6. CASE StepToPage
  <2>1. phase = "break" /\ UNCHANGED <<layout, at, foot, footers, last, counted, stopped, out>>
    BY <1>6 DEF StepToPage
  <2> QED
    BY <1>c, <1>d, <2>1 DEF Types
<1>7. CASE NewPage
  <2>1. out' = Append(out, Page) /\ stopped' \in BOOLEAN
        /\ UNCHANGED <<layout, at, footers, counted>>
    BY <1>7, <1>d DEF NewPage, MayStop
  <2>2. out' \in Seq(Outs)
    BY <1>b, <1>d, <2>1
  <2>3. CASE stopped'
    <3>1. UNCHANGED <<foot, last>>
      BY <1>7, <2>3 DEF NewPage
    <3>2. phase' = "idle"
      BY <1>7, <2>3 DEF NewPage
    <3> QED
      BY <1>c, <1>d, <2>1, <2>2, <3>1, <3>2 DEF Types
  <2>4. CASE ~stopped'
    <3>1. foot' = foot - 1 /\ last' = [last EXCEPT ![foot] = Blank]
      BY <1>7, <2>4 DEF NewPage, Footed
    <3>2. foot \in 1..N /\ phase' = "foot"
      BY <1>7, <2>4, <1>0, <1>d DEF NewPage, Types, Footed
    <3>3. last' = [p \in 1..N |-> last'[p]]
      BY <1>d, <1>e, <3>1, <3>2
    <3>4. foot' \in 0..N
      BY <1>0, <3>1, <3>2
    <3> QED
      BY <1>c, <1>d, <2>1, <2>2, <3>2, <3>3, <3>4 DEF Types
  <2> QED
    BY <2>3, <2>4
<1>8. CASE StepForward
  <2>1. phase' = "header" /\ footers' = FALSE /\ counted' = [counted EXCEPT ![DataSection] = <<>>]
        /\ UNCHANGED <<layout, at, foot, last, stopped, out>>
    BY <1>8 DEF StepForward
  <2>2. counted' \in [Counters -> Seq(Seen)]
    BY <1>a, <1>d, <2>1
  <2> QED
    BY <1>c, <1>d, <2>1, <2>2 DEF Types
<1>9. CASE Header
  <2>0. at \in 1..N /\ phase # "idle"
    BY <1>9, <1>0, <1>d DEF Header
  <2>1. phase' = "header" /\ at' = at + 1 /\ UNCHANGED <<layout, foot, footers, stopped>>
    BY <1>9 DEF Header
  <2>2. last' = [p \in 1..N |-> last'[p]]
    <3>1. last' = last \/ last' = [last EXCEPT ![at] = Field(at)]
      BY <1>9 DEF Header
    <3> QED
      BY <1>d, <1>e, <2>0, <3>1
  <2>3. counted' \in [Counters -> Seq(Seen)]
    <3>1. counted' = [counted EXCEPT ![at] = IF Pair(at).footer THEN Count(at) ELSE @]
      BY <1>9 DEF Header
    <3>2. Count(at) \in Seq(Seen)
      BY <1>0, <2>0, CountType
    <3> QED
      BY <1>d, <3>1, <3>2
  <2>4. out' \in Seq(Outs)
    <3>1. CASE HeaderDue(at)
      <4> DEFINE s == Section("header", at, <<>>)
                 b == "header" \in Pair(at).breaks
      <4>0. at \in Int
        BY <2>0
      <4>a. phase # "idle" /\ <<>> \in Seq(Seen)
        BY <1>a, <2>0
      <4>1. s \in Outs
        BY <4>a, <4>0, SectionType
      <4>b. b \in BOOLEAN
        OBVIOUS
      <4>2. Output(s, b)
        BY <1>9, <3>1 DEF Header
      <4> HIDE DEF s, b
      <4> QED
        BY <1>a, <1>d, <4>1, <4>b, <4>2, OutputAdds DEF Adds
    <3>2. CASE ~HeaderDue(at)
      BY <1>9, <1>d, <3>2 DEF Header
    <3> QED
      BY <3>1, <3>2
  <2>5. at' \in 1..(N + 1)
    BY <1>0, <2>0, <2>1
  <2> QED
    BY <1>c, <1>d, <2>1, <2>2, <2>3, <2>4, <2>5 DEF Types
<1>10. CASE Data
  <2>1. UNCHANGED <<layout, at, foot, footers, last, stopped>>
        /\ phase # "idle" /\ phase' = "next"
    BY <1>10 DEF Data
  <2>2. Count(DataSection) \in Seq(Seen) /\ Count(ReportFooter) \in Seq(Seen)
    BY <1>0, <2>1, CountType
  <2>3. counted' \in [Counters -> Seq(Seen)]
    BY <1>10, <1>d, <2>2 DEF Data
  <2>4. out' \in Seq(Outs)
    <3>1. Output(Section("data", 0, Count(DataSection)), layout.breakdata)
      BY <1>10 DEF Data
    <3>2. Section("data", 0, Count(DataSection)) \in Outs
      BY <2>1, <2>2, SectionType
    <3>3. CASE layout.breakdata
      <4>1. Output(Section("data", 0, Count(DataSection)), TRUE)
        BY <3>1, <3>3 DEF Output
      <4> QED
        BY <1>a, <1>d, <3>2, <4>1, OutputAdds DEF Adds
    <3>4. CASE ~layout.breakdata
      <4>1. Output(Section("data", 0, Count(DataSection)), FALSE)
        BY <3>1, <3>4 DEF Output
      <4> QED
        BY <1>a, <1>d, <3>2, <4>1, OutputAdds DEF Adds
    <3> QED
      BY <3>3, <3>4
  <2> QED
    BY <1>c, <1>d, <2>1, <2>3, <2>4 DEF Types
<1>11. CASE NextRow
  <2>1. phase' \in {"row", "end"} /\ foot' = N
        /\ UNCHANGED <<layout, at, footers, last, counted, stopped, out>>
    BY <1>11 DEF NextRow
  <2> QED
    BY <1>0, <1>c, <1>d, <2>1 DEF Types
<1>12. CASE LastFooter
  <2>0. foot \in 1..N /\ phase # "idle" /\ phase' = "end" /\ foot' = foot - 1
        /\ UNCHANGED <<layout, at, footers, last, stopped>>
    BY <1>12, <1>0, <1>d DEF LastFooter
  <2>1. counted[foot] \in Seq(Seen)
    BY <1>0, <1>d, <2>0
  <2>2. counted' \in [Counters -> Seq(Seen)]
    <3>1. counted' = counted \/ counted' = [counted EXCEPT ![foot] = <<>>]
      BY <1>12 DEF LastFooter
    <3> QED
      BY <1>a, <1>d, <3>1
  <2>3. out' \in Seq(Outs)
    <3>1. CASE Pair(foot).footer /\ FooterDue(foot)
      <4> DEFINE s == Section("footer", foot, counted[foot])
                 b == "footer" \in Pair(foot).breaks
      <4>0. foot \in Int
        BY <2>0
      <4>1. s \in Outs
        <5>1. phase # "idle"
          BY <2>0
        <5> QED
          BY <2>1, <4>0, <5>1, SectionType
      <4>2. b \in BOOLEAN
        OBVIOUS
      <4>3. Output(s, b)
        BY <1>12, <3>1 DEF LastFooter
      <4> HIDE DEF s, b
      <4> QED
        BY <1>a, <1>d, <4>1, <4>2, <4>3, OutputAdds DEF Adds
    <3>2. CASE ~(Pair(foot).footer /\ FooterDue(foot))
      BY <1>12, <1>d, <3>2 DEF LastFooter
    <3> QED
      BY <3>1, <3>2
  <2>4. foot' \in 0..N
    BY <1>0, <2>0
  <2> QED
    BY <1>c, <1>d, <2>0, <2>2, <2>3, <2>4 DEF Types
<1>13. CASE Finish
  <2>1. out' = Append(out, Section("report", 0, counted[ReportFooter]))
        /\ phase # "idle" /\ phase' = "idle"
        /\ UNCHANGED <<layout, at, foot, footers, last, counted, stopped>>
    BY <1>13 DEF Finish
  <2>2. counted[ReportFooter] \in Seq(Seen)
    BY <1>0, <1>d
  <2>3. out' \in Seq(Outs)
    <3> DEFINE s == Section("report", 0, counted[ReportFooter])
    <3>a. phase # "idle"
      BY <2>1
    <3>1. s \in Outs
      BY <3>a, <2>2, SectionType
    <3>2. out' = Append(out, s)
      BY <2>1
    <3> HIDE DEF s
    <3> QED
      BY <1>d, <3>1, <3>2
  <2> QED
    BY <1>c, <1>d, <2>1, <2>3 DEF Types
<1> QED
  BY <1>1, <1>2, <1>3, <1>4, <1>5, <1>6, <1>7, <1>8, <1>9, <1>10, <1>11, <1>12, <1>13
     DEF Next, PrintStep

\* Before the first report nothing has been printed.
LEMMA RowInit == ReportInit => RowInv
<1> SUFFICES ASSUME ReportInit PROVE RowInv
  OBVIOUS
<1>1. layout \in Layouts /\ N \in Nat
  BY ReportAssumption DEF ReportInit, N
<1>2. /\ phase = "idle" /\ at = 1 /\ foot = 0 /\ footers = TRUE
      /\ last = [p \in 1..N |-> Blank] /\ stopped = FALSE /\ out = <<>>
      /\ counted = [s \in Counters |-> <<>>]
  BY DEF ReportInit
<1>3. counted \in [Counters -> Seq(Seen)]
  <2>1. <<>> \in Seq(Seen)
    OBVIOUS
  <2> QED
    BY <1>2, <2>1
<1>4. out \in Seq(Outs) /\ DOMAIN out = {}
  BY <1>2
<1>5. last = [p \in 1..N |-> last[p]]
  BY <1>2
<1>a. at \in 1..(N + 1) /\ foot \in 0..N
  BY <1>1, <1>2
<1>6. Types
  BY <1>1, <1>2, <1>3, <1>4, <1>5, <1>a DEF Types
<1>7. Progress /\ RowsPrinted
  BY <1>2, <1>4 DEF Progress, RowsPrinted, Complete
<1> QED
  BY <1>6, <1>7 DEF RowInv

\* The rows printed, and the row the report is at, from step to step.
LEMMA RowNext ==
  ASSUME Inv, Inv', RowInv, driver.steps, [Next]_vars
  PROVE  RowInv'
<1>0. Types /\ Progress /\ RowsPrinted /\ driver.steps
  BY DEF RowInv
<1>a. Types'
  BY <1>0, TypesNext
<1>b. ASSUME Progress', RowsPrinted'
      PROVE  RowInv'
  BY <1>a, <1>b DEF RowInv
<1>c. N' = N <=> Len(layout'.pairs) = Len(layout.pairs)
  BY DEF N
<1>d. /\ batch.counter \in Nat /\ batch'.counter \in Nat
      /\ batch'.maxrows \in Nat /\ batch'.read \in Nat
  BY DEF Inv, BatchTypes
<1>e. Done \in Nat /\ <<>> \in Seq(Seen)
  BY <1>0, DataInFinite DEF Types, Done
<1>f. Page \in Outs /\ Page.kind = "page" /\ Nothing \in Seen
  BY <1>e DEF Page, Outs, Seen
<1>1. CASE Execute
  <2>1. phase' = "row" /\ out' = <<>>
    BY <1>1 DEF Execute
  <2>2. Done' = 0
    <3>1. DataIn(<<>>, 0) = {}
      BY DEF DataIn
    <3> QED
      BY <2>1, <3>1, FS_EmptySet DEF Done
  <2>3. batch'.counter = 0
    <3>1. ~batch.previous /\ driver' = driver
      BY <1>1 DEF Execute, Inv, Stepping, Back
    <3> QED
      BY <1>1, <3>1, EnableWindow DEF Execute, Inv
  <2>4. Progress' /\ RowsPrinted'
    BY <2>1, <2>2, <2>3 DEF Progress, RowsPrinted, Complete
  <2> QED
    BY <1>b, <2>4
<1>2. CASE BeginRow
  <2>1. /\ phase = "row" /\ phase' = "header" /\ (stopped => stopped')
        /\ UNCHANGED <<out, rows, batch>>
    BY <1>2 DEF BeginRow, MayStop
  <2>2. RowsPrinted' /\ Done' = Done
    BY <1>0, <2>1, PrintsNothing
  <2>3. Progress'
    BY <1>0, <2>1, <2>2 DEF Progress, Complete
  <2> QED
    BY <1>b, <2>2, <2>3
<1>3. CASE NoHeader \/ UNCHANGED vars
  <2>1. UNCHANGED vars
    BY <1>3 DEF NoHeader
  <2>2. RowsPrinted' /\ Done' = Done
    BY <1>0, <2>1, PrintsNothing DEF vars
  <2>3. Progress'
    BY <1>0, <2>1, <2>2 DEF Progress, Complete, Row, Turns, N, vars
  <2> QED
    BY <1>b, <2>2, <2>3
<1>4. CASE StepBack
  <2>1. /\ phase = "header" /\ phase' = "foot"
        /\ UNCHANGED <<out, rows, stopped>> /\ batch'.counter = batch.counter
    BY <1>4 DEF StepBack, GotoPrevious, Inv, BatchTypes
  <2>2. RowsPrinted' /\ Done' = Done
    BY <1>0, <2>1, PrintsNothing
  <2>3. Progress'
    BY <1>0, <2>1, <2>2 DEF Progress, Complete
  <2> QED
    BY <1>b, <2>2, <2>3
<1>5. CASE Footer
  <2>1. /\ phase = "foot" /\ phase' \in {"break", "foot"}
        /\ UNCHANGED <<rows, stopped, batch>>
    BY <1>5 DEF Footer, Footed
  <2>2. RowsPrinted' /\ Done' = Done
    <3>1. CASE Pair(foot).footer
      <4> DEFINE s == Section("footer", foot, counted[foot])
      <4>1. foot \in Int /\ foot \in Counters
        BY <1>0, <1>5, PairsType DEF Footer, Types
      <4>2. counted[foot] \in Seq(Seen) /\ phase # "idle"
        BY <1>0, <2>1, <4>1 DEF Types
      <4>3. s \in Outs /\ s.kind = "footer"
        BY <1>0, <4>1, <4>2, SectionType
      <4>4. out' = Append(out, s)
        BY <1>5, <3>1 DEF Footer
      <4> HIDE DEF s
      <4>5. Adds(s)
        BY <1>0, <4>3, <4>4, AppendAdds DEF Types
      <4> QED
        BY <1>0, <2>1, <4>3, <4>5, AddsNoRow
    <3>2. CASE ~Pair(foot).footer
      <4>1. out' = out
        BY <1>5, <3>2 DEF Footer
      <4> QED
        BY <1>0, <2>1, <4>1, PrintsNothing
    <3> QED
      BY <3>1, <3>2
  <2>3. Progress'
    BY <1>0, <2>1, <2>2 DEF Progress, Complete
  <2> QED
    BY <1>b, <2>2, <2>3
<1>6. CASE StepToPage \/ StepForward
  <2>1. /\ phase \in {"foot", "break"} /\ phase' \in {"page", "header"}
        /\ UNCHANGED <<out, rows, stopped>> /\ GotoNext /\ driver' = driver
    BY <1>6 DEF StepToPage, StepForward, GotoNext
  <2>2. batch'.counter = batch.counter
    <3>1. batch.previous /\ batch.counter > 0 /\ batch.open
      BY <2>1 DEF Inv, Stepping, Back
    <3>2. batch' = [batch EXCEPT !.previous = FALSE]
      BY <1>0, <2>1, <3>1, NextWindow DEF Inv
    <3> QED
      BY <3>2 DEF Inv, BatchTypes
  <2>3. RowsPrinted' /\ Done' = Done
    BY <1>0, <2>1, PrintsNothing
  <2>4. Progress'
    BY <1>0, <2>1, <2>2, <2>3 DEF Progress, Complete
  <2> QED
    BY <1>b, <2>3, <2>4
<1>7. CASE NewPage
  <2>1. /\ phase = "page" /\ out' = Append(out, Page) /\ (stopped => stopped')
        /\ \/ phase' = "idle" /\ stopped' /\ UNCHANGED <<rows, batch>>
           \/ phase' = "foot" /\ ~stopped' /\ GotoPrevious
    BY <1>7 DEF NewPage, MayStop, Footed
  <2>2. rows' = rows /\ batch'.counter = batch.counter
    BY <2>1 DEF GotoPrevious, Inv, BatchTypes
  <2>3. Adds(Page)
    BY <1>0, <1>f, <2>1, AppendAdds DEF Types
  <2>4. Done' = Done
    BY <1>e, <1>f, <2>3 DEF Adds
  <2>5. RowsPrinted'
    <3>1. \A i \in DOMAIN out' : out'[i].kind = "data" =>
            i \in DOMAIN out /\ out'[i] = out[i] /\ DataIn(out', i) = DataIn(out, i)
      BY <1>f, <2>3 DEF Adds
    <3>2. \A i \in DOMAIN out : out[i].kind = "data" =>
            out[i].row = Cursor!RowAt(rows, Cardinality(DataIn(out, i)))
      BY <1>0, <2>1 DEF RowsPrinted
    <3> QED
      BY <2>2, <3>1, <3>2 DEF RowsPrinted, Cursor!RowAt
  <2>6. Progress'
    BY <1>0, <2>1, <2>2, <2>4 DEF Progress, Complete
  <2> QED
    BY <1>b, <2>5, <2>6
<1>8. CASE Header
  <2>1. /\ phase = "header" /\ phase' = "header"
        /\ UNCHANGED <<rows, stopped, batch>>
    BY <1>8 DEF Header
  <2>2. RowsPrinted' /\ Done' = Done
    <3>1. CASE HeaderDue(at)
      <4> DEFINE s == Section("header", at, <<>>)
                 b == "header" \in Pair(at).breaks
      <4>1. at \in Int /\ phase # "idle"
        BY <1>0, <2>1 DEF Types
      <4>2. s \in Outs /\ s.kind = "header"
        <5>1. phase # "idle" /\ at \in Int /\ <<>> \in Seq(Seen) /\ Types
          BY <1>0, <1>e, <4>1
        <5>2. s \in Outs
          BY <5>1, SectionType
        <5>3. s.kind = "header"
          BY DEF Section
        <5> QED
          BY <5>2, <5>3
      <4>3. b \in BOOLEAN
        OBVIOUS
      <4>4. Output(s, b)
        BY <1>8, <3>1 DEF Header
      <4> HIDE DEF s, b
      <4>5. Adds(s)
        BY <1>0, <1>f, <4>2, <4>3, <4>4, OutputAdds DEF Types
      <4> QED
        BY <1>0, <2>1, <4>2, <4>5, AddsNoRow
    <3>2. CASE ~HeaderDue(at)
      <4>1. out' = out
        BY <1>8, <3>2 DEF Header
      <4> QED
        BY <1>0, <2>1, <4>1, PrintsNothing
    <3> QED
      BY <3>1, <3>2
  <2>3. Progress'
    BY <1>0, <2>1, <2>2 DEF Progress, Complete
  <2> QED
    BY <1>b, <2>2, <2>3
<1>9. CASE Data
  <2>1. /\ phase = "header" /\ phase' = "next" /\ at > N
        /\ UNCHANGED <<layout, at, rows, stopped, batch>>
        /\ Output(Section("data", 0, Count(DataSection)), layout.breakdata)
    BY <1>9 DEF Data
  <2> DEFINE s == Section("data", 0, Count(DataSection))
  <2>2. /\ s \in Outs /\ s.kind = "data" /\ (~stopped => s.row = Here)
    <3>1. phase # "idle" /\ DataSection \in Counters
      BY <1>0, <2>1, PairsType
    <3>2. Count(DataSection) \in Seq(Seen)
      BY <1>0, <3>1, CountType
    <3> QED
      BY <1>0, <3>1, <3>2, SectionType
  <2>3. Adds(s)
    <3>1. Output(s, TRUE) \/ Output(s, FALSE)
      BY <2>1 DEF Output
    <3> HIDE DEF s
    <3> QED
      BY <1>0, <1>f, <2>2, <3>1, OutputAdds DEF Types
  <2> HIDE DEF s
  <2>4. Done' = Row' /\ Cardinality(DataIn(out', Len(out) + 1)) = Row
    BY <1>0, <2>1, <2>2, <2>3 DEF Adds, Progress, Row
  <2>5. at' = N' + 1
    BY <1>0, <2>1, PairsType DEF Types, N
  <2>6. Progress'
    BY <2>1, <2>4, <2>5 DEF Progress, Complete
  <2>7. Here = Cursor!RowAt(rows, Row)
    BY <2>1, HereIsRow DEF Back
  <2>8. RowsPrinted'
    <3>1. \A i \in DOMAIN out : out[i].kind = "data" =>
            out[i].row = Cursor!RowAt(rows, Cardinality(DataIn(out, i)))
      BY <1>0, <2>1 DEF RowsPrinted
    <3>2. ASSUME NEW i \in DOMAIN out', out'[i].kind = "data"
          PROVE  \/ out'[i].row = Cursor!RowAt(rows, Cardinality(DataIn(out', i)))
                 \/ stopped /\ Cardinality(DataIn(out', i)) = Done'
      <4>1. CASE i \in DOMAIN out
        BY <3>1, <3>2, <4>1, <2>3 DEF Adds
      <4>2. CASE i = Len(out) + 1
        BY <4>2, <2>1, <2>2, <2>3, <2>4, <2>7 DEF Adds, Row
      <4> QED
        BY <1>f, <2>3, <3>2, <4>1, <4>2 DEF Adds
    <3> QED
      BY <2>1, <3>2 DEF RowsPrinted, Cursor!RowAt
  <2> QED
    BY <1>b, <2>6, <2>8
<1>10. CASE NextRow
  <2>1. /\ phase = "next" /\ phase' \in {"row", "end"} /\ GotoNext /\ driver' = driver
        /\ position' = position + 1
        /\ phase' = IF position' < batch'.maxrows /\ ~stopped THEN "row" ELSE "end"
        /\ UNCHANGED <<out, stopped>>
    BY <1>10 DEF NextRow
  <2>2. ~batch.previous /\ batch.open /\ position = batch.counter
    BY <2>1 DEF Inv, Stepping, Positions, Back
  <2>3. /\ rows' = rows /\ batch'.open
        /\ IF batch.read < Len(rows) THEN batch'.counter = batch.counter + 1
           ELSE batch' = batch
    BY <1>0, <2>1, <2>2, NextWindow DEF Inv
  <2>4. RowsPrinted' /\ Done' = Done
    BY <1>0, <2>1, <2>3, PrintsNothing
  <2>5. Done = batch.counter + 1
    BY <1>0, <2>1 DEF Progress, Row
  <2>6. phase' = "row" => Done' = batch'.counter
    BY <2>1, <2>2, <2>4, <2>5 DEF Inv, Positions
  <2>7. phase' = "end" /\ ~stopped => Done' = Turns' /\ Row' = Turns'
    <3>1. SUFFICES ASSUME phase' = "end", ~stopped PROVE Done' = Turns' /\ Row' = Turns'
      OBVIOUS
    <3>2. ~(batch.counter + 1 < batch'.maxrows)
      BY <2>1, <2>2, <3>1
    <3>3. CASE batch.read < Len(rows)
      <4>1. batch'.counter = batch.counter + 1 /\ rows # <<>>
        BY <2>3, <3>3 DEF Inv, BatchTypes
      <4>2. batch'.maxrows >= batch'.read /\ batch'.read = batch'.counter + 1
        BY <2>3, <4>1 DEF Inv, BatchTypes, Window
      <4> QED
        BY <1>d, <3>2, <4>1, <4>2
    <3>4. CASE ~(batch.read < Len(rows))
      <4>1. Turns = batch.counter + 1
        BY <2>2, <3>4 DEF Inv, BatchTypes, Window, Turns
      <4> QED
        BY <2>3, <2>4, <2>5, <3>4, <4>1 DEF Row, Turns
    <3> QED
      BY <3>3, <3>4
  <2>8. Progress'
    BY <2>1, <2>6, <2>7 DEF Progress, Complete
  <2> QED
    BY <1>b, <2>4, <2>8
<1>11. CASE LastFooter
  <2>1. /\ phase = "end" /\ phase' = "end" /\ foot \in 1..N
        /\ UNCHANGED <<rows, stopped, batch>>
    BY <1>0, <1>11 DEF LastFooter, Types
  <2>2. RowsPrinted' /\ Done' = Done
    <3>1. CASE Pair(foot).footer /\ FooterDue(foot)
      <4> DEFINE s == Section("footer", foot, counted[foot])
                 b == "footer" \in Pair(foot).breaks
      <4>1. foot \in Int /\ phase # "idle" /\ counted[foot] \in Seq(Seen)
        BY <1>0, <2>1, PairsType DEF Types
      <4>2. s \in Outs /\ s.kind = "footer"
        BY <1>0, <4>1, SectionType
      <4>3. b \in BOOLEAN
        OBVIOUS
      <4>4. Output(s, b)
        BY <1>11, <3>1 DEF LastFooter
      <4> HIDE DEF s, b
      <4>5. Adds(s)
        BY <1>0, <1>f, <4>2, <4>3, <4>4, OutputAdds DEF Types
      <4> QED
        BY <1>0, <2>1, <4>2, <4>5, AddsNoRow
    <3>2. CASE ~(Pair(foot).footer /\ FooterDue(foot))
      <4>1. out' = out
        BY <1>11, <3>2 DEF LastFooter
      <4> QED
        BY <1>0, <2>1, <4>1, PrintsNothing
    <3> QED
      BY <3>1, <3>2
  <2>3. Progress'
    BY <1>0, <2>1, <2>2 DEF Progress, Complete, Row, Turns
  <2> QED
    BY <1>b, <2>2, <2>3
<1>12. CASE Finish
  <2>1. /\ phase = "end" /\ phase' = "idle" /\ UNCHANGED <<rows, stopped>>
        /\ out' = Append(out, Section("report", 0, counted[ReportFooter]))
    BY <1>12 DEF Finish, Disable
  <2>2. RowsPrinted' /\ Done' = Done
    <3> DEFINE s == Section("report", 0, counted[ReportFooter])
    <3>1. phase # "idle" /\ counted[ReportFooter] \in Seq(Seen)
      BY <1>0, <2>1, PairsType DEF Types
    <3>2. s \in Outs /\ s.kind = "report"
      BY <1>0, <3>1, SectionType
    <3>3. out' = Append(out, s)
      BY <2>1
    <3> HIDE DEF s
    <3>4. Adds(s)
      BY <1>0, <3>2, <3>3, AppendAdds DEF Types
    <3> QED
      BY <1>0, <2>1, <3>2, <3>4, AddsNoRow
  <2>3. Progress'
    BY <1>0, <2>1, <2>2 DEF Progress, Complete, Turns
  <2> QED
    BY <1>b, <2>2, <2>3
<1> QED
  BY <1>1, <1>2, <1>3, <1>4, <1>5, <1>6, <1>7, <1>8, <1>9, <1>10, <1>11, <1>12
     DEF Next, PrintStep

LEMMA AlwaysRows ==
  ASSUME \A d \in Drivers : d.steps, ~SteppedBefore
  PROVE  Spec => [](Inv /\ RowInv /\ driver.steps)
<1>1. ReportInit => RowInv
  BY RowInit
<1>2. Inv /\ Inv' /\ driver.steps /\ RowInv /\ [Next]_vars => RowInv'
  BY RowNext
<1> QED
  BY <1>1, <1>2, AlwaysInv, PTL DEF Spec

\* Every row of the result is printed, once and in order, however often the
\* report steps back for footers and new pages; only the row at which it was
\* stopped may be printed without its data (the main loop of internal_execute,
\* actual_string).
THEOREM RowsArePrintedOnce ==
  ASSUME \A d \in Drivers : d.steps, ~SteppedBefore
  PROVE  Spec => []EveryRowOnce
<1>1. RowInv => EveryRowOnce
  BY PrintedIsDataIn DEF RowInv, RowsPrinted, Progress, EveryRowOnce
<1> QED
  BY <1>1, AlwaysRows, PTL

-----------------------------------------------------------------------------
(* Groups.                                                                 *)

\* Rows r and s agree in the columns of the outermost p pairs of layout l.
SameIn(l, r, s, p) ==
  \A q \in 1..p : l.pairs[q].column # NoColumn =>
                    r.is[l.pairs[q].column] = s.is[l.pairs[q].column]

\* Row b of result r begins the group of pair p that row i is in.
BeginsIn(l, r, p, i, b) ==
  /\ \A j \in b..i : SameIn(l, r[j], r[i], p)
  /\ b = 1 \/ ~SameIn(l, r[b - 1], r[i], p)

GroupIn(l, r, p, i) ==
  IF r = <<>> THEN <<>> ELSE SubSeq(r, CHOOSE b \in 1..i : BeginsIn(l, r, p, i, b), i)

LEMMA GroupIsGroupIn ==
  \A p, i : Group(p, i) = GroupIn(layout, rows, p, i)
BY DEF Group, GroupBegin, Same, Pair, GroupIn, BeginsIn, SameIn

\* The shape of what is printed is a fold, see FoldLemmas; so are other things
\* below.
ShapeBy(p, acc, s) == IF s.kind \in Framed THEN Append(acc, <<s.kind, s.pair>>) ELSE acc
Shaping == INSTANCE FoldLemmas WITH Op <- ShapeBy

LEMMA SetInduction ==
  ASSUME NEW S \in SUBSET Nat, 0 \in S, \A n \in S : n + 1 \in S
  PROVE  S = Nat
BY Shaping!SetInduction

LEMMA LeastExists ==
  ASSUME NEW S \in SUBSET Nat, S # {}
  PROVE  \E n \in S : \A m \in S : n <= m
BY Shaping!LeastExists

LEMMA SameIsEquivalence ==
  ASSUME NEW l, NEW p
  PROVE  /\ \A r : SameIn(l, r, r, p)
         /\ \A r, s : SameIn(l, r, s, p) => SameIn(l, s, r, p)
         /\ \A r, s, t : SameIn(l, r, s, p) /\ SameIn(l, s, t, p) => SameIn(l, r, t, p)
BY DEF SameIn

\* A group goes on with a row that agrees with the row before.
LEMMA BeginsNext ==
  ASSUME NEW l, NEW r, NEW p, NEW i \in Nat, NEW b \in 1..i, BeginsIn(l, r, p, i, b),
         SameIn(l, r[i], r[i + 1], p)
  PROVE  BeginsIn(l, r, p, i + 1, b)
<1>1. \A j \in b..i : SameIn(l, r[j], r[i + 1], p)
  BY SameIsEquivalence DEF BeginsIn
<1>2. SameIn(l, r[i + 1], r[i + 1], p)
  BY SameIsEquivalence
<1>3. \A j \in b..(i + 1) : j \in b..i \/ j = i + 1
  OBVIOUS
<1>4. \A j \in b..(i + 1) : SameIn(l, r[j], r[i + 1], p)
  BY <1>1, <1>2, <1>3
<1>5. b # 1 => ~SameIn(l, r[b - 1], r[i + 1], p)
  BY SameIsEquivalence DEF BeginsIn
<1> QED
  BY <1>4, <1>5 DEF BeginsIn

\* Or it begins with it.
LEMMA BeginsHere ==
  ASSUME NEW l, NEW r, NEW p, NEW i \in Nat \ {0},
         i = 1 \/ ~SameIn(l, r[i - 1], r[i], p)
  PROVE  /\ BeginsIn(l, r, p, i, i)
         /\ \A b \in 1..i : BeginsIn(l, r, p, i, b) => b = i
<1>1. \A j \in i..i : j = i
  OBVIOUS
<1>2. BeginsIn(l, r, p, i, i)
  BY <1>1, SameIsEquivalence DEF BeginsIn
<1>3. ASSUME NEW b \in 1..i, BeginsIn(l, r, p, i, b), b # i
      PROVE  FALSE
  <2>1. i - 1 \in b..i /\ i # 1
    BY <1>3
  <2> QED
    BY <1>3, <2>1 DEF BeginsIn
<1> QED
  BY <1>2, <1>3

LEMMA BeginsOnce ==
  ASSUME NEW l, NEW r, NEW p, NEW i \in Nat, NEW b \in 1..i, NEW c \in 1..i,
         BeginsIn(l, r, p, i, b), BeginsIn(l, r, p, i, c)
  PROVE  b = c
<1>1. ASSUME NEW d \in 1..i, NEW e \in 1..i, BeginsIn(l, r, p, i, d),
             BeginsIn(l, r, p, i, e), d < e
      PROVE  FALSE
  <2>1. e - 1 \in d..i /\ e # 1
    BY <1>1
  <2> QED
    BY <1>1, <2>1 DEF BeginsIn
<1>2. b < c \/ c < b \/ b = c
  OBVIOUS
<1> QED
  BY <1>1, <1>2

\* Every row is in a group.
LEMMA BeginsSomewhere ==
  ASSUME NEW l, NEW r, NEW p, NEW i \in Nat \ {0}
  PROVE  \E b \in 1..i : BeginsIn(l, r, p, i, b)
<1> DEFINE S == { n \in Nat : \E b \in 1..(n + 1) : BeginsIn(l, r, p, n + 1, b) }
<1>1. 0 \in S
  <2>1. BeginsIn(l, r, p, 1, 1)
    BY BeginsHere
  <2>2. 0 \in Nat /\ 1 \in 1..(0 + 1) /\ 0 + 1 = 1
    OBVIOUS
  <2> QED
    BY <2>1, <2>2
<1>2. ASSUME NEW n \in S
      PROVE  n + 1 \in S
  <2>1. n \in Nat /\ n + 1 \in Nat /\ (n + 1) + 1 \in Nat \ {0}
        /\ ((n + 1) + 1) - 1 = n + 1
    OBVIOUS
  <2>2. PICK b \in 1..(n + 1) : BeginsIn(l, r, p, n + 1, b)
    BY <1>2
  <2>3. CASE SameIn(l, r[n + 1], r[(n + 1) + 1], p)
    <3>1. BeginsIn(l, r, p, (n + 1) + 1, b)
      BY <2>1, <2>2, <2>3, BeginsNext
    <3>2. b \in 1..((n + 1) + 1)
      BY <2>1
    <3> QED
      BY <2>1, <3>1, <3>2
  <2>4. CASE ~SameIn(l, r[n + 1], r[(n + 1) + 1], p)
    <3>1. BeginsIn(l, r, p, (n + 1) + 1, (n + 1) + 1)
      BY <2>1, <2>4, BeginsHere
    <3>2. (n + 1) + 1 \in 1..((n + 1) + 1)
      BY <2>1
    <3> QED
      BY <2>1, <3>1, <3>2
  <2> QED
    BY <2>3, <2>4
<1>3. S \in SUBSET Nat
  OBVIOUS
<1> HIDE DEF S
<1>4. S = Nat
  BY <1>1, <1>2, <1>3, SetInduction
<1>5. i - 1 \in S /\ (i - 1) + 1 = i
  BY <1>4
<1> QED
  BY <1>5 DEF S

LEMMA GroupFirst ==
  ASSUME NEW l, NEW r \in Seq(AllRows), NEW p, NEW i \in 1..Len(r),
         i = 1 \/ ~SameIn(l, r[i - 1], r[i], p)
  PROVE  GroupIn(l, r, p, i) = <<r[i]>>
<1>1. i \in Nat \ {0} /\ i \in 1..i /\ r # <<>>
  OBVIOUS
<1>2. /\ BeginsIn(l, r, p, i, i)
      /\ \A b \in 1..i : BeginsIn(l, r, p, i, b) => b = i
  BY <1>1, BeginsHere
<1>3. (CHOOSE b \in 1..i : BeginsIn(l, r, p, i, b)) = i
  BY <1>1, <1>2
<1>4. GroupIn(l, r, p, i) = SubSeq(r, i, i)
  BY <1>1, <1>3 DEF GroupIn
<1>5. SubSeq(r, i, i) = <<r[i]>>
  <2>1. SubSeq(r, i, i - 1) = <<>>
    BY <1>1
  <2>2. SubSeq(r, i, i) = Append(SubSeq(r, i, i - 1), r[i])
    BY <1>1
  <2>3. Append(<<>>, r[i]) = <<r[i]>>
    OBVIOUS
  <2> QED
    BY <2>1, <2>2, <2>3
<1> QED
  BY <1>4, <1>5

LEMMA GroupNext ==
  ASSUME NEW l, NEW r \in Seq(AllRows), NEW p, NEW i \in Nat \ {0}, i + 1 \in 1..Len(r),
         SameIn(l, r[i], r[i + 1], p)
  PROVE  GroupIn(l, r, p, i + 1) = Append(GroupIn(l, r, p, i), r[i + 1])
<1>1. r # <<>> /\ i + 1 \in Nat \ {0}
  OBVIOUS
<1> DEFINE b == CHOOSE c \in 1..i : BeginsIn(l, r, p, i, c)
           d == CHOOSE c \in 1..(i + 1) : BeginsIn(l, r, p, i + 1, c)
<1>2. b \in 1..i /\ BeginsIn(l, r, p, i, b)
  BY BeginsSomewhere
<1>3. d \in 1..(i + 1) /\ BeginsIn(l, r, p, i + 1, d)
  BY BeginsSomewhere, <1>1
<1>4. GroupIn(l, r, p, i) = SubSeq(r, b, i) /\ GroupIn(l, r, p, i + 1) = SubSeq(r, d, i + 1)
  BY <1>1 DEF GroupIn
<1> HIDE DEF b, d
<1>5. BeginsIn(l, r, p, i + 1, b) /\ b \in 1..(i + 1)
  BY <1>2, BeginsNext
<1>6. b = d
  BY <1>1, <1>3, <1>5, BeginsOnce
<1>7. SubSeq(r, b, i + 1) = Append(SubSeq(r, b, i), r[i + 1])
  BY <1>2
<1> QED
  BY <1>4, <1>6, <1>7

LEMMA GroupType ==
  ASSUME NEW l, NEW r \in Seq(AllRows), NEW p, NEW i \in Nat, r # <<>> => i \in 1..Len(r)
  PROVE  GroupIn(l, r, p, i) \in Seq(Seen)
<1>1. CASE r = <<>>
  BY <1>1 DEF GroupIn
<1>2. CASE r # <<>>
  <2> DEFINE b == CHOOSE c \in 1..i : BeginsIn(l, r, p, i, c)
  <2>1. i \in Nat \ {0}
    BY <1>2
  <2>2. b \in 1..i
    BY <2>1, BeginsSomewhere
  <2>3. GroupIn(l, r, p, i) = SubSeq(r, b, i)
    BY <1>2 DEF GroupIn
  <2> HIDE DEF b
  <2>4. AllRows \subseteq Seen
    BY DEF Seen
  <2>5. SubSeq(r, b, i) \in Seq(AllRows)
    BY <1>2, <2>2
  <2> QED
    BY <2>3, <2>4, <2>5
<1> QED
  BY <1>1, <1>2

-----------------------------------------------------------------------------
(* Suffixes.                                                               *)

LEMMA SuffixFromTheEnd ==
  ASSUME NEW S, NEW s \in Seq(S), NEW t \in Seq(S)
  PROVE  IsSuffix(s, t) <=>
           /\ Len(s) <= Len(t)
           /\ \A i \in 1..Len(s) : s[(Len(s) - i) + 1] = t[(Len(t) - i) + 1]
<1> DEFINE u == Reverse(s)
           v == Reverse(t)
<1>1. /\ u \in Seq(S) /\ Len(u) = Len(s)
      /\ \A i \in 1..Len(s) : u[i] = s[(Len(s) - i) + 1]
  BY DEF Reverse
<1>2. /\ v \in Seq(S) /\ Len(v) = Len(t)
      /\ \A i \in 1..Len(t) : v[i] = t[(Len(t) - i) + 1]
  BY DEF Reverse
<1>3. IsSuffix(s, t) <=> IsPrefix(u, v)
  BY DEF IsSuffix
<1> HIDE DEF u, v
<1>4. IsPrefix(u, v) <=> Len(u) <= Len(v) /\ \A i \in 1..Len(u) : u[i] = v[i]
  <2>1. ASSUME Len(u) <= Len(v)
        PROVE  /\ SubSeq(u, 1, Len(u)) = [i \in 1..Len(u) |-> u[i]]
               /\ SubSeq(v, 1, Len(u)) = [i \in 1..Len(u) |-> v[i]]
    BY <1>1, <1>2, <2>1
  <2> QED
    BY <2>1 DEF IsPrefix
<1>5. Len(s) \in Nat /\ Len(t) \in Nat
  OBVIOUS
<1>6. ASSUME Len(s) <= Len(t)
      PROVE  \A i \in 1..Len(s) : /\ u[i] = s[(Len(s) - i) + 1]
                                 /\ v[i] = t[(Len(t) - i) + 1]
  <2>1. \A i \in 1..Len(s) : i \in 1..Len(t)
    BY <1>5, <1>6
  <2> QED
    BY <1>1, <1>2, <2>1
<1>7. Len(u) = Len(s) /\ Len(v) = Len(t)
  BY <1>1, <1>2
<1> QED
  BY <1>3, <1>4, <1>6, <1>7

LEMMA SuffixProperties ==
  ASSUME NEW S, NEW s \in Seq(S), NEW t \in Seq(S), NEW e \in S
  PROVE  /\ IsSuffix(<<>>, t)
         /\ IsSuffix(<<e>>, Append(t, e))
         /\ IsSuffix(s, s)
         /\ IsSuffix(s, t) => IsSuffix(Append(s, e), Append(t, e))
<1> DEFINE f == Append(s, e)
           g == Append(t, e)
<1>1. /\ f \in Seq(S) /\ Len(f) = Len(s) + 1 /\ f[Len(s) + 1] = e
      /\ \A i \in 1..Len(s) : f[i] = s[i]
      /\ g \in Seq(S) /\ Len(g) = Len(t) + 1 /\ g[Len(t) + 1] = e
      /\ \A i \in 1..Len(t) : g[i] = t[i]
      /\ Len(s) \in Nat /\ Len(t) \in Nat
      /\ <<>> \in Seq(S) /\ Len(<<>>) = 0 /\ <<e>> \in Seq(S) /\ Len(<<e>>) = 1 /\ <<e>>[1] = e
  OBVIOUS
<1> HIDE DEF f, g
<1>2. IsSuffix(<<>>, t)
  <2>1. Len(<<>>) <= Len(t) /\ <<>> \in Seq(S)
    BY <1>1
  <2>2. \A i \in 1..Len(<<>>) : <<>>[(Len(<<>>) - i) + 1] = t[(Len(t) - i) + 1]
    BY <1>1
  <2> QED
    BY <2>1, <2>2, SuffixFromTheEnd
<1>3. IsSuffix(<<e>>, g)
  <2>1. Len(<<e>>) <= Len(g)
    BY <1>1
  <2>2. \A i \in 1..Len(<<e>>) : <<e>>[(Len(<<e>>) - i) + 1] = g[(Len(g) - i) + 1]
    BY <1>1
  <2> QED
    BY <1>1, <2>1, <2>2, SuffixFromTheEnd
<1>4. IsSuffix(s, s)
  BY <1>1, SuffixFromTheEnd
<1>5. ASSUME IsSuffix(s, t)
      PROVE  IsSuffix(f, g)
  <2>1. /\ Len(s) <= Len(t)
        /\ \A i \in 1..Len(s) : s[(Len(s) - i) + 1] = t[(Len(t) - i) + 1]
    BY <1>5, SuffixFromTheEnd
  <2>2. Len(f) <= Len(g)
    BY <1>1, <2>1
  <2>3. ASSUME NEW i \in 1..Len(f)
        PROVE  f[(Len(f) - i) + 1] = g[(Len(g) - i) + 1]
    <3>1. CASE i = 1
      BY <1>1, <3>1
    <3>2. CASE i # 1
      <4>1. i - 1 \in 1..Len(s)
        BY <1>1, <3>2
      <4>2. s[(Len(s) - (i - 1)) + 1] = t[(Len(t) - (i - 1)) + 1]
        BY <2>1, <4>1
      <4>3. (Len(s) - (i - 1)) + 1 = (Len(f) - i) + 1 /\ (Len(f) - i) + 1 \in 1..Len(s)
        BY <1>1, <4>1
      <4>4. (Len(t) - (i - 1)) + 1 = (Len(g) - i) + 1 /\ (Len(g) - i) + 1 \in 1..Len(t)
        BY <1>1, <2>1, <4>1
      <4> QED
        BY <1>1, <4>2, <4>3, <4>4
    <3> QED
      BY <3>1, <3>2
  <2> QED
    BY <1>1, <2>2, <2>3, SuffixFromTheEnd
<1> QED
  BY <1>2, <1>3, <1>4, <1>5 DEF f, g

-----------------------------------------------------------------------------
(* What the headers remember and the counters hold.                        *)

\* Counter c holds the group of pair p up to row i of result r.
Holding(l, r, p, i, c) ==
  IF l.pairs[p].column # NoColumn THEN c = GroupIn(l, r, p, i)
  ELSE IsSuffix(GroupIn(l, r, p, i), c)

\* Pair p has seen row i: its header remembers field f, its footer's counter c
\* holds the group up to the row.
Knowing(l, r, p, i, f, c) ==
  /\ r # <<>> /\ l.pairs[p].column # NoColumn => f = r[i].is[l.pairs[p].column]
  /\ l.pairs[p].footer => Holding(l, r, p, i, c)

\* Pair p waits for the first row of a group.
Waiting(l, p, f, c) ==
  l.pairs[p].column # NoColumn => f = Blank /\ (l.pairs[p].footer => c = <<>>)

Knows(p, i) == Knowing(layout, rows, p, i, last[p], counted[p])

Waits(p) == Waiting(layout, p, last[p], counted[p])

\* Pair p has seen the row that was printed last, if there is one.
KnowsBefore(p) == IF batch.counter = 0 THEN Waits(p) ELSE Knows(p, batch.counter)

Pairs ==
  /\ phase = "row" => \A p \in 1..N : KnowsBefore(p)
  /\ phase = "header" =>
       \A p \in 1..N : /\ p < at => Knows(p, Row)
                       /\ p >= at => IF footers THEN KnowsBefore(p) ELSE Waits(p)
  /\ phase \in {"foot", "break", "page"} =>
       \A p \in 1..N : /\ p < at => Knows(p, Row)
                       /\ p >= at /\ p < foot => Knows(p, batch.counter)
                       /\ p > foot => Waits(p)
  /\ phase = "foot" /\ foot >= at => Knows(foot, batch.counter)
  /\ phase \in {"break", "page"} =>
       (layout.pairs[foot].column # NoColumn /\ layout.pairs[foot].footer
          => counted[foot] = <<>>)
  /\ phase = "next" => \A p \in 1..N : Knows(p, Row)
  /\ phase = "end" /\ ~stopped =>
       \A p \in 1..foot :
         layout.pairs[p].footer => Holding(layout, rows, p, Row, counted[p])

\* The group of pair p ends before row i.
EndsIn(l, r, p, i) ==
  /\ l.pairs[p].column # NoColumn
  /\ r[i - 1].is[l.pairs[p].column] # r[i].is[l.pairs[p].column]

Ends(p) == EndsIn(layout, rows, p, Row)

\* Footers have been printed where a group has ended, and only there.
Endings ==
  /\ phase = "header" /\ ~footers =>
       batch.counter > 0 /\ \E e \in 1..N : e <= at /\ Ends(e)
  /\ phase = "header" /\ footers /\ batch.counter > 0 =>
       \A p \in 1..N : p < at => ~Ends(p)
  /\ phase \in {"foot", "break", "page"} => at <= N /\ Ends(at)

\* The counters of the data section and of the report's footer.
Totals ==
  /\ phase = "row" \/ (phase = "header" /\ footers) =>
       counted[DataSection]
         = IF batch.counter = 0 THEN <<>> ELSE GroupIn(layout, rows, N, batch.counter)
  /\ phase = "header" /\ ~footers => counted[DataSection] = <<>>
  /\ phase = "next" => counted[DataSection] = GroupIn(layout, rows, N, Row)
  /\ phase \in {"row", "header", "foot", "break", "page"} =>
       counted[ReportFooter] = SubSeq(rows, 1, batch.counter)
  /\ phase = "next" \/ (phase = "end" /\ ~stopped) =>
       counted[ReportFooter] = IF rows = <<>> THEN <<>> ELSE SubSeq(rows, 1, Row)

\* Section s, printed when n rows were, says what it should.
Summary(l, r, s, n) ==
  /\ s.kind = "footer" => s.row = Cursor!RowAt(r, n) /\ Holding(l, r, s.pair, n, s.count)
  /\ s.kind = "data" => s.count = GroupIn(l, r, Len(l.pairs), n)
  /\ s.kind = "report" => s.count = r

Summaries ==
  ~stopped => \A i \in DOMAIN out :
                Summary(layout, rows, out[i], Cardinality(DataIn(out, i)))

SumInv == Pairs /\ Endings /\ Totals /\ Summaries

-----------------------------------------------------------------------------
(* Lemmas about the row the report has come to.                            *)

LEMMA RowShown ==
  ASSUME Inv, phase \in {"header", "next", "row"}, rows # <<>>
  PROVE  /\ Here = rows[Row] /\ rows[Row] \in AllRows
         /\ \A p : Field(p) = IF layout.pairs[p].column = NoColumn THEN Blank
                              ELSE rows[Row].is[layout.pairs[p].column]
         /\ \A s : Count(s) = Append(counted[s], rows[Row])
<1>1. Row \in 1..Len(rows) /\ DOMAIN rows = 1..Len(rows) /\ MaxRows > 0
  BY RowInResult
<1>2. Here = rows[Row]
  BY <1>1, HereIsRow DEF Back, Cursor!RowAt
<1>3. rows[Row] \in AllRows
  BY <1>1 DEF Inv, BatchTypes
<1>4. Here # Nothing
  BY <1>2, <1>3, ReportAssumption
<1>5. \A p : Field(p) = IF layout.pairs[p].column = NoColumn THEN Blank
                        ELSE rows[Row].is[layout.pairs[p].column]
  BY <1>2, <1>4 DEF Field, Pair
<1>6. \A s : Count(s) = Append(counted[s], rows[Row])
  BY <1>1, <1>2 DEF Count
<1> QED
  BY <1>2, <1>3, <1>5, <1>6

LEMMA NoRowShown ==
  ASSUME Inv, phase # "idle", rows = <<>>
  PROVE  /\ \A s : Count(s) = counted[s]
         /\ batch.counter = 0 /\ Row = 1
         /\ \A l, p, i : GroupIn(l, rows, p, i) = <<>>
<1>1. MaxRows = 0 /\ Row = 1 /\ batch.counter \in Nat
  BY RowInResult
<1>2. batch.counter = 0
  BY <1>1 DEF Row
<1> QED
  BY <1>1, <1>2 DEF Count, GroupIn

\* Where no group has ended the rows agree.
LEMMA EndsOrSame ==
  ASSUME NEW l, NEW r, NEW p \in Nat, NEW i \in Nat
  PROVE  SameIn(l, r[i - 1], r[i], p) <=> \A q \in 1..p : ~EndsIn(l, r, q, i)
BY DEF SameIn, EndsIn

\* The groups at the row the report has come to.
LEMMA GroupAtRow ==
  ASSUME Inv, Types, Endings, phase = "header", rows # <<>>, NEW p \in 0..N,
         footers /\ batch.counter > 0 => \A q \in 1..p : ~Ends(q),
         ~footers => \E e \in 1..p : Ends(e)
  PROVE  GroupIn(layout, rows, p, Row)
           = IF batch.counter = 0 \/ ~footers THEN <<rows[Row]>>
             ELSE Append(GroupIn(layout, rows, p, batch.counter), rows[Row])
<1>1. /\ Row \in 1..Len(rows) /\ batch.counter \in Nat /\ Row = batch.counter + 1
      /\ rows \in Seq(AllRows) /\ Row - 1 = batch.counter /\ p \in Nat
  BY RowInResult, PairsType DEF Row, Inv, BatchTypes
<1>2. SameIn(layout, rows[Row - 1], rows[Row], p) <=> \A q \in 1..p : ~Ends(q)
  <2>1. Row \in Nat
    BY <1>1
  <2>2. SameIn(layout, rows[Row - 1], rows[Row], p)
          <=> \A q \in 1..p : ~EndsIn(layout, rows, q, Row)
    BY <1>1, <2>1, EndsOrSame
  <2> QED
    BY <2>2 DEF Ends
<1>3. CASE batch.counter = 0
  <2>1. Row = 1
    BY <1>1, <1>3
  <2> QED
    BY <1>1, <1>3, <2>1, GroupFirst
<1>4. CASE ~footers
  <2>1. ~SameIn(layout, rows[Row - 1], rows[Row], p)
    BY <1>2, <1>4
  <2>2. GroupIn(layout, rows, p, Row) = <<rows[Row]>>
    BY <1>1, <2>1, GroupFirst
  <2> QED
    BY <1>4, <2>2
<1>5. CASE batch.counter > 0 /\ footers
  <2>1. SameIn(layout, rows[batch.counter], rows[batch.counter + 1], p)
    BY <1>1, <1>2, <1>5
  <2>2. batch.counter \in Nat \ {0} /\ batch.counter + 1 \in 1..Len(rows)
    BY <1>1, <1>5
  <2>3. GroupIn(layout, rows, p, batch.counter + 1)
          = Append(GroupIn(layout, rows, p, batch.counter), rows[batch.counter + 1])
    BY <1>1, <2>1, <2>2, GroupNext
  <2>4. Row = batch.counter + 1 /\ batch.counter # 0
    BY <1>1, <1>5
  <2> QED
    BY <1>5, <2>3, <2>4
<1> QED
  BY <1>1, <1>3, <1>4, <1>5

\* A header that has been looked at has seen the row, whether it was due or not.
LEMMA HeaderKnows ==
  ASSUME Inv, Types, Pairs, Endings, phase = "header", at <= N, ~GroupEnds,
         NEW f, f = IF HeaderDue(at) THEN Field(at) ELSE last[at],
         NEW c, c = IF layout.pairs[at].footer THEN Count(at) ELSE counted[at]
  PROVE  /\ Knowing(layout, rows, at, Row, f, c)
         /\ footers /\ batch.counter > 0 => ~Ends(at)
<1>0. /\ at \in 1..N /\ N \in Nat /\ batch.counter \in Nat /\ Row = batch.counter + 1
      /\ at \in Counters
  BY PairsType, RowInResult DEF Types, Row
<1>a. counted[at] \in Seq(Seen)
  BY <1>0 DEF Types
<1>b. /\ footers /\ batch.counter = 0 => Waiting(layout, at, last[at], counted[at])
      /\ footers /\ batch.counter > 0 =>
           Knowing(layout, rows, at, batch.counter, last[at], counted[at])
      /\ ~footers => /\ Waiting(layout, at, last[at], counted[at])
                     /\ batch.counter > 0 /\ \E e \in 1..at : Ends(e)
  BY <1>0 DEF Pairs, KnowsBefore, Knows, Waits, Endings
<1>1. CASE rows = <<>>
  <2>1. /\ Count(at) = counted[at] /\ batch.counter = 0 /\ footers
        /\ GroupIn(layout, rows, at, Row) = <<>>
    BY <1>1, <1>b, NoRowShown DEF Types
  <2>2. IsSuffix(<<>>, counted[at])
    BY <1>a, SuffixProperties DEF Seen
  <2> QED
    BY <1>1, <1>b, <2>1, <2>2 DEF Knowing, Waiting, Holding
<1>2. CASE rows # <<>>
  <2>1. /\ Count(at) = Append(counted[at], rows[Row])
        /\ Field(at) = IF layout.pairs[at].column = NoColumn THEN Blank
                       ELSE rows[Row].is[layout.pairs[at].column]
        /\ rows[Row] \in AllRows
    BY <1>2, RowShown
  <2>2. rows[Row] \in Seen /\ MaxRows # 0
    BY <1>2, <2>1, RowInResult DEF Seen
  <2>3. layout.pairs[at].column # NoColumn => f = rows[Row].is[layout.pairs[at].column]
    BY <2>1, <2>2 DEF HeaderDue, Pair
  <2>4. ASSUME footers, batch.counter > 0
        PROVE  ~Ends(at) /\ \A q \in 1..at : ~Ends(q)
    <3>1. ~HeaderDue(at)
      BY <2>4 DEF GroupEnds, RowPosition
    <3>2. layout.pairs[at].column # NoColumn => last[at] = rows[Row].is[layout.pairs[at].column]
      BY <2>1, <3>1 DEF HeaderDue, Pair
    <3>3. layout.pairs[at].column # NoColumn =>
            last[at] = rows[batch.counter].is[layout.pairs[at].column]
      BY <1>2, <1>b, <2>4 DEF Knowing
    <3>4. Row - 1 = batch.counter
      BY <1>0
    <3>5. ~Ends(at)
      BY <3>2, <3>3, <3>4 DEF Ends, EndsIn
    <3>6. \A q \in 1..N : q < at => ~Ends(q)
      BY <2>4 DEF Endings
    <3> QED
      BY <1>0, <3>5, <3>6
  <2>5. GroupIn(layout, rows, at, Row)
          = IF batch.counter = 0 \/ ~footers THEN <<rows[Row]>>
            ELSE Append(GroupIn(layout, rows, at, batch.counter), rows[Row])
    <3>1. at \in 0..N
      BY <1>0
    <3> QED
      BY <1>2, <1>b, <2>4, <3>1, GroupAtRow
  <2>6. ASSUME layout.pairs[at].footer
        PROVE  Holding(layout, rows, at, Row, Append(counted[at], rows[Row]))
    <3>1. CASE batch.counter = 0 \/ ~footers
      <4>1. layout.pairs[at].column # NoColumn => counted[at] = <<>>
        BY <1>b, <1>0, <2>6, <3>1 DEF Waiting
      <4>2. IsSuffix(<<rows[Row]>>, Append(counted[at], rows[Row]))
        BY <1>a, <2>2, SuffixProperties
      <4>3. Append(<<>>, rows[Row]) = <<rows[Row]>>
        OBVIOUS
      <4> QED
        BY <2>5, <3>1, <4>1, <4>2, <4>3 DEF Holding
    <3>2. CASE batch.counter > 0 /\ footers
      <4> DEFINE g == GroupIn(layout, rows, at, batch.counter)
      <4>1. Holding(layout, rows, at, batch.counter, counted[at])
        BY <1>b, <2>6, <3>2 DEF Knowing
      <4>2. g \in Seq(Seen)
        <5>1. rows \in Seq(AllRows) /\ batch.counter \in 1..Len(rows)
          BY <1>2, <1>0, <3>2, RowInResult DEF Inv, BatchTypes
        <5> QED
          BY <1>0, <5>1, GroupType
      <4>3. GroupIn(layout, rows, at, Row) = Append(g, rows[Row])
        BY <2>5, <3>2
      <4>4. layout.pairs[at].column # NoColumn => counted[at] = g
        BY <4>1 DEF Holding
      <4>5. layout.pairs[at].column = NoColumn => IsSuffix(g, counted[at])
        BY <4>1 DEF Holding
      <4> HIDE DEF g
      <4>6. IsSuffix(g, counted[at]) =>
              IsSuffix(Append(g, rows[Row]), Append(counted[at], rows[Row]))
        BY <1>a, <2>2, <4>2, SuffixProperties
      <4> QED
        BY <4>3, <4>4, <4>5, <4>6 DEF Holding
    <3> QED
      BY <1>0, <3>1, <3>2
  <2> QED
    BY <2>1, <2>3, <2>4, <2>6 DEF Knowing
<1> QED
  BY <1>1, <1>2

-----------------------------------------------------------------------------
(* The sections, step by step.                                             *)

\* One more section, that says what it should.
LEMMA AddsSummary ==
  ASSUME Types, Summaries, NEW s \in Outs, Adds(s), UNCHANGED <<layout, rows, stopped>>,
         ~stopped => Summary(layout, rows, s, Done + (IF s.kind = "data" THEN 1 ELSE 0))
  PROVE  Summaries'
<1>1. SUFFICES ASSUME ~stopped, NEW i \in DOMAIN out'
      PROVE  Summary(layout, rows, out'[i], Cardinality(DataIn(out', i)))
  BY DEF Summaries
<1>2. CASE i \in DOMAIN out
  <2>1. out'[i] = out[i] /\ DataIn(out', i) = DataIn(out, i)
    BY <1>2 DEF Adds
  <2>2. Summary(layout, rows, out[i], Cardinality(DataIn(out, i)))
    BY <1>1, <1>2 DEF Summaries
  <2> QED
    BY <2>1, <2>2
<1>3. CASE i = Len(out) + 1
  <2>1. /\ out'[i] = s
        /\ Cardinality(DataIn(out', i)) = Done + (IF s.kind = "data" THEN 1 ELSE 0)
    BY <1>3 DEF Adds
  <2>2. Summary(layout, rows, s, Done + (IF s.kind = "data" THEN 1 ELSE 0))
    BY <1>1
  <2> QED
    BY <2>1, <2>2
<1>4. CASE out'[i] = Page
  BY <1>4 DEF Summary, Page
<1> QED
  BY <1>2, <1>3, <1>4 DEF Adds

LEMMA SumInit == ReportInit => SumInv
<1> SUFFICES ASSUME ReportInit PROVE SumInv
  OBVIOUS
<1>1. phase = "idle" /\ out = <<>> /\ DOMAIN <<>> = {}
  BY DEF ReportInit
<1>2. Pairs /\ Endings /\ Totals
  BY <1>1 DEF Pairs, Endings, Totals
<1>3. Summaries
  BY <1>1 DEF Summaries
<1> QED
  BY <1>2, <1>3 DEF SumInv

LEMMA SumExecute ==
  ASSUME Inv, Types, Execute
  PROVE  SumInv'
<1>1. /\ phase' = "row" /\ out' = <<>> /\ layout' = layout
      /\ last' = [p \in 1..N |-> Blank]
      /\ counted' = [s \in Counters |->
                       IF s \in 1..N /\ Pair(s).column = NoColumn THEN counted[s] ELSE <<>>]
  BY DEF Execute
<1>2. batch'.counter = 0
  <2>1. ~batch.previous /\ driver' = driver
    BY DEF Execute, Inv, Stepping, Back
  <2> QED
    BY <2>1, EnableWindow DEF Execute, Inv
<1>3. N \in Nat /\ Counters = 0..(N + 1) /\ DataSection \in Counters /\ ReportFooter \in Counters
  BY PairsType
<1>4. N' = N
  BY <1>1 DEF N
<1>5. ASSUME NEW p \in 1..N
      PROVE  Waiting(layout, p, last'[p], counted'[p])
  <2>1. p \in Counters /\ last'[p] = Blank
    BY <1>1, <1>3
  <2>2. layout.pairs[p].column # NoColumn => counted'[p] = <<>>
    BY <1>1, <2>1 DEF Pair
  <2> QED
    BY <2>1, <2>2 DEF Waiting
<1>6. Pairs'
  BY <1>1, <1>2, <1>4, <1>5 DEF Pairs, KnowsBefore, Waits
<1>7. Totals'
  <2>1. counted'[0] = <<>> /\ counted'[N + 1] = <<>>
    BY <1>1, <1>3
  <2>2. SubSeq(rows', 1, 0) = <<>>
    BY EnableWindow DEF Execute, Inv
  <2> QED
    BY <1>1, <1>2, <1>4, <2>1, <2>2 DEF Totals, DataSection, ReportFooter
<1>8. Endings' /\ Summaries'
  BY <1>1 DEF Endings, Summaries
<1> QED
  BY <1>6, <1>7, <1>8 DEF SumInv

LEMMA SumBeginRow ==
  ASSUME Inv, Types, SumInv, BeginRow
  PROVE  SumInv'
<1>1. /\ phase = "row" /\ phase' = "header" /\ at' = 1 /\ footers' = TRUE
      /\ (stopped => stopped')
      /\ UNCHANGED <<rows, batch, layout, foot, last, counted, out>>
  BY DEF BeginRow, MayStop
<1>2. N' = N /\ N \in Nat
  BY <1>1, PairsType DEF N
<1>3. Pairs'
  BY <1>1, <1>2 DEF SumInv, Pairs, KnowsBefore, Knows, Waits
<1>4. Endings'
  BY <1>1, <1>2 DEF Endings
<1>5. Totals'
  BY <1>1, <1>2 DEF SumInv, Totals, DataSection, ReportFooter
<1>6. Summaries'
  BY <1>1 DEF SumInv, Summaries
<1> QED
  BY <1>3, <1>4, <1>5, <1>6 DEF SumInv

LEMMA SumStutters ==
  ASSUME SumInv, UNCHANGED vars
  PROVE  SumInv'
<1>1. N' = N
  BY DEF N, vars
<1>2. Pairs'
  BY <1>1 DEF SumInv, Pairs, KnowsBefore, Knows, Waits, Row, vars
<1>3. Endings'
  BY <1>1 DEF SumInv, Endings, Ends, Row, vars
<1>4. Totals'
  BY <1>1 DEF SumInv, Totals, DataSection, ReportFooter, Row, vars
<1>5. Summaries'
  BY DEF SumInv, Summaries, vars
<1> QED
  BY <1>2, <1>3, <1>4, <1>5 DEF SumInv

LEMMA SumStepBack ==
  ASSUME Inv, Types, SumInv, StepBack
  PROVE  SumInv'
<1>1. /\ phase = "header" /\ phase' = "foot" /\ foot' = N /\ GroupEnds /\ at <= N
      /\ UNCHANGED <<rows, layout, at, footers, last, counted, stopped, out>>
      /\ batch'.counter = batch.counter
  BY DEF StepBack, GotoPrevious, Inv, BatchTypes
<1>2. N' = N /\ N \in Nat /\ at \in 1..N /\ batch.counter \in Nat
  BY <1>1, PairsType DEF N, Types, Inv, BatchTypes
<1>3. HeaderDue(at) /\ batch.counter > 0 /\ footers
  BY <1>1 DEF GroupEnds, RowPosition
<1>4. ASSUME NEW p \in 1..N
      PROVE  /\ p < at => Knowing(layout, rows, p, Row, last[p], counted[p])
             /\ p >= at => Knowing(layout, rows, p, batch.counter, last[p], counted[p])
  BY <1>1, <1>2, <1>3 DEF SumInv, Pairs, KnowsBefore, Knows
<1>5. Row' = Row
  BY <1>1 DEF Row
<1>6. Pairs'
  BY <1>1, <1>2, <1>4, <1>5 DEF Pairs, Knows, Waits
<1>7. Ends(at)
  <2>1. rows # <<>> /\ MaxRows > 0
    BY <1>1, <1>2, <1>3, NoRowShown, RowInResult
  <2>2. /\ layout.pairs[at].column # NoColumn
        /\ last[at] # rows[Row].is[layout.pairs[at].column]
    BY <1>1, <1>3, <2>1, RowShown DEF HeaderDue, Pair, RowPosition
  <2>3. last[at] = rows[batch.counter].is[layout.pairs[at].column]
    BY <1>2, <1>4, <2>1, <2>2 DEF Knowing
  <2>4. Row - 1 = batch.counter
    BY <1>2 DEF Row
  <2> QED
    BY <2>2, <2>3, <2>4 DEF Ends, EndsIn
<1>8. Endings'
  BY <1>1, <1>2, <1>5, <1>7 DEF Endings, Ends
<1>9. Totals'
  BY <1>1, <1>2 DEF SumInv, Totals, ReportFooter
<1>10. Summaries'
  BY <1>1 DEF SumInv, Summaries
<1> QED
  BY <1>6, <1>8, <1>9, <1>10 DEF SumInv

\* A footer is printed on the row before, for the group that ended there.
LEMMA SumFooter ==
  ASSUME Inv, RowInv, SumInv, Footer
  PROVE  SumInv'
<1>0. Types /\ Progress
  BY DEF RowInv
<1>1. /\ phase = "foot" /\ foot >= at
      /\ UNCHANGED <<rows, batch, layout, at, footers, stopped>>
      /\ counted' = IF Pair(foot).footer THEN [counted EXCEPT ![foot] = <<>>] ELSE counted
      /\ out' = IF Pair(foot).footer
                THEN Append(out, Section("footer", foot, counted[foot])) ELSE out
      /\ \/ phase' = "break" /\ foot' = foot /\ last' = last
         \/ phase' = "foot" /\ foot' = foot - 1 /\ last' = [last EXCEPT ![foot] = Blank]
  BY DEF Footer, Footed
<1>2. /\ N' = N /\ N \in Nat /\ at \in 1..N /\ foot \in 1..N /\ foot \in Counters
      /\ 1..N \subseteq Counters
  BY <1>0, <1>1, PairsType DEF N, Types, SumInv, Endings
<1>3. Row' = Row
  BY <1>1 DEF Row
<1>4. /\ \A p \in 1..N : /\ p < at => Knowing(layout, rows, p, Row, last[p], counted[p])
                         /\ p >= at /\ p < foot =>
                              Knowing(layout, rows, p, batch.counter, last[p], counted[p])
                         /\ p > foot => Waiting(layout, p, last[p], counted[p])
      /\ Knowing(layout, rows, foot, batch.counter, last[foot], counted[foot])
  BY <1>1 DEF SumInv, Pairs, Knows, Waits
<1>5. /\ \A p \in 1..N : p # foot => last'[p] = last[p] /\ counted'[p] = counted[p]
      /\ layout.pairs[foot].footer => counted'[foot] = <<>>
  BY <1>0, <1>1, <1>2 DEF Types, Pair
<1>6. ASSUME phase' = "break" PROVE Pairs'
  <2>1. foot' = foot /\ last' = last
    BY <1>1, <1>6
  <2> QED
    BY <1>1, <1>2, <1>3, <1>4, <1>5, <1>6, <2>1 DEF Pairs, Knows, Waits
<1>7. ASSUME phase' = "foot" PROVE Pairs'
  <2>1. foot' = foot - 1 /\ last'[foot] = Blank
    BY <1>0, <1>1, <1>2, <1>7 DEF Types
  <2>2. Waiting(layout, foot, last'[foot], counted'[foot])
    BY <1>5, <2>1 DEF Waiting
  <2> QED
    BY <1>1, <1>2, <1>3, <1>4, <1>5, <1>7, <2>1, <2>2 DEF Pairs, Knows, Waits
<1>8. Pairs'
  BY <1>1, <1>6, <1>7
<1>9. Endings'
  BY <1>1, <1>2, <1>3 DEF SumInv, Endings, Ends
<1>10. Totals'
  <2>1. counted'[N + 1] = counted[N + 1]
    BY <1>0, <1>1, <1>2 DEF Types
  <2> QED
    BY <1>1, <1>2, <2>1 DEF SumInv, Totals, ReportFooter
<1>11. Summaries'
  <2>1. CASE Pair(foot).footer
    <3> DEFINE s == Section("footer", foot, counted[foot])
    <3>1. foot \in Int /\ phase # "idle" /\ counted[foot] \in Seq(Seen)
      BY <1>0, <1>1, <1>2 DEF Types
    <3>2. /\ s \in Outs /\ s.kind = "footer" /\ s.pair = foot
          /\ (~stopped => s.row = Here /\ s.count = counted[foot])
      BY <1>0, <3>1, SectionType
    <3>3. out' = Append(out, s)
      BY <1>1, <2>1
    <3> HIDE DEF s
    <3>4. Adds(s)
      BY <1>0, <3>2, <3>3, AppendAdds DEF Types
    <3>5. Here = Cursor!RowAt(rows, batch.counter) /\ Done = batch.counter
      BY <1>0, <1>1, HereIsRow DEF Back, Progress
    <3>6. Holding(layout, rows, foot, batch.counter, counted[foot])
      BY <1>4, <2>1 DEF Knowing, Pair
    <3>7. ~stopped => Summary(layout, rows, s, Done)
      BY <3>2, <3>5, <3>6 DEF Summary
    <3>8. Done + (IF s.kind = "data" THEN 1 ELSE 0) = Done
      BY <3>2, <3>5, RowInResult, <3>1
    <3>9. UNCHANGED <<layout, rows, stopped>>
      BY <1>1
    <3> QED
      BY <1>0, <3>2, <3>4, <3>7, <3>8, <3>9, AddsSummary DEF SumInv
  <2>2. CASE ~Pair(foot).footer
    BY <1>1, <2>2 DEF SumInv, Summaries
  <2> QED
    BY <2>1, <2>2
<1> QED
  BY <1>8, <1>9, <1>10, <1>11 DEF SumInv

LEMMA SumStepToPage ==
  ASSUME Inv, Types, SumInv, driver.steps, StepToPage
  PROVE  SumInv'
<1>1. /\ phase = "break" /\ phase' = "page" /\ GotoNext /\ driver' = driver
      /\ UNCHANGED <<rows, layout, at, foot, footers, last, counted, stopped, out>>
  BY DEF StepToPage, GotoNext
<1>2. batch'.counter = batch.counter
  <2>1. batch.previous /\ batch.counter > 0 /\ batch.open
    BY <1>1 DEF Inv, Stepping, Back
  <2>2. batch' = [batch EXCEPT !.previous = FALSE]
    BY <1>1, <2>1, NextWindow DEF Inv
  <2> QED
    BY <2>2 DEF Inv, BatchTypes
<1>3. N' = N /\ Row' = Row
  BY <1>1, <1>2 DEF N, Row
<1>4. Pairs'
  BY <1>1, <1>2, <1>3 DEF SumInv, Pairs, Knows, Waits
<1>5. Endings'
  BY <1>1, <1>2, <1>3 DEF SumInv, Endings, Ends
<1>6. Totals'
  BY <1>1, <1>2, <1>3 DEF SumInv, Totals, ReportFooter
<1>7. Summaries'
  BY <1>1 DEF SumInv, Summaries
<1> QED
  BY <1>4, <1>5, <1>6, <1>7 DEF SumInv

LEMMA SumNewPage ==
  ASSUME Inv, Types, SumInv, NewPage
  PROVE  SumInv'
<1>1. /\ phase = "page" /\ out' = Append(out, Page) /\ (stopped => stopped')
      /\ UNCHANGED <<layout, at, footers, counted>>
      /\ \/ phase' = "idle" /\ stopped'
         \/ phase' = "foot" /\ ~stopped' /\ GotoPrevious /\ foot' = foot - 1
            /\ last' = [last EXCEPT ![foot] = Blank]
  BY DEF NewPage, MayStop, Footed
<1>a. stopped \in BOOLEAN /\ stopped' \in BOOLEAN
  BY DEF NewPage, MayStop, Types
<1>2. CASE phase' = "idle"
  BY <1>1, <1>2 DEF SumInv, Pairs, Endings, Totals, Summaries
<1>3. CASE phase' = "foot"
  <2>1. /\ rows' = rows /\ batch'.counter = batch.counter /\ foot' = foot - 1
        /\ last' = [last EXCEPT ![foot] = Blank] /\ ~stopped'
    BY <1>1, <1>3 DEF GotoPrevious, Inv, BatchTypes
  <2>2. /\ N' = N /\ N \in Nat /\ at \in 1..N /\ foot \in at..N /\ Row' = Row
    BY <1>1, <2>1, PairsType DEF N, Types, SumInv, Endings, Row
  <2>3. /\ \A p \in 1..N : p # foot => last'[p] = last[p]
        /\ last'[foot] = Blank
    BY <2>1, <2>2 DEF Types
  <2>4. Waiting(layout, foot, last'[foot], counted'[foot])
    BY <1>1, <2>3 DEF SumInv, Pairs, Waiting
  <2>5. \A p \in 1..N : /\ p < at => Knowing(layout, rows, p, Row, last[p], counted[p])
                        /\ p >= at /\ p < foot =>
                             Knowing(layout, rows, p, batch.counter, last[p], counted[p])
                        /\ p > foot => Waiting(layout, p, last[p], counted[p])
    BY <1>1 DEF SumInv, Pairs, Knows, Waits
  <2>6. Pairs'
    BY <1>1, <1>3, <2>1, <2>2, <2>3, <2>4, <2>5 DEF Pairs, Knows, Waits
  <2>7. Endings'
    BY <1>1, <1>3, <2>1, <2>2 DEF SumInv, Endings, Ends
  <2>8. Totals'
    BY <1>1, <1>3, <2>1, <2>2 DEF SumInv, Totals, ReportFooter
  <2>9. Summaries'
    <3>1. <<>> \in Seq(Seen) /\ Nothing \in Seen
      BY DEF Seen
    <3>2. Page \in Outs /\ Page.kind = "page"
      BY <3>1 DEF Page, Outs
    <3>3. Adds(Page)
      BY <1>1, <3>2, AppendAdds DEF Types
    <3>4. \A n : Summary(layout, rows, Page, n)
      BY <3>2 DEF Summary
    <3>5. UNCHANGED <<layout, rows, stopped>>
      BY <1>1, <1>a, <2>1
    <3> QED
      BY <3>2, <3>3, <3>4, <3>5, AddsSummary DEF SumInv
  <2> QED
    BY <2>6, <2>7, <2>8, <2>9 DEF SumInv
<1> QED
  BY <1>1, <1>2, <1>3

LEMMA SumStepForward ==
  ASSUME Inv, Types, SumInv, driver.steps, StepForward
  PROVE  SumInv'
<1>1. /\ phase = "foot" /\ foot < at /\ phase' = "header" /\ footers' = FALSE
      /\ GotoNext /\ driver' = driver
      /\ counted' = [counted EXCEPT ![DataSection] = <<>>]
      /\ UNCHANGED <<rows, layout, at, foot, last, stopped, out>>
  BY DEF StepForward, GotoNext
<1>2. batch'.counter = batch.counter /\ batch.counter > 0
  <2>1. batch.previous /\ batch.counter > 0 /\ batch.open
    BY <1>1 DEF Inv, Stepping, Back
  <2>2. batch' = [batch EXCEPT !.previous = FALSE]
    BY <1>1, <2>1, NextWindow DEF Inv
  <2> QED
    BY <2>1, <2>2 DEF Inv, BatchTypes
<1>3. /\ N' = N /\ Row' = Row /\ N \in Nat /\ at \in 1..N /\ foot \in 0..N
      /\ Counters = 0..(N + 1)
  BY <1>1, <1>2, PairsType DEF N, Row, SumInv, Endings, Types
<1>4. /\ counted'[0] = <<>> /\ counted'[N + 1] = counted[N + 1]
      /\ \A p \in 1..N : counted'[p] = counted[p]
  BY <1>1, <1>3 DEF Types, DataSection
<1>5. \A p \in 1..N : /\ p < at => Knowing(layout, rows, p, Row, last[p], counted[p])
                      /\ p >= at => Waiting(layout, p, last[p], counted[p])
  BY <1>1, <1>3 DEF SumInv, Pairs, Knows, Waits
<1>6. Pairs'
  BY <1>1, <1>3, <1>4, <1>5 DEF Pairs, Knows, Waits
<1>7. Endings'
  BY <1>1, <1>2, <1>3 DEF SumInv, Endings, Ends
<1>8. Totals'
  BY <1>1, <1>2, <1>3, <1>4 DEF SumInv, Totals, DataSection, ReportFooter
<1>9. Summaries'
  BY <1>1 DEF SumInv, Summaries
<1> QED
  BY <1>6, <1>7, <1>8, <1>9 DEF SumInv

LEMMA SumHeader ==
  ASSUME Inv, RowInv, SumInv, Header
  PROVE  SumInv'
<1>0. Types /\ Progress /\ Pairs /\ Endings
  BY DEF RowInv, SumInv
<1>1. /\ phase = "header" /\ at <= N /\ ~GroupEnds /\ phase' = "header"
      /\ last' = IF HeaderDue(at) THEN [last EXCEPT ![at] = Field(at)] ELSE last
      /\ counted' = [counted EXCEPT ![at] = IF Pair(at).footer THEN Count(at) ELSE @]
      /\ at' = at + 1
      /\ UNCHANGED <<rows, batch, layout, foot, footers, stopped>>
  BY DEF Header
<1>2. /\ N' = N /\ Row' = Row /\ N \in Nat /\ at \in 1..N
      /\ Counters = 0..(N + 1)
  BY <1>0, <1>1, PairsType DEF N, Row, Types
<1>3. /\ \A p \in 1..N : p # at => last'[p] = last[p] /\ counted'[p] = counted[p]
      /\ last'[at] = IF HeaderDue(at) THEN Field(at) ELSE last[at]
      /\ counted'[at] = IF layout.pairs[at].footer THEN Count(at) ELSE counted[at]
      /\ counted'[0] = counted[0] /\ counted'[N + 1] = counted[N + 1]
  BY <1>0, <1>1, <1>2 DEF Types, Pair
<1>4. /\ Knowing(layout, rows, at, Row, last'[at], counted'[at])
      /\ footers /\ batch.counter > 0 => ~Ends(at)
  BY <1>0, <1>1, <1>3, HeaderKnows
<1>5. \A p \in 1..N : /\ p < at => Knowing(layout, rows, p, Row, last[p], counted[p])
                      /\ p > at => IF footers THEN KnowsBefore(p) ELSE Waits(p)
  BY <1>0, <1>1, <1>2 DEF Pairs, Knows
<1>6. Pairs'
  <2>1. ASSUME NEW p \in 1..N, p < at + 1
        PROVE  Knowing(layout, rows, p, Row, last'[p], counted'[p])
    <3>1. p < at \/ p = at
      BY <1>2, <2>1
    <3> QED
      BY <1>2, <1>3, <1>4, <1>5, <2>1, <3>1
  <2>2. ASSUME NEW p \in 1..N, p >= at + 1
        PROVE  IF footers THEN KnowsBefore(p)' ELSE Waits(p)'
    <3>1. p > at /\ p # at
      BY <1>2, <2>2
    <3>2. last'[p] = last[p] /\ counted'[p] = counted[p]
      BY <1>3, <3>1
    <3> QED
      BY <1>1, <1>5, <2>2, <3>1, <3>2 DEF KnowsBefore, Waits, Knows
  <2> QED
    BY <1>1, <1>2, <2>1, <2>2 DEF Pairs, Knows
<1>7. Endings'
  <2>1. \A p \in 1..N : p < at + 1 => p < at \/ p = at
    BY <1>2
  <2>2. ~footers => \E e \in 1..N : e <= at + 1 /\ Ends(e)
    <3>1. ~footers => \E e \in 1..N : e <= at /\ Ends(e)
      BY <1>0, <1>1 DEF Endings
    <3> QED
      BY <1>2, <3>1
  <2>3. \A p : Ends(p)' <=> Ends(p)
    BY <1>1, <1>2 DEF Ends
  <2> QED
    BY <1>0, <1>1, <1>2, <1>4, <2>1, <2>2, <2>3 DEF Endings
<1>8. Totals'
  BY <1>1, <1>2, <1>3 DEF SumInv, Totals, DataSection, ReportFooter
<1>9. Summaries'
  <2>1. CASE HeaderDue(at)
    <3> DEFINE s == Section("header", at, <<>>)
               b == "header" \in Pair(at).breaks
    <3>1. at \in Int /\ phase # "idle" /\ <<>> \in Seq(Seen)
      BY <1>1, <1>2
    <3>2. s \in Outs
      BY <1>0, <3>1, SectionType
    <3>3. s.kind = "header"
      BY DEF Section
    <3>4. b \in BOOLEAN /\ Nothing \in Seen
      BY DEF Seen
    <3>5. Output(s, b)
      BY <2>1 DEF Header
    <3> HIDE DEF s, b
    <3>6. Adds(s)
      BY <1>0, <3>2, <3>4, <3>5, OutputAdds DEF Types
    <3>7. \A n : Summary(layout, rows, s, n)
      BY <3>3 DEF Summary
    <3>8. UNCHANGED <<layout, rows, stopped>>
      BY <1>1
    <3> QED
      BY <1>0, <3>2, <3>6, <3>7, <3>8, AddsSummary DEF SumInv
  <2>2. CASE ~HeaderDue(at)
    <3>1. out' = out
      BY <2>2 DEF Header
    <3> QED
      BY <1>1, <3>1 DEF SumInv, Summaries
  <2> QED
    BY <2>1, <2>2
<1> QED
  BY <1>6, <1>7, <1>8, <1>9 DEF SumInv

LEMMA SumData ==
  ASSUME Inv, RowInv, SumInv, Data
  PROVE  SumInv'
<1>0. Types /\ Progress /\ Pairs /\ Endings /\ Totals
  BY DEF RowInv, SumInv
<1>1. /\ phase = "header" /\ at > N /\ phase' = "next"
      /\ counted' = [counted EXCEPT ![DataSection] = Count(DataSection),
                                    ![ReportFooter] = Count(ReportFooter)]
      /\ Output(Section("data", 0, Count(DataSection)), layout.breakdata)
      /\ UNCHANGED <<rows, batch, layout, at, foot, footers, position, last, stopped>>
  BY DEF Data
<1>2. /\ N' = N /\ Row' = Row /\ N \in Nat /\ at = N + 1
      /\ Counters = 0..(N + 1) /\ batch.counter \in Nat /\ Row = batch.counter + 1
  BY <1>0, <1>1, PairsType, RowInResult DEF N, Row, Types
<1>3. /\ counted'[0] = Count(0) /\ counted'[N + 1] = Count(N + 1)
      /\ \A p \in 1..N : counted'[p] = counted[p]
  BY <1>0, <1>1, <1>2 DEF Types, DataSection, ReportFooter
<1>4. /\ counted[0] = IF batch.counter = 0 \/ ~footers THEN <<>>
                      ELSE GroupIn(layout, rows, N, batch.counter)
      /\ counted[N + 1] = SubSeq(rows, 1, batch.counter)
      /\ batch.counter = 0 => footers
  BY <1>0, <1>1 DEF Totals, Endings, DataSection, ReportFooter, Types
<1>5. Count(0) = GroupIn(layout, rows, N, Row)
  <2>1. CASE rows = <<>>
    <3>1. Count(0) = counted[0] /\ batch.counter = 0 /\ GroupIn(layout, rows, N, Row) = <<>>
      BY <1>1, <2>1, NoRowShown
    <3> QED
      BY <1>4, <3>1
  <2>2. CASE rows # <<>>
    <3>1. Count(0) = Append(counted[0], rows[Row])
      BY <1>1, <2>2, RowShown
    <3>2. GroupIn(layout, rows, N, Row)
            = IF batch.counter = 0 \/ ~footers THEN <<rows[Row]>>
              ELSE Append(GroupIn(layout, rows, N, batch.counter), rows[Row])
      <4>1. N \in 0..N
        BY <1>2
      <4>2. footers /\ batch.counter > 0 => \A q \in 1..N : ~Ends(q)
        BY <1>0, <1>1, <1>2 DEF Endings
      <4>3. ~footers => \E e \in 1..N : Ends(e)
        BY <1>0, <1>1 DEF Endings
      <4> QED
        BY <1>0, <1>1, <2>2, <4>1, <4>2, <4>3, GroupAtRow
    <3>3. Append(<<>>, rows[Row]) = <<rows[Row]>>
      OBVIOUS
    <3> QED
      BY <1>4, <3>1, <3>2, <3>3
  <2> QED
    BY <2>1, <2>2
<1>6. Count(N + 1) = IF rows = <<>> THEN <<>> ELSE SubSeq(rows, 1, Row)
  <2>1. CASE rows = <<>>
    <3>1. Count(N + 1) = counted[N + 1] /\ batch.counter = 0
      BY <1>1, <2>1, NoRowShown
    <3>2. SubSeq(rows, 1, 0) = <<>>
      BY DEF Inv, BatchTypes
    <3> QED
      BY <1>4, <2>1, <3>1, <3>2
  <2>2. CASE rows # <<>>
    <3>1. Count(N + 1) = Append(counted[N + 1], rows[Row])
      BY <1>1, <2>2, RowShown
    <3>2. rows \in Seq(AllRows) /\ batch.counter + 1 \in 1..Len(rows)
      BY <1>1, <1>2, <2>2, RowInResult DEF Inv, BatchTypes
    <3>3. SubSeq(rows, 1, batch.counter + 1)
            = Append(SubSeq(rows, 1, batch.counter), rows[batch.counter + 1])
      <4>1. CASE batch.counter = 0
        <5>1. SubSeq(rows, 1, 0) = <<>>
          BY <3>2
        <5>2. SubSeq(rows, 1, 1) = Append(SubSeq(rows, 1, 0), rows[1])
          BY <3>2, <4>1
        <5> QED
          BY <4>1, <5>2
      <4>2. CASE batch.counter # 0
        BY <1>2, <3>2, <4>2
      <4> QED
        BY <4>1, <4>2
    <3> QED
      BY <1>2, <1>4, <2>2, <3>1, <3>3
  <2> QED
    BY <2>1, <2>2
<1>7. Pairs'
  <2>1. \A p \in 1..N : Knowing(layout, rows, p, Row, last[p], counted[p])
    BY <1>0, <1>1, <1>2 DEF Pairs, Knows
  <2> QED
    BY <1>1, <1>2, <1>3, <2>1 DEF Pairs, Knows
<1>8. Endings'
  BY <1>1 DEF Endings
<1>9. Totals'
  BY <1>1, <1>2, <1>3, <1>5, <1>6 DEF Totals, DataSection, ReportFooter
<1>10. Summaries'
  <2> DEFINE s == Section("data", 0, Count(DataSection))
  <2>1. phase # "idle" /\ Count(DataSection) \in Seq(Seen) /\ Nothing \in Seen
    BY <1>0, <1>1, CountType, PairsType DEF Seen
  <2>2. s \in Outs /\ s.kind = "data" /\ (~stopped => s.count = Count(DataSection))
    BY <1>0, <2>1, SectionType
  <2>3. Output(s, TRUE) \/ Output(s, FALSE)
    BY <1>1 DEF Output
  <2> HIDE DEF s
  <2>4. Adds(s)
    BY <1>0, <2>1, <2>2, <2>3, OutputAdds DEF Types
  <2>5. Done + (IF s.kind = "data" THEN 1 ELSE 0) = Row
    BY <1>0, <1>1, <2>2 DEF Progress, Row
  <2>6. ~stopped => Summary(layout, rows, s, Row)
    BY <1>5, <2>2 DEF Summary, DataSection, N
  <2>7. UNCHANGED <<layout, rows, stopped>>
    BY <1>1
  <2> QED
    BY <1>0, <2>2, <2>4, <2>5, <2>6, <2>7, AddsSummary DEF SumInv
<1> QED
  BY <1>7, <1>8, <1>9, <1>10 DEF SumInv

LEMMA SumNextRow ==
  ASSUME Inv, Inv', Types, SumInv, driver.steps, NextRow
  PROVE  SumInv'
<1>1. /\ phase = "next" /\ GotoNext /\ driver' = driver /\ position' = position + 1
      /\ phase' = IF position' < batch'.maxrows /\ ~stopped THEN "row" ELSE "end"
      /\ foot' = N
      /\ UNCHANGED <<rows, layout, at, footers, last, counted, stopped, out>>
  BY DEF NextRow, GotoNext
<1>2. ~batch.previous /\ batch.open /\ position = batch.counter
  BY <1>1 DEF Inv, Stepping, Positions, Back
<1>3. /\ batch'.open
      /\ IF batch.read < Len(rows) THEN batch'.counter = batch.counter + 1
         ELSE batch' = batch
  BY <1>1, <1>2, NextWindow DEF Inv
<1>4. /\ N' = N /\ N \in Nat /\ batch.counter \in Nat /\ Row = batch.counter + 1
      /\ batch'.counter \in Nat /\ batch'.maxrows \in Nat /\ batch'.read \in Nat
      /\ stopped \in BOOLEAN
  BY <1>1, PairsType DEF N, Row, Inv, BatchTypes, Types
<1>5. \A p \in 1..N : Knowing(layout, rows, p, Row, last[p], counted[p])
  BY <1>1 DEF SumInv, Pairs, Knows
<1>a. counted[ReportFooter] = IF rows = <<>> THEN <<>> ELSE SubSeq(rows, 1, Row)
  BY <1>1 DEF SumInv, Totals
<1>6. CASE phase' = "row"
  <2>1. batch'.counter = Row
    BY <1>1, <1>2, <1>4, <1>6 DEF Inv, Positions
  <2>2. rows # <<>>
    <3>1. rows = <<>> => batch'.maxrows = 0
      BY <1>1, <1>3 DEF Inv, Window
    <3> QED
      BY <1>1, <1>2, <1>4, <1>6, <3>1
  <2>3. batch'.counter # 0
    BY <1>4, <2>1
  <2>4. Pairs'
    BY <1>1, <1>4, <1>5, <1>6, <2>1, <2>3 DEF Pairs, KnowsBefore, Knows
  <2>5. Endings'
    BY <1>6 DEF Endings
  <2>6. Totals'
    <3>1. counted[DataSection] = GroupIn(layout, rows, N, Row)
      BY <1>1 DEF SumInv, Totals
    <3> QED
      BY <1>1, <1>4, <1>6, <1>a, <2>1, <2>2, <2>3, <3>1 DEF Totals, DataSection, ReportFooter
  <2>7. Summaries'
    BY <1>1 DEF SumInv, Summaries
  <2> QED
    BY <2>4, <2>5, <2>6, <2>7 DEF SumInv
<1>7. CASE phase' = "end"
  <2>1. ~stopped => Row' = Row
    <3>1. SUFFICES ASSUME ~stopped PROVE Row' = Row
      OBVIOUS
    <3>2. ~(batch.counter + 1 < batch'.maxrows)
      BY <1>1, <1>2, <1>7, <3>1
    <3>3. CASE batch.read < Len(rows)
      <4>1. batch'.counter = batch.counter + 1 /\ rows # <<>>
        BY <1>3, <3>3 DEF Inv, BatchTypes
      <4>2. batch'.maxrows >= batch'.read /\ batch'.read = batch'.counter + 1
        BY <1>1, <1>3, <4>1, SMTT(20) DEF Inv, BatchTypes, Window
      <4> QED
        BY <1>4, <3>2, <4>1, <4>2
    <3>4. CASE ~(batch.read < Len(rows))
      BY <1>3, <3>4 DEF Row
    <3> QED
      BY <3>3, <3>4
  <2>2. Pairs'
    BY <1>1, <1>4, <1>5, <1>7, <2>1 DEF Pairs, Knowing
  <2>3. Endings'
    BY <1>7 DEF Endings
  <2>4. Totals'
    BY <1>1, <1>4, <1>7, <1>a, <2>1 DEF Totals, ReportFooter
  <2>5. Summaries'
    BY <1>1 DEF SumInv, Summaries
  <2> QED
    BY <2>2, <2>3, <2>4, <2>5 DEF SumInv
<1> QED
  BY <1>1, <1>6, <1>7

\* The footers at the end are printed on the last row of the result.
LEMMA SumLastFooter ==
  ASSUME Inv, RowInv, SumInv, LastFooter
  PROVE  SumInv'
<1>0. Types /\ Progress
  BY DEF RowInv
<1> DEFINE due == Pair(foot).footer /\ FooterDue(foot)
<1>1. /\ phase = "end" /\ phase' = "end" /\ foot > 0 /\ foot' = foot - 1
      /\ counted' = IF due THEN [counted EXCEPT ![foot] = <<>>] ELSE counted
      /\ UNCHANGED <<rows, batch, layout, at, footers, last, stopped>>
  BY DEF LastFooter
<1>2. /\ N' = N /\ Row' = Row /\ N \in Nat /\ foot \in 1..N /\ Counters = 0..(N + 1)
  BY <1>0, <1>1, PairsType DEF N, Row, Types
<1>3. /\ \A p \in 1..N : p # foot => counted'[p] = counted[p]
      /\ counted'[N + 1] = counted[N + 1]
  BY <1>0, <1>1, <1>2 DEF Types
<1>4. ~stopped => \A p \in 1..foot :
        layout.pairs[p].footer => Holding(layout, rows, p, Row, counted[p])
  BY <1>1 DEF SumInv, Pairs
<1>5. Pairs'
  <2>1. \A p \in 1..(foot - 1) : p \in 1..N /\ p # foot /\ p \in 1..foot
    BY <1>2
  <2> QED
    BY <1>1, <1>2, <1>3, <1>4, <2>1 DEF Pairs
<1>6. Endings'
  BY <1>1 DEF Endings
<1>7. Totals'
  BY <1>1, <1>2, <1>3 DEF SumInv, Totals, ReportFooter
<1>8. Summaries'
  <2>1. CASE due
    <3> DEFINE s == Section("footer", foot, counted[foot])
               b == "footer" \in Pair(foot).breaks
    <3>1. foot \in Int /\ phase # "idle" /\ counted[foot] \in Seq(Seen)
      BY <1>0, <1>1, <1>2 DEF Types
    <3>2. /\ s \in Outs /\ s.kind = "footer" /\ s.pair = foot
          /\ (~stopped => s.row = Here /\ s.count = counted[foot])
      BY <1>0, <3>1, SectionType
    <3>3. b \in BOOLEAN /\ Nothing \in Seen
      BY DEF Seen
    <3>4. Output(s, b)
      BY <2>1 DEF LastFooter
    <3> HIDE DEF s, b
    <3>5. Adds(s)
      BY <1>0, <3>2, <3>3, <3>4, OutputAdds DEF Types
    <3>6. Here = Cursor!RowAt(rows, Row)
      BY <1>1, HereIsRow DEF Back
    <3>7. ~stopped => Done = Row
      BY <1>0, <1>1 DEF Progress
    <3>8. ~stopped => Holding(layout, rows, foot, Row, counted[foot])
      <4>1. foot \in 1..foot /\ layout.pairs[foot].footer
        BY <1>2, <2>1 DEF Pair
      <4> QED
        BY <1>4, <4>1
    <3>9. ~stopped => Summary(layout, rows, s, Row)
      BY <3>2, <3>6, <3>8 DEF Summary
    <3>10. ~stopped => Done + (IF s.kind = "data" THEN 1 ELSE 0) = Row
      BY <3>1, <3>2, <3>7, RowInResult DEF Row
    <3>11. UNCHANGED <<layout, rows, stopped>>
      BY <1>1
    <3> QED
      BY <1>0, <3>2, <3>5, <3>9, <3>10, <3>11, AddsSummary DEF SumInv
  <2>2. CASE ~due
    <3>1. out' = out
      BY <2>2 DEF LastFooter
    <3> QED
      BY <1>1, <3>1 DEF SumInv, Summaries
  <2> QED
    BY <2>1, <2>2
<1> QED
  BY <1>5, <1>6, <1>7, <1>8 DEF SumInv

LEMMA SumFinish ==
  ASSUME Inv, RowInv, SumInv, Finish
  PROVE  SumInv'
<1>0. Types /\ Progress
  BY DEF RowInv
<1>1. /\ phase = "end" /\ phase' = "idle"
      /\ out' = Append(out, Section("report", 0, counted[ReportFooter]))
      /\ UNCHANGED <<rows, layout, stopped>>
  BY DEF Finish, Disable
<1>2. Pairs' /\ Endings' /\ Totals'
  BY <1>1 DEF Pairs, Endings, Totals
<1>3. Summaries'
  <2> DEFINE s == Section("report", 0, counted[ReportFooter])
  <2>1. phase # "idle" /\ counted[ReportFooter] \in Seq(Seen)
    BY <1>0, <1>1, PairsType DEF Types
  <2>2. s \in Outs /\ s.kind = "report" /\ (~stopped => s.count = counted[ReportFooter])
    BY <1>0, <2>1, SectionType
  <2>3. out' = Append(out, s)
    BY <1>1
  <2> HIDE DEF s
  <2>4. Adds(s)
    BY <1>0, <2>2, <2>3, AppendAdds DEF Types
  <2>5. ~stopped => counted[ReportFooter] = rows
    <3>1. SUFFICES ASSUME ~stopped PROVE counted[ReportFooter] = rows
      OBVIOUS
    <3>2. /\ counted[ReportFooter] = IF rows = <<>> THEN <<>> ELSE SubSeq(rows, 1, Row)
          /\ Row = Turns
      BY <1>0, <1>1, <3>1 DEF SumInv, Totals, Progress
    <3>3. rows # <<>> => SubSeq(rows, 1, Len(rows)) = rows
      BY DEF Inv, BatchTypes
    <3> QED
      BY <3>2, <3>3 DEF Turns
  <2>6. \A n : ~stopped => Summary(layout, rows, s, n)
    BY <2>2, <2>5 DEF Summary
  <2> QED
    BY <1>0, <1>1, <2>2, <2>4, <2>6, AddsSummary DEF SumInv
<1> QED
  BY <1>2, <1>3 DEF SumInv

LEMMA SumNext ==
  ASSUME Inv, Inv', RowInv, SumInv, driver.steps, [Next]_vars
  PROVE  SumInv'
<1>1. Types
  BY DEF RowInv
<1>2. CASE NoHeader \/ UNCHANGED vars
  BY <1>2, SumStutters DEF NoHeader
<1> QED
  BY <1>1, <1>2, SumExecute, SumBeginRow, SumStepBack, SumFooter, SumStepToPage,
     SumNewPage, SumStepForward, SumHeader, SumData, SumNextRow, SumLastFooter, SumFinish
     DEF Next, PrintStep

LEMMA AlwaysSum ==
  ASSUME \A d \in Drivers : d.steps, ~SteppedBefore
  PROVE  Spec => [](Inv /\ RowInv /\ SumInv)
<1>1. ReportInit => SumInv
  BY SumInit
<1>2. Inv /\ Inv' /\ RowInv /\ driver.steps /\ SumInv /\ [Next]_vars => SumInv'
  BY SumNext
<1> QED
  BY <1>1, <1>2, AlwaysRows, PTL DEF Spec

\* In a report that is complete a footer shows the last row of its group and
\* has counted the rows of that group, although it is printed when the next row
\* has been read; the data section has counted within the innermost group, and
\* the report's footer all rows (count_countingfields and reset_count).
THEOREM SummariesAreOfTheirGroup ==
  ASSUME \A d \in Drivers : d.steps, ~SteppedBefore
  PROVE  Spec => []SummariesMatch
<1>1. ASSUME RowInv, SumInv
      PROVE  SummariesMatch
  <2>1. SUFFICES ASSUME Complete, NEW i \in DOMAIN out
        PROVE  CASE out[i].kind = "footer" ->
                      /\ out[i].row = Cursor!RowAt(rows, Printed(i))
                      /\ IF Pair(out[i].pair).column # NoColumn
                         THEN out[i].count = Group(out[i].pair, Printed(i))
                         ELSE IsSuffix(Group(out[i].pair, Printed(i)), out[i].count)
                 [] out[i].kind = "data" -> out[i].count = Group(N, Printed(i))
                 [] out[i].kind = "report" -> out[i].count = rows
                 [] OTHER -> TRUE
    BY DEF SummariesMatch
  <2>2. Summary(layout, rows, out[i], Printed(i))
    BY <1>1, <2>1, PrintedIsDataIn DEF SumInv, Summaries, Complete
  <2>3. /\ out[i].kind = "footer" =>
             /\ out[i].row = Cursor!RowAt(rows, Printed(i))
             /\ IF Pair(out[i].pair).column # NoColumn
                THEN out[i].count = Group(out[i].pair, Printed(i))
                ELSE IsSuffix(Group(out[i].pair, Printed(i)), out[i].count)
        /\ out[i].kind = "data" => out[i].count = Group(N, Printed(i))
        /\ out[i].kind = "report" => out[i].count = rows
    BY <2>2, GroupIsGroupIn DEF Summary, Holding, Pair, N
  <2> QED
    BY <2>3
<1> QED
  BY <1>1, AlwaysSum, PTL

-----------------------------------------------------------------------------
(***************************************************************************)
(* What is printed between the rows: the headers and footers.              *)
(***************************************************************************)

\* The marks of sections: their kinds and pairs.
Marks == Framed \X Int

ShapeOf(o) == Shaping!Fold(0, <<>>, o)

\* Row i of result r has a header for pair p of layout l.
TitledIn(l, r, p, i) ==
  \/ r = <<>>
  \/ IF l.pairs[p].column = NoColumn THEN i = 1 ELSE r[i].is[l.pairs[p].column] # Blank

HeadBy(x, acc, q) == IF TitledIn(x[1], x[2], q, x[3]) THEN Append(acc, <<"header", q>>) ELSE acc
Heading == INSTANCE FoldLemmas WITH Op <- HeadBy

\* The headers of k pairs from p on.
HeadersIn(l, r, i, p, k) == Heading!Fold(<<l, r, i>>, <<>>, [j \in 1..k |-> p + j - 1])

FootBy(l, acc, q) == IF l.pairs[q].footer THEN Append(acc, <<"footer", q>>) ELSE acc
Footing == INSTANCE FoldLemmas WITH Op <- FootBy

\* The footers of the k innermost pairs.
FootersIn(l, k) == Footing!Fold(l, <<>>, [j \in 1..k |-> Len(l.pairs) + 1 - j])

\* The outermost pair that ends before row i.
FirstEnd(l, r, i, p) ==
  /\ p \in 1..(Len(l.pairs) + 1)
  /\ p = Len(l.pairs) + 1 \/ EndsIn(l, r, p, i)
  /\ \A q \in 1..(p - 1) : ~EndsIn(l, r, q, i)

FrameIn(l, r, i) ==
  LET n == Len(l.pairs)
      o == CHOOSE p : FirstEnd(l, r, i, p)
  IN  IF i = 1 THEN HeadersIn(l, r, 1, 1, n)
      ELSE FootersIn(l, n + 1 - o) \o HeadersIn(l, r, i, o, n + 1 - o)

FrameBy(x, acc, i) == (acc \o FrameIn(x[1], x[2], i)) \o <<(<<"data", 0>>)>>
Framing == INSTANCE FoldLemmas WITH Op <- FrameBy

FramesIn(l, r, n) == Framing!Fold(<<l, r>>, <<>>, [i \in 1..n |-> i])

-----------------------------------------------------------------------------
(* The equations of these folds.                                           *)

LEMMA ShapeIs == Shape = ShapeOf(out)
BY Zenon DEF Shape, ShapeOf, ShapeBy, Shaping!Fold, Shaping!Greatest, FoldLeft, MapThenFoldSet, Max

LEMMA ShapeNext ==
  /\ ShapeOf(<<>>) = <<>>
  /\ \A o \in Seq(Outs), s \in Outs :
       ShapeOf(Append(o, s)) = IF s.kind \in Framed THEN Append(ShapeOf(o), <<s.kind, s.pair>>) ELSE ShapeOf(o)
BY Shaping!FoldEmpty, Shaping!FoldAppend DEF ShapeOf, ShapeBy

LEMMA ShapeType ==
  ASSUME NEW o \in Seq(Outs)
  PROVE  ShapeOf(o) \in Seq(Marks)
<1> DEFINE n == Len(o)
           A == Seq(Marks)
<1>1. n \in Nat /\ DOMAIN o = 1..n /\ \A i \in 1..n : o[i] \in Outs
  OBVIOUS
<1>2. <<>> \in A
  OBVIOUS
<1>3. ASSUME NEW a \in A, NEW i \in 1..n PROVE ShapeBy(0, a, o[i]) \in A
  <2>1. o[i].pair \in Int
    BY <1>1 DEF Outs
  <2> QED
    BY <2>1 DEF ShapeBy, Marks
<1> HIDE DEF A, n
<1>4. Shaping!Fold(0, <<>>, o) \in A
  BY <1>1, <1>2, <1>3, Shaping!FoldType
<1> QED
  BY <1>4 DEF ShapeOf, A

LEMMA HeadersInIs ==
  ASSUME NEW l, NEW r, NEW i, NEW p \in Int, NEW k \in Nat
  PROVE  /\ HeadersIn(l, r, i, p, 0) = <<>>
         /\ HeadersIn(l, r, i, p, k + 1) =
              IF TitledIn(l, r, p + k, i) THEN Append(HeadersIn(l, r, i, p, k), <<"header", p + k>>)
              ELSE HeadersIn(l, r, i, p, k)
<1> DEFINE s == [j \in 1..k |-> p + j - 1]
           t == [j \in 1..(k + 1) |-> p + j - 1]
           x == <<l, r, i>>
<1>1. [j \in 1..0 |-> p + j - 1] = <<>>
  OBVIOUS
<1>2. HeadersIn(l, r, i, p, 0) = <<>>
  BY <1>1, Heading!FoldEmpty DEF HeadersIn
<1>3. s \in Seq(Int) /\ t = Append(s, p + k) /\ p + k \in Int
  OBVIOUS
<1>4. x[1] = l /\ x[2] = r /\ x[3] = i
  OBVIOUS
<1> HIDE DEF s, t, x
<1>5. Heading!Fold(x, <<>>, Append(s, p + k)) = HeadBy(x, Heading!Fold(x, <<>>, s), p + k)
  BY <1>3, Heading!FoldAppend
<1>6. HeadersIn(l, r, i, p, k) = Heading!Fold(x, <<>>, s) /\ HeadersIn(l, r, i, p, k + 1) = Heading!Fold(x, <<>>, t)
  BY DEF HeadersIn, s, t, x
<1> QED
  BY <1>2, <1>3, <1>4, <1>5, <1>6 DEF HeadBy

LEMMA FootersInIs ==
  ASSUME NEW l, Len(l.pairs) \in Nat, NEW k \in Nat
  PROVE  /\ FootersIn(l, 0) = <<>>
         /\ FootersIn(l, k + 1) =
              LET q == Len(l.pairs) - k
              IN  IF l.pairs[q].footer THEN Append(FootersIn(l, k), <<"footer", q>>) ELSE FootersIn(l, k)
<1> DEFINE n == Len(l.pairs)
           s == [j \in 1..k |-> n + 1 - j]
           t == [j \in 1..(k + 1) |-> n + 1 - j]
<1>1. [j \in 1..0 |-> n + 1 - j] = <<>>
  OBVIOUS
<1>2. FootersIn(l, 0) = <<>>
  BY <1>1, Footing!FoldEmpty DEF FootersIn
<1>3. n - k \in Int /\ n \in Int
  OBVIOUS
<1>a. FootersIn(l, k) = Footing!Fold(l, <<>>, s) /\ FootersIn(l, k + 1) = Footing!Fold(l, <<>>, t)
  BY DEF FootersIn
<1> HIDE DEF n
<1>4. s \in Seq(Int) /\ t = Append(s, n - k)
  BY <1>3
<1> HIDE DEF s, t
<1>5. Footing!Fold(l, <<>>, Append(s, n - k)) = FootBy(l, Footing!Fold(l, <<>>, s), n - k)
  BY <1>3, <1>4, Footing!FoldAppend
<1> QED
  BY <1>2, <1>4, <1>5, <1>a DEF FootBy, n

LEMMA FramesInIs ==
  ASSUME NEW l, NEW r, NEW n \in Nat
  PROVE  /\ FramesIn(l, r, 0) = <<>>
         /\ FramesIn(l, r, n + 1) = (FramesIn(l, r, n) \o FrameIn(l, r, n + 1)) \o <<(<<"data", 0>>)>>
<1> DEFINE s == [i \in 1..n |-> i]
           t == [i \in 1..(n + 1) |-> i]
           x == <<l, r>>
<1>1. [i \in 1..0 |-> i] = <<>>
  OBVIOUS
<1>2. FramesIn(l, r, 0) = <<>>
  BY <1>1, Framing!FoldEmpty DEF FramesIn
<1>3. s \in Seq(Nat) /\ t = Append(s, n + 1) /\ n + 1 \in Nat
  OBVIOUS
<1>4. x[1] = l /\ x[2] = r
  OBVIOUS
<1>5. FramesIn(l, r, n) = Framing!Fold(x, <<>>, s) /\ FramesIn(l, r, n + 1) = Framing!Fold(x, <<>>, t)
  BY DEF FramesIn
<1> HIDE DEF s, t, x
<1>6. Framing!Fold(x, <<>>, Append(s, n + 1)) = FrameBy(x, Framing!Fold(x, <<>>, s), n + 1)
  BY <1>3, Framing!FoldAppend
<1> QED
  BY <1>2, <1>3, <1>4, <1>5, <1>6 DEF FrameBy
-----------------------------------------------------------------------------
(* The types of these folds, and the frame of a row.                       *)

LEMMA NothingYet ==
  ASSUME NEW l, Len(l.pairs) \in Nat, NEW r
  PROVE  /\ FramesIn(l, r, 0) = <<>>
         /\ FootersIn(l, 0) = <<>>
         /\ \A i, p \in Int : HeadersIn(l, r, i, p, 0) = <<>>
<1>1. 0 \in Nat
  OBVIOUS
<1>2. FramesIn(l, r, 0) = <<>>
  BY <1>1, FramesInIs
<1>3. FootersIn(l, 0) = <<>>
  BY <1>1, FootersInIs
<1>4. ASSUME NEW i \in Int, NEW p \in Int PROVE HeadersIn(l, r, i, p, 0) = <<>>
  BY <1>1, HeadersInIs
<1> QED
  BY <1>2, <1>3, <1>4

LEMMA MarksLonger ==
  ASSUME NEW S, NEW s \in Seq(S)
  PROVE  /\ \A e \in S : Append(s, e) \in Seq(S)
         /\ \A t \in Seq(S) : s \o t \in Seq(S)
OBVIOUS

LEMMA MarksAppended ==
  \A s \in Seq(Marks), t \in Seq(Marks), e \in Marks :
    /\ Append(s \o t, e) = s \o Append(t, e)
    /\ s \o <<e>> = Append(s, e)
OBVIOUS

LEMMA MarksJoined ==
  \A s \in Seq(Marks) :
    /\ s \o <<>> = s /\ <<>> \o s = s
    /\ \A t \in Seq(Marks), u \in Seq(Marks) : (s \o t) \o u = s \o (t \o u)
OBVIOUS

LEMMA FramesType ==
  ASSUME NEW l, NEW r, NEW i, Len(l.pairs) \in Nat
  PROVE  /\ \A p \in Int, k \in Nat : HeadersIn(l, r, i, p, k) \in Seq(Marks)
         /\ \A k \in 0..Len(l.pairs) : FootersIn(l, k) \in Seq(Marks)
<1>1. ASSUME NEW p \in Int, NEW k \in Nat PROVE HeadersIn(l, r, i, p, k) \in Seq(Marks)
  <2> DEFINE S == { j \in Nat : HeadersIn(l, r, i, p, j) \in Seq(Marks) }
  <2>1. 0 \in S
    <3>1. 0 \in Nat /\ <<>> \in Seq(Marks)
      OBVIOUS
    <3>2. HeadersIn(l, r, i, p, 0) = <<>>
      BY <3>1, HeadersInIs
    <3> QED
      BY <3>1, <3>2
  <2>2. ASSUME NEW j \in S PROVE j + 1 \in S
    <3>1. j \in Nat /\ HeadersIn(l, r, i, p, j) \in Seq(Marks) /\ p + j \in Int
      OBVIOUS
    <3>2. <<"header", p + j>> \in Marks
      BY <3>1 DEF Marks, Framed
    <3>a. HeadersIn(l, r, i, p, j + 1) =
            IF TitledIn(l, r, p + j, i) THEN Append(HeadersIn(l, r, i, p, j), <<"header", p + j>>)
            ELSE HeadersIn(l, r, i, p, j)
      BY <3>1, HeadersInIs
    <3>3. HeadersIn(l, r, i, p, j + 1) \in Seq(Marks)
      <4>1. Append(HeadersIn(l, r, i, p, j), <<"header", p + j>>) \in Seq(Marks)
        BY <3>1, <3>2, MarksLonger
      <4> QED
        BY <3>1, <3>a, <4>1, Zenon
    <3> QED
      BY <3>1, <3>3
  <2>3. S \in SUBSET Nat /\ \A j \in S : j + 1 \in S
    BY <2>2
  <2> HIDE DEF S
  <2>4. S = Nat
    BY <2>1, <2>3, SetInduction
  <2> QED
    BY <2>4 DEF S
<1>2. ASSUME NEW k \in 0..Len(l.pairs) PROVE FootersIn(l, k) \in Seq(Marks)
  <2> DEFINE S == { j \in Nat : FootersIn(l, j) \in Seq(Marks) }
  <2>1. 0 \in S
    <3>1. 0 \in Nat /\ <<>> \in Seq(Marks)
      OBVIOUS
    <3>2. FootersIn(l, 0) = <<>>
      BY <3>1, FootersInIs
    <3> QED
      BY <3>1, <3>2
  <2>2. ASSUME NEW j \in S PROVE j + 1 \in S
    <3>1. j \in Nat /\ FootersIn(l, j) \in Seq(Marks) /\ Len(l.pairs) - j \in Int
      OBVIOUS
    <3>2. <<"footer", Len(l.pairs) - j>> \in Marks
      BY <3>1 DEF Marks, Framed
    <3>a. FootersIn(l, j + 1) =
            IF l.pairs[Len(l.pairs) - j].footer
            THEN Append(FootersIn(l, j), <<"footer", Len(l.pairs) - j>>) ELSE FootersIn(l, j)
      BY <3>1, FootersInIs
    <3>3. FootersIn(l, j + 1) \in Seq(Marks)
      <4>1. Append(FootersIn(l, j), <<"footer", Len(l.pairs) - j>>) \in Seq(Marks)
        BY <3>1, <3>2, MarksLonger
      <4> QED
        BY <3>1, <3>a, <4>1, Zenon
    <3> QED
      BY <3>1, <3>3
  <2>3. S \in SUBSET Nat /\ \A j \in S : j + 1 \in S
    BY <2>2
  <2> HIDE DEF S
  <2>4. S = Nat
    BY <2>1, <2>3, SetInduction
  <2> QED
    BY <2>4 DEF S
<1> QED
  BY <1>1, <1>2

LEMMA FirstEndOnce ==
  ASSUME NEW l, NEW r, NEW i, NEW o, Len(l.pairs) \in Nat, FirstEnd(l, r, i, o)
  PROVE  (CHOOSE p : FirstEnd(l, r, i, p)) = o
<1> DEFINE c == CHOOSE p : FirstEnd(l, r, i, p)
<1>1. FirstEnd(l, r, i, c)
  OBVIOUS
<1> HIDE DEF c
<1>2. c \in 1..(Len(l.pairs) + 1) /\ o \in 1..(Len(l.pairs) + 1)
  BY <1>1 DEF FirstEnd
<1>3. ~(c < o)
  BY <1>1, <1>2 DEF FirstEnd
<1>4. ~(o < c)
  BY <1>1, <1>2 DEF FirstEnd
<1>5. c = o
  BY <1>2, <1>3, <1>4
<1> QED
  BY <1>5 DEF c

\* There is such a pair, if only the one beyond the innermost.
LEMMA FirstEndExists ==
  ASSUME NEW l, NEW r, NEW i, Len(l.pairs) \in Nat
  PROVE  \E o : FirstEnd(l, r, i, o)
<1> DEFINE S == { p \in 1..(Len(l.pairs) + 1) : p = Len(l.pairs) + 1 \/ EndsIn(l, r, p, i) }
<1>a. Len(l.pairs) + 1 \in S
  OBVIOUS
<1>1. S \in SUBSET Nat /\ S # {}
  BY <1>a
<1>2. PICK o \in S : \A p \in S : o <= p
  <2> HIDE DEF S
  <2> QED
    BY <1>1, LeastExists
<1>3. ASSUME NEW q \in 1..(o - 1) PROVE ~EndsIn(l, r, q, i)
  <2>1. q \notin S
    BY <1>1, <1>2
  <2> QED
    BY <2>1
<1>4. FirstEnd(l, r, i, o)
  BY <1>3 DEF FirstEnd
<1> QED
  BY <1>4

\* A row on which group o is the first to end is framed from that pair on.
LEMMA FrameFrom ==
  ASSUME NEW l, NEW r, NEW i, NEW o, Len(l.pairs) \in Nat, FirstEnd(l, r, i, o), i # 1
  PROVE  FrameIn(l, r, i) = FootersIn(l, Len(l.pairs) + 1 - o)
                              \o HeadersIn(l, r, i, o, Len(l.pairs) + 1 - o)
BY FirstEndOnce, Zenon DEF FrameIn

LEMMA FrameType ==
  ASSUME NEW l, NEW r, NEW i, Len(l.pairs) \in Nat
  PROVE  FrameIn(l, r, i) \in Seq(Marks)
<1> DEFINE n == Len(l.pairs)
<1>1. CASE i = 1
  <2>a. 1 \in Int /\ n \in Nat
    OBVIOUS
  <2>1. HeadersIn(l, r, 1, 1, n) \in Seq(Marks)
    BY <2>a, FramesType
  <2> QED
    BY <1>1, <2>1 DEF FrameIn
<1>2. CASE i # 1
  <2>1. PICK o : FirstEnd(l, r, i, o)
    BY FirstEndExists
  <2>2. o \in Int /\ n + 1 - o \in Nat /\ n + 1 - o \in 0..n
    BY <2>1 DEF FirstEnd
  <2>3. FootersIn(l, n + 1 - o) \in Seq(Marks) /\ HeadersIn(l, r, i, o, n + 1 - o) \in Seq(Marks)
    BY <2>2, FramesType
  <2>4. FrameIn(l, r, i) = FootersIn(l, n + 1 - o) \o HeadersIn(l, r, i, o, n + 1 - o)
    BY <1>2, <2>1, FrameFrom
  <2> QED
    BY <2>3, <2>4
<1> QED
  BY <1>1, <1>2

LEMMA AllFramesType ==
  ASSUME NEW l, NEW r, NEW n \in Nat, Len(l.pairs) \in Nat
  PROVE  FramesIn(l, r, n) \in Seq(Marks)
<1> DEFINE S == { j \in Nat : FramesIn(l, r, j) \in Seq(Marks) }
<1>1. 0 \in S
  <2>1. 0 \in Nat /\ <<>> \in Seq(Marks)
    OBVIOUS
  <2>2. FramesIn(l, r, 0) = <<>>
    BY <2>1, FramesInIs
  <2> QED
    BY <2>1, <2>2
<1>2. ASSUME NEW j \in S PROVE j + 1 \in S
  <2>1. j \in Nat /\ FramesIn(l, r, j) \in Seq(Marks) /\ FrameIn(l, r, j + 1) \in Seq(Marks)
    BY FrameType
  <2>2. <<"data", 0>> \in Marks
    BY DEF Marks, Framed
  <2>a. FramesIn(l, r, j + 1) = (FramesIn(l, r, j) \o FrameIn(l, r, j + 1)) \o <<(<<"data", 0>>)>>
    BY <2>1, FramesInIs
  <2>3. FramesIn(l, r, j + 1) \in Seq(Marks)
    <3>1. FramesIn(l, r, j) \o FrameIn(l, r, j + 1) \in Seq(Marks) /\ <<(<<"data", 0>>)>> \in Seq(Marks)
      BY <2>1, <2>2, MarksLonger
    <3>2. (FramesIn(l, r, j) \o FrameIn(l, r, j + 1)) \o <<(<<"data", 0>>)>> \in Seq(Marks)
      BY <3>1, MarksLonger
    <3> QED
      BY <2>a, <3>2, Zenon
  <2> QED
    BY <2>1, <2>3
<1>3. S \in SUBSET Nat /\ \A j \in S : j + 1 \in S
  BY <1>2
<1> HIDE DEF S
<1>4. S = Nat
  BY <1>1, <1>3, SetInduction
<1> QED
  BY <1>4 DEF S
-----------------------------------------------------------------------------
(* What the property speaks of is what these folds compute.                *)

HeadNow(i, acc, q) == IF Titled(q, i) THEN Append(acc, <<"header", q>>) ELSE acc
HeadingNow == INSTANCE FoldLemmas WITH Op <- HeadNow

FrameNow(x, acc, i) == (acc \o Frame(i)) \o <<(<<"data", 0>>)>>
FramingNow == INSTANCE FoldLemmas WITH Op <- FrameNow

LEMMA FootersAre == \A p : Footers(p) = FootersIn(layout, N + 1 - p)
BY Zenon DEF Footers, FootersIn, FootBy, Footing!Fold, Footing!Greatest, FoldLeft, MapThenFoldSet,
             Max, N, Pair

LEMMA HeadersAreNow ==
  \A i, p : Headers(i, p) = HeadingNow!Fold(i, <<>>, [k \in 1..(N + 1 - p) |-> p + k - 1])
BY Zenon DEF Headers, HeadNow, HeadingNow!Fold, HeadingNow!Greatest, FoldLeft, MapThenFoldSet, Max

LEMMA FramesAreNow ==
  \A n : Frames(n) = FramingNow!Fold(0, <<>>, [i \in 1..n |-> i])
BY Zenon DEF Frames, FrameNow, FramingNow!Fold, FramingNow!Greatest, FoldLeft, MapThenFoldSet, Max

LEMMA HeadersNext ==
  ASSUME NEW i, NEW p \in Int, NEW k \in Nat
  PROVE  HeadingNow!Fold(i, <<>>, [j \in 1..k |-> p + j - 1]) = HeadersIn(layout, rows, i, p, k)
<1> DEFINE F(n) == HeadingNow!Fold(i, <<>>, [j \in 1..n |-> p + j - 1])
           H(n) == HeadersIn(layout, rows, i, p, n)
           S == { n \in Nat : F(n) = H(n) }
<1>1. 0 \in S
  <2>1. 0 \in Nat /\ [j \in 1..0 |-> p + j - 1] = <<>>
    OBVIOUS
  <2>2. H(0) = <<>>
    BY <2>1, HeadersInIs
  <2>3. F(0) = <<>>
    BY <2>1, HeadingNow!FoldEmpty
  <2> QED
    BY <2>1, <2>2, <2>3
<1>2. ASSUME NEW n \in S PROVE n + 1 \in S
  <2> DEFINE s == [j \in 1..n |-> p + j - 1]
             t == [j \in 1..(n + 1) |-> p + j - 1]
  <2>1. n \in Nat /\ F(n) = H(n) /\ p + n \in Int
    OBVIOUS
  <2>2. s \in Seq(Int) /\ t = Append(s, p + n)
    BY <2>1
  <2>3. F(n) = HeadingNow!Fold(i, <<>>, s) /\ F(n + 1) = HeadingNow!Fold(i, <<>>, t)
    OBVIOUS
  <2> HIDE DEF s, t, F
  <2>4. HeadingNow!Fold(i, <<>>, Append(s, p + n)) = HeadNow(i, HeadingNow!Fold(i, <<>>, s), p + n)
    BY <2>1, <2>2, HeadingNow!FoldAppend
  <2>5. F(n + 1) = IF Titled(p + n, i) THEN Append(F(n), <<"header", p + n>>) ELSE F(n)
    BY <2>2, <2>3, <2>4 DEF HeadNow
  <2>6. H(n + 1) = IF TitledIn(layout, rows, p + n, i) THEN Append(H(n), <<"header", p + n>>) ELSE H(n)
    BY <2>1, HeadersInIs
  <2>7. Titled(p + n, i) <=> TitledIn(layout, rows, p + n, i)
    BY DEF Titled, TitledIn, Pair
  <2> HIDE DEF H
  <2>8. F(n + 1) = H(n + 1)
    BY <2>1, <2>5, <2>6, <2>7
  <2> QED
    BY <2>1, <2>8
<1>3. S \in SUBSET Nat /\ \A n \in S : n + 1 \in S
  BY <1>2
<1> HIDE DEF S
<1>4. S = Nat
  BY <1>1, <1>3, SetInduction
<1> QED
  BY <1>4 DEF S

LEMMA HeadersAre ==
  ASSUME N \in Nat, NEW i, NEW p \in 1..(N + 1)
  PROVE  Headers(i, p) = HeadersIn(layout, rows, i, p, N + 1 - p)
<1>1. p \in Int /\ N + 1 - p \in Nat
  OBVIOUS
<1> QED
  BY <1>1, HeadersAreNow, HeadersNext

LEMMA OutermostIs ==
  ASSUME N \in Nat, NEW i \in Nat
  PROVE  FirstEnd(layout, rows, i, Outermost(i))
<1> DEFINE n == N
           Turn(p) == /\ p = n + 1 \/ ~Same(rows[i - 1], rows[i], p)
                      /\ \A q \in 1..(p - 1) : Same(rows[i - 1], rows[i], q)
           e(p) == EndsIn(layout, rows, p, i)
           same(p) == Same(rows[i - 1], rows[i], p)
<1>1. \A p : same(p) <=> SameIn(layout, rows[i - 1], rows[i], p)
  BY DEF Same, SameIn, Pair
<1>2. \A p \in Nat : SameIn(layout, rows[i - 1], rows[i], p) <=> \A q \in 1..p : e(q)= FALSE
  <2>1. \A p \in Nat : SameIn(layout, rows[i - 1], rows[i], p) <=> \A q \in 1..p : ~e(q)
    BY EndsOrSame
  <2> QED
    BY <2>1
<1>3. n = Len(layout.pairs) /\ n \in Nat
  BY DEF N
<1> HIDE DEF e, same
<1>4. \A p \in Nat : same(p) <=> \A q \in 1..p : ~e(q)
  BY <1>1, <1>2
<1>5. PICK o : FirstEnd(layout, rows, i, o)
  BY <1>3, FirstEndExists
<1> HIDE DEF n
<1>6. o \in 1..(n + 1) /\ (o = n + 1 \/ e(o)) /\ \A q \in 1..(o - 1) : ~e(q)
  BY <1>3, <1>5 DEF FirstEnd, e
<1>7. o = n + 1 \/ ~same(o)
  BY <1>3, <1>4, <1>6
<1>8. \A q \in 1..(o - 1) : same(q)
  BY <1>3, <1>4, <1>6
<1>9. Turn(o)
  BY <1>7, <1>8 DEF same
<1> DEFINE c == Outermost(i)
<1>10. c \in 1..(n + 1) /\ Turn(c)
  BY <1>6, <1>9 DEF Outermost, n
<1>11. (c = n + 1 \/ ~same(c)) /\ \A q \in 1..(c - 1) : same(q)
  BY <1>10 DEF same
<1> HIDE DEF c, Turn
<1>12. \A q \in 1..(c - 1) : ~e(q)
  BY <1>3, <1>4, <1>10, <1>11
<1>13. c = n + 1 \/ e(c)
  <2> SUFFICES ASSUME ~same(c) PROVE e(c)
    BY <1>11
  <2>1. PICK q \in 1..c : e(q)
    BY <1>3, <1>4, <1>10
  <2> QED
    BY <1>3, <1>10, <1>12, <2>1
<1>14. FirstEnd(layout, rows, i, c)
  BY <1>3, <1>10, <1>12, <1>13 DEF FirstEnd, e
<1> QED
  BY <1>14 DEF c

LEMMA FrameIs ==
  ASSUME N \in Nat, NEW i \in Nat
  PROVE  Frame(i) = FrameIn(layout, rows, i)
<1> DEFINE o == Outermost(i)
           n == Len(layout.pairs)
<1>1. N = n /\ n \in Nat
  BY DEF N
<1>2. CASE i = 1
  <2>1. 1 \in 1..(N + 1) /\ N + 1 - 1 = n
    BY <1>1
  <2>2. Headers(1, 1) = HeadersIn(layout, rows, 1, 1, n)
    BY <2>1, HeadersAre
  <2> QED
    BY <1>2, <2>2 DEF Frame, FrameIn
<1>3. CASE i # 1
  <2>1. FirstEnd(layout, rows, i, o)
    BY OutermostIs
  <2>2. o \in 1..(N + 1)
    BY <1>1, <2>1 DEF FirstEnd
  <2> HIDE DEF o, n
  <2>3. FrameIn(layout, rows, i) = FootersIn(layout, n + 1 - o) \o HeadersIn(layout, rows, i, o, n + 1 - o)
    BY <1>1, <1>3, <2>1, FrameFrom DEF n
  <2>4. Headers(i, o) = HeadersIn(layout, rows, i, o, N + 1 - o)
    BY <2>2, HeadersAre
  <2>5. Footers(o) = FootersIn(layout, N + 1 - o)
    BY FootersAre
  <2>6. Frame(i) = Footers(o) \o Headers(i, o)
    BY <1>3 DEF Frame, o
  <2> QED
    BY <1>1, <2>3, <2>4, <2>5, <2>6
<1> QED
  BY <1>2, <1>3

LEMMA FramesAre ==
  ASSUME N \in Nat, NEW n \in Nat
  PROVE  Frames(n) = FramesIn(layout, rows, n)
<1> DEFINE F(m) == FramingNow!Fold(0, <<>>, [i \in 1..m |-> i])
           G(m) == FramesIn(layout, rows, m)
           S == { m \in Nat : F(m) = G(m) }
<1>1. 0 \in S
  <2>1. 0 \in Nat /\ [i \in 1..0 |-> i] = <<>>
    OBVIOUS
  <2>2. G(0) = <<>>
    BY <2>1, FramesInIs
  <2>3. F(0) = <<>>
    BY <2>1, FramingNow!FoldEmpty
  <2> QED
    BY <2>1, <2>2, <2>3
<1>2. ASSUME NEW m \in S PROVE m + 1 \in S
  <2> DEFINE s == [i \in 1..m |-> i]
             t == [i \in 1..(m + 1) |-> i]
  <2>1. m \in Nat /\ F(m) = G(m) /\ m + 1 \in Nat
    OBVIOUS
  <2>2. s \in Seq(Nat) /\ t = Append(s, m + 1)
    BY <2>1
  <2>3. F(m) = FramingNow!Fold(0, <<>>, s) /\ F(m + 1) = FramingNow!Fold(0, <<>>, t)
    OBVIOUS
  <2> HIDE DEF s, t, F
  <2>4. FramingNow!Fold(0, <<>>, Append(s, m + 1)) = FrameNow(0, FramingNow!Fold(0, <<>>, s), m + 1)
    BY <2>1, <2>2, FramingNow!FoldAppend
  <2>5. F(m + 1) = (F(m) \o Frame(m + 1)) \o <<(<<"data", 0>>)>>
    BY <2>2, <2>3, <2>4 DEF FrameNow
  <2>6. G(m + 1) = (G(m) \o FrameIn(layout, rows, m + 1)) \o <<(<<"data", 0>>)>>
    BY <2>1, FramesInIs
  <2>7. Frame(m + 1) = FrameIn(layout, rows, m + 1)
    BY <2>1, FrameIs
  <2> HIDE DEF G
  <2>8. F(m + 1) = G(m + 1)
    BY <2>1, <2>5, <2>6, <2>7
  <2> QED
    BY <2>1, <2>8
<1>3. S \in SUBSET Nat /\ \A m \in S : m + 1 \in S
  BY <1>2
<1> HIDE DEF S
<1>4. S = Nat
  BY <1>1, <1>3, SetInduction
<1>5. F(n) = G(n)
  BY <1>4 DEF S
<1> QED
  BY <1>5, FramesAreNow
-----------------------------------------------------------------------------
(* What has been printed at each point of a turn.                          *)

\* The rows printed before this turn, framed.
Before == FramesIn(layout, rows, batch.counter)

\* The groups of pairs within the first that has ended are footed.
NoneEnds(p) == \A q \in 1..(p - 1) : ~Ends(q)

\* The groups from pair o on have ended, and the headers before pair p are printed.
Reopened(l, r, i, p, o, b, s) ==
  /\ o <= p /\ FirstEnd(l, r, i, o)
  /\ s = (b \o FootersIn(l, Len(l.pairs) + 1 - o)) \o HeadersIn(l, r, i, o, p - o)

Drawn ==
  LET s == ShapeOf(out)
  IN  /\ phase = "row" => s = Before
      /\ phase = "header" /\ footers =>
           s = IF batch.counter = 0 THEN HeadersIn(layout, rows, 1, 1, at - 1) ELSE Before
      /\ phase = "header" /\ ~footers => \E o : Reopened(layout, rows, Row, at, o, Before, s)
      /\ phase \in {"foot", "break", "page"} => NoneEnds(at)
      /\ phase = "foot" => foot >= at - 1 /\ s = Before \o FootersIn(layout, N - foot)
      /\ phase \in {"break", "page"} => s = Before \o FootersIn(layout, N - foot + 1)
      /\ phase = "next" => s = FramesIn(layout, rows, Row)
      /\ phase = "end" => s = FramesIn(layout, rows, Turns) \o FootersIn(layout, N - foot)
      /\ phase = "idle" /\ out # <<>> =>
           s = FramesIn(layout, rows, Turns) \o FootersIn(layout, N)

ShapeInv == ~stopped => Drawn

LEMMA Shaped ==
  ASSUME Types, NEW s \in Outs
  PROVE  /\ ShapeOf(out) \in Seq(Marks)
         /\ ShapeOf(Append(out, s)) =
              IF s.kind \in Framed THEN Append(ShapeOf(out), <<s.kind, s.pair>>) ELSE ShapeOf(out)
         /\ \A break \in BOOLEAN :
              Output(s, break) => ShapeOf(out') = ShapeOf(Append(out, s))
<1>1. out \in Seq(Outs)
  BY DEF Types
<1>2. Page \in Outs /\ Page.kind \notin Framed
  BY DEF Page, Outs, Framed, Seen
<1>3. Append(out, s) \in Seq(Outs)
  BY <1>1
<1>4. \A o \in Seq(Outs), e \in Outs :
        ShapeOf(Append(o, e)) = IF e.kind \in Framed THEN Append(ShapeOf(o), <<e.kind, e.pair>>) ELSE ShapeOf(o)
  BY ShapeNext
<1>5. ShapeOf(Append(Append(out, s), Page)) = ShapeOf(Append(out, s))
  BY <1>2, <1>3, <1>4, Zenon
<1>6. ASSUME NEW break \in BOOLEAN, Output(s, break)
      PROVE  out' = Append(out, s) \/ out' = Append(Append(out, s), Page)
  <2>1. out \o <<s>> = Append(out, s)
    BY <1>1
  <2>2. out \o <<s, Page>> = Append(Append(out, s), Page)
    BY <1>1
  <2> QED
    BY <1>6, <2>1, <2>2 DEF Output
<1> QED
  BY <1>1, <1>4, <1>5, <1>6, ShapeType

LEMMA DrawnTypes ==
  ASSUME Inv, Types
  PROVE  /\ Len(layout.pairs) \in Nat /\ N = Len(layout.pairs) /\ N \in Nat
         /\ at \in 1..(N + 1) /\ foot \in 0..N /\ batch.counter \in Nat
         /\ Before \in Seq(Marks)
         /\ \A k \in 0..N : FootersIn(layout, k) \in Seq(Marks)
<1>1. N \in Nat /\ N = Len(layout.pairs)
  BY PairsType DEF N
<1>2. batch.counter \in Nat
  BY DEF Inv, BatchTypes
<1>3. Before \in Seq(Marks)
  BY <1>1, <1>2, AllFramesType DEF Before
<1>4. \A k \in 0..Len(layout.pairs) : FootersIn(layout, k) \in Seq(Marks)
  BY <1>1, FramesType
<1> QED
  BY <1>1, <1>2, <1>3, <1>4 DEF Types

LEMMA DrawnExecute ==
  ASSUME Inv, Types, Execute
  PROVE  ShapeInv'
<1>1. BatchTypes /\ ~batch.previous /\ Enable /\ driver' = driver
  BY DEF Execute, Inv, Stepping, Back
<1>2. batch'.counter = 0
  BY <1>1, EnableWindow
<1>3. out' = <<>> /\ phase' = "row"
  BY DEF Execute
<1>4. ShapeOf(out)' = <<>>
  BY <1>3, ShapeNext
<1>5. Before' = <<>>
  <2>1. \A l, r : FramesIn(l, r, 0) = <<>>
    BY FramesInIs
  <2> QED
    BY <1>2, <2>1 DEF Before
<1> QED
  BY <1>3, <1>4, <1>5 DEF ShapeInv, Drawn

LEMMA DrawnBeginRow ==
  ASSUME Inv, Types, ShapeInv, BeginRow
  PROVE  ShapeInv'
<1> SUFFICES ASSUME ~stopped' PROVE Drawn'
  BY DEF ShapeInv
<1>1. ~stopped /\ phase = "row" /\ phase' = "header" /\ at' = 1 /\ footers'
      /\ UNCHANGED <<rows, batch, layout, out>>
  BY DEF BeginRow, MayStop
<1>2. ShapeOf(out) = Before
  BY <1>1 DEF ShapeInv, Drawn
<1>3. ShapeOf(out)' = ShapeOf(out) /\ Before' = Before
  BY <1>1 DEF Before
<1>4. batch.counter = 0 => Before = HeadersIn(layout, rows, 1, 1, 0)
  <2>1. Len(layout.pairs) \in Nat /\ 1 \in Int
    BY DrawnTypes
  <2>2. FramesIn(layout, rows, 0) = <<>> /\ HeadersIn(layout, rows, 1, 1, 0) = <<>>
    BY <2>1, NothingYet
  <2> QED
    BY <2>2 DEF Before
<1>5. batch'.counter = batch.counter /\ at' - 1 = 0
  BY <1>1
<1>6. HeadersIn(layout, rows, 1, 1, at - 1)' = HeadersIn(layout, rows, 1, 1, 0)
  BY <1>1, <1>5
<1> QED
  BY <1>1, <1>2, <1>3, <1>4, <1>5, <1>6 DEF Drawn

LEMMA DrawnStepBack ==
  ASSUME Inv, Types, SumInv, ShapeInv, StepBack
  PROVE  ShapeInv'
<1> SUFFICES ASSUME ~stopped' PROVE Drawn'
  BY DEF ShapeInv
<1>0. N \in Nat /\ at \in 1..(N + 1) /\ batch.counter \in Nat
      /\ Before \in Seq(Marks)
  BY DrawnTypes
<1>1. /\ ~stopped /\ phase = "header" /\ at <= N /\ phase' = "foot" /\ foot' = N
      /\ footers /\ batch.counter > 0
      /\ batch'.counter = batch.counter
      /\ UNCHANGED <<rows, layout, at, out>>
  BY <1>0 DEF StepBack, GotoPrevious, GroupEnds, RowPosition, Inv, BatchTypes
<1>2. ShapeOf(out) = Before
  BY <1>0, <1>1 DEF ShapeInv, Drawn
<1>3. ShapeOf(out)' = ShapeOf(out) /\ Before' = Before /\ N' = N
  BY <1>1 DEF Before, N
<1>4. NoneEnds(at)'
  <2>1. \A p \in 1..N : p < at => ~Ends(p)
    BY <1>1 DEF SumInv, Endings
  <2>2. NoneEnds(at)
    BY <1>0, <1>1, <2>1 DEF NoneEnds
  <2> QED
    BY <1>1, <2>2 DEF NoneEnds, Ends, Row
<1>5. (N - foot)' = 0
  BY <1>0, <1>1, <1>3
<1>6. Before \o FootersIn(layout, 0) = Before
  <2>1. Len(layout.pairs) \in Nat
    BY DrawnTypes
  <2>2. FootersIn(layout, 0) = <<>>
    BY <2>1, NothingYet
  <2> QED
    BY <1>0, <2>2
<1>7. FootersIn(layout, N - foot)' = FootersIn(layout, 0)
  BY <1>1, <1>5
<1>8. foot' >= at' - 1
  BY <1>0, <1>1
<1> QED
  BY <1>1, <1>2, <1>3, <1>4, <1>6, <1>7, <1>8 DEF Drawn
LEMMA DrawnFooter ==
  ASSUME Inv, Types, ShapeInv, Footer
  PROVE  ShapeInv'
<1> SUFFICES ASSUME ~stopped' PROVE Drawn'
  BY DEF ShapeInv
<1> DEFINE k == N - foot
           B == Before
           F(j) == FootersIn(layout, j)
           S == ShapeOf(out)
<1>0. /\ N \in Nat /\ N = Len(layout.pairs) /\ at \in 1..(N + 1) /\ foot \in 0..N
      /\ B \in Seq(Marks) /\ \A j \in 0..N : F(j) \in Seq(Marks)
  BY DrawnTypes
<1>1. /\ ~stopped /\ phase = "foot" /\ foot >= at
      /\ UNCHANGED <<rows, batch, layout, at>>
  BY DEF Footer
<1>2. S = B \o F(k) /\ NoneEnds(at)
  BY <1>1 DEF ShapeInv, Drawn
<1>3. k \in Nat /\ k \in 0..N /\ k + 1 \in 0..N /\ N - k = foot /\ foot \in Int
  BY <1>0, <1>1
<1>4. F(k + 1) = IF layout.pairs[foot].footer THEN Append(F(k), <<"footer", foot>>) ELSE F(k)
  <2> HIDE DEF k
  <2> QED
    BY <1>0, <1>3, FootersInIs
<1>5. S' = B \o F(k + 1)
  <2>1. CASE layout.pairs[foot].footer
    <3> DEFINE s == Section("footer", foot, counted[foot])
    <3>1. foot \in Counters /\ phase # "idle"
      BY <1>0, <1>1, PairsType
    <3>2. counted[foot] \in Seq(Seen)
      BY <3>1 DEF Types
    <3>3. s \in Outs /\ s.kind = "footer" /\ s.pair = foot
      BY <1>3, <3>1, <3>2, SectionType
    <3>4. out' = Append(out, s)
      BY <2>1 DEF Footer, Pair
    <3> HIDE DEF s
    <3>5. ShapeOf(Append(out, s)) = Append(S, <<"footer", foot>>)
      <4>1. ShapeOf(Append(out, s)) = IF s.kind \in Framed THEN Append(S, <<s.kind, s.pair>>) ELSE S
        BY <3>3, Shaped
      <4> QED
        BY <3>3, <4>1 DEF Framed
    <3>6. Append(B \o F(k), <<"footer", foot>>) = B \o Append(F(k), <<"footer", foot>>)
      <4> HIDE DEF B, F, k
      <4>1. F(k) \in Seq(Marks) /\ <<"footer", foot>> \in Marks
        BY <1>0, <1>3 DEF Marks, Framed
      <4>2. B \in Seq(Marks)
        BY <1>0
      <4> QED
        BY <4>1, <4>2, MarksAppended
    <3> QED
      BY <1>2, <1>4, <2>1, <3>4, <3>5, <3>6
  <2>2. CASE ~layout.pairs[foot].footer
    <3>1. out' = out
      BY <2>2 DEF Footer, Pair
    <3> QED
      BY <1>2, <1>4, <2>2, <3>1
  <2> QED
    BY <2>1, <2>2
<1>6. Before' = B /\ N' = N /\ F(k + 1)' = FootersIn(layout, (k + 1)') /\ NoneEnds(at)'
  BY <1>1, <1>2 DEF Before, N, NoneEnds, Ends, Row
<1>7. CASE phase' = "break" /\ foot' = foot
  <2>1. FootersIn(layout, N - foot + 1)' = F(k + 1)
    BY <1>1, <1>6, <1>7
  <2> HIDE DEF B, F, k, S
  <2> QED
    BY <1>5, <1>6, <1>7, <2>1 DEF Drawn, S
<1>8. CASE phase' = "foot" /\ foot' = foot - 1
  <2>1. (N - foot)' = k + 1
    BY <1>0, <1>6, <1>8
  <2>2. FootersIn(layout, N - foot)' = F(k + 1)
    BY <1>1, <2>1
  <2>3. foot' >= at' - 1
    BY <1>0, <1>1, <1>8
  <2> HIDE DEF B, F, k
  <2> QED
    BY <1>5, <1>6, <1>8, <2>2, <2>3 DEF Drawn
<1> QED
  BY <1>7, <1>8 DEF Footer, Footed

LEMMA DrawnStepToPage ==
  ASSUME Inv, Types, ShapeInv, driver.steps, StepToPage
  PROVE  ShapeInv'
<1> SUFFICES ASSUME ~stopped' PROVE Drawn'
  BY DEF ShapeInv
<1>1. /\ ~stopped /\ phase = "break" /\ phase' = "page" /\ batch.previous
      /\ UNCHANGED <<rows, layout, at, foot, out>>
      /\ batch' = [batch EXCEPT !.previous = FALSE]
  BY DEF StepToPage, GotoNext, Inv, Stepping, Back
<1>2. batch'.counter = batch.counter
  BY <1>1 DEF Inv, BatchTypes
<1>3. ShapeOf(out) = Before \o FootersIn(layout, N - foot + 1) /\ NoneEnds(at)
  BY <1>1 DEF ShapeInv, Drawn
<1>4. UNCHANGED <<Before, N, Row>>
  BY <1>1, <1>2 DEF Before, N, Row
<1>5. NoneEnds(at)'
  BY <1>1, <1>3, <1>4 DEF NoneEnds, Ends
<1> QED
  BY <1>1, <1>3, <1>4, <1>5 DEF Drawn

LEMMA DrawnNewPage ==
  ASSUME Inv, Types, ShapeInv, NewPage
  PROVE  ShapeInv'
<1> SUFFICES ASSUME ~stopped' PROVE Drawn'
  BY DEF ShapeInv
<1>0. N \in Nat /\ at \in 1..(N + 1) /\ foot \in 0..N
  BY DrawnTypes
<1>1. /\ ~stopped /\ phase = "page" /\ phase' = "foot" /\ foot' = foot - 1
      /\ UNCHANGED <<rows, layout, at>> /\ out' = Append(out, Page)
      /\ batch' = [batch EXCEPT !.previous = TRUE]
  BY DEF NewPage, GotoPrevious, Footed, MayStop
<1>2. batch'.counter = batch.counter
  BY <1>1 DEF Inv, BatchTypes
<1>3. ShapeOf(out) = Before \o FootersIn(layout, N - foot + 1) /\ NoneEnds(at)
  BY <1>1 DEF ShapeInv, Drawn
<1>4. UNCHANGED <<Before, N, Row>>
  BY <1>1, <1>2 DEF Before, N, Row
<1>5. NoneEnds(at)'
  BY <1>1, <1>3, <1>4 DEF NoneEnds, Ends
<1>6. ShapeOf(out)' = ShapeOf(out)
  <2>1. Page \in Outs /\ Page.kind \notin Framed
    BY DEF Page, Outs, Framed, Seen
  <2> QED
    BY <1>1, <2>1, Shaped
<1>7. (N - foot)' = N - foot + 1
  BY <1>0, <1>1, <1>4
<1>8. foot >= at /\ foot' >= at' - 1
  BY <1>0, <1>1 DEF Types
<1>9. FootersIn(layout, N - foot)' = FootersIn(layout, N - foot + 1)
  BY <1>1, <1>7
<1> QED
  BY <1>1, <1>3, <1>4, <1>5, <1>6, <1>8, <1>9 DEF Drawn

LEMMA DrawnStepForward ==
  ASSUME Inv, Types, SumInv, ShapeInv, driver.steps, StepForward
  PROVE  ShapeInv'
<1> SUFFICES ASSUME ~stopped' PROVE Drawn'
  BY DEF ShapeInv
<1>0. /\ N \in Nat /\ N = Len(layout.pairs) /\ at \in 1..(N + 1) /\ foot \in 0..N
      /\ batch.counter \in Nat /\ Before \in Seq(Marks)
      /\ \A j \in 0..N : FootersIn(layout, j) \in Seq(Marks)
  BY DrawnTypes
<1>1. /\ ~stopped /\ phase = "foot" /\ foot < at /\ phase' = "header" /\ footers' = FALSE
      /\ UNCHANGED <<rows, layout, at, foot, out>> /\ batch.previous
      /\ batch' = [batch EXCEPT !.previous = FALSE]
  BY DEF StepForward, GotoNext, Inv, Stepping, Back
<1>2. batch'.counter = batch.counter
  BY <1>1 DEF Inv, BatchTypes
<1>3. ShapeOf(out) = Before \o FootersIn(layout, N - foot) /\ NoneEnds(at) /\ foot >= at - 1
  BY <1>1 DEF ShapeInv, Drawn
<1>4. UNCHANGED <<Before, N, Row>>
  BY <1>1, <1>2 DEF Before, N, Row
<1>5. at <= N /\ Ends(at)
  BY <1>1 DEF SumInv, Endings
<1>6. FirstEnd(layout, rows, Row, at)
  BY <1>0, <1>3, <1>5 DEF FirstEnd, NoneEnds, Ends
<1>7. Reopened(layout, rows, Row, at, at, Before, ShapeOf(out))
  <2>a. Row \in Int
    BY <1>0 DEF Row
  <2>b. foot = at - 1 /\ at \in 1..N
    BY <1>0, <1>1, <1>3, <1>5
  <2>c. N - foot = N + 1 - at /\ N + 1 - at \in 0..N /\ at - at = 0 /\ at \in Int
    BY <1>0, <2>b
  <2>1. N - foot = N + 1 - at /\ N + 1 - at \in 0..N /\ at - at = 0 /\ at \in Int /\ Row \in Int
    BY <2>a, <2>c
  <2>2. HeadersIn(layout, rows, Row, at, 0) = <<>>
    BY <1>0, <2>1, NothingYet
  <2>3. Before \o FootersIn(layout, N + 1 - at) \in Seq(Marks)
    BY <1>0, <2>1, MarksLonger
  <2>4. (Before \o FootersIn(layout, N + 1 - at)) \o <<>> = Before \o FootersIn(layout, N + 1 - at)
    BY <2>3
  <2>5. HeadersIn(layout, rows, Row, at, at - at) = <<>>
    BY <2>1, <2>2
  <2>6. FootersIn(layout, N - foot) = FootersIn(layout, Len(layout.pairs) + 1 - at) /\ at <= at
    BY <1>0, <2>1
  <2> QED
    BY <1>0, <1>3, <1>6, <2>4, <2>5, <2>6, Zenon DEF Reopened
<1>8. Reopened(layout, rows, Row, at, at, Before, ShapeOf(out))'
  BY <1>1, <1>4, <1>7
<1>9. (\E o : Reopened(layout, rows, Row, at, o, Before, ShapeOf(out)))'
  BY <1>8
<1> QED
  BY <1>1, <1>9 DEF Drawn
-----------------------------------------------------------------------------
(* Headers and data.                                                       *)

\* Whether a header is due is whether it is titled, but for a group that goes on.
LEMMA DueIsTitled ==
  ASSUME Inv, Types, SumInv, phase = "header", at <= N, ~GroupEnds
  PROVE  IF footers /\ batch.counter > 0 THEN ~HeaderDue(at)
         ELSE HeaderDue(at) <=> TitledIn(layout, rows, at, Row)
<1> DEFINE c == layout.pairs[at].column
<1>0. N \in Nat /\ at \in 1..N /\ batch.counter \in Nat /\ Row = batch.counter + 1
  BY DrawnTypes DEF Row
<1>1. CASE footers /\ batch.counter > 0
  BY <1>1 DEF GroupEnds, RowPosition
<1>2. CASE ~(footers /\ batch.counter > 0)
  <2>1. CASE rows = <<>>
    BY <1>2, <2>1, RowInResult DEF HeaderDue, TitledIn
  <2>2. CASE rows # <<>>
    <3>1. MaxRows # 0
      BY <2>2, RowInResult
    <3>2. Field(at) = IF c = NoColumn THEN Blank ELSE rows[Row].is[c]
      BY <2>2, RowShown
    <3>3. ~footers => batch.counter > 0
      BY DEF SumInv, Endings
    <3>4. CASE c = NoColumn
      <4>1. HeaderDue(at) <=> batch.counter = 0
        BY <3>1, <3>4 DEF HeaderDue, RowPosition, Pair
      <4>2. TitledIn(layout, rows, at, Row) <=> Row = 1
        BY <2>2, <3>4 DEF TitledIn
      <4> QED
        BY <1>0, <1>2, <4>1, <4>2
    <3>5. CASE c # NoColumn
      <4>1. Waits(at)
        BY <1>0, <1>2 DEF SumInv, Pairs, KnowsBefore
      <4>2. last[at] = Blank
        BY <3>5, <4>1 DEF Waits, Waiting
      <4>3. HeaderDue(at) <=> Blank # rows[Row].is[c]
        BY <3>1, <3>2, <3>5, <4>2 DEF HeaderDue, Pair
      <4>4. TitledIn(layout, rows, at, Row) <=> rows[Row].is[c] # Blank
        BY <2>2, <3>5 DEF TitledIn
      <4> QED
        BY <1>2, <4>3, <4>4
    <3> QED
      BY <3>4, <3>5
  <2> QED
    BY <2>1, <2>2
<1> QED
  BY <1>1, <1>2

LEMMA DrawnHeader ==
  ASSUME Inv, Types, SumInv, ShapeInv, Header
  PROVE  ShapeInv'
<1> SUFFICES ASSUME ~stopped' PROVE Drawn'
  BY DEF ShapeInv
<1> DEFINE S == ShapeOf(out)
           B == Before
           H(i, p, k) == HeadersIn(layout, rows, i, p, k)
<1>0. /\ N \in Nat /\ N = Len(layout.pairs) /\ Len(layout.pairs) \in Nat
      /\ batch.counter \in Nat /\ B \in Seq(Marks) /\ Row = batch.counter + 1
      /\ \A k \in 0..N : FootersIn(layout, k) \in Seq(Marks)
  BY DrawnTypes DEF Row
<1>1. /\ ~stopped /\ phase = "header" /\ phase' = "header" /\ at <= N /\ ~GroupEnds
      /\ at' = at + 1 /\ UNCHANGED <<rows, batch, layout, footers>>
  BY DEF Header
<1>2. at \in 1..N /\ at \in Int /\ at - 1 \in Nat
  BY <1>0, <1>1, DrawnTypes
<1>3. UNCHANGED <<Before, Row>>
  BY <1>1 DEF Before, Row
<1>4. S \in Seq(Marks) /\ <<"header", at>> \in Marks
  <2>1. Page \in Outs
    BY DEF Page, Outs, Seen
  <2> QED
    BY <1>2, <2>1, Shaped DEF Marks, Framed
<1>5. S' = IF HeaderDue(at) THEN Append(S, <<"header", at>>) ELSE S
  <2>1. CASE HeaderDue(at)
    <3> DEFINE s == Section("header", at, <<>>)
    <3>1. s \in Outs /\ s.kind = "header" /\ s.pair = at
      <4>1. phase # "idle" /\ <<>> \in Seq(Seen)
        BY <1>1
      <4> DEFINE c == <<>>
      <4>2. c \in Seq(Seen)
        BY <4>1
      <4>3. s = Section("header", at, c)
        OBVIOUS
      <4> HIDE DEF c, s
      <4> QED
        BY <1>2, <4>1, <4>2, <4>3, SectionType
    <3>2. PICK b \in BOOLEAN : Output(s, b)
      <4>1. ("header" \in Pair(at).breaks) \in BOOLEAN
        OBVIOUS
      <4>2. Output(s, "header" \in Pair(at).breaks)
        BY <2>1 DEF Header
      <4> HIDE DEF s
      <4> QED
        BY <4>1, <4>2, Zenon
    <3> HIDE DEF s
    <3>3. S' = ShapeOf(Append(out, s))
      BY <3>1, <3>2, Shaped
    <3>4. ShapeOf(Append(out, s)) = IF s.kind \in Framed THEN Append(S, <<s.kind, s.pair>>) ELSE S
      BY <3>1, Shaped
    <3> QED
      BY <2>1, <3>1, <3>3, <3>4 DEF Framed
  <2>2. CASE ~HeaderDue(at)
    <3>1. out' = out
      BY <2>2 DEF Header
    <3> QED
      BY <2>2, <3>1
  <2> QED
    BY <2>1, <2>2
<1>6. CASE footers /\ batch.counter > 0
  <2>1. S' = S /\ S = B
    BY <1>0, <1>1, <1>5, <1>6, DueIsTitled DEF ShapeInv, Drawn
  <2> QED
    BY <1>0, <1>1, <1>3, <1>6, <2>1 DEF Drawn
<1>7. CASE footers /\ batch.counter = 0
  <2>1. S = H(1, 1, at - 1) /\ Row = 1
    BY <1>0, <1>1, <1>7 DEF ShapeInv, Drawn
  <2>2. HeaderDue(at) <=> TitledIn(layout, rows, at, 1)
    BY <1>0, <1>1, <1>7, <2>1, DueIsTitled
  <2>3. 1 + (at - 1) = at /\ (at - 1) + 1 = at /\ at' - 1 = at
    BY <1>1, <1>2
  <2> DEFINE k == at - 1
  <2>4. H(1, 1, k + 1) = IF TitledIn(layout, rows, 1 + k, 1) THEN Append(H(1, 1, k), <<"header", 1 + k>>)
                        ELSE H(1, 1, k)
    <3>1. k \in Nat /\ 1 \in Int
      BY <1>2
    <3> HIDE DEF k
    <3> QED
      BY <3>1, HeadersInIs
  <2>5. S' = H(1, 1, at)
    BY <1>5, <2>1, <2>2, <2>3, <2>4
  <2>6. HeadersIn(layout, rows, 1, 1, at - 1)' = H(1, 1, at)
    BY <1>1, <2>3
  <2> QED
    BY <1>1, <1>7, <2>5, <2>6 DEF Drawn
<1>8. CASE ~footers
  <2>1. PICK o : Reopened(layout, rows, Row, at, o, B, S)
    BY <1>1, <1>8 DEF ShapeInv, Drawn
  <2> DEFINE k == at - o
             G == B \o FootersIn(layout, Len(layout.pairs) + 1 - o)
  <2>2. o <= at /\ FirstEnd(layout, rows, Row, o) /\ S = G \o H(Row, o, k)
    BY <2>1 DEF Reopened
  <2>3. /\ o \in Int /\ k \in Nat /\ o + k = at /\ k + 1 = at + 1 - o /\ Len(layout.pairs) + 1 - o \in 0..N
        /\ o <= at + 1
    BY <1>0, <1>2, <2>2 DEF FirstEnd
  <2>4. G \in Seq(Marks) /\ H(Row, o, k) \in Seq(Marks)
    <3>1. FootersIn(layout, Len(layout.pairs) + 1 - o) \in Seq(Marks)
      BY <1>0, <2>3
    <3>2. G \in Seq(Marks)
      <4> HIDE DEF B
      <4> QED
        BY <1>0, <3>1, MarksLonger
    <3>3. H(Row, o, k) \in Seq(Marks)
      <4> HIDE DEF k
      <4> QED
        BY <1>0, <2>3, FramesType
    <3> QED
      BY <3>2, <3>3
  <2>5. HeaderDue(at) <=> TitledIn(layout, rows, at, Row)
    BY <1>1, <1>8, DueIsTitled
  <2>6. H(Row, o, k + 1) = IF TitledIn(layout, rows, at, Row) THEN Append(H(Row, o, k), <<"header", at>>)
                          ELSE H(Row, o, k)
    <3>1. H(Row, o, k + 1) = IF TitledIn(layout, rows, o + k, Row) THEN Append(H(Row, o, k), <<"header", o + k>>)
                            ELSE H(Row, o, k)
      <4> HIDE DEF k
      <4> QED
        BY <2>3, HeadersInIs
    <3> QED
      BY <2>3, <3>1
  <2>7. Append(G \o H(Row, o, k), <<"header", at>>) = G \o Append(H(Row, o, k), <<"header", at>>)
    <3> HIDE DEF G, H, k
    <3> QED
      BY <1>4, <2>4, MarksAppended
  <2>8. S' = G \o H(Row, o, k + 1)
    BY <1>5, <2>2, <2>5, <2>6, <2>7
  <2>9. H(Row, o, k + 1) = H(Row, o, (at + 1) - o)
    BY <2>3
  <2>10. Reopened(layout, rows, Row, at + 1, o, B, S')
    <3> HIDE DEF S, B, k, H
    <3>1. S' = G \o H(Row, o, (at + 1) - o)
      BY <2>8, <2>9
    <3> QED
      BY <2>2, <2>3, <3>1 DEF Reopened, H
  <2>11. (Reopened(layout, rows, Row, at, o, Before, ShapeOf(out)))'
    BY <1>1, <1>3, <2>10
  <2>12. (\E x : Reopened(layout, rows, Row, at, x, Before, ShapeOf(out)))'
    BY <2>11
  <2> QED
    BY <1>1, <1>8, <2>12 DEF Drawn
<1> QED
  BY <1>0, <1>6, <1>7, <1>8
\* No group ends before the next row: it is not framed at all.
LEMMA NoFrame ==
  ASSUME NEW l, NEW r, NEW i \in Nat, i # 1, Len(l.pairs) \in Nat,
         \A q \in 1..Len(l.pairs) : ~EndsIn(l, r, q, i)
  PROVE  FrameIn(l, r, i) = <<>>
<1> DEFINE o == Len(l.pairs) + 1
<1>1. FirstEnd(l, r, i, o) /\ o \in Int /\ i \in Int
  BY DEF FirstEnd
<1>2. Len(l.pairs) + 1 - o = 0
  OBVIOUS
<1> HIDE DEF o
<1>3. FrameIn(l, r, i) = FootersIn(l, Len(l.pairs) + 1 - o) \o HeadersIn(l, r, i, o, Len(l.pairs) + 1 - o)
  BY <1>1, FrameFrom
<1>4. FootersIn(l, 0) = <<>> /\ HeadersIn(l, r, i, o, 0) = <<>>
  BY <1>1, NothingYet
<1>5. <<>> \o <<>> = <<>>
  OBVIOUS
<1> QED
  BY <1>2, <1>3, <1>4, <1>5

LEMMA DrawnData ==
  ASSUME Inv, Types, SumInv, ShapeInv, Data
  PROVE  ShapeInv'
<1> SUFFICES ASSUME ~stopped' PROVE Drawn'
  BY DEF ShapeInv
<1> DEFINE S == ShapeOf(out)
           B == Before
           F == FrameIn(layout, rows, Row)
           data == <<"data", 0>>
<1>0. /\ N \in Nat /\ N = Len(layout.pairs) /\ Len(layout.pairs) \in Nat
      /\ batch.counter \in Nat /\ B \in Seq(Marks) /\ Row = batch.counter + 1
      /\ \A k \in 0..N : FootersIn(layout, k) \in Seq(Marks)
  BY DrawnTypes DEF Row
<1>1. /\ ~stopped /\ phase = "header" /\ phase' = "next" /\ at = N + 1
      /\ UNCHANGED <<rows, batch, layout>>
  BY <1>0, DrawnTypes DEF Data
<1>2. F \in Seq(Marks) /\ data \in Marks
  BY <1>0, FrameType DEF Marks, Framed
<1>3. S' = Append(S, data)
  <2> DEFINE s == Section("data", 0, Count(DataSection))
  <2>1. s \in Outs /\ s.kind = "data" /\ s.pair = 0
    <3>1. Count(DataSection) \in Seq(Seen) /\ phase # "idle" /\ 0 \in Int
      BY <1>1, PairsType, CountType
    <3> QED
      BY <3>1, SectionType
  <2>2. out' = out \o <<s, Page>> \/ out' = out \o <<s>>
    BY DEF Data, Output
  <2>3. Output(s, TRUE) \/ Output(s, FALSE)
    BY <2>2 DEF Output
  <2> HIDE DEF s
  <2>4. S' = ShapeOf(Append(out, s))
    BY <2>1, <2>3, Shaped
  <2>5. ShapeOf(Append(out, s)) = IF s.kind \in Framed THEN Append(S, <<s.kind, s.pair>>) ELSE S
    BY <2>1, Shaped
  <2> QED
    BY <2>1, <2>4, <2>5 DEF Framed
<1>4. FramesIn(layout, rows, Row) = (B \o F) \o <<data>>
  <2>1. FramesIn(layout, rows, batch.counter + 1)
          = (FramesIn(layout, rows, batch.counter) \o FrameIn(layout, rows, batch.counter + 1)) \o <<data>>
    BY <1>0, FramesInIs
  <2> QED
    BY <1>0, <2>1 DEF Before
<1>5. S = B \o F
  <2>1. CASE footers /\ batch.counter > 0
    <3>1. S = B
      BY <1>0, <1>1, <2>1 DEF ShapeInv, Drawn
    <3>2. \A q \in 1..N : ~Ends(q)
      BY <1>0, <1>1, <2>1 DEF SumInv, Endings
    <3>3. F = <<>>
      <4>1. Row \in Nat /\ Row # 1
        BY <1>0, <2>1
      <4> HIDE DEF F
      <4> QED
        BY <1>0, <3>2, <4>1, NoFrame DEF Ends, F
    <3> HIDE DEF B, F, S
    <3> QED
      BY <1>0, <3>1, <3>3, MarksJoined
  <2>2. CASE footers /\ batch.counter = 0
    <3>1. S = HeadersIn(layout, rows, 1, 1, at - 1)
      BY <1>0, <1>1, <2>2 DEF ShapeInv, Drawn
    <3>2. at - 1 = Len(layout.pairs) /\ Row = 1
      BY <1>0, <1>1, <2>2
    <3>3. F = HeadersIn(layout, rows, 1, 1, at - 1)
      BY <3>2 DEF FrameIn
    <3>4. B = <<>>
      BY <1>0, <2>2, NothingYet DEF Before
    <3> HIDE DEF B, F, S
    <3> QED
      BY <1>2, <3>1, <3>3, <3>4, MarksJoined
  <2>3. CASE ~footers
    <3>1. PICK o : Reopened(layout, rows, Row, at, o, B, S)
      BY <1>1, <2>3 DEF ShapeInv, Drawn
    <3> DEFINE n == Len(layout.pairs)
               X == FootersIn(layout, n + 1 - o)
               Y == HeadersIn(layout, rows, Row, o, n + 1 - o)
    <3>2. FirstEnd(layout, rows, Row, o) /\ S = (B \o X) \o Y
      <4>0. o \in Int
        BY <1>0, <3>1 DEF Reopened, FirstEnd
      <4>1. at - o = n + 1 - o
        BY <1>0, <1>1, <4>0
      <4>2. FirstEnd(layout, rows, Row, o) /\ S = (B \o X) \o HeadersIn(layout, rows, Row, o, at - o)
        BY <3>1, Zenon DEF Reopened
      <4> QED
        BY <4>1, <4>2
    <3>3. batch.counter > 0
      BY <1>1, <2>3 DEF SumInv, Endings
    <3>4. F = X \o Y
      <4>1. Row # 1
        BY <1>0, <3>3
      <4> QED
        BY <1>0, <3>2, <4>1, FrameFrom
    <3>5. X \in Seq(Marks) /\ Y \in Seq(Marks)
      <4>1. n + 1 - o \in 0..N /\ n + 1 - o \in Nat /\ o \in Int
        BY <1>0, <3>2 DEF FirstEnd
      <4> QED
        BY <1>0, <4>1, FramesType
    <3> HIDE DEF B, F, S, X, Y
    <3> QED
      BY <1>0, <3>2, <3>4, <3>5, MarksJoined
  <2> QED
    BY <1>0, <2>1, <2>2, <2>3
<1>6. S' = FramesIn(layout, rows, Row)
  <2> HIDE DEF B, F, S, data
  <2>1. B \o F \in Seq(Marks)
    BY <1>0, <1>2, MarksLonger
  <2>2. (B \o F) \o <<data>> = Append(B \o F, data)
    BY <1>2, <2>1, MarksAppended
  <2> QED
    BY <1>3, <1>4, <1>5, <2>2
<1>7. FramesIn(layout, rows, Row)' = FramesIn(layout, rows, Row)
  BY <1>1 DEF Row
<1> QED
  BY <1>1, <1>6, <1>7 DEF Drawn
LEMMA DrawnNextRow ==
  ASSUME Inv, Types, RowInv, RowInv', ShapeInv, driver.steps, NextRow
  PROVE  ShapeInv'
<1> SUFFICES ASSUME ~stopped' PROVE Drawn'
  BY DEF ShapeInv
<1>0. /\ N \in Nat /\ N = Len(layout.pairs) /\ Len(layout.pairs) \in Nat
      /\ batch.counter \in Nat /\ Row = batch.counter + 1
  BY DrawnTypes DEF Row
<1>1. /\ ~stopped /\ phase = "next" /\ phase' \in {"row", "end"} /\ foot' = N
      /\ UNCHANGED <<rows, layout, out>>
  BY DEF NextRow, GotoNext
<1>2. ShapeOf(out) = FramesIn(layout, rows, Row)
  BY <1>1 DEF ShapeInv, Drawn
<1>3. Done = Row /\ Done' = Done
  BY <1>1 DEF RowInv, Progress, Done
<1>4. CASE phase' = "row"
  <2>1. batch'.counter = Row
    BY <1>3, <1>4 DEF RowInv, Progress
  <2>2. Before' = FramesIn(layout, rows, Row)
    BY <1>1, <2>1 DEF Before
  <2> QED
    BY <1>1, <1>2, <1>4, <2>2 DEF Drawn
<1>5. CASE phase' = "end"
  <2>1. Turns' = Turns /\ Done' = Turns'
    BY <1>1, <1>5 DEF RowInv, Progress, Turns
  <2>2. Turns = Row /\ (N - foot)' = 0
    BY <1>0, <1>1, <1>3, <2>1 DEF N
  <2> DEFINE F == FramesIn(layout, rows, Row)
  <2>3. F \in Seq(Marks) /\ FootersIn(layout, 0) = <<>>
    BY <1>0, AllFramesType, NothingYet
  <2>4. F = F \o FootersIn(layout, 0)
    <3> HIDE DEF F
    <3> QED
      BY <2>3, MarksJoined
  <2>5. FramesIn(layout, rows, Turns)' = F
    BY <1>1, <2>1, <2>2
  <2>6. FootersIn(layout, N - foot)' = FootersIn(layout, 0)
    BY <1>1, <2>2
  <2> QED
    BY <1>1, <1>2, <1>5, <2>4, <2>5, <2>6 DEF Drawn
<1> QED
  BY <1>1, <1>4, <1>5

LEMMA DrawnLastFooter ==
  ASSUME Inv, RowInv, ShapeInv, LastFooter
  PROVE  ShapeInv'
<1> SUFFICES ASSUME ~stopped' PROVE Drawn'
  BY DEF ShapeInv
<1> DEFINE k == N - foot
           A == FramesIn(layout, rows, Turns)
           F(j) == FootersIn(layout, j)
           S == ShapeOf(out)
<1>0. /\ N \in Nat /\ N = Len(layout.pairs) /\ foot \in 0..N /\ batch.counter \in Nat
      /\ \A j \in 0..N : F(j) \in Seq(Marks)
      /\ Row = batch.counter + 1 /\ Types
  BY DrawnTypes DEF RowInv, Row
<1>1. /\ ~stopped /\ phase = "end" /\ foot > 0 /\ foot' = foot - 1
      /\ UNCHANGED <<rows, batch, layout, phase>>
  BY DEF LastFooter
<1>2. S = A \o F(k)
  BY <1>1 DEF ShapeInv, Drawn
<1>3. k \in Nat /\ k \in 0..N /\ k + 1 \in 0..N /\ N - k = foot /\ foot \in Int
  BY <1>0, <1>1
<1>4. F(k + 1) = IF layout.pairs[foot].footer THEN Append(F(k), <<"footer", foot>>) ELSE F(k)
  <2> HIDE DEF k
  <2> QED
    BY <1>0, <1>3, FootersInIs
<1>5. FooterDue(foot)
  <2>1. CASE rows = <<>>
    BY <1>1, <2>1, RowInResult DEF FooterDue
  <2>2. CASE rows # <<>>
    <3>1. batch.open /\ Row = Len(rows) /\ Len(rows) \in Nat
      BY <1>0, <1>1, <2>2, RowInResult DEF RowInv, Progress, Turns, Inv, Stepping
    <3>2. batch.read = Row /\ batch.maxrows = (IF driver.knows THEN Len(rows) ELSE batch.read)
      BY <1>1, <2>2, <3>1, RowInResult DEF Inv, Window
    <3>3. batch.maxrows = Row
      BY <3>1, <3>2
    <3> QED
      BY <1>0, <3>3 DEF FooterDue, RowPosition, MaxRows
  <2> QED
    BY <2>1, <2>2
<1>6. A \in Seq(Marks)
  <2>1. Turns \in Nat
    BY <1>1, RowInResult DEF Turns
  <2> QED
    BY <1>0, <2>1, AllFramesType
<1>7. S' = A \o F(k + 1)
  <2>1. CASE layout.pairs[foot].footer
    <3> DEFINE s == Section("footer", foot, counted[foot])
    <3>1. foot \in Counters /\ phase # "idle"
      BY <1>0, <1>1, PairsType
    <3>2. counted[foot] \in Seq(Seen)
      BY <1>0, <3>1 DEF Types
    <3>3. s \in Outs /\ s.kind = "footer" /\ s.pair = foot
      BY <1>0, <1>3, <3>1, <3>2, SectionType
    <3>4. Output(s, TRUE) \/ Output(s, FALSE)
      BY <1>5, <2>1 DEF LastFooter, Pair, Output
    <3> HIDE DEF s
    <3>5. S' = ShapeOf(Append(out, s))
      BY <1>0, <3>3, <3>4, Shaped
    <3>6. ShapeOf(Append(out, s)) = Append(S, <<"footer", foot>>)
      <4>1. ShapeOf(Append(out, s)) = IF s.kind \in Framed THEN Append(S, <<s.kind, s.pair>>) ELSE S
        BY <1>0, <3>3, Shaped
      <4> QED
        BY <3>3, <4>1 DEF Framed
    <3>7. Append(A \o F(k), <<"footer", foot>>) = A \o Append(F(k), <<"footer", foot>>)
      <4> HIDE DEF A, F, k
      <4>1. F(k) \in Seq(Marks) /\ <<"footer", foot>> \in Marks
        BY <1>0, <1>3 DEF Marks, Framed
      <4> QED
        BY <1>6, <4>1, MarksAppended
    <3> QED
      BY <1>2, <1>4, <2>1, <3>5, <3>6, <3>7
  <2>2. CASE ~layout.pairs[foot].footer
    <3>1. out' = out
      BY <2>2 DEF LastFooter, Pair
    <3> QED
      BY <1>2, <1>4, <2>2, <3>1
  <2> QED
    BY <2>1, <2>2
<1>8. FramesIn(layout, rows, Turns)' = A
  BY <1>1 DEF Turns
<1>9. FootersIn(layout, N - foot)' = F(k + 1)
  <2>1. (N - foot)' = k + 1
    BY <1>0, <1>1 DEF N
  <2> QED
    BY <1>1, <2>1
<1> HIDE DEF A, F, k
<1> QED
  BY <1>1, <1>7, <1>8, <1>9 DEF Drawn

LEMMA DrawnFinish ==
  ASSUME Inv, Types, ShapeInv, Finish
  PROVE  ShapeInv'
<1> SUFFICES ASSUME ~stopped' PROVE Drawn'
  BY DEF ShapeInv
<1>0. N \in Nat
  BY DrawnTypes
<1>1. /\ ~stopped /\ phase = "end" /\ phase' = "idle" /\ foot = 0
      /\ UNCHANGED <<rows, layout>>
  BY DEF Finish, Disable
<1>2. ShapeOf(out) = FramesIn(layout, rows, Turns) \o FootersIn(layout, N - foot)
  BY <1>1 DEF ShapeInv, Drawn
<1>3. N - foot = N
  BY <1>0, <1>1
<1>4. ShapeOf(out)' = ShapeOf(out)
  <2> DEFINE s == Section("report", 0, counted[ReportFooter])
  <2>1. s \in Outs /\ s.kind = "report"
    <3>1. counted[ReportFooter] \in Seq(Seen) /\ phase # "idle" /\ 0 \in Int
      BY <1>1, PairsType DEF Types
    <3> QED
      BY <3>1, SectionType
  <2>2. out' = Append(out, s)
    BY DEF Finish
  <2> HIDE DEF s
  <2>3. ShapeOf(Append(out, s)) = IF s.kind \in Framed THEN Append(ShapeOf(out), <<s.kind, s.pair>>) ELSE ShapeOf(out)
    BY <2>1, Shaped
  <2> QED
    BY <2>1, <2>2, <2>3 DEF Framed
<1>5. UNCHANGED <<N, Turns>>
  BY <1>1 DEF N, Turns
<1> QED
  BY <1>1, <1>2, <1>3, <1>4, <1>5 DEF Drawn

LEMMA DrawnStutters ==
  ASSUME ShapeInv, UNCHANGED vars
  PROVE  ShapeInv'
<1>1. UNCHANGED <<ShapeOf(out), Before, N, Row, Turns, phase, footers, at, foot, rows, layout, out, batch, stopped>>
  BY DEF vars, Before, N, Row, Turns
<1>2. NoneEnds(at)' <=> NoneEnds(at)
  BY <1>1 DEF NoneEnds, Ends
<1> QED
  BY <1>1, <1>2 DEF ShapeInv, Drawn

LEMMA DrawnNext ==
  ASSUME Inv, RowInv, RowInv', SumInv, ShapeInv, driver.steps, [Next]_vars
  PROVE  ShapeInv'
<1>1. Types
  BY DEF RowInv
<1>2. CASE Execute
  BY <1>1, <1>2, DrawnExecute
<1>3. CASE BeginRow
  BY <1>1, <1>3, DrawnBeginRow
<1>4. CASE NoHeader
  BY <1>4, DrawnStutters DEF NoHeader
<1>5. CASE StepBack
  BY <1>1, <1>5, DrawnStepBack
<1>6. CASE Footer
  BY <1>1, <1>6, DrawnFooter
<1>7. CASE StepToPage
  BY <1>1, <1>7, DrawnStepToPage
<1>8. CASE NewPage
  BY <1>1, <1>8, DrawnNewPage
<1>9. CASE StepForward
  BY <1>1, <1>9, DrawnStepForward
<1>10. CASE Header
  BY <1>1, <1>10, DrawnHeader
<1>11. CASE Data
  BY <1>1, <1>11, DrawnData
<1>12. CASE NextRow
  BY <1>1, <1>12, DrawnNextRow
<1>13. CASE LastFooter
  BY <1>13, DrawnLastFooter
<1>14. CASE Finish
  BY <1>1, <1>14, DrawnFinish
<1>15. CASE UNCHANGED vars
  BY <1>15, DrawnStutters
<1> QED
  BY <1>2, <1>3, <1>4, <1>5, <1>6, <1>7, <1>8, <1>9, <1>10, <1>11, <1>12, <1>13, <1>14, <1>15
     DEF Next, PrintStep

\* When a report is complete, what has been drawn is what the property asks for.
LEMMA DrawnFramesGroups ==
  ASSUME Inv, Types, ShapeInv
  PROVE  GroupsFramed
<1> SUFFICES ASSUME Complete PROVE Shape = Frames(Turns) \o Footers(1)
  BY DEF GroupsFramed
<1>0. N \in Nat
  BY DrawnTypes
<1>1. ShapeOf(out) = FramesIn(layout, rows, Turns) \o FootersIn(layout, N)
  BY DEF Complete, ShapeInv, Drawn
<1>2. Turns \in Nat
  BY DEF Turns, Inv, BatchTypes
<1>3. Frames(Turns) = FramesIn(layout, rows, Turns)
  BY <1>0, <1>2, FramesAre
<1>4. Footers(1) = FootersIn(layout, N)
  <2>1. N + 1 - 1 = N
    BY <1>0
  <2> QED
    BY <2>1, FootersAre
<1> QED
  BY <1>1, <1>3, <1>4, ShapeIs
\* In a report that is complete, footers and headers enclose the groups like
\* brackets, whatever the layout and the result: where a column changes, the
\* footers from the innermost pair out to that column's and the headers back in
\* again, and all footers at the end (the loops over p_sectionpairs in
\* internal_execute).
THEOREM GroupsAreFramed ==
  ASSUME \A d \in Drivers : d.steps, ~SteppedBefore
  PROVE  Spec => []GroupsFramed
<1>1. ReportInit => ShapeInv
  BY DEF ReportInit, ShapeInv, Drawn
<1>2. /\ Inv /\ RowInv /\ RowInv' /\ SumInv /\ driver.steps
      /\ ShapeInv /\ [Next]_vars
      => ShapeInv'
  BY DrawnNext
<1>3. Inv /\ RowInv /\ ShapeInv => GroupsFramed
  BY DrawnFramesGroups DEF RowInv
<1> QED
  BY <1>1, <1>2, <1>3, AlwaysRows, AlwaysSum, PTL DEF Spec
=============================================================================
