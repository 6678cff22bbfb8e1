----------------------------- MODULE BatchAccess -----------------------------
(***************************************************************************)
(* A datasource in the access mode batchread (hk_storagedatasource.cpp,    *)
(* goto_next and goto_previous of hk_datasource.cpp, the driver_specific_  *)
(* batch_ functions of the drivers).                                       *)
(*                                                                         *)
(* The server hands out a result row by row.  The datasource keeps the two *)
(* rows it has read last and a flag that says which of the two it shows,   *)
(* so that a report can step back by one.                                  *)
(***************************************************************************)
EXTENDS Integers, Sequences

CONSTANTS
  Results,     \* the results the server may send: sequences of rows
  Dummy,       \* the row of empty fields that fills the window at first
  Nothing,     \* no row is shown: every field reads as ""
  Drivers,     \* a driver [steps, clears, knows]
  SteppedBefore \* goto_previous was called in standard mode before: it sets
                \* the flag previous in every mode

(***************************************************************************)
(* steps:  goto_next of the driver first takes back a goto_previous (MySQL,*)
(*         PostgreSQL, SQLite, ODBC; not xBase, Firebird, Paradox, MDB)    *)
(* clears: batch_disable deletes the rows of the window (MySQL, PostgreSQL,*)
(*         SQLite 2, ODBC; not SQLite 3, xBase, Firebird, Paradox, MDB)    *)
(* knows:  max_rows() is the size of the result from the beginning         *)
(*         (PostgreSQL), and not the number of rows read so far            *)
(***************************************************************************)
AllRows == UNION { { r[i] : i \in DOMAIN r } : r \in Results }

ASSUME BatchAssumption ==
  /\ Results \subseteq Seq(AllRows)
  /\ Drivers \subseteq [steps : BOOLEAN, clears : BOOLEAN, knows : BOOLEAN]
  /\ SteppedBefore \in BOOLEAN

VARIABLES
  driver,
  rows,        \* the result on the server
  batch        \* the datasource

(***************************************************************************)
(* batch.data is p_data, .previous use_batch_previous, .counter p_counter, *)
(* .maxrows p_rows; .read is how many rows the server has handed out.      *)
(***************************************************************************)
BatchInit ==
  /\ driver \in Drivers
  /\ rows = <<>>
  /\ batch = [open |-> FALSE, data |-> <<>>, previous |-> SteppedBefore,
              counter |-> 0, maxrows |-> 0, read |-> 0]

-----------------------------------------------------------------------------
(* The window.                                                             *)

\* Faulty variant: the older of the two rows is kept.
InsertKeepingOlder(data, row) ==
  <<IF data = <<>> THEN Dummy ELSE data[1], row>>

\* insert_data: one row is kept, or made up, in front of the new one.
Insert(data, row) ==
  <<IF data = <<>> THEN Dummy ELSE data[Len(data)], row>>

ColumnData(b) == IF Len(b.data) < 2 THEN Nothing
                 ELSE b.data[IF b.previous THEN 1 ELSE 2]

\* What the columns read (hk_column::asstring).
Shown(b) == IF b.open /\ b.counter < b.maxrows THEN ColumnData(b) ELSE Nothing

\* The next row of result r arrives.
Fetched(b, r) ==
  [b EXCEPT !.read = @ + 1,
            !.data = Insert(@, r[b.read + 1]),
            !.maxrows = IF driver.knows THEN Len(r) ELSE @ + 1]

-----------------------------------------------------------------------------
(* The calls.  The flag previous survives disabling and enabling.          *)

Closed(b) ==
  [b EXCEPT !.open = FALSE, !.data = IF driver.clears THEN <<>> ELSE @]

\* A datasource that is enabled is disabled first.
Enable ==
  \E r \in Results :
    LET b == [IF batch.open THEN Closed(batch) ELSE batch EXCEPT
                !.open = TRUE, !.counter = 0, !.maxrows = 0, !.read = 0]
    IN  rows' = r /\ batch' = IF r = <<>> THEN b ELSE Fetched(b, r)

Disable ==
  /\ batch.open
  /\ batch' = Closed(batch)
  /\ UNCHANGED rows

\* Faulty variant: a row is read although the datasource has stepped back.
GotoNextReading ==
  /\ batch' = IF batch.read < Len(rows)
              THEN [Fetched(batch, rows) EXCEPT !.counter = @ + 1]
              ELSE batch
  /\ UNCHANGED rows

GotoNext ==
  /\ batch' = IF batch.previous /\ driver.steps THEN [batch EXCEPT !.previous = FALSE]
              ELSE IF batch.read < Len(rows)
              THEN [Fetched(batch, rows) EXCEPT !.counter = @ + 1]
              ELSE batch
  /\ UNCHANGED rows

GotoPrevious ==
  /\ batch' = [batch EXCEPT !.previous = TRUE]
  /\ UNCHANGED rows

-----------------------------------------------------------------------------
(* The cursor the window stands for.                                       *)

CursorAt == IF batch.open
            THEN batch.counter + (IF batch.previous THEN 0 ELSE 1)
            ELSE 1

Cursor == INSTANCE RowCursor
            WITH open <- batch.open, at <- CursorAt, shown <- Shown(batch)

(***************************************************************************)
(* Whoever reads the window reads the result as with a cursor: no row is   *)
(* left out, none comes from before the first, and a step back and forward *)
(* again leads to the same row.                                            *)
(***************************************************************************)
ReadsAsCursor == Cursor!Spec
=============================================================================
