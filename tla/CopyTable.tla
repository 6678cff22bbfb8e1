------------------------------- MODULE CopyTable -------------------------------
(***************************************************************************)
(* hk_database::copy_table: a table is created after the model of another  *)
(* datasource, then every row is read from the one (BatchAccess, or the    *)
(* rows loaded if it was enabled) and entered into the other (BatchWrite). *)
(***************************************************************************)
EXTENDS BatchAccess, BatchWrite

CONSTANT Empty    \* the value "", which is not NULL

\* What a field of the source may hold.
Fields == { row[c] : row \in AllRows, c \in Columns }

ASSUME CopyAssumption ==
  /\ AllRows \subseteq [Columns -> Fields]
  /\ Unset \notin Fields

VARIABLES
  target,      \* the new table
  copy         \* the call of copy_table

vars == <<driver, rows, batch, target, copy>>

(***************************************************************************)
(* copy.loaded is source_was_enabled, .at and .pos are the row such a      *)
(* source shows and the one it showed before the call (from 1), .schema    *)
(* says that no data was asked for, .blocked is the source's               *)
(* p_blockvisiblesignals, .r and .cancel are the variables of the loop,    *)
(* .result what the call returns.                                          *)
(* History: .refused are the rows the server has refused, .goeson says     *)
(* that the user wanted to continue after one, .bare that the new table    *)
(* had no columns.                                                         *)
(***************************************************************************)
Init ==
  /\ BatchInit
  /\ target = EmptyTarget(NoColumn)
  /\ copy = [phase |-> "called", schema |-> FALSE, loaded |-> FALSE, at |-> 1, pos |-> 1,
             blocked |-> FALSE, r |-> 0, cancel |-> FALSE, result |-> FALSE,
             refused |-> {}, goeson |-> FALSE, bare |-> FALSE]

\* A row as the fields of the source read it.
SourceRow == IF copy.loaded THEN rows[copy.at] ELSE Shown(batch)

SourceRows == IF copy.loaded THEN Len(rows) ELSE batch.maxrows

-----------------------------------------------------------------------------
(* Before the first row.                                                   *)

\* The early returns, and a table that cannot be created.
NotCreated ==
  /\ copy.phase = "called"
  /\ copy' = [copy EXCEPT !.phase = "returned"]
  /\ UNCHANGED <<driver, rows, batch, target>>

\* Only the structure is copied.
SchemaOnly ==
  /\ copy.phase = "called"
  /\ copy' = [copy EXCEPT !.phase = "returned", !.schema = TRUE,
                          !.result = TRUE]
  /\ UNCHANGED <<driver, rows, batch, target>>

\* The source was not enabled.
OpenSource ==
  /\ copy.phase = "called"
  /\ Enable
  /\ copy' = [copy EXCEPT !.phase = "copying", !.blocked = TRUE]
  /\ UNCHANGED <<driver, target>>

\* The source was enabled and showed row pos.
RewindSource ==
  /\ copy.phase = "called"
  /\ \E r \in Results : \E pos \in 1..(IF r = <<>> THEN 1 ELSE Len(r)) :
       /\ rows' = r
       /\ copy' = [copy EXCEPT !.phase = "copying", !.blocked = TRUE,
                               !.loaded = TRUE, !.pos = pos]
  /\ UNCHANGED <<driver, batch, target>>

\* The new table has no columns: the source stays as it is.
NoColumns ==
  /\ copy.phase = "copying" /\ copy.r = 0
  /\ copy' = [copy EXCEPT !.phase = "returned", !.bare = TRUE]
  /\ UNCHANGED <<driver, rows, batch, target>>

-----------------------------------------------------------------------------
(* The rows.                                                               *)

Shows(value) == value \notin {Null, Empty}

\* Faulty variant: the row counts as changed even if no column was set.
EnterRowAlways(t, row) ==
  [t EXCEPT !.new = [c \in Columns |-> IF Shows(row[c]) THEN row[c] ELSE @[c]],
            !.changed = TRUE]

\* The columns of the new row are set, those that are NULL or empty are not.
EnterRow(t, row) ==
  [t EXCEPT !.new = [c \in Columns |-> IF Shows(row[c]) THEN row[c] ELSE @[c]],
            !.changed = @ \/ \E c \in Columns : Shows(row[c])]

\* One turn of the loop.  retried and accepted are the server's answers to
\* the row left pending and to this one; wanted, cancelled and go are the
\* user's to "Store changed data?" for the row left pending, to the progress
\* dialog and to "Continue loading data?".
CopyRow ==
  /\ copy.phase = "copying" /\ copy.r < SourceRows /\ ~copy.cancel
  /\ \E wanted, retried, accepted, cancelled, go \in BOOLEAN :
       LET entered == EnterRow(SetmodeInsertrow(target, copy.r + 1, wanted, retried),
                               SourceRow)
           s == StoreChangedData(entered, accepted)
       IN  /\ target' = IF s.ok \/ go THEN s.target ELSE SetIgnoreChangedData(s.target)
           /\ copy' = [copy EXCEPT
                !.r = @ + 1,
                !.at = IF copy.loaded /\ @ < Len(rows) THEN @ + 1 ELSE @,
                !.cancel = cancelled \/ (~s.ok /\ ~go),
                !.refused = IF s.ok THEN @ ELSE @ \cup {copy.r + 1},
                !.goeson = @ \/ (~s.ok /\ go)]
  /\ IF copy.loaded THEN UNCHANGED <<rows, batch>> ELSE GotoNext
  /\ UNCHANGED driver

\* Faulty variant: a cancelled copy waits for the last row.
ReturnAtEnd ==
  /\ copy.phase = "copying" /\ copy.r >= SourceRows
  /\ \E accepted \in BOOLEAN :
       target' = IF target.changed
                 THEN ResetChangedData(StoreChangedData(target, accepted).target)
                 ELSE target
  /\ copy' = [copy EXCEPT !.phase = "returned", !.blocked = FALSE,
                          !.at = copy.pos, !.result = ~copy.cancel]
  /\ IF copy.loaded THEN UNCHANGED <<rows, batch>> ELSE Disable
  /\ UNCHANGED driver

\* Faulty variant: the source stays on its last row.
ReturnElsewhere ==
  /\ copy.phase = "copying" /\ (copy.r >= SourceRows \/ copy.cancel)
  /\ \E accepted \in BOOLEAN :
       target' = IF target.changed
                 THEN ResetChangedData(StoreChangedData(target, accepted).target)
                 ELSE target
  /\ copy' = [copy EXCEPT !.phase = "returned", !.blocked = FALSE,
                          !.result = ~copy.cancel]
  /\ IF copy.loaded THEN UNCHANGED <<rows, batch>> ELSE Disable
  /\ UNCHANGED driver

\* The new table is disabled, which stores what is pending or, if the user does
\* not want it, drops it like a row that is refused; the source is given back
\* as it was.
Return ==
  /\ copy.phase = "copying" /\ (copy.r >= SourceRows \/ copy.cancel)
  /\ \E accepted \in BOOLEAN :
       target' = IF target.changed
                 THEN ResetChangedData(StoreChangedData(target, accepted).target)
                 ELSE target
  /\ copy' = [copy EXCEPT !.phase = "returned", !.blocked = FALSE,
                          !.at = copy.pos, !.result = ~copy.cancel]
  /\ IF copy.loaded THEN UNCHANGED <<rows, batch>> ELSE Disable
  /\ UNCHANGED driver

Next == NotCreated \/ SchemaOnly \/ OpenSource \/ RewindSource \/ NoColumns
        \/ CopyRow \/ Return

\* The loop runs within one call.
Spec == Init /\ [][Next]_vars /\ WF_vars(CopyRow \/ Return)

-----------------------------------------------------------------------------
(* Properties.                                                             *)

\* A row as it should arrive: what is not shown is NULL.
Copied(row) == [c \in Columns |-> IF Shows(row[c]) THEN row[c] ELSE Null]

HasValues(row) == \E c \in Columns : Shows(row[c])

IsCopied(i) ==
  LET s == target.stored[i]
  IN  s.from \in 1..copy.r /\ s.row = Copied(rows[s.from])

\* Every row of the copy is a row of the source, field by field, whatever
\* the server and the user answered (hk_database.h: "the data copied").
CopiedFieldByField == \A i \in DOMAIN target.stored : IsCopied(i)

(***************************************************************************)
(* As long as the user has not gone on after a refused row: every row of   *)
(* the copy is a row of the source, in the order of the source and none    *)
(* twice.  No value of one row gets into another, and a refused row that   *)
(* is still pending when the table is closed does not get in after all.    *)
(***************************************************************************)
CopiedInOrder ==
  ~copy.goeson =>
    /\ CopiedFieldByField
    /\ \A i, j \in DOMAIN target.stored :
         i < j => target.stored[i].from < target.stored[j].from
    /\ \A i \in DOMAIN target.stored : target.stored[i].from \notin copy.refused

(***************************************************************************)
(* No row is passed over in silence: each one read so far that holds a     *)
(* value is in the copy or was refused, and copy_table returns true only   *)
(* after the last row, with no row refused unless the user knew.           *)
(***************************************************************************)
NothingLeftOut ==
  /\ copy.phase # "called" => \A k \in 1..copy.r :
       HasValues(rows[k]) =>
         k \in copy.refused \/ \E i \in DOMAIN target.stored : target.stored[i].from = k
  /\ copy.result /\ ~copy.schema => copy.r = Len(rows)
  /\ copy.result => copy.refused = {} \/ copy.goeson

\* By every way out of copy_table but one the source is given back as it was:
\* not blocked, disabled if it was disabled, else on its row.  The one is the
\* return for a new table without columns, which gives nothing back.
SourceGivenBack ==
  copy.phase = "returned" /\ ~copy.bare =>
    ~copy.blocked /\ ~batch.open /\ (copy.loaded => copy.at = copy.pos)

\* copy_table returns: max_rows() of a source in batch mode grows while it is
\* read, the loop counts up to it all the same.
CopyReturns == copy.phase = "copying" ~> copy.phase = "returned"
=============================================================================
