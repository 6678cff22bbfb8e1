------------------------------ MODULE Datasource ------------------------------
(***************************************************************************)
(* One hk_datasource of type table in access mode "standard": the row      *)
(* cursor, the mode, the pending edits of its columns and the rows loaded  *)
(* from the server (hk_classes/hk_datasource.cpp, hk_storagedatasource.cpp,*)
(* hk_column.cpp), together with the table on the SQL server.              *)
(*                                                                         *)
(* The library is single threaded: a call of the API runs to its end, so   *)
(* every action is one call with everything it calls in turn.  A handler   *)
(* is an operator from the state before (and the answers it meets) to the  *)
(* state after; handlers with a C++ return value give [ds, ok].            *)
(*                                                                         *)
(* The parameter "no" is the set of parties that answer with no while the  *)
(* call runs: the server to a statement ("update", "insert", "delete",     *)
(* "load"), the depending datasources ("details" to the check before a     *)
(* change, "cascade" to the deletion of their rows) and the user ("store?" *)
(* and "delete?", the two yes/no dialogs).                                 *)
(***************************************************************************)
EXTENDS Naturals, FiniteSets, SequencesExt

CONSTANTS
  Columns,     \* the editable columns (the key column is never edited)
  Values,      \* what a field can hold
  Null,        \* the NULL value, which a new row has where nothing was set
  None,        \* no pending value in a column
  NewRow,      \* "the row being entered", the row an insert mode edit is for
  NoRow,       \* "no row at all"
  PrimaryKey,  \* whether the table has a primary key (p_primary_key_used)
  MaxId,       \* bound: the server refuses to hold rows beyond this key
  InitRows,    \* bound: rows the table may have in the beginning
  Calls,       \* the API calls the client program makes
  Refusals     \* who may answer with no

ASSUME ConstantsAssumption ==
  /\ Null \in Values
  /\ None \notin Values
  /\ PrimaryKey \in BOOLEAN
  /\ MaxId \in Nat /\ InitRows \in 0..MaxId
  /\ NewRow \notin Nat /\ NoRow \notin Nat /\ NewRow # NoRow
  /\ Refusals \subseteq {"update", "insert", "delete", "load", "details",
                         "cascade", "store?", "delete?"}

VARIABLE ds

-----------------------------------------------------------------------------
(* The state of the object and of its table.                               *)

Row == [id : Nat, val : [Columns -> Values]]

Modes == {"normal", "insertrow", "deleterow", "disabled"}

Edit == [value : Values, row : Nat \cup {NewRow, NoRow}]

ASSUME NoneAssumption == None \notin Edit

State ==
  [enabled   : BOOLEAN,                      \* p_enabled
   mode      : Modes,                        \* p_mode
   counter   : Nat,                          \* p_counter, from 0
   data      : Seq(Row),                     \* p_data, the rows loaded
   changed   : BOOLEAN,                      \* p_has_changed
   edit      : [Columns -> Edit \cup {None}],\* the columns' new data, and the
                                             \* row each was entered on
   ignore    : BOOLEAN,                      \* p_ignore_changed_data
   readonly  : BOOLEAN,                      \* p_readonly
   automatic : BOOLEAN,                      \* p_automatic_data_update
   open      : BOOLEAN,                      \* a transaction_begin without end
   stepped   : BOOLEAN,                      \* use_batch_previous: a step back
                                             \* batch access would still find
   wild      : BOOLEAN,                      \* p_data was accessed out of range
   table     : SUBSET Row,                   \* the rows on the server
   nextid    : Nat]                          \* the next key the server assigns

NoEdit == [c \in Columns |-> None]

Fresh(table, nextid, automatic) ==
  [enabled |-> FALSE, mode |-> "disabled", counter |-> 0, data |-> <<>>,
   changed |-> FALSE, edit |-> NoEdit, ignore |-> FALSE, readonly |-> FALSE,
   automatic |-> automatic, open |-> FALSE, stepped |-> FALSE, wild |-> FALSE,
   table |-> table, nextid |-> nextid]

OnRow(s) == s.counter < Len(s.data)

CurrentRow(s) ==
  CASE s.mode = "insertrow"            -> NewRow
    [] s.mode # "insertrow" /\ OnRow(s)  -> s.data[s.counter + 1].id
    [] s.mode # "insertrow" /\ ~OnRow(s) -> NoRow

Untouched(s) == \A c \in Columns : s.edit[c] = None

Patched(val, edit) ==
  [c \in Columns |-> IF edit[c] = None THEN val[c] ELSE edit[c].value]

PatchedRow(r, edit) == [r EXCEPT !.val = Patched(r.val, edit)]

\* The rows of the server that the WHERE clause built from the row loaded at
\* position p finds: by key, or without one by the values of all columns.
RowWhere(s, p) ==
  { r \in s.table :
      /\ p < Len(s.data)
      /\ IF PrimaryKey THEN r.id = s.data[p + 1].id
                       ELSE r.val = s.data[p + 1].val }

Cleared(s) == [s EXCEPT !.changed = FALSE, !.edit = NoEdit]

\* Changes can only be pending in a datasource that is not enabled when it has
\* no columns, and then nothing is reset.
ResetChangedData(s) == IF s.enabled THEN Cleared(s) ELSE [s EXCEPT !.edit = NoEdit]

-----------------------------------------------------------------------------
(* Enabling and changing the mode.                                         *)

\* enable(): it forgets the change flag even when it refuses, it deletes the
\* old columns with their pending values, and an empty table is entered in
\* insert mode at once.
Enable(s, no) ==
  IF s.enabled THEN [ds |-> [s EXCEPT !.changed = FALSE], ok |-> FALSE]
  ELSE IF "load" \in no THEN [ds |-> Cleared(s), ok |-> FALSE]
  ELSE [ds |-> [Cleared(s) EXCEPT
                  !.enabled = TRUE, !.counter = 0,
                  !.data = SetToSeq(s.table),
                  !.mode = IF s.table = {} /\ ~s.readonly
                           THEN "insertrow" ELSE "normal"],
        ok |-> TRUE]

SetModeNormal(s, no) ==
  [(IF s.enabled THEN s ELSE Enable(s, no).ds) EXCEPT !.mode = "normal"]

\* setmode_insertrow() when no edit is pending
EnterInsertMode(s) == IF s.readonly THEN s ELSE [s EXCEPT !.mode = "insertrow"]

\* goto_row(r) when no edit is pending
MoveTo(s, r, no) ==
  LET t == IF s.mode = "insertrow" THEN SetModeNormal(s, no) ELSE s
  IN  IF t.enabled /\ r < Len(t.data) THEN [t EXCEPT !.counter = r] ELSE t

-----------------------------------------------------------------------------
(* Storing: update_row, insert_row, delete_row and store_changed_data.     *)

\* Faulty variant: the loaded row is not updated.
UpdatedOnServerOnly(s) ==
  [s EXCEPT !.changed = FALSE, !.open = FALSE,
            !.table = { IF r \in RowWhere(s, s.counter)
                        THEN PatchedRow(r, s.edit) ELSE r : r \in s.table },
            !.wild = @ \/ ~OnRow(s)]

Updated(s) ==
  LET w == RowWhere(s, s.counter)
      p == s.counter + 1
  IN  [s EXCEPT
         !.changed = FALSE, !.open = FALSE,
         !.table = (s.table \ w) \cup { PatchedRow(r, s.edit) : r \in w },
         !.data = IF OnRow(s) THEN [s.data EXCEPT ![p] = PatchedRow(s.data[p], s.edit)]
                              ELSE s.data,
         !.wild = @ \/ ~OnRow(s)]

\* Faulty variant: no rollback after a refused statement.
UpdateRowWithoutRollback(s, no) ==
  IF "details" \in no \/ Untouched(s)
    THEN [ds |-> [s EXCEPT !.mode = "normal", !.changed = FALSE], ok |-> FALSE]
  ELSE IF "update" \in no
    THEN [ds |-> [s EXCEPT !.changed = FALSE, !.open = TRUE], ok |-> FALSE]
  ELSE [ds |-> Updated(s), ok |-> TRUE]

\* The flag p_has_changed is dropped before the statement is sent, the flags
\* of the columns are not; without a changed column the transaction that was
\* begun stays open.
UpdateRow(s, no) ==
  IF "details" \in no
    THEN [ds |-> [s EXCEPT !.mode = "normal", !.changed = FALSE], ok |-> FALSE]
  ELSE IF Untouched(s)
    THEN [ds |-> [s EXCEPT !.open = TRUE], ok |-> FALSE]
  ELSE IF "update" \in no
    THEN [ds |-> [s EXCEPT !.changed = FALSE, !.open = FALSE], ok |-> FALSE]
  ELSE [ds |-> Updated(s), ok |-> TRUE]

Inserted(s) ==
  LET row == [id |-> s.nextid, val |-> Patched([c \in Columns |-> Null], s.edit)]
      t   == [s EXCEPT !.table = @ \cup {row}, !.data = Append(@, row),
                       !.nextid = @ + 1, !.changed = FALSE, !.open = FALSE]
  IN  MoveTo(t, Len(t.data) - 1, {})

\* Faulty variant: the flag is dropped before the statement, as in update_row.
InsertRowDropsFlag(s, no) ==
  IF "insert" \in no \/ Untouched(s) \/ s.nextid > MaxId
    THEN [ds |-> [s EXCEPT !.changed = FALSE, !.open = FALSE], ok |-> FALSE]
    ELSE [ds |-> [Inserted(s) EXCEPT !.mode = "normal"], ok |-> TRUE]

\* Without a changed column the statement sent is not SQL: the server refuses it.
InsertRow(s, no) ==
  IF "insert" \in no \/ Untouched(s) \/ s.nextid > MaxId
    THEN [ds |-> [s EXCEPT !.open = FALSE], ok |-> FALSE]
    ELSE [ds |-> [Inserted(s) EXCEPT !.mode = "normal"], ok |-> TRUE]

\* Faulty variant: the cursor stays behind the last row.
DeletedUnclamped(s) ==
  [s EXCEPT !.table = @ \ RowWhere(s, s.counter),
            !.data = IF OnRow(s) THEN RemoveAt(@, s.counter + 1) ELSE @]

Deleted(s) ==
  LET rows == IF OnRow(s) THEN RemoveAt(s.data, s.counter + 1) ELSE s.data
  IN  [s EXCEPT !.table = @ \ RowWhere(s, s.counter),
                !.data = rows,
                !.counter = IF Len(rows) <= @ /\ @ > 0 THEN Len(rows) - 1 ELSE @]

\* What delete_row does behind the statement, whether it succeeded or not: the
\* first row is left for insert mode, any other row keeps the cursor.
AfterDelete(s) ==
  LET t == [s EXCEPT !.changed = FALSE, !.open = FALSE]
  IN  IF t.counter > 0 THEN [t EXCEPT !.mode = "normal"] ELSE EnterInsertMode(t)

\* Faulty variant: a refused deletion leaves the mode as it is.
DeleteRowStaysInMode(s, no) ==
  IF {"delete?", "details"} \cap no # {}
    THEN [ds |-> [s EXCEPT !.changed = FALSE], ok |-> "delete?" \in no]
  ELSE IF {"cascade", "delete"} \cap no # {}
    THEN [ds |-> AfterDelete(s), ok |-> FALSE]
  ELSE [ds |-> AfterDelete(Deleted(s)), ok |-> TRUE]

\* Faulty variant: a refused deletion keeps the change flag.
DeleteRowStaysChanged(s, no) ==
  IF {"delete?", "details"} \cap no # {}
    THEN [ds |-> [s EXCEPT !.mode = "normal"], ok |-> "delete?" \in no]
  ELSE IF {"cascade", "delete"} \cap no # {}
    THEN [ds |-> AfterDelete(s), ok |-> FALSE]
  ELSE [ds |-> AfterDelete(Deleted(s)), ok |-> TRUE]

DeleteRow(s, no) ==
  IF "delete?" \in no
    THEN [ds |-> [s EXCEPT !.mode = "normal", !.changed = FALSE], ok |-> TRUE]
  ELSE IF "details" \in no
    THEN [ds |-> [s EXCEPT !.mode = "normal", !.changed = FALSE], ok |-> FALSE]
  ELSE IF {"cascade", "delete"} \cap no # {}
    THEN [ds |-> AfterDelete(s), ok |-> FALSE]
  ELSE [ds |-> AfterDelete(Deleted(s)), ok |-> TRUE]

\* Faulty variant: the changed data is reset whatever the result is, as a
\* commented line of the source would do.
StoreOrForget(s, no) ==
  IF s.readonly THEN [ds |-> s, ok |-> FALSE]
  ELSE IF s.ignore \/ ~s.changed
    THEN [ds |-> [ResetChangedData(s) EXCEPT
                    !.ignore = FALSE,
                    !.mode = IF @ = "insertrow" /\ s.data # <<>> THEN "normal" ELSE @],
          ok |-> TRUE]
  ELSE IF ~s.enabled THEN [ds |-> [s EXCEPT !.wild = TRUE], ok |-> FALSE]
  ELSE LET r == CASE s.mode = "normal"    -> UpdateRow(s, no)
                  [] s.mode = "deleterow" -> DeleteRow(s, no)
                  [] s.mode = "insertrow" -> InsertRow(s, no)
                  [] s.mode = "disabled"  -> [ds |-> s, ok |-> TRUE]
       IN  [ds |-> ResetChangedData(r.ds), ok |-> r.ok]

\* A readonly datasource refuses before anything is reset; an ignored or absent
\* change is dropped with success.  A datasource that is not enabled has no
\* columns to build the WHERE clause from: its column list is a null pointer.
StoreChangedData(s, no) ==
  IF s.readonly THEN [ds |-> s, ok |-> FALSE]
  ELSE IF s.ignore \/ ~s.changed
    THEN [ds |-> [ResetChangedData(s) EXCEPT
                    !.ignore = FALSE,
                    !.mode = IF @ = "insertrow" /\ s.data # <<>> THEN "normal" ELSE @],
          ok |-> TRUE]
  ELSE IF ~s.enabled THEN [ds |-> [s EXCEPT !.wild = TRUE], ok |-> FALSE]
  ELSE LET r == CASE s.mode = "normal"    -> UpdateRow(s, no)
                  [] s.mode = "deleterow" -> DeleteRow(s, no)
                  [] s.mode = "insertrow" -> InsertRow(s, no)
                  [] s.mode = "disabled"  -> [ds |-> s, ok |-> TRUE]
       IN  [ds |-> IF r.ok THEN ResetChangedData(r.ds) ELSE r.ds, ok |-> r.ok]

\* if (check_store_changed_data()) store_changed_data(); else p_has_changed=false;
StoreIfWanted(s, no) ==
  IF ~s.changed THEN [ds |-> s, ok |-> TRUE]
  ELSE IF s.automatic \/ "store?" \notin no THEN StoreChangedData(s, no)
  ELSE [ds |-> Cleared(s), ok |-> TRUE]

-----------------------------------------------------------------------------
(* The calls of the API.                                                   *)

\* Faulty variant: the cursor moves although the store was refused.
GotoRowAnyway(s, r, no) ==
  IF r = s.counter /\ s.mode # "insertrow" THEN s
  ELSE MoveTo(StoreIfWanted(s, no).ds, r, no)

\* Faulty variant: an early return even while a row is entered.
GotoRowForget(s, r, no) ==
  IF r = s.counter THEN s
  ELSE LET t == StoreIfWanted(s, no)
       IN  MoveTo([t.ds EXCEPT !.changed = FALSE], r, no)

GotoRow(s, r, no) ==
  IF r = s.counter /\ s.mode # "insertrow" THEN s
  ELSE LET t == StoreIfWanted(s, no)
       IN  IF t.ok THEN MoveTo(t.ds, r, no) ELSE t.ds

\* goto_last() asks for row max_rows()-1, an unsigned number: in an empty table
\* it is the largest one, which no table reaches.
LastRow(s) == IF s.data = <<>> THEN MaxId + 1 ELSE Len(s.data) - 1

\* The result of the store is not looked at: insert mode is entered anyway.
SetModeInsertrow(s, no) ==
  IF s.readonly THEN s
  ELSE LET t == IF s.enabled THEN s ELSE Enable(s, no).ds
           u == IF t.mode \in {"normal", "insertrow"} THEN StoreIfWanted(t, no).ds
                ELSE t
       IN  [u EXCEPT !.mode = "insertrow"]

DeleteActualRow(s, no) ==
  IF s.mode = "normal"
  THEN StoreChangedData([s EXCEPT !.mode = "deleterow", !.changed = TRUE], no).ds
  ELSE s

\* Nor is it looked at here: a pending edit that could not be stored is lost.
Disable(s, no) ==
  IF ~s.enabled THEN s
  ELSE [StoreIfWanted(s, no).ds EXCEPT
          !.changed = FALSE, !.enabled = FALSE, !.mode = "disabled",
          !.data = <<>>, !.counter = 0]

\* Faulty variant: the last row of the range stays loaded.
DeleteRangeShort(s, f, t, no) ==
  LET u == IF "delete" \in no THEN s
           ELSE [s EXCEPT
                   !.table = @ \ UNION { RowWhere(s, p) : p \in f..t },
                   !.data = SubSeq(@, 1, f) \o SubSeq(@, t + 1, Len(@))]
      n == Len(u.data)
      v == [u EXCEPT !.open = FALSE,
                     !.counter = IF n = 0 THEN 0 ELSE IF @ >= n THEN n - 1 ELSE @]
  IN  GotoRow(v, s.counter, no)

\* The rows from f to t in one statement; the cursor keeps its number, and
\* goto_row() to that number stores an edit that is still pending.
DeleteRange(s, f, t, no) ==
  LET u == IF "delete" \in no THEN s
           ELSE [s EXCEPT
                   !.table = @ \ UNION { RowWhere(s, p) : p \in f..t },
                   !.data = SubSeq(@, 1, f) \o SubSeq(@, t + 2, Len(@))]
      n == Len(u.data)
      v == [u EXCEPT !.open = FALSE,
                     !.counter = IF n = 0 THEN 0 ELSE IF @ >= n THEN n - 1 ELSE @]
  IN  GotoRow(v, s.counter, no)

\* A single row is deleted where the cursor is after goto_row(), wherever that is.
DeleteRows(s, from, to, no) ==
  LET n == Len(s.data)
      f == IF from > to THEN to ELSE from
      g == IF from > to THEN from ELSE to
      t == IF g >= n THEN n - 1 ELSE g
  IN  IF s.readonly THEN s
      ELSE IF from = to /\ from < n THEN DeleteRow(GotoRow(s, from, no), no).ds
      ELSE IF {"delete?", "details"} \cap no # {} \/ f >= n THEN s
      ELSE DeleteRange(s, f, t, no)

SetAsString(s, c, v) ==
  IF s.readonly \/ ~s.enabled THEN s
  ELSE [s EXCEPT !.edit[c] = [value |-> v, row |-> CurrentRow(s)], !.changed = TRUE]

-----------------------------------------------------------------------------
(* The actions: one call of the API each.                                  *)

BlankRow(i) == [id |-> i, val |-> [c \in Columns |-> Null]]

Init == \E n \in 0..InitRows, automatic \in BOOLEAN :
          ds = Fresh({ BlankRow(i) : i \in 1..n }, n + 1, automatic)

\* Who may say no to what is asked while a call runs.
Answers(asked) == SUBSET (Refusals \cap asked)

ToDelete == {"delete?", "details", "cascade", "delete"}

\* What storing the pending change asks: nothing when there is none.
ToStore ==
  { q \in Refusals :
      /\ ds.changed
      /\ \/ q = "store?" /\ ~ds.automatic
         \/ q \in {"update", "details"} /\ ds.mode = "normal"
         \/ q = "insert" /\ ds.mode = "insertrow"
         \/ q \in ToDelete /\ ds.mode = "deleterow" }

Call(name) == name \in Calls /\ ~ds.wild

GotoAnyRow == /\ Call("goto")
              /\ \E r \in 0..MaxId, no \in Answers(ToStore) : ds' = GotoRow(ds, r, no)

GotoLast == /\ Call("goto")
            /\ \E no \in Answers(ToStore) : ds' = GotoRow(ds, LastRow(ds), no)

GotoNext == /\ Call("goto") /\ ds.counter < Len(ds.data)
            /\ \E no \in Answers(ToStore) : ds' = GotoRow(ds, ds.counter + 1, no)

\* It steps the driver's batch back as well, though none is open in standard
\* mode: the mark outlives disable(), and a later batch_enable() finds it set
\* (SteppedBefore of BatchAccess).
SteppedBack(s) == [s EXCEPT !.stepped = TRUE]

GotoPrevious ==
  /\ Call("goto")
  /\ \E no \in Answers(ToStore) :
       ds' = IF ds.counter > 0 THEN GotoRow(SteppedBack(ds), ds.counter - 1, no)
                               ELSE SteppedBack(ds)

InsertMode == /\ Call("insertrow")
              /\ \E no \in Answers(ToStore \cup {"load"}) :
                   ds' = SetModeInsertrow(ds, no)

NormalMode == /\ Call("normal")
              /\ \E no \in Answers({"load"}) : ds' = SetModeNormal(ds, no)

DeleteActual == /\ Call("delete")
                /\ \E no \in Answers(ToDelete) : ds' = DeleteActualRow(ds, no)

DeleteSome == /\ Call("deleterows")
              /\ \E from, to \in 0..MaxId, no \in Answers(ToStore \cup ToDelete) :
                   ds' = DeleteRows(ds, from, to, no)

Store == /\ Call("store")
         /\ \E no \in Answers(ToStore) : ds' = StoreChangedData(ds, no).ds

\* enable() is one call; a client that never calls it twice is worth a name
EnableCall == /\ Call(IF ds.enabled THEN "reenable" ELSE "enable")
              /\ \E no \in Answers({"load"}) : ds' = Enable(ds, no).ds

DisableCall == /\ Call("disable")
               /\ \E no \in Answers(ToStore) : ds' = Disable(ds, no)

EditField == /\ Call("edit")
             /\ \E c \in Columns, v \in Values : ds' = SetAsString(ds, c, v)

SetReadonly == /\ Call("readonly")
               /\ \E b \in BOOLEAN : ds' = [ds EXCEPT !.readonly = b]

SetIgnoreChangedData == /\ Call("ignore")
                        /\ ds' = [ResetChangedData(ds) EXCEPT !.ignore = TRUE]

\* An access out of the range of p_data ends the program; the user starts it
\* anew on the table as it is on the server.
Restart == /\ ds.wild
           /\ ds' = Fresh(ds.table, ds.nextid, ds.automatic)

Next == \/ GotoAnyRow \/ GotoLast \/ GotoNext \/ GotoPrevious
        \/ InsertMode \/ NormalMode \/ EditField
        \/ Store \/ DeleteActual \/ DeleteSome
        \/ EnableCall \/ DisableCall
        \/ SetReadonly \/ SetIgnoreChangedData
        \/ Restart

Spec == Init /\ [][Next]_ds

-----------------------------------------------------------------------------
(* Properties.                                                             *)

\* Type invariant of the datasource and its table.
TypeOK == ds \in State

\* The cursor is on a row that is loaded, or it is at 0 because none is: what
\* update_row, delete_row and goto_row rely on when they index p_data.
CursorInRange == OnRow(ds) \/ (ds.counter = 0 /\ ds.data = <<>>)

\* The rows loaded are those of the server, each once: after every mix of
\* stored, refused and cascaded changes the copy that is maintained row by row
\* says what reloading the table would say.
MirrorsServer ==
  ds.enabled => /\ ToSet(ds.data) = ds.table
                /\ Len(ds.data) = Cardinality(ds.table)

\* Every transaction_begin has met its commit or rollback when a call returns.
TransactionsClosed == ~ds.open

\* p_has_changed is never set without a changed column: otherwise update_row
\* and insert_row fail forever and the cursor cannot leave its row.  (That a
\* changed column has the flag is EditsAreFlagged, which a refused UPDATE breaks.)
ChangedHasColumns == ds.changed => ~Untouched(ds)

\* A value that waits in a column is one the next store will send: the flag is
\* set and the mode is one that stores.  Without it store_changed_data() drops
\* the value and reports success.
EditsAreFlagged ==
  ds.enabled /\ ~Untouched(ds) => ds.changed /\ ds.mode \in {"normal", "insertrow"}

\* Rows disappear from the server only in a call that was made to delete.
DeletedOnlyOnRequest ==
  [][ (\E r \in ds.table : \A q \in ds'.table : q.id # r.id)
        => DeleteActual \/ DeleteSome ]_ds

\* With automatic update, a call that drops a value typed into a column has
\* written it into the row it was typed on (or into the row it appended),
\* whether the change flag is still set or not.  Left out are calls made to
\* delete, which drop what was typed on the row also when the user takes them
\* back, a change the client asked to ignore, and a datasource that is not
\* enabled: what disable() could not store is forgotten by the next enable().
LandsIn(row, c) ==
  \E r \in ds'.table : /\ r.id = IF row = NewRow THEN ds.nextid ELSE row
                       /\ r.val[c] = ds.edit[c].value

StoredOrKept ==
  [][ ds.automatic /\ ds.enabled /\ ~ds.ignore /\ ~ds'.wild
        => \/ DeleteActual \/ DeleteSome
           \/ \A c \in Columns : ds.edit[c] # None /\ ds'.edit[c] = None
                                  => LandsIn(ds.edit[c].row, c) ]_ds

\* A value that waits in a column was entered on the row the cursor is on.
EditsStayOnTheirRow ==
  ds.enabled => \A c \in Columns :
                  ds.edit[c] # None => ds.edit[c].row = CurrentRow(ds)

\* The datasource implements row editing as the user sees it.
Rows == INSTANCE RowEditing WITH rows <- ds.table, draft <- ds.edit
ImplementsRowEditing == Rows!Spec
=============================================================================
