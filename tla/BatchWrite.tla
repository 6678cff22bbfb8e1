------------------------------ MODULE BatchWrite ------------------------------
(***************************************************************************)
(* A datasource in the access mode batchwrite (hk_datasource.cpp,          *)
(* hk_storagedatasource.cpp): it loads no rows, new ones are entered one   *)
(* after the other and sent to the server.  The CSV import and the copying *)
(* of tables fill it, with the signals to visible objects blocked.         *)
(*                                                                         *)
(* An operator leads from the state before a call to the one after; the    *)
(* parameter "accepted" is the server's answer to the INSERT, if one is    *)
(* sent, "wanted" the user's to "Store changed data?", which is asked      *)
(* unless the database updates automatically (then it is TRUE).  Both      *)
(* clients call setmode_insertrow before they set a column, so the mode is *)
(* insertrow whenever a change is pending.                                 *)
(***************************************************************************)
EXTENDS Integers, SequencesExt

CONSTANTS
  Columns,     \* the columns of the table that is filled
  Null,        \* the NULL value
  Assigned,    \* a number the server gives to an auto_inc column
  Unset,       \* the column has not been changed
  NoColumn     \* "no auto_inc column", "no such column"

ASSUME BatchWriteAssumption ==
  /\ NoColumn \notin Columns
  /\ Null # Unset

NothingNew == [c \in Columns |-> Unset]

(***************************************************************************)
(* changed is p_has_changed, ignore p_ignore_changed_data, new the new     *)
(* data of the columns, auto the column that is read only because the      *)
(* server numbers it.  stored is the table on the server; from says for    *)
(* which row of the input a row was entered.                               *)
(***************************************************************************)
EmptyTarget(auto) ==
  [changed |-> FALSE, ignore |-> FALSE, new |-> NothingNew, auto |-> auto,
   from |-> 0, stored |-> <<>>]

\* reset_changed_data, of the datasource and of every column.
ResetChangedData(t) == [t EXCEPT !.changed = FALSE, !.new = NothingNew]

\* What the INSERT statement makes of the columns that were not changed.
Inserted(t) ==
  [c \in Columns |-> IF t.new[c] # Unset THEN t.new[c]
                     ELSE IF c = t.auto THEN Assigned ELSE Null]

\* Faulty variant: a refused row is given up at once.
StoreOrGiveUp(t, accepted) ==
  [ok |-> TRUE,
   target |-> IF ~accepted \/ t.ignore \/ ~t.changed
              THEN [ResetChangedData(t) EXCEPT !.ignore = FALSE]
              ELSE [ResetChangedData(t) EXCEPT
                      !.stored = Append(@, [from |-> t.from, row |-> Inserted(t)])]]

\* Faulty variant: the columns keep what was stored.
StoreKeepingNew(t, accepted) ==
  IF t.ignore \/ ~t.changed
  THEN [ok |-> TRUE, target |-> [ResetChangedData(t) EXCEPT !.ignore = FALSE]]
  ELSE IF accepted
  THEN [ok |-> TRUE,
        target |-> [t EXCEPT !.changed = FALSE,
                      !.stored = Append(@, [from |-> t.from, row |-> Inserted(t)])]]
  ELSE [ok |-> FALSE, target |-> t]

\* store_changed_data: [ok, target].  A refused row stays pending.
StoreChangedData(t, accepted) ==
  IF t.ignore \/ ~t.changed
  THEN [ok |-> TRUE, target |-> [ResetChangedData(t) EXCEPT !.ignore = FALSE]]
  ELSE IF accepted
  THEN [ok |-> TRUE,
        target |-> [ResetChangedData(t) EXCEPT
                      !.stored = Append(@, [from |-> t.from, row |-> Inserted(t)])]]
  ELSE [ok |-> FALSE, target |-> t]

\* setmode_insertrow, for row "from" of the input.  Whether the row pending
\* could be stored is not looked at.
SetmodeInsertrow(t, from, wanted, accepted) ==
  LET s == IF ~t.changed THEN t
           ELSE IF wanted THEN StoreChangedData(t, accepted).target
           ELSE ResetChangedData(t)
  IN  [s EXCEPT !.from = from]

\* hk_column::set_asstring and its kin.
SetColumn(t, c, value) ==
  IF c = t.auto THEN t ELSE [t EXCEPT !.new[c] = value, !.changed = TRUE]

\* The flag is consumed by the next store_changed_data, whatever row it is for.
SetIgnoreChangedData(t) == [ResetChangedData(t) EXCEPT !.ignore = TRUE]
=============================================================================
