------------------------------ MODULE RowEditing ------------------------------
(***************************************************************************)
(* What a user of a form may rely on, whatever modes, cursors and copies   *)
(* the library keeps to provide it: what is typed belongs to one row, is   *)
(* stored into that row and no other or becomes one new row, and a row     *)
(* goes away as a whole and alone.                                         *)
(***************************************************************************)
EXTENDS Naturals

CONSTANTS Columns, Values, Null, None, NewRow, NoRow

VARIABLES rows,    \* the rows of the table, with unique keys
          draft    \* what is typed and not yet stored, by column

Untyped == [c \in Columns |-> None]

Ids == { r.id : r \in rows }

\* Everything that is typed was typed for row i.
DraftOf(i) == \A c \in Columns : draft[c] # None => draft[c].row = i

Filled(val) ==
  [c \in Columns |-> IF draft[c] = None THEN val[c] ELSE draft[c].value]

Init == draft = Untyped

Type(i, c, v) == /\ DraftOf(i)
                 /\ draft' = [draft EXCEPT ![c] = [value |-> v, row |-> i]]
                 /\ UNCHANGED rows

Commit(r) == /\ DraftOf(r.id)
             /\ rows' = (rows \ {r}) \cup {[r EXCEPT !.val = Filled(@)]}
             /\ draft' = Untyped

Add == /\ DraftOf(NewRow) /\ draft # Untyped
       /\ draft' = Untyped
       /\ \E i \in { r.id : r \in rows' } \ Ids :
            rows' = rows \cup {[id |-> i, val |-> Filled([c \in Columns |-> Null])]}

Discard == draft' = Untyped /\ UNCHANGED rows

Remove(r) == DraftOf(r.id) /\ rows' = rows \ {r} /\ draft' = Untyped

Next == \/ \E i \in Ids \cup {NewRow, NoRow}, c \in Columns, v \in Values : Type(i, c, v)
        \/ \E r \in rows : Commit(r) \/ Remove(r)
        \/ Add \/ Discard

Spec == Init /\ [][Next]_<<rows, draft>>
=============================================================================
