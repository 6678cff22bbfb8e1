------------------------------ MODULE RowCursor ------------------------------
(***************************************************************************)
(* What a program that reads a result once may rely on: the row it sees is *)
(* the row of the result where its cursor is, the cursor goes forward row  *)
(* by row, and back again to the row before.                               *)
(***************************************************************************)
EXTENDS Naturals, Sequences

CONSTANT Nothing

VARIABLES open, rows, at, shown

vars == <<open, rows, at, shown>>

RowAt(r, i) == IF i \in DOMAIN r THEN r[i] ELSE Nothing

Init == open = FALSE /\ rows = <<>> /\ at = 1 /\ shown = Nothing

\* The server sends another result.
Open == open' = TRUE /\ at' = 1

Forward == open /\ at' = at + 1 /\ at < Len(rows) /\ UNCHANGED <<open, rows>>

Back == open /\ at' = at - 1 /\ at > 1 /\ UNCHANGED <<open, rows>>

Close == open /\ open' = FALSE /\ at' = 1 /\ UNCHANGED rows

Next == /\ Open \/ Forward \/ Back \/ Close
        /\ shown' = IF open' THEN RowAt(rows', at') ELSE Nothing

Spec == Init /\ [][Next]_vars
=============================================================================
