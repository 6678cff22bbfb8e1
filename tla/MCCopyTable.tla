------------------------------ MODULE MCCopyTable ------------------------------
(***************************************************************************)
(* Small tables and the drivers of the source for TLC.                     *)
(***************************************************************************)
EXTENDS CopyTable

CONSTANTS name, note, x, y

\* Two columns, one of them may be NULL and the other empty.
Rows2 == { [c \in Columns |-> IF c = name THEN f[1] ELSE f[2]] :
             f \in {<<x, Empty>>, <<y, x>>, <<Null, Empty>>, <<Null, x>>} }

SmallTables == UNION { [1..n -> Rows2] : n \in 0..3 }

NoFields == [c \in Columns |-> Empty]

MySQL      == [steps |-> TRUE, clears |-> TRUE, knows |-> FALSE]
SQLite3    == [steps |-> TRUE, clears |-> FALSE, knows |-> FALSE]
PostgreSQL == [steps |-> TRUE, clears |-> TRUE, knows |-> TRUE]
XBase      == [steps |-> FALSE, clears |-> FALSE, knows |-> FALSE]

AllDrivers == {MySQL, SQLite3, PostgreSQL, XBase}
=============================================================================
