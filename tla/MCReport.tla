------------------------------- MODULE MCReport -------------------------------
(***************************************************************************)
(* Small results, layouts and drivers for TLC.                             *)
(***************************************************************************)
EXTENDS Report

CONSTANTS x, y

Fields == {<<x, x>>, <<x, y>>, <<y, Blank>>, <<Blank, y>>}

\* All results of up to three rows over two columns.
SmallResults ==
  { [i \in 1..n |-> [id |-> i, is |-> f[i]]] : n \in 0..3, f \in [1..3 -> Fields] }

By(column) == [column |-> column, header |-> TRUE, footer |-> TRUE, breaks |-> {}]

Report2(one, two) == [pairs |-> <<one, two>>, breakdata |-> FALSE]

GroupedLayouts == {
  [pairs |-> <<>>, breakdata |-> TRUE],
  Report2(By(1), By(2)),
  Report2(By(NoColumn), By(1)),
  Report2([By(1) EXCEPT !.footer = FALSE], [By(2) EXCEPT !.breaks = {"footer"}]),
  Report2([By(2) EXCEPT !.breaks = {"header", "footer"}], By(1)),
  [pairs |-> <<[By(1) EXCEPT !.header = FALSE]>>, breakdata |-> FALSE] }

MySQL      == [steps |-> TRUE, clears |-> TRUE, knows |-> FALSE]
SQLite3    == [steps |-> TRUE, clears |-> FALSE, knows |-> FALSE]
PostgreSQL == [steps |-> TRUE, clears |-> TRUE, knows |-> TRUE]

ServerDrivers == {MySQL, SQLite3, PostgreSQL}
=============================================================================
