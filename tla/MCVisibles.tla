------------------------------ MODULE MCVisibles ------------------------------
(***************************************************************************)
(* A form or a window over two datasources, for TLC.                       *)
(***************************************************************************)
EXTENDS Visibles

CONSTANTS field, x, y

ShownNames == [v \in Fields \cup {Combo, ListPart} |-> IF v = Combo THEN y ELSE x]

\* The list has lost the column its values are taken from.
SmallQueries == [d \in Datasources |-> IF d = Main THEN {{x}, {x, y}} ELSE {{y}}]
=============================================================================
