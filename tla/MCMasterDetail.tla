--------------------------- MODULE MCMasterDetail ---------------------------
(***************************************************************************)
(* Small trees of datasources for TLC: orders with their lines, or a chain *)
(* of orders, lines and parts; the calls of their forms and who may refuse. *)
(***************************************************************************)
EXTENDS MasterDetail

CONSTANTS orders, lines, parts

Tree == {orders, lines, parts}

\* parts stands alone and is not used
Pair  == [d \in Tree |-> IF d = lines THEN orders ELSE NoDS]
Chain == [d \in Tree |-> CASE d = orders -> NoDS [] d = lines -> orders [] d = parts -> lines]

Mode(m) == [d \in Tree |-> m]

-----------------------------------------------------------------------------
(* Clients.                                                                *)

\* A form opened and closed by its master; the details are shown in grids,
\* where their rows are deleted.
Form(D) == ({"goto", "insertrow", "store", "edit"} \X D)
             \cup {<<"enable", orders>>, <<"disable", orders>>, <<"delete", orders>>}
             \cup ({"deleterows"} \X (D \ {orders}))
PairForm == Form({orders, lines})

\* Keys that are in use are typed.
TakenForm == PairForm \cup {<<"retake", lines>>}

\* The lines too are opened and closed by a button, or by a script.
SwitchForm == PairForm \cup ({"enable", "disable"} \X {lines})

\* The key of an order is edited, and nothing is entered into its lines.
RekeyForm == ({"goto", "insertrow", "store", "edit", "rekey", "enable", "disable"} \X {orders})
               \cup {<<"goto", lines>>, <<"deleterows", lines>>}

\* The lines are a query, which nothing is entered into.
QueryForm == ({"goto", "insertrow", "store", "edit", "enable", "disable", "delete"} \X {orders})
               \cup {<<"goto", lines>>}

\* Three levels: the form enters and deletes below the orders, which are there.
ChainForm == ({"goto", "insertrow", "store", "edit"} \X {lines, parts})
               \cup ({"goto", "enable", "disable", "delete"} \X {orders})
               \cup ({"deleterows"} \X {parts})

ServerRefuses == {<<"delete", orders>>, <<"cascade", lines>>, <<"insert", lines>>}
OrderRefused  == {"insert", "delete"} \X {orders}
RekeyRefused  == {"update"} \X {orders}

-----------------------------------------------------------------------------
(* Tables.                                                                 *)

Rows(n)  == { [key |-> k, ref |-> NoKey] : k \in 1..n }
Under(f) == { [key |-> k, ref |-> f[k]] : k \in DOMAIN f }
Tabs(o, l, p) == [d \in Tree |-> CASE d = orders -> o [] d = lines -> l [] d = parts -> p]

\* Two orders, none to two lines.
PairTables == { Tabs(Rows(2), Under(f), {}) : f \in {<<>>, <<1>>, <<1, 2>>, <<2, 2>>} }

\* Two orders, one with a line that may have a part.
ChainTables == { Tabs(Rows(2), Under(<<1>>), Under(f)) : f \in {<<>>, <<1>>} }

-----------------------------------------------------------------------------
(* Setups.                                                                 *)

Set(tree, mode, calls, refusals, tables) ==
  [master |-> tree, depend |-> Mode(mode), react |-> {}, queries |-> {},
   keys |-> Keys, calls |-> calls, refusals |-> refusals, tables |-> tables]

StandardSetup == [Set(Pair, "standard", TakenForm, ServerRefuses, PairTables)
                    EXCEPT !.keys = {1, 2}]
DeleteSetup   == Set(Pair, "changedelete", PairForm, ServerRefuses, PairTables)
SwitchSetup   == Set(Pair, "changedelete", SwitchForm, OrderRefused, PairTables)
RekeySetup    == Set(Pair, "changedelete", RekeyForm, {}, PairTables)
ReactSetup    == [Set(Pair, "changedelete", RekeyForm, RekeyRefused, PairTables)
                    EXCEPT !.react = {lines}]
QuerySetup    == [Set(Pair, "standard", QueryForm, OrderRefused, PairTables)
                    EXCEPT !.queries = {lines}]
ChainSetup    == [Set(Chain, "standard", ChainForm, {}, ChainTables) EXCEPT !.keys = {1, 2}]

FormSetups == {StandardSetup, DeleteSetup, RekeySetup, QuerySetup, ChainSetup,
               SwitchSetup, ReactSetup}
=============================================================================
