------------------------------- MODULE Visibles -------------------------------
(***************************************************************************)
(* The visible objects of the datasources: fields, a grid with its columns *)
(* and a combobox with the list it chooses from.  A datasource keeps a     *)
(* list of them and tells them one by one when it is enabled, disabled,    *)
(* gone over by scripts or deleted; what they do then changes the lists it *)
(* is walking through and calls other datasources.  Each keeps a pointer   *)
(* to the column it shows, which the datasource deletes at its next query. *)
(***************************************************************************)
EXTENDS Naturals, Sequences, FiniteSets, SequencesExt

CONSTANTS
  Main,        \* a datasource
  Listed,      \* the datasource the combobox chooses from
  Fields,      \* hk_dsdatavisible
  Grid,        \* hk_dsgrid
  Combo,       \* hk_dscombobox in mode combo
  ListPart,    \* its hk_listvisible
  Names,       \* of columns
  NameOf,      \* of the column a field, the combobox or its list shows
  ViewName,    \* of the column the list shows besides
  NoSource, Null, Freed, Start, Begin, End,
  Queries,     \* of a datasource: the sets of columns a query may yield
  CarefulScripts, \* no script queries the datasource of an automatic grid again
  MaxScripts   \* bound: scripts that query again within one walk

Datasources == {Main, Listed}

\* The hk_dsgridcolumn of a column.
GridColumn(name) == [gridcolumn |-> name]

GridColumns == { GridColumn(name) : name \in Names }

\* Everything derived from hk_dsdatavisible.
DataVisibles == Fields \cup {Combo, ListPart} \cup GridColumns

Visibles == DataVisibles \cup {Grid}

ASSUME VisiblesAssumption ==
  /\ Main # Listed /\ NoSource \notin Datasources /\ MaxScripts \in Nat
  /\ CarefulScripts \in BOOLEAN
  /\ IsFiniteSet(Names) /\ ViewName \in Names
  /\ Queries \in [Datasources -> SUBSET ((SUBSET Names) \ {{}})]
  /\ NameOf \in [Fields \cup {Combo, ListPart} -> Names]
  /\ {Combo, ListPart, Grid} \cap Fields = {} /\ Combo # ListPart /\ Grid \notin {Combo, ListPart}
  /\ GridColumns \cap (Fields \cup {Combo, ListPart, Grid}) = {}
  /\ Null # Freed /\ {Null, Freed} \cap (Datasources \X Names) = {}
  /\ {Start, Begin, End} \cap Visibles = {} /\ Start # Begin /\ End \notin {Start, Begin}

ShownName(v) == IF v \in GridColumns THEN v.gridcolumn ELSE NameOf[v]

VARIABLES
  inForm,      \* the visibles belong to a presentation, not the parts of others
  automatic,   \* p_automatic_columns of the grid
  alive,       \* the datasources that can be enabled
  enabled,     \* p_enabled
  columns,     \* the names of p_columns, {} if there are none
  vis,         \* the visibles
  todo,        \* what the call under way has still to do: calls and walks
  scripts      \* scripts run in this walk

vars == <<inForm, automatic, alive, enabled, columns, vis, todo, scripts>>

(***************************************************************************)
(* vis.list is p_visibles of the datasources, .of p_datasource, .column    *)
(* p_column, .view p_viewcolumn, .cols p_cols of the grid, .handled the    *)
(* visibles with p_already_handled.  A pointer to a column is Null, a      *)
(* datasource and a name, or Freed when that column is deleted.            *)
(* An item of todo is a call or a walk; .it is the iterator of a walk.     *)
(***************************************************************************)
Init ==
  /\ inForm \in BOOLEAN /\ automatic \in BOOLEAN
  /\ alive = Datasources
  /\ enabled = [d \in Datasources |-> FALSE]
  /\ columns = [d \in Datasources |-> {}]
  /\ vis = [list |-> [d \in Datasources |-> <<>>],
            of |-> [v \in Visibles |-> NoSource],
            column |-> [v \in DataVisibles |-> Null], view |-> Null,
            cols |-> IF automatic THEN {} ELSE Names, handled |-> {}]
  /\ todo = <<>>
  /\ scripts = 0

Item(do, d) == [do |-> do, d |-> d, it |-> Start]

\* column_by_name of datasource d.
ColumnByName(d, name) == IF name \in columns[d] THEN <<d, name>> ELSE Null

-----------------------------------------------------------------------------
(* What a visible does.  Each yields the visibles afterwards.              *)

\* hk_dsdatavisible::column: a pointer is fetched when there is none.
Fetched(s, v) ==
  LET d == s.of[v]
  IN  IF s.column[v] = Null /\ d # NoSource /\ enabled[d]
      THEN [s EXCEPT !.column[v] = ColumnByName(d, ShownName(v))]
      ELSE s

\* hk_listvisible::datasource_enable: a column that is missing is replaced
\* by the other.
ListEnabled(s) ==
  LET t == Fetched([s EXCEPT !.column[ListPart] = Null], ListPart)
      named == ColumnByName(t.of[ListPart], ViewName)
      view == IF named = Null THEN t.column[ListPart] ELSE named
  IN  [t EXCEPT !.view = view,
                !.column[ListPart] = IF @ = Null THEN view ELSE @]

\* datasource_enable
Enabled(s, v) ==
  CASE v = Grid     -> s
    [] v = ListPart -> ListEnabled(s)
    [] OTHER        -> Fetched([s EXCEPT !.column[v] = Null], v)

\* std::list::remove, of some visibles (SelectSeq, as a function).
Without(list, V) ==
  LET kept[i \in Nat] == IF i = 0 THEN <<>>
                         ELSE IF list[i] \in V THEN kept[i - 1]
                         ELSE Append(kept[i - 1], list[i])
  IN  kept[Len(list)]

\* visible_remove by the datasource each has, and the pointers are given up.
Detached(s, V) ==
  [s EXCEPT !.list = [d \in Datasources |-> Without(s.list[d], {v \in V : s.of[v] = d})],
            !.of = [v \in Visibles |-> IF v \in V THEN NoSource ELSE s.of[v]],
            !.column = [v \in DataVisibles |-> IF v \in V THEN Null ELSE s.column[v]],
            !.view = IF ListPart \in V THEN Null ELSE @,
            !.handled = @ \ V]

\* visible_add, for visibles that have no datasource, in the order of new.
Appended(s, new, d) ==
  [s EXCEPT !.list[d] = @ \o new,
            !.of = [v \in Visibles |-> IF v \in Range(new) THEN d ELSE s.of[v]]]

\* hk_dsvisible::set_datasource of a datasource, for one visible.
AttachedAlone(s, v, d) ==
  LET t == Appended(Detached(s, {v}), <<v>>, d)
  IN  IF enabled[d] THEN Enabled(t, v) ELSE t

\* The same for some columns of the grid, one after the other: each gets its
\* column if the datasource is enabled.
GridColumnsAttached(s, names, d) ==
  LET new == [i \in 1..Cardinality(names) |-> GridColumn(SetToSeq(names)[i])]
      t == Appended(Detached(s, Range(new)), new, d)
  IN  IF ~enabled[d] THEN t
      ELSE [t EXCEPT !.column = [v \in DataVisibles |->
                       IF v \in Range(new) THEN ColumnByName(d, ShownName(v)) ELSE t.column[v]]]

GridColumnsDetached(s, names) == Detached(s, { GridColumn(name) : name \in names })

\* hk_dsgrid::clear_cols
ColsCleared(s) == [GridColumnsDetached(s, s.cols) EXCEPT !.cols = {}]

\* hk_dsgrid::columns_new_created
ColsCreated(s) ==
  IF ~automatic THEN s
  ELSE LET t == ColsCleared(s)
           d == s.of[Grid]
       IN  IF d = NoSource THEN t
           ELSE [GridColumnsAttached(t, columns[d], d) EXCEPT !.cols = columns[d]]

\* set_datasource of a datasource; a grid passes it on to its columns.
Attached(s, v, d) ==
  LET t == AttachedAlone(s, v, d)
      u == GridColumnsAttached(t, t.cols, d)
  IN  IF v # Grid THEN t
      ELSE IF enabled[d] THEN ColsCreated(u) ELSE u

\* set_datasource(NULL).  What belongs to a presentation stays attached.
Released(s, v) ==
  LET own == v \in Fields \cup {Grid, Combo} /\ inForm
      t == IF ~own THEN Detached(s, {v})
           ELSE IF v = Grid THEN s ELSE [s EXCEPT !.column[v] = Null]
  IN  IF v = Grid THEN GridColumnsDetached(t, t.cols) ELSE t

\* datasource_disable.  The list forgets both of its columns.
Disabled(s, v) ==
  CASE v = Grid     -> IF automatic THEN ColsCleared(s) ELSE s
    [] v = ListPart -> [s EXCEPT !.column[v] = Null, !.view = Null]
    [] OTHER        -> [s EXCEPT !.column[v] = Null]

\* datasource_delete, and the datasource takes the visible from its list.
\* The list keeps the pointer to what it shows besides.
Deleted(s, v) == [Detached(s, {v}) EXCEPT !.view = s.view]

\* Faulty variant: the list keeps what it shows besides.
ColumnsGoneBut(s, v) ==
  IF v = Grid THEN s ELSE [s EXCEPT !.column[v] = Null]

\* before_columns_deleted
ColumnsGone(s, v) ==
  IF v = Grid THEN s
  ELSE [s EXCEPT !.column[v] = Null, !.view = IF v = ListPart THEN Null ELSE @]

-----------------------------------------------------------------------------
(* Walks through the list of a datasource.                                 *)

\* Those that go by p_already_handled and begin again after every visible.
Restarting == {"enabled", "disabled", "vanishes", "deleted"}

Walks == Restarting \cup {"columns_gone", "columns_created", "row_changed"}

\* The next node of a std::list.
After(list, v) ==
  LET i == CHOOSE i \in DOMAIN list : list[i] = v
  IN  IF i = Len(list) THEN End ELSE list[i + 1]

\* What the visible does when it is told.
Told(do, s, v) ==
  CASE do = "enabled"         -> Enabled(s, v)
    [] do = "disabled"        -> Disabled(s, v)
    [] do = "vanishes"        -> Released(s, v)
    [] do = "deleted"         -> Deleted(s, v)
    [] do = "columns_gone"    -> ColumnsGone(s, v)
    [] do = "columns_created" -> IF v = Grid THEN ColsCreated(s) ELSE s
    [] do = "row_changed"     -> s

\* A combobox enables and disables the datasource it lists, on its way out.
CallsOf(do, v) ==
  LET d == vis.of[ListPart]
  IN  IF v # Combo \/ d = NoSource THEN <<>>
      ELSE IF do = "enabled" THEN <<Item("enable", d)>>
      ELSE IF do \in {"disabled", "vanishes"} THEN <<Item("disable", d)>>
      ELSE <<>>

\* Faulty variant: the next visible is looked up before this one is told.
NextAfterKept(do, s, list, v) ==
  IF do = "deleted" THEN Begin
  ELSE IF do = "columns_created" THEN After(s.list[todo[1].d], v) ELSE After(list, v)

\* Faulty variant: the visibles are marked whenever the walk begins again.
NextAfterMarking(do, s, list, v) ==
  IF do \in Restarting THEN Start
  ELSE IF do = "columns_created" THEN After(s.list[todo[1].d], v) ELSE After(list, v)

\* Where the iterator is when v has been told: s are the visibles then, list
\* is the one it was found in.
NextAfter(do, s, list, v) ==
  IF do \in Restarting THEN Begin
  ELSE IF do = "columns_created" THEN After(s.list[todo[1].d], v) ELSE After(list, v)

\* Faulty variant: the flags of the last walk are still set.
BeginUnmarked ==
  /\ todo # <<>> /\ todo[1].do \in Walks /\ todo[1].it = Start
  /\ todo' = [todo EXCEPT ![1].it = Begin]
  /\ UNCHANGED <<inForm, automatic, alive, enabled, columns, vis, scripts>>

\* mark_visible_objects_as_not_handled
BeginWalk ==
  /\ todo # <<>> /\ todo[1].do \in Walks /\ todo[1].it = Start
  /\ todo' = [todo EXCEPT ![1].it = Begin]
  /\ vis' = [vis EXCEPT !.handled =
               IF todo[1].do \in Restarting \cup {"columns_created"}
               THEN @ \ Range(vis.list[todo[1].d]) ELSE @]
  /\ UNCHANGED <<inForm, automatic, alive, enabled, columns, scripts>>

\* Where an iterator is in a list.
Position(list, it) ==
  IF it = Begin THEN 1
  ELSE IF it = End THEN Len(list) + 1
  ELSE CHOOSE i \in DOMAIN list : list[i] = it

\* The visible that is told next: the one at the iterator, which is begin()
\* after Begin, or the next one behind it that has not been told.
AtIterator ==
  LET item == todo[1]
      list == vis.list[item.d]
      due == { i \in Position(list, item.it)..Len(list) :
                 item.do \in Restarting => list[i] \notin vis.handled }
  IN  IF due = {} THEN End ELSE list[Min(due)]

Walking == todo # <<>> /\ todo[1].do \in Walks /\ todo[1].it # Start

\* The next visible is told.
TellVisible ==
  /\ Walking /\ AtIterator # End
  /\ LET do == todo[1].do
         v == AtIterator
         list == vis.list[todo[1].d]
         s == Told(do, vis, v)
     IN  /\ vis' = IF do \in Restarting /\ do # "deleted"
                   THEN [s EXCEPT !.handled = @ \cup {v}] ELSE s
         /\ todo' = CallsOf(do, v) \o [todo EXCEPT ![1].it = NextAfter(do, s, list, v)]
  /\ UNCHANGED <<inForm, automatic, alive, enabled, columns, scripts>>

\* A script of the visible that is told of the row queries a datasource again.
\* The iterator is behind it by then.  Nothing in the code keeps a script from the
\* datasource of a grid that makes its columns anew, but careful ones keep off.
ScriptRequeries ==
  /\ Walking /\ todo[1].do = "row_changed" /\ AtIterator # End
  /\ scripts < MaxScripts
  /\ \E d \in Datasources :
       /\ CarefulScripts => ~(automatic /\ vis.of[Grid] = d)
       /\ todo' = <<Item("disable", d), Item("enable", d)>>
                  \o [todo EXCEPT ![1].it = After(vis.list[todo[1].d], AtIterator)]
  /\ scripts' = scripts + 1
  /\ UNCHANGED <<inForm, automatic, alive, enabled, columns, vis>>

\* Between two calls nobody reads p_already_handled: it is dropped.
EndWalk ==
  /\ Walking /\ AtIterator = End
  /\ todo' = Tail(todo)
  /\ scripts' = IF todo[1].do = "row_changed" THEN 0 ELSE scripts
  /\ vis' = IF Len(todo) = 1 THEN [vis EXCEPT !.handled = {}] ELSE vis
  /\ UNCHANGED <<inForm, automatic, alive, enabled, columns>>

-----------------------------------------------------------------------------
(* The calls of a datasource.                                              *)

Doing(do) == todo # <<>> /\ todo[1].do = do

\* enable(): nothing if it is enabled, else the columns go first.
Enable ==
  /\ Doing("enable")
  /\ LET d == todo[1].d
         cleared == IF columns[d] = {} THEN <<>>
                    ELSE <<Item("columns_gone", d), Item("delete_columns", d)>>
     IN  todo' = IF enabled[d] THEN Tail(todo)
                 ELSE cleared \o <<Item("query", d)>> \o Tail(todo)
  /\ UNCHANGED <<inForm, automatic, alive, enabled, columns, vis, scripts>>

\* What leads to a column of d, which is deleted.
Lost(d, pointer) ==
  IF pointer \in {d} \X Names THEN Freed ELSE pointer

\* clear_columnlist, when the visibles have been told.
DeleteColumns ==
  /\ Doing("delete_columns")
  /\ LET d == todo[1].d
     IN  /\ columns' = [columns EXCEPT ![d] = {}]
         /\ vis' = [vis EXCEPT
                      !.column = [v \in DataVisibles |-> Lost(d, vis.column[v])],
                      !.view = Lost(d, @)]
  /\ todo' = Tail(todo)
  /\ UNCHANGED <<inForm, automatic, alive, enabled, scripts>>

\* The driver queries the server and creates the columns of the result.
QuerySucceeds ==
  /\ Doing("query")
  /\ LET d == todo[1].d
     IN  /\ d \in alive
         /\ \E names \in Queries[d] : columns' = [columns EXCEPT ![d] = names]
         /\ enabled' = [enabled EXCEPT ![d] = TRUE]
         /\ todo' = <<Item("columns_created", d), Item("enabled", d)>> \o Tail(todo)
  /\ UNCHANGED <<inForm, automatic, alive, vis, scripts>>

QueryFails ==
  /\ Doing("query")
  /\ todo' = Tail(todo)
  /\ UNCHANGED <<inForm, automatic, alive, enabled, columns, vis, scripts>>

\* disable()
Disable ==
  /\ Doing("disable")
  /\ LET d == todo[1].d
     IN  /\ enabled' = [enabled EXCEPT ![d] = FALSE]
         /\ todo' = IF enabled[d] THEN <<Item("disabled", d)>> \o Tail(todo) ELSE Tail(todo)
  /\ UNCHANGED <<inForm, automatic, alive, columns, vis, scripts>>

\* The datasource is gone: its visibles and its columns are cleared.
Destroy ==
  /\ Doing("destroy")
  /\ enabled' = [enabled EXCEPT ![todo[1].d] = FALSE]
  /\ todo' = Tail(todo)
  /\ UNCHANGED <<inForm, automatic, alive, columns, vis, scripts>>

-----------------------------------------------------------------------------
(* What program and user do between the calls.                             *)

Idle == todo = <<>>

SetEnabled(d) ==
  /\ Idle
  /\ \E do \in {"enable", "disable"} : todo' = <<Item(do, d)>>
  /\ UNCHANGED <<inForm, automatic, alive, enabled, columns, vis, scripts>>

\* goto_row: the scripts of the visibles.
GotoRow ==
  /\ Idle /\ enabled[Main]
  /\ todo' = <<Item("row_changed", Main)>>
  /\ UNCHANGED <<inForm, automatic, alive, enabled, columns, vis, scripts>>

\* Its table is deleted or the connection is closed: before_source_vanishes.
SourceVanishes(d) ==
  /\ Idle /\ d \in alive
  /\ alive' = alive \ {d}
  /\ todo' = <<Item("vanishes", d), Item("disable", d)>>
  /\ UNCHANGED <<inForm, automatic, enabled, columns, vis, scripts>>

\* ~hk_datasource
DeleteDatasource(d) ==
  /\ Idle
  /\ alive' = alive \ {d}
  /\ todo' = <<Item("deleted", d), Item("delete_columns", d), Item("destroy", d)>>
  /\ UNCHANGED <<inForm, automatic, enabled, columns, vis, scripts>>

\* A visible gets its datasource: set_presentationdatasource, set_datasource
\* or, for the list, set_listdatasource.
SetDatasource(v, d) ==
  /\ Idle /\ vis.of[v] = NoSource /\ d \in alive
  /\ v \in Fields \cup {Grid, Combo, ListPart}
  /\ (v = ListPart) = (d = Listed)
  /\ vis' = Attached(vis, v, d)
  /\ todo' = IF v = ListPart /\ vis.of[Combo] # NoSource
             THEN <<Item(IF enabled[vis.of[Combo]] THEN "enable" ELSE "disable", d)>>
             ELSE CallsOf(IF enabled[d] THEN "enabled" ELSE "disabled", v)
  /\ UNCHANGED <<inForm, automatic, alive, enabled, columns, scripts>>

\* set_viewcolumnname: a datasource that is asked for its columns creates
\* them, be it enabled or not.
SetViewColumn ==
  /\ Idle /\ vis.of[ListPart] \in alive
  /\ LET d == vis.of[ListPart]
     IN  \E names \in IF columns[d] # {} THEN {columns[d]} ELSE Queries[d] :
           /\ columns' = [columns EXCEPT ![d] = names]
           /\ vis' = [vis EXCEPT !.view = IF ViewName \in names THEN <<d, ViewName>> ELSE Null]
  /\ UNCHANGED <<inForm, automatic, alive, enabled, todo, scripts>>

\* A visible is deleted, with its parts, and another takes its place.
DeleteVisible(v) ==
  /\ Idle /\ vis.of[v] # NoSource
  /\ vis' = CASE v = Grid  -> [ColsCleared(Detached(vis, {v})) EXCEPT
                                 !.cols = IF automatic THEN {} ELSE Names]
              [] v = Combo -> Detached(vis, {v, ListPart})
              [] OTHER     -> Detached(vis, {v})
  /\ UNCHANGED <<inForm, automatic, alive, enabled, columns, todo, scripts>>

\* A widget paints itself and asks for its column, whatever is under way.
Paint(v) ==
  /\ Fetched(vis, v) # vis
  /\ vis' = Fetched(vis, v)
  /\ UNCHANGED <<inForm, automatic, alive, enabled, columns, todo, scripts>>

Step ==
  \/ BeginWalk \/ TellVisible \/ ScriptRequeries \/ EndWalk
  \/ Enable \/ DeleteColumns \/ QuerySucceeds \/ QueryFails \/ Disable \/ Destroy

Next ==
  \/ Step
  \/ \E d \in Datasources : SetEnabled(d) \/ SourceVanishes(d) \/ DeleteDatasource(d)
  \/ GotoRow
  \/ \E v \in Fields \cup {Grid, Combo, ListPart}, d \in Datasources : SetDatasource(v, d)
  \/ SetViewColumn
  \/ \E v \in Fields \cup {Grid, Combo} : DeleteVisible(v)
  \/ \E v \in Fields \cup {ListPart} : Paint(v)

\* A call runs to its end.
Spec == Init /\ [][Next]_vars /\ WF_vars(Step)

-----------------------------------------------------------------------------
(* Properties.                                                             *)

(***************************************************************************)
(* No iterator is left at a visible that has been taken from the list,     *)
(* although a grid deletes and creates its columns while it is told, and   *)
(* no list holds a visible of another datasource or one twice.             *)
(***************************************************************************)
IteratorsValid ==
  /\ \A i \in DOMAIN todo :
       todo[i].it \in {Start, Begin, End} \cup Range(vis.list[todo[i].d])
  /\ \A d \in Datasources :
       /\ IsInjective(vis.list[d])
       /\ Range(vis.list[d]) = { v \in Visibles : vis.of[v] = d }

(***************************************************************************)
(* A visible that has a datasource shows a column of this datasource that  *)
(* exists, or none, whoever has been told of what so far.                  *)
(***************************************************************************)
ColumnsAlive ==
  LET Pointers(d) == {Null} \cup ({d} \X columns[d])
  IN  \A d \in Datasources, v \in DataVisibles :
        vis.of[v] = d =>
          /\ vis.column[v] \in Pointers(d)
          /\ v = ListPart => vis.view \in Pointers(d)

\* The column a visible should show.
Expected(v) ==
  LET d == vis.of[v]
      own == ColumnByName(d, ShownName(v))
  IN  IF ~enabled[d] THEN Null
      ELSE IF v = ListPart /\ own = Null THEN ColumnByName(d, ViewName) ELSE own

(***************************************************************************)
(* When a call returns everybody has been told, whatever was called from   *)
(* within: each visible shows its column, or none of a datasource that is  *)
(* disabled, and an automatic grid has the columns of the last query.      *)
(***************************************************************************)
EverybodyTold ==
  Idle =>
    /\ \A v \in DataVisibles : vis.of[v] # NoSource => vis.column[v] = Expected(v)
    /\ automatic /\ vis.of[Grid] # NoSource =>
         vis.cols = IF enabled[vis.of[Grid]] THEN columns[vis.of[Grid]] ELSE {}

\* Every call returns, although its walks begin again and again.
CallsReturn == todo # <<>> ~> Idle
=============================================================================
