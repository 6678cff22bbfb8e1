----------------------------- MODULE MasterDetail -----------------------------
(***************************************************************************)
(* A tree of datasources: a master and the datasources that depend on it   *)
(* (set_depending_on, add_depending_fields).  A detail loads the rows whose *)
(* field "ref" holds the "key" of the row its master is on; every call that *)
(* enables, moves, edits, stores or deletes in the master reaches the       *)
(* details before it returns, and theirs in turn (hk_datasource.cpp).       *)
(*                                                                         *)
(* The variable w maps each datasource to its state and to its table on the *)
(* server.  Handlers are operators from the state before to the state       *)
(* after, called in the order of the source; "no" is the set of answers     *)
(* <<what, datasource>> that are refusals: of the server to a statement     *)
(* ("update", "insert", "delete", "load", "cascade": a statement on the     *)
(* rows of this detail sent for its master) and of the user ("store?").     *)
(* The server itself refuses a key that is missing or used already.         *)
(***************************************************************************)
EXTENDS Naturals, FiniteSets, SequencesExt

CONSTANTS
  DS,          \* the datasources
  NoDS,        \* the master of a datasource that does not depend on any
  Setups,      \* the trees, their tables and clients; see SetupType
  Keys,        \* bound: the keys rows can have (numbers)
  NoKey,       \* the empty link: the master is on no row
  NoEdit       \* no pending value in a column

DependModes == {"nohandle", "standard", "change", "delete", "changedelete"}

\* What is fixed before the first call: the tree and how its details depend, and
\* for the model which contents the tables may have, which calls <<call,
\* datasource>> the client makes and which answers may be refusals.
IsSetup(s) ==
  /\ s.master \in [DS -> DS \cup {NoDS}]       \* p_depending_on_datasource
  /\ s.depend \in [DS -> DependModes]          \* p_dependingmode
  /\ s.react \subseteq DS      \* details that react on data changes of the master
  /\ s.queries \subseteq DS    \* datasources of type ds_query, not ds_table
  /\ s.keys \subseteq Keys     \* what is typed as a key
  /\ s.refusals \subseteq {"update", "insert", "delete", "load", "cascade", "store?"} \X DS

ASSUME MasterDetailAssumption ==
  /\ NoDS \notin DS /\ Keys \subseteq Nat
  /\ NoKey \notin Keys /\ NoEdit \notin Keys \cup {NoKey}
  /\ \A s \in Setups : IsSetup(s)

VARIABLES w, setup

vars == <<w, setup>>

-----------------------------------------------------------------------------
(* The state.                                                              *)

Row == [key : Keys, ref : Keys \cup {NoKey}]

State ==
  [enabled   : BOOLEAN,                         \* p_enabled
   mode      : {"normal", "insertrow", "deleterow", "disabled"},   \* p_mode
   counter   : Nat,                             \* p_counter
   data      : Seq(Row),                        \* p_data
   changed   : BOOLEAN,                         \* p_has_changed
   key       : Keys \cup {NoEdit},              \* new data of the two columns
   ref       : Keys \cup {NoKey, NoEdit},
   going     : BOOLEAN,                         \* p_while_goto_row
   enabling  : BOOLEAN,                         \* p_while_enabling
   disabling : BOOLEAN,                         \* p_while_disabling
   table     : SUBSET Row]                      \* the rows on the server

Fresh(table) ==
  [enabled |-> FALSE, mode |-> "disabled", counter |-> 0, data |-> <<>>,
   changed |-> FALSE, key |-> NoEdit, ref |-> NoEdit,
   going |-> FALSE, enabling |-> FALSE, disabling |-> FALSE, table |-> table]

DetailSet(d) == { e \in DS : setup.master[e] = d }

Details(d) == SetToSeq(DetailSet(d))            \* p_dependinglist

RECURSIVE Above(_)
Above(d) == IF setup.master[d] = NoDS THEN {} ELSE {setup.master[d]} \cup Above(setup.master[d])

OnRow(s) == s.counter < Len(s.data)

CurrentKey(s) == IF OnRow(s) THEN s.data[s.counter + 1].key ELSE NoKey

\* The value the WHERE clause of d takes from its master, whose pending value
\* counts when the caller takes changed data.
Link(v, d, take) ==
  IF take /\ v[setup.master[d]].key # NoEdit THEN v[setup.master[d]].key ELSE CurrentKey(v[setup.master[d]])

\* The rows of the server that belong to d under the row of its master.
Where(v, d, take) ==
  { r \in v[d].table : setup.master[d] = NoDS \/ r.ref = Link(v, d, take) }

InKeyOrder(rows) == SetToSortSeq(rows, LAMBDA r, q : r.key < q.key)

Patched(r, s) == [key |-> IF s.key = NoEdit THEN r.key ELSE s.key,
                  ref |-> IF s.ref = NoEdit THEN r.ref ELSE s.ref]

Untouched(s) == s.key = NoEdit /\ s.ref = NoEdit

KeyTaken(s, k) == \E r \in s.table : r.key = k

ResetChangedData(v, d) ==
  [v EXCEPT ![d].changed = FALSE, ![d].key = NoEdit, ![d].ref = NoEdit]

\* The rows of the driver are gone (driver_specific_disable), the columns are
\* deleted by whoever loads next.
Unloaded(v, d) ==
  [v EXCEPT ![d].enabled = FALSE, ![d].mode = "disabled", ![d].changed = FALSE,
            ![d].data = <<>>, ![d].counter = 0]

\* The rows of d in v, with new columns and the cursor on the first row.
Loaded(v, d, take) ==
  [ResetChangedData(v, d) EXCEPT
     ![d].data = InKeyOrder(Where(v, d, take)), ![d].counter = 0, ![d].mode = "normal"]

\* What a call returns: the state after it and whether it succeeded.
Done(v) == [w |-> v, ok |-> TRUE]

\* A call inside a call, by name, of one datasource after the other; defined
\* after the handlers.
RECURSIVE Do(_, _, _, _)

\* inform_depending_ds_*: the call reaches every detail of d
Inform(call, v, d, no) == Do(call, v, Details(d), no).w

-----------------------------------------------------------------------------
(* Storing what is pending, when the user agrees.                          *)

StoreIfWanted(v, d, no) ==
  IF ~v[d].changed THEN Done(v)
  ELSE IF <<"store?", d>> \in no THEN Done(ResetChangedData(v, d))
  ELSE Do("store", v, <<d>>, no)

\* Faulty variant: the details' changes are dropped, not stored.
StoreDetailForgets(v, e, no) == [v EXCEPT ![e].changed = FALSE]

StoreDetail(v, e, no) ==
  IF v[e].enabled THEN StoreIfWanted(v, e, no).w ELSE [v EXCEPT ![e].changed = FALSE]

StoreDetails(v, d, no) == Inform("store details", v, d, no)

StoreAll(v, d, no) == StoreIfWanted(StoreDetails(v, d, no), d, no)

-----------------------------------------------------------------------------
(* Enabling, disabling and reloading.                                      *)

InsertIfEmpty(v, d, no) == IF v[d].data = <<>> THEN Do("insertrow", v, <<d>>, no).w ELSE v

\* A detail is enabled only under an enabled master, and not while a new row
\* is entered there.
Enable(v, d, no) ==
  LET u    == [v EXCEPT ![d].changed = FALSE]
      m    == setup.master[d]
      open == [Loaded(u, d, d \in setup.react) EXCEPT ![d].enabled = TRUE, ![d].enabling = TRUE]
  IN  IF m # NoDS /\ (\/ ~v[m].enabled
                      \/ v[m].mode = "insertrow" /\ setup.depend[d] # "nohandle")
        THEN u
      ELSE IF u[d].enabled THEN u
      ELSE IF <<"load", d>> \in no THEN ResetChangedData(u, d)
      ELSE [InsertIfEmpty(Inform("enable", open, d, no), d, no) EXCEPT ![d].enabling = FALSE]

\* Faulty variant: the details stay enabled.
DisableAlone(v, d, no) ==
  IF ~v[d].enabled THEN v
  ELSE Unloaded(StoreAll(v, d, no).w, d)

Disable(v, d, no) ==
  IF ~v[d].enabled THEN v
  ELSE [Inform("disable", Unloaded(StoreAll([v EXCEPT ![d].disabling = TRUE], d, no).w, d), d, no)
          EXCEPT ![d].disabling = FALSE]

\* While a datasource above is being enabled it will inform the details itself.
TellRowChange(v, d, no) ==
  IF \E a \in Above(d) : v[a].enabling THEN v ELSE Inform("row change", v, d, no)

\* reload_data() of stored data: a load that fails leaves d disabled without a
\* word to its own details.
ReloadStored(v, d, take, no) ==
  LET u == Unloaded(v, d)
      x == [Loaded(u, d, take) EXCEPT ![d].enabled = TRUE]
  IN  IF <<"load", d>> \in no THEN ResetChangedData(u, d)
      ELSE TellRowChange(InsertIfEmpty(x, d, no), d, no)

Reload(v, d, take, no) == ReloadStored(StoreIfWanted(v, d, no).w, d, take, no)

\* depending_on_datasource_row_change() of stored data
FollowMaster(v, d, no) ==
  LET m == v[setup.master[d]]
  IN  IF m.enabled /\ m.mode = "normal" /\ ~m.disabling /\ ~m.enabling
        THEN Reload(v, d, FALSE, no)
        ELSE Do("disable", v, <<d>>, no).w

RowChange(v, d, no) == FollowMaster(StoreIfWanted(v, d, no).w, d, no)

AfterStore(v, d, no) ==
  IF \E a \in Above(d) : v[a].going THEN v ELSE Do("row change", v, <<d>>, no).w

-----------------------------------------------------------------------------
(* The modes and the cursor.                                               *)

\* Faulty variant: a detail that reacts loads the rows of the stored key.
ReactStored(v, e, no) ==
  IF e \in setup.react /\ v[setup.master[e]].enabled THEN Reload(v, e, FALSE, no) ELSE v

\* A new value in a column of the master: a detail that reacts loads the rows of
\* the pending key.
React(v, e, no) ==
  IF e \in setup.react /\ v[setup.master[e]].enabled THEN Reload(v, e, TRUE, no) ELSE v

HasChanged(v, d, no) == Inform("data changed", [v EXCEPT ![d].changed = TRUE], d, no)

Opened(v, d, no) == IF v[d].enabled THEN v ELSE Do("enable", v, <<d>>, no).w

LeaveRow(v, d, no) ==
  IF v[d].mode \in {"normal", "insertrow"} THEN StoreIfWanted(v, d, no).w
  ELSE Do("enable", v, <<d>>, no).w

\* The new row gets the link to the row of the master, without counting as
\* changed by that.
LinkToMaster(v, d, no) ==
  IF setup.master[d] = NoDS THEN v
  ELSE IF ~v[d].enabled THEN [v EXCEPT ![d].changed = FALSE]
  ELSE [HasChanged([v EXCEPT ![d].ref = Link(v, d, FALSE)], d, no) EXCEPT ![d].changed = FALSE]

\* Faulty variant: the link is set before the row left is stored, which resets it.
SetModeInsertrowEarly(v, d, no) ==
  LET u == LeaveRow(LinkToMaster(Opened(v, d, no), d, no), d, no)
  IN  IF d \in setup.queries THEN v
      ELSE Inform("disable", [ResetChangedData(u, d) EXCEPT ![d].mode = "insertrow"], d, no)

\* The details of d have nothing to show for a new row.
SetModeInsertrow(v, d, no) ==
  LET u == LeaveRow(Opened(v, d, no), d, no)
  IN  IF d \in setup.queries THEN v
      ELSE Inform("disable", LinkToMaster([u EXCEPT ![d].mode = "insertrow"], d, no), d, no)

SetModeNormal(v, d, no) == [Opened(v, d, no) EXCEPT ![d].mode = "normal"]

LeaveInsertMode(v, d, no) ==
  IF v[d].mode = "insertrow" THEN SetModeNormal(v, d, no) ELSE v

MoveTo(v, d, r) ==
  IF v[d].enabled /\ r < Len(v[d].data) THEN [v EXCEPT ![d].counter = r] ELSE v

\* Faulty variant: the details keep the rows of the row before.
ArriveSilently(s, d, r, no) ==
  IF s.ok THEN MoveTo(LeaveInsertMode(s.w, d, no), d, r) ELSE s.w

\* goto_row() once what was pending is stored, or was not (s.ok)
Arrive(s, d, r, no) ==
  IF s.ok THEN Inform("row change", MoveTo(LeaveInsertMode(s.w, d, no), d, r), d, no) ELSE s.w

\* Faulty variant: a refused store leaves p_while_goto_row set.
LeaveForStaysGoing(s, d, r, no) ==
  [w |-> IF s.ok THEN [Arrive(s, d, r, no) EXCEPT ![d].going = FALSE] ELSE s.w, ok |-> s.ok]

LeaveFor(s, d, r, no) == [w |-> [Arrive(s, d, r, no) EXCEPT ![d].going = FALSE], ok |-> s.ok]

GotoRow(v, d, r, no) ==
  IF r = v[d].counter /\ v[d].mode # "insertrow" THEN Done(v)
  ELSE LeaveFor(StoreAll([v EXCEPT ![d].going = TRUE], d, no), d, r, no)

-----------------------------------------------------------------------------
(* update_row and what the details say to it.                              *)

UpdateOk(v, e) ==
  CASE setup.depend[e] \in {"change", "changedelete", "nohandle"} -> TRUE
    [] setup.depend[e] = "standard" -> v[e].data = <<>> \/ v[setup.master[e]].key = NoEdit
    [] setup.depend[e] = "delete"   -> FALSE

\* Faulty variant: the rows of the details keep the old key.
BeforeUpdateNothing(v, e, no) == v

\* The rows of e follow a new key of the master; whether the statement
\* succeeds is not looked at.
BeforeUpdate(v, e, no) ==
  LET k == v[setup.master[e]].key
      r == Where(v, e, FALSE)
  IN  IF setup.depend[e] \notin {"change", "changedelete"} \/ k = NoEdit \/ <<"cascade", e>> \in no
        THEN v
        ELSE [v EXCEPT ![e].table = (@ \ r) \cup { [q EXCEPT !.ref = k] : q \in r }]

AfterUpdate(v, e, no) == IF v[setup.master[e]].disabling THEN v ELSE Reload(v, e, FALSE, no)

\* The driver patches the row that is loaded as the server patched its own.
Updated(v, d) ==
  LET s == v[d]
      p == s.counter + 1
  IN  [v EXCEPT ![d].data  = [@ EXCEPT ![p] = Patched(@, s)],
                ![d].table = { IF r.key = s.data[p].key THEN Patched(r, s) ELSE r : r \in @ }]

UpdateRefused(v, d, no) ==
  \/ <<"update", d>> \in no
  \/ v[d].key # NoEdit /\ v[d].key # CurrentKey(v[d]) /\ KeyTaken(v[d], v[d].key)

UpdateRow(v, d, no) ==
  LET ok == ~UpdateRefused(v, d, no)
      u  == Inform("before update", v, d, no)
      x  == [(IF ok THEN Updated(u, d) ELSE u) EXCEPT ![d].changed = FALSE]
  IN  IF \E e \in DetailSet(d) : ~UpdateOk(v, e)
        THEN [w |-> [v EXCEPT ![d].mode = "normal", ![d].changed = FALSE], ok |-> FALSE]
      ELSE IF Untouched(v[d]) THEN [w |-> u, ok |-> FALSE]
      ELSE [w |-> Inform("after update", x, d, no), ok |-> ok]

-----------------------------------------------------------------------------
(* insert_row and delete_row.                                              *)

InsertRow(v, d, no) ==
  LET s   == v[d]
      row == Patched([key |-> s.key, ref |-> NoKey], s)
      u   == [v EXCEPT ![d].table = @ \cup {row}, ![d].data = Append(@, row), ![d].changed = FALSE]
  IN  IF <<"insert", d>> \in no \/ s.key = NoEdit \/ KeyTaken(s, s.key)
        THEN [w |-> v, ok |-> FALSE]
        ELSE Done([GotoRow(u, d, Len(s.data), no).w
                     EXCEPT ![d].mode = "normal", ![d].changed = FALSE])

DeleteOk(v, e) ==
  setup.depend[e] = "standard" => v[e].data = <<>> /\ e \notin setup.queries

\* Whether the statement for the rows of e succeeds; a query never agrees.
CascadeOk(v, e, no) ==
  /\ e \notin setup.queries
  /\ setup.depend[e] \in {"delete", "changedelete"} => <<"cascade", e>> \notin no
  /\ setup.depend[e] = "standard" => v[e].data = <<>>

BeforeDelete(v, e, no) ==
  IF setup.depend[e] \in {"delete", "changedelete"} /\ CascadeOk(v, e, no)
  THEN [v EXCEPT ![e].table = @ \ Where(v, e, FALSE)] ELSE v

\* The row goes from the server and from the rows loaded; the cursor stays
\* unless it was on the last row.
Deleted(v, d) ==
  LET s == v[d]
      n == Len(s.data) - 1
  IN  [v EXCEPT ![d].table   = { r \in @ : r.key # CurrentKey(s) },
                ![d].data    = RemoveAt(@, s.counter + 1),
                ![d].counter = IF n <= @ /\ @ > 0 THEN n - 1 ELSE @]

\* Only when the cursor stays on its number are the details informed from here.
AfterDelete(v, d, before, no) ==
  IF v[d].counter = 0 THEN Do("insertrow", v, <<d>>, no).w
  ELSE IF v[d].counter = before
    THEN Inform("row change", [v EXCEPT ![d].mode = "normal"], d, no)
  ELSE [v EXCEPT ![d].mode = "normal"]

\* It is the own mode of d, not that of its details, that decides whether they
\* are asked.  Their rows are deleted before the row of d, and the rollback a
\* refusal calls for is an empty function in every driver.
DeleteStored(v, d, no) ==
  LET x  == Inform("before delete", v, d, no)
      ok == /\ \A e \in DetailSet(d) : CascadeOk(v, e, no)
            /\ <<"delete", d>> \notin no
      y  == [(IF ok THEN Deleted(x, d) ELSE x) EXCEPT ![d].changed = FALSE]
  IN  IF setup.depend[d] # "nohandle" /\ \E e \in DetailSet(d) : ~DeleteOk(v, e)
        THEN [w |-> [v EXCEPT ![d].mode = "normal", ![d].changed = FALSE], ok |-> FALSE]
        ELSE [w |-> AfterDelete(y, d, v[d].counter, no), ok |-> ok]

DeleteRow(v, d, no) == DeleteStored(StoreDetails(v, d, no), d, no)

-----------------------------------------------------------------------------
(* store_changed_data: with nothing changed an insert mode is left, if there *)
(* is a row to go to.                                                        *)

Send(v, d, no) ==
  CASE ~v[d].changed                             -> Done(v)
    [] v[d].changed /\ v[d].mode = "normal"      -> UpdateRow(v, d, no)
    [] v[d].changed /\ v[d].mode = "insertrow"   -> InsertRow(v, d, no)
    [] v[d].changed /\ v[d].mode = "deleterow"   -> DeleteRow(v, d, no)
    [] v[d].changed /\ v[d].mode = "disabled"    -> Done(v)

Sent(v, d, nothing, no) ==
  LET u == ResetChangedData(v, d)
      x == IF nothing /\ u[d].mode = "insertrow" /\ u[d].data # <<>>
           THEN [u EXCEPT ![d].mode = "normal"] ELSE u
  IN  Inform("after store", x, d, no)

IfSent(r, d, nothing, no) == IF r.ok THEN Done(Sent(r.w, d, nothing, no)) ELSE r

StoreChangedData(v, d, no) ==
  IF d \in setup.queries THEN [w |-> v, ok |-> FALSE]
  ELSE IfSent(Send(v, d, no), d, ~v[d].changed, no)

Handle(call, v, d, no) ==
  CASE call = "store"         -> StoreChangedData(v, d, no)
    [] call = "enable"        -> Done(Enable(v, d, no))
    [] call = "disable"       -> Done(Disable(v, d, no))
    [] call = "insertrow"     -> Done(SetModeInsertrow(v, d, no))
    [] call = "store details" -> Done(StoreDetail(v, d, no))
    [] call = "row change"    -> Done(RowChange(v, d, no))
    [] call = "after store"   -> Done(AfterStore(v, d, no))
    [] call = "data changed"  -> Done(React(v, d, no))
    [] call = "before update" -> Done(BeforeUpdate(v, d, no))
    [] call = "after update"  -> Done(AfterUpdate(v, d, no))
    [] call = "before delete" -> Done(BeforeDelete(v, d, no))

ThenRest(r, call, rest, no) == IF rest = <<>> THEN r ELSE Do(call, r.w, rest, no)

Do(call, v, ds, no) ==
  IF ds = <<>> THEN Done(v) ELSE ThenRest(Handle(call, v, Head(ds), no), call, Tail(ds), no)

-----------------------------------------------------------------------------
(* The calls of the API.                                                   *)

\* The keys of a table are different: they are its primary key.
DistinctKeys(t) == \A r, q \in t : r.key = q.key => r = q

Init == /\ setup \in Setups
        /\ \E t \in setup.tables : w = [d \in DS |-> Fresh(t[d])]

Call(c, d) == <<c, d>> \in setup.calls

Answers == SUBSET setup.refusals

\* The call leaves w in the state v.
Becomes(v) == w' = v /\ UNCHANGED setup

EnableCall(d) == /\ Call(IF w[d].enabled THEN "reenable" ELSE "enable", d)
                 /\ \E no \in Answers : Becomes(Enable(w, d, no))

DisableCall(d) == /\ Call("disable", d)
                  /\ \E no \in Answers : Becomes(Disable(w, d, no))

\* Where no row is loaded there is none to go to, but the call has effects.
Goto(d) == /\ Call(IF w[d].data # <<>> THEN "goto" ELSE "gotonothing", d)
           /\ \E r \in 0..Cardinality(Keys), no \in Answers : Becomes(GotoRow(w, d, r, no).w)

InsertMode(d) == /\ Call("insertrow", d)
                 /\ \E no \in Answers : Becomes(SetModeInsertrow(w, d, no))

\* A client that stores only what has changed is worth a name of its own.
Store(d) == /\ Call(IF w[d].changed THEN "store" ELSE "storenothing", d)
            /\ \E no \in Answers : Becomes(StoreChangedData(w, d, no).w)

\* delete_actualrow()
DeleteActual(d) ==
  /\ Call("delete", d)
  /\ w[d].mode = "normal" /\ OnRow(w[d])
  /\ \E no \in Answers :
       LET v == HasChanged([w EXCEPT ![d].mode = "deleterow"], d, no)
       IN  Becomes(StoreChangedData(v, d, no).w)

\* delete_rows(r, r), the deletion of one selected row of a grid
DeleteSelected(d) ==
  /\ Call("deleterows", d) /\ d \notin setup.queries
  /\ \E r \in 0..(Len(w[d].data) - 1), no \in Answers :
       LET v == GotoRow(w, d, r, no).w
       IN  OnRow(v[d]) /\ Becomes(DeleteRow(v, d, no).w)

\* The key field is edited: in a new row, and in any row where no detail depends
\* on it or with the call "rekey"; with "retake" it may be the key of another row.
EditKey(d) ==
  /\ \/ Call("edit", d) /\ (w[d].mode = "insertrow" \/ DetailSet(d) = {})
     \/ Call("rekey", d)
  /\ w[d].enabled /\ d \notin setup.queries
  /\ w[d].mode = "insertrow" \/ OnRow(w[d])
  /\ \E k \in setup.keys, no \in Answers :
       /\ KeyTaken(w[d], k) => Call("retake", d)
       /\ Becomes(HasChanged([w EXCEPT ![d].key = k], d, no))

Next == \E d \in DS : \/ EnableCall(d) \/ DisableCall(d) \/ Goto(d) \/ InsertMode(d)
                      \/ Store(d) \/ DeleteActual(d) \/ DeleteSelected(d) \/ EditKey(d)

Spec == Init /\ [][Next]_vars

-----------------------------------------------------------------------------
(* Properties.                                                             *)

\* Types; between two calls no call is under way, no key is used twice.
TypeOK ==
  \A d \in DS : /\ w[d] \in State
                /\ ~w[d].going /\ ~w[d].enabling /\ ~w[d].disabling
                /\ DistinctKeys(w[d].table)

\* A detail that is enabled shows the rows of the server that belong to the row
\* its master is on, each once, however that row came to be the current one
\* and whoever refused what on the way.
DetailFollowsMaster ==
  \A d \in DS :
    w[d].enabled /\ (setup.master[d] # NoDS => w[setup.master[d]].enabled /\ w[setup.master[d]].mode = "normal")
      => /\ ToSet(w[d].data) = Where(w, d, d \in setup.react /\ w[setup.master[d]].changed)
         /\ Len(w[d].data) = Cardinality(ToSet(w[d].data))

\* A detail is enabled only under an enabled master, and not while a new row is
\* entered there, for which it has no rows.
NoDetailAlone ==
  \A d \in DS : w[d].enabled /\ setup.master[d] # NoDS =>
    /\ w[setup.master[d]].enabled
    /\ setup.depend[d] # "nohandle" /\ d \notin setup.react => w[setup.master[d]].mode = "normal"

\* No row refers to a row of the master that does not exist, for the details
\* whose mode protects the rows or removes them with the master's.  The rows of
\* a detail get a new key before their master does, and keep it if the server
\* then refuses the master's UPDATE: where it may, this is not asked.
NoOrphans ==
  \A d \in DS :
    /\ setup.master[d] # NoDS
    /\ setup.depend[d] \in {"standard", "delete", "changedelete"}
    /\ <<"update", setup.master[d]>> \notin setup.refusals
    => \A r \in w[d].table : KeyTaken(w[setup.master[d]], r.ref)

\* A new row of a detail belongs to the row its master was on when it was
\* entered, although the call that stores it may have moved the master.
InsertedUnderMaster ==
  [][ \A d \in DS : setup.master[d] # NoDS =>
        \A r \in w'[d].table :
          KeyTaken(w[d], r.key) \/ w[d].key # r.key \/ r.ref = CurrentKey(w[setup.master[d]]) ]_w

\* A key typed into a detail is not lost when the master moves, is stored,
\* disabled or put into insert mode: it is in the table, or it still waits.  (One
\* that the server refuses is lost when the detail is disabled: disable() does not
\* ask what its store returned.)
Pending(v, d, k) == v[d].enabled /\ v[d].changed /\ v[d].key = k

DetailEditsSurvive ==
  [][ \A d \in DS, k \in Keys :
        /\ setup.master[d] # NoDS /\ DetailSet(d) = {}
        /\ {<<"insert", d>>, <<"update", d>>} \cap setup.refusals = {}
        /\ Pending(w, d, k) /\ ~KeyTaken(w[d], k)
        => \/ Pending(w', d, k) \/ KeyTaken(w'[d], k)
           \/ \E e \in DS : DeleteActual(e) \/ DeleteSelected(e) \/ EditKey(e) ]_w

=============================================================================
