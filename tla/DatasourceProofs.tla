-------------------------- MODULE DatasourceProofs --------------------------
(***************************************************************************)
(* What the calls of a datasource may not do, for every value of the       *)
(* constants, in three parts.  Any client: the state keeps its type and the*)
(* cursor is on a row that is loaded.  A table with a primary key: the rows*)
(* loaded are those of the table, each once.  A form: every transaction is *)
(* closed, the change flag is never set without a changed column and rows  *)
(* are deleted only on request.  A form that is refused no UPDATE and no   *)
(* DELETE: what is typed stays on its row, flagged, until it is stored     *)
(* there, and the calls implement RowEditing.                              *)
(***************************************************************************)
EXTENDS Datasource, TLAPS, SequenceTheorems, FiniteSetTheorems

-----------------------------------------------------------------------------
(***************************************************************************)
(* Types, and the range of the cursor: every call of the API, whatever the *)
(* server, the depending datasources and the user answer, leaves the cursor*)
(* on a row that is loaded, or at 0 when no row is.                        *)
(***************************************************************************)

\* The state predicate every handler preserves.  The table is finite, which
\* enable() needs to load it.
InRange(s) == OnRow(s) \/ (s.counter = 0 /\ s.data = <<>>)

Good(s) == s \in State /\ InRange(s) /\ IsFiniteSet(s.table)

LEMMA NoEditType == NoEdit \in [Columns -> Edit \cup {None}]
BY DEF NoEdit

\* Handlers that change scalar fields only.
LEMMA Scalars ==
  ASSUME NEW s, Good(s), NEW b \in BOOLEAN, NEW m \in Modes
  PROVE  /\ Good([s EXCEPT !.changed = b])
         /\ Good([s EXCEPT !.mode = m])
         /\ Good([s EXCEPT !.open = b])
         /\ Good([s EXCEPT !.ignore = b])
         /\ Good([s EXCEPT !.readonly = b])
         /\ Good([s EXCEPT !.wild = b])
BY DEF Good, State, InRange, OnRow

LEMMA SteppedFields ==
  ASSUME NEW s \in State
  PROVE  LET t == SteppedBack(s)
         IN  /\ t \in State
             /\ t.enabled = s.enabled /\ t.mode = s.mode /\ t.counter = s.counter
             /\ t.data = s.data /\ t.changed = s.changed /\ t.edit = s.edit
             /\ t.ignore = s.ignore /\ t.readonly = s.readonly
             /\ t.automatic = s.automatic /\ t.open = s.open /\ t.wild = s.wild
             /\ t.table = s.table /\ t.nextid = s.nextid
BY DEF SteppedBack, State

LEMMA SteppedGood == ASSUME NEW s, Good(s) PROVE Good(SteppedBack(s))
BY SteppedFields DEF Good, InRange, OnRow

LEMMA ClearedGood == ASSUME NEW s, Good(s) PROVE Good(Cleared(s))
BY NoEditType DEF Good, State, InRange, OnRow, Cleared

LEMMA ResetGood == ASSUME NEW s, Good(s) PROVE Good(ResetChangedData(s))
<1>1. Good([s EXCEPT !.edit = NoEdit])
  BY NoEditType DEF Good, State, InRange, OnRow
<1>2. QED
  BY <1>1, ClearedGood DEF ResetChangedData

-----------------------------------------------------------------------------
(* Facts about sequences and finite sets.                                  *)

\* The rows of a finite table can be loaded into a sequence.
LEMMA LoadedType ==
  ASSUME NEW S, IsFiniteSet(S), NEW T, S \subseteq T
  PROVE  SetToSeq(S) \in Seq(T)
<1> DEFINE n == Cardinality(S)
           IsOrder(f) == f \in [1..n -> S] /\ IsInjective(f)
<1>1. n \in Nat /\ ExistsBijection(1..n, S)
  BY FS_CardinalityType
<1>2. \E f : IsOrder(f)
  BY <1>1 DEF ExistsBijection, Bijection, Injection
<1>3. SetToSeq(S) \in [1..n -> S]
  BY <1>2 DEF SetToSeq
<1>4. QED
  BY <1>1, <1>3

\* Removing one element of a sequence shortens it by one.
LEMMA RemoveAtProperties ==
  ASSUME NEW T, NEW q \in Seq(T), NEW i \in 1..Len(q)
  PROVE  /\ RemoveAt(q, i) \in Seq(T)
         /\ Len(RemoveAt(q, i)) = Len(q) - 1
<1>1. SubSeq(q, 1, i - 1) \in Seq(T) /\ Len(SubSeq(q, 1, i - 1)) = i - 1
  BY SubSeqProperties
<1>2. /\ SubSeq(q, i + 1, Len(q)) \in Seq(T)
      /\ Len(SubSeq(q, i + 1, Len(q))) = Len(q) - i
  BY SubSeqProperties
<1>3. QED
  BY <1>1, <1>2, ConcatProperties DEF RemoveAt

\* Cutting the elements f+1..t+1 out of a sequence.
LEMMA CutProperties ==
  ASSUME NEW T, NEW q \in Seq(T), NEW f \in Nat, NEW t \in Nat,
         f <= t, t < Len(q)
  PROVE  /\ SubSeq(q, 1, f) \o SubSeq(q, t + 2, Len(q)) \in Seq(T)
         /\ Len(SubSeq(q, 1, f) \o SubSeq(q, t + 2, Len(q))) = Len(q) - (t - f) - 1
<1>1. SubSeq(q, 1, f) \in Seq(T) /\ Len(SubSeq(q, 1, f)) = f
  BY SubSeqProperties
<1>2. /\ SubSeq(q, t + 2, Len(q)) \in Seq(T)
      /\ Len(SubSeq(q, t + 2, Len(q))) = Len(q) - t - 1
  BY SubSeqProperties
<1>3. /\ SubSeq(q, 1, f) \o SubSeq(q, t + 2, Len(q)) \in Seq(T)
      /\ Len(SubSeq(q, 1, f) \o SubSeq(q, t + 2, Len(q))) = f + (Len(q) - t - 1)
  BY <1>1, <1>2, ConcatProperties
<1>4. Len(q) \in Nat /\ f + (Len(q) - t - 1) = Len(q) - (t - f) - 1
  OBVIOUS
<1>5. QED
  BY <1>3, <1>4

\* A set stays finite when some of its elements are replaced.
LEMMA ReplacedFinite ==
  ASSUME NEW S, IsFiniteSet(S), NEW W \in SUBSET S, NEW f
  PROVE  IsFiniteSet((S \ W) \cup { f[r] : r \in W })
<1> DEFINE g == [r \in W |-> f[r]]
           I == { f[r] : r \in W }
<1>1. g \in Surjection(W, I)
  BY DEF Surjection
<1>2. IsFiniteSet(W)
  BY FS_Subset
<1>3. IsFiniteSet(I)
  <2> HIDE DEF g, I
  <2> QED BY <1>1, <1>2, FS_Surjection
<1>4. IsFiniteSet(S \ W)
  BY FS_Subset
<1>5. QED
  BY <1>3, <1>4, FS_Union

-----------------------------------------------------------------------------
(* One lemma per handler.                                                  *)

\* What the handlers that load or unload rows have to show.
LEMMA RowsGood ==
  ASSUME NEW s \in State, NEW T \in SUBSET Row, IsFiniteSet(T), NEW D \in Seq(Row),
         NEW k \in Nat, k < Len(D) \/ (k = 0 /\ D = <<>>)
  PROVE  Good([s EXCEPT !.table = T, !.data = D, !.counter = k])
<1> DEFINE t == [s EXCEPT !.table = T, !.data = D, !.counter = k]
<1>1. t \in State
  BY DEF State
<1>2. t.table = T /\ t.data = D /\ t.counter = k
  BY DEF State
<1> HIDE DEF t
<1>3. Good(t)
  BY <1>1, <1>2 DEF Good, InRange, OnRow
<1>4. QED
  BY <1>3 DEF t

LEMMA EnableGood == ASSUME NEW s, Good(s), NEW no PROVE Good(Enable(s, no).ds)
<1>1. CASE s.enabled
  <2>1. Enable(s, no).ds = [s EXCEPT !.changed = FALSE]
    BY <1>1 DEF Enable
  <2>2. QED
    BY <2>1, Scalars DEF Modes
<1>2. CASE ~s.enabled /\ "load" \in no
  BY <1>2, ClearedGood DEF Enable
<1>3. CASE ~s.enabled /\ "load" \notin no
  <2> DEFINE m == IF s.table = {} /\ ~s.readonly THEN "insertrow" ELSE "normal"
             q == SetToSeq(s.table)
             t == Cleared(s)
             u == [t EXCEPT !.enabled = TRUE, !.mode = m]
  <2>1. q \in Seq(Row) /\ m \in Modes /\ s.table \in SUBSET Row /\ IsFiniteSet(s.table)
    BY LoadedType DEF Good, State, Modes
  <2>2. t \in State /\ t.table = s.table
    BY NoEditType DEF Good, State, Cleared
  <2>3. Enable(s, no).ds = [t EXCEPT !.enabled = TRUE, !.counter = 0, !.data = q, !.mode = m]
    BY <1>3 DEF Enable
  <2> HIDE DEF m, q, t
  <2>4. u \in State
    BY <2>1, <2>2 DEF State
  <2>5. Enable(s, no).ds = [u EXCEPT !.table = s.table, !.data = q, !.counter = 0]
    BY <2>1, <2>2, <2>3 DEF State
  <2>6. 0 < Len(q) \/ (0 = 0 /\ q = <<>>)
    BY <2>1, EmptySeq
  <2> HIDE DEF u
  <2>7. Good([u EXCEPT !.table = s.table, !.data = q, !.counter = 0])
    BY <2>1, <2>4, <2>6, RowsGood
  <2>8. QED
    BY <2>5, <2>7
<1>4. QED
  BY <1>1, <1>2, <1>3

LEMMA SetModeNormalGood ==
  ASSUME NEW s, Good(s), NEW no PROVE Good(SetModeNormal(s, no))
BY EnableGood, Scalars DEF SetModeNormal, Modes

LEMMA EnterInsertModeGood == ASSUME NEW s, Good(s) PROVE Good(EnterInsertMode(s))
BY Scalars DEF EnterInsertMode, Modes

LEMMA MoveToGood ==
  ASSUME NEW s, Good(s), NEW r \in Nat, NEW no PROVE Good(MoveTo(s, r, no))
<1> DEFINE t == IF s.mode = "insertrow" THEN SetModeNormal(s, no) ELSE s
<1>1. Good(t)
  BY SetModeNormalGood
<1>2. ASSUME NEW u, Good(u)
      PROVE  Good(IF u.enabled /\ r < Len(u.data) THEN [u EXCEPT !.counter = r] ELSE u)
  BY <1>2 DEF Good, State, InRange, OnRow
<1>3. QED
  BY <1>1, <1>2 DEF MoveTo

LEMMA PatchedRowType ==
  ASSUME NEW r \in Row, NEW edit \in [Columns -> Edit \cup {None}]
  PROVE  PatchedRow(r, edit) \in Row
BY DEF Row, PatchedRow, Patched, Edit

LEMMA UpdatedGood == ASSUME NEW s, Good(s) PROVE Good(Updated(s))
<1> DEFINE w == RowWhere(s, s.counter)
           p == s.counter + 1
           T == (s.table \ w) \cup { PatchedRow(r, s.edit) : r \in w }
           D == IF OnRow(s) THEN [s.data EXCEPT ![p] = PatchedRow(s.data[p], s.edit)]
                            ELSE s.data
           b == s.wild \/ ~OnRow(s)
           u == [s EXCEPT !.changed = FALSE, !.open = FALSE, !.wild = b]
<1>1. w \in SUBSET s.table /\ s.table \subseteq Row /\ s.edit \in [Columns -> Edit \cup {None}]
  BY DEF RowWhere, Good, State
<1>2. T \in SUBSET Row
  BY <1>1, PatchedRowType
<1>3. IsFiniteSet(T)
  <2> DEFINE patch == [r \in w |-> PatchedRow(r, s.edit)]
  <2>1. T = (s.table \ w) \cup { patch[r] : r \in w }
    OBVIOUS
  <2> HIDE DEF w, T, patch
  <2> QED BY <1>1, <2>1, ReplacedFinite DEF Good
<1>4. D \in Seq(Row) /\ Len(D) = Len(s.data)
  <2>1. CASE OnRow(s)
    <3>1. p \in 1..Len(s.data) /\ s.data \in Seq(Row) /\ s.data[p] \in Row
      BY <2>1, ElementOfSeq DEF OnRow, Good, State
    <3>2. PatchedRow(s.data[p], s.edit) \in Row
      BY <1>1, <3>1, PatchedRowType
    <3>3. QED
      BY <2>1, <3>1, <3>2, ExceptSeq
  <2>2. CASE ~OnRow(s)
    BY <2>2 DEF Good, State
  <2>3. QED
    BY <2>1, <2>2
<1>5. Updated(s) = [s EXCEPT !.changed = FALSE, !.open = FALSE, !.table = T,
                             !.data = D, !.wild = b]
  BY DEF Updated
<1>6. s.counter \in Nat /\ (s.counter < Len(D) \/ (s.counter = 0 /\ D = <<>>))
  <2>1. s.counter \in Nat /\ s.data \in Seq(Row) /\ InRange(s)
    BY DEF Good, State
  <2> HIDE DEF D
  <2>2. QED
    BY <1>4, <2>1, EmptySeq DEF InRange, OnRow
<1>7. b \in BOOLEAN
  OBVIOUS
<1> HIDE DEF w, T, D, b
<1>8. u \in State
  BY <1>7 DEF Good, State
<1>9. Updated(s) = [u EXCEPT !.table = T, !.data = D, !.counter = s.counter]
  BY <1>5 DEF Good, State
<1> HIDE DEF u
<1>10. Good([u EXCEPT !.table = T, !.data = D, !.counter = s.counter])
  BY <1>2, <1>3, <1>4, <1>6, <1>8, RowsGood
<1>11. QED
  BY <1>9, <1>10

LEMMA UpdateRowGood ==
  ASSUME NEW s, Good(s), NEW no PROVE Good(UpdateRow(s, no).ds)
<1>1. PICK m : m = "normal" /\ m \in Modes
  BY DEF Modes
<1>2. Good([s EXCEPT !.changed = FALSE]) /\ Good([s EXCEPT !.mode = "normal"])
  BY <1>1, Scalars
<1>3. Good([s EXCEPT !.mode = "normal", !.changed = FALSE])
  BY <1>1, <1>2, Scalars
<1>4. Good([s EXCEPT !.changed = FALSE, !.open = FALSE]) /\ Good([s EXCEPT !.open = TRUE])
  BY <1>1, <1>2, Scalars
<1>5. QED
  BY <1>3, <1>4, UpdatedGood DEF UpdateRow

LEMMA InsertedGood ==
  ASSUME NEW s, Good(s) PROVE Good(Inserted(s))
<1> DEFINE blank == [c \in Columns |-> Null]
           row == [id |-> s.nextid, val |-> Patched(blank, s.edit)]
           T == s.table \cup {row}
           D == Append(s.data, row)
           n == s.nextid + 1
           t == [s EXCEPT !.table = T, !.data = D, !.nextid = n,
                          !.changed = FALSE, !.open = FALSE]
           u == [s EXCEPT !.nextid = n, !.changed = FALSE, !.open = FALSE]
<1>1. s \in State /\ s.table \in SUBSET Row /\ IsFiniteSet(s.table) /\ s.data \in Seq(Row)
  BY DEF Good, State
<1>2. row \in Row
  BY <1>1, ConstantsAssumption DEF State, Row, Patched, Edit
<1>3. T \in SUBSET Row /\ IsFiniteSet(T)
  BY <1>1, <1>2, FS_AddElement
<1>4. D \in Seq(Row) /\ Len(D) = Len(s.data) + 1
  BY <1>1, <1>2, AppendProperties
<1>5. s.counter \in Nat /\ s.counter < Len(D)
  <2>1. s.counter \in Nat /\ Len(s.data) \in Nat /\ s.counter <= Len(s.data)
    BY DEF Good, State, InRange, OnRow
  <2>2. QED
    BY <1>4, <2>1
<1> HIDE DEF row, T, D
<1>6. u \in State
  <2>1. n \in Nat
    BY <1>1 DEF State
  <2> HIDE DEF n
  <2>2. QED
    BY <1>1, <2>1 DEF State
<1>7. t = [u EXCEPT !.table = T, !.data = D, !.counter = s.counter]
  BY <1>1 DEF State
<1>8. t.data = D
  BY <1>1 DEF State
<1>9. Inserted(s) = MoveTo(t, Len(t.data) - 1, {})
  BY DEF Inserted, row, T, D
<1> HIDE DEF t, u
<1>10. Good([u EXCEPT !.table = T, !.data = D, !.counter = s.counter])
  BY <1>3, <1>4, <1>5, <1>6, RowsGood
<1>11. Good(t) /\ Len(t.data) - 1 \in Nat
  BY <1>4, <1>5, <1>7, <1>8, <1>10
<1>12. QED
  BY <1>9, <1>11, MoveToGood

LEMMA InsertRowGood ==
  ASSUME NEW s, Good(s), NEW no PROVE Good(InsertRow(s, no).ds)
<1>1. PICK m : m = "normal" /\ m \in Modes
  BY DEF Modes
<1>2. Good([s EXCEPT !.open = FALSE]) /\ Good([Inserted(s) EXCEPT !.mode = "normal"])
  BY <1>1, InsertedGood, Scalars
<1>3. QED
  BY <1>2 DEF InsertRow

LEMMA DeletedGood ==
  ASSUME NEW s, Good(s) PROVE Good(Deleted(s))
<1> DEFINE D == IF OnRow(s) THEN RemoveAt(s.data, s.counter + 1) ELSE s.data
           T == s.table \ RowWhere(s, s.counter)
           k == IF Len(D) <= s.counter /\ s.counter > 0 THEN Len(D) - 1 ELSE s.counter
<1>1. s \in State /\ s.data \in Seq(Row) /\ s.counter \in Nat /\ Len(s.data) \in Nat
  BY DEF Good, State
<1>2. T \in SUBSET Row /\ IsFiniteSet(T)
  BY FS_Subset DEF Good, State
<1>3. D \in Seq(Row) /\ Len(D) = IF OnRow(s) THEN Len(s.data) - 1 ELSE Len(s.data)
  <2>1. CASE OnRow(s)
    BY <1>1, <2>1, RemoveAtProperties DEF OnRow
  <2>2. CASE ~OnRow(s)
    BY <1>1, <2>2
  <2>3. QED
    BY <2>1, <2>2
<1>4. Deleted(s) = [s EXCEPT !.table = T, !.data = D, !.counter = k]
  BY <1>1 DEF Deleted, State
<1>5. k \in Nat /\ (k < Len(D) \/ (k = 0 /\ D = <<>>))
  <2>1. OnRow(s) \/ (s.counter = 0 /\ s.data = <<>>)
    BY DEF Good, InRange
  <2>2. OnRow(s) <=> s.counter < Len(s.data)
    BY DEF OnRow
  <2>3. Len(D) = 0 => D = <<>>
    BY <1>3, EmptySeq
  <2>4. s.data = <<>> => Len(s.data) = 0
    OBVIOUS
  <2> HIDE DEF D
  <2>5. QED
    BY <1>1, <1>3, <2>1, <2>2, <2>3, <2>4
<1> HIDE DEF D, T, k
<1>6. D \in Seq(Row) /\ s \in State
  BY <1>1, <1>3
<1>7. Good([s EXCEPT !.table = T, !.data = D, !.counter = k])
  BY <1>2, <1>5, <1>6, RowsGood
<1>8. QED
  BY <1>4, <1>7

LEMMA AfterDeleteGood ==
  ASSUME NEW s, Good(s) PROVE Good(AfterDelete(s))
<1> DEFINE t == [s EXCEPT !.changed = FALSE, !.open = FALSE]
<1>1. PICK m : m = "normal" /\ m \in Modes
  BY DEF Modes
<1>2. Good([s EXCEPT !.changed = FALSE])
  BY <1>1, Scalars
<1>3. Good(t)
  BY <1>1, <1>2, Scalars
<1> HIDE DEF t
<1>4. Good([t EXCEPT !.mode = "normal"]) /\ Good(EnterInsertMode(t))
  BY <1>1, <1>3, Scalars, EnterInsertModeGood
<1>5. QED
  BY <1>4 DEF AfterDelete, t

LEMMA DeleteRowGood ==
  ASSUME NEW s, Good(s), NEW no PROVE Good(DeleteRow(s, no).ds)
<1>1. PICK m : m = "normal" /\ m \in Modes
  BY DEF Modes
<1>2. Good([s EXCEPT !.mode = "normal"])
  BY <1>1, Scalars
<1>3. Good([s EXCEPT !.mode = "normal", !.changed = FALSE])
  BY <1>1, <1>2, Scalars
<1>4. Good(AfterDelete(s)) /\ Good(AfterDelete(Deleted(s)))
  BY AfterDeleteGood, DeletedGood
<1>5. QED
  BY <1>3, <1>4 DEF DeleteRow

LEMMA StoreChangedDataGood ==
  ASSUME NEW s, Good(s), NEW no PROVE Good(StoreChangedData(s, no).ds)
<1>1. PICK m : m = "normal" /\ m \in Modes
  BY DEF Modes
<1>2. CASE s.readonly
  BY <1>2 DEF StoreChangedData
<1>3. CASE ~s.readonly /\ (s.ignore \/ ~s.changed)
  <2> DEFINE t == ResetChangedData(s)
             n == IF t.mode = "insertrow" /\ s.data # <<>> THEN "normal" ELSE t.mode
  <2>1. Good([t EXCEPT !.ignore = FALSE])
    BY <1>1, ResetGood, Scalars
  <2>2. n \in Modes
    BY <1>1, ResetGood DEF Good, State
  <2>3. Good([t EXCEPT !.ignore = FALSE, !.mode = n])
    <3> HIDE DEF n, t
    <3> QED BY <2>1, <2>2, Scalars
  <2>4. StoreChangedData(s, no).ds = [t EXCEPT !.ignore = FALSE, !.mode = n]
    BY <1>3, ResetGood DEF StoreChangedData, Good, State
  <2>5. QED
    BY <2>3, <2>4
<1>4. CASE ~s.readonly /\ ~s.ignore /\ s.changed /\ ~s.enabled
  <2>1. StoreChangedData(s, no).ds = [s EXCEPT !.wild = TRUE]
    BY <1>4 DEF StoreChangedData
  <2>2. QED
    BY <1>1, <2>1, Scalars
<1>5. CASE ~s.readonly /\ ~s.ignore /\ s.changed /\ s.enabled
  <2> DEFINE r == CASE s.mode = "normal"    -> UpdateRow(s, no)
                    [] s.mode = "deleterow" -> DeleteRow(s, no)
                    [] s.mode = "insertrow" -> InsertRow(s, no)
                    [] s.mode = "disabled"  -> [ds |-> s, ok |-> TRUE]
  <2>1. s.mode \in Modes
    BY DEF Good, State
  <2>2. Good(r.ds)
    <3>1. CASE s.mode = "normal"
      BY <3>1, UpdateRowGood
    <3>2. CASE s.mode = "deleterow"
      BY <3>2, DeleteRowGood
    <3>3. CASE s.mode = "insertrow"
      BY <3>3, InsertRowGood
    <3>4. CASE s.mode = "disabled"
      BY <3>4
    <3>5. QED
      BY <2>1, <3>1, <3>2, <3>3, <3>4 DEF Modes
  <2>3. StoreChangedData(s, no).ds = IF r.ok THEN ResetChangedData(r.ds) ELSE r.ds
    BY <1>5 DEF StoreChangedData
  <2> HIDE DEF r
  <2>4. QED
    BY <2>2, <2>3, ResetGood
<1>6. QED
  BY <1>2, <1>3, <1>4, <1>5

LEMMA StoreIfWantedGood ==
  ASSUME NEW s, Good(s), NEW no PROVE Good(StoreIfWanted(s, no).ds)
BY ClearedGood, StoreChangedDataGood DEF StoreIfWanted

-----------------------------------------------------------------------------
(* The calls of the API.                                                   *)

LEMMA GotoRowGood ==
  ASSUME NEW s, Good(s), NEW r \in Nat, NEW no PROVE Good(GotoRow(s, r, no))
<1>1. Good(StoreIfWanted(s, no).ds)
  BY StoreIfWantedGood
<1>2. Good(MoveTo(StoreIfWanted(s, no).ds, r, no))
  BY <1>1, MoveToGood
<1>3. QED
  BY <1>1, <1>2 DEF GotoRow

LEMMA SetModeInsertrowGood ==
  ASSUME NEW s, Good(s), NEW no PROVE Good(SetModeInsertrow(s, no))
<1> DEFINE t == IF s.enabled THEN s ELSE Enable(s, no).ds
           u == IF t.mode \in {"normal", "insertrow"} THEN StoreIfWanted(t, no).ds ELSE t
<1>1. PICK m : m = "insertrow" /\ m \in Modes
  BY DEF Modes
<1>2. Good(t)
  BY EnableGood
<1>3. Good(u)
  <2> HIDE DEF t
  <2> QED BY <1>2, StoreIfWantedGood
<1>4. Good([u EXCEPT !.mode = "insertrow"])
  <2> HIDE DEF u
  <2> QED BY <1>1, <1>3, Scalars
<1>5. QED
  BY <1>4 DEF SetModeInsertrow

LEMMA DeleteActualRowGood ==
  ASSUME NEW s, Good(s), NEW no PROVE Good(DeleteActualRow(s, no))
<1> DEFINE t == [s EXCEPT !.mode = "deleterow", !.changed = TRUE]
<1>1. PICK m : m = "deleterow" /\ m \in Modes
  BY DEF Modes
<1>2. Good([s EXCEPT !.mode = "deleterow"])
  BY <1>1, Scalars
<1>3. Good(t)
  BY <1>1, <1>2, Scalars
<1> HIDE DEF t
<1>4. Good(StoreChangedData(t, no).ds)
  BY <1>3, StoreChangedDataGood
<1>5. QED
  BY <1>4 DEF DeleteActualRow, t

LEMMA DisableGood ==
  ASSUME NEW s, Good(s), NEW no PROVE Good(Disable(s, no))
<1> DEFINE t == StoreIfWanted(s, no).ds
           u == [t EXCEPT !.changed = FALSE, !.enabled = FALSE, !.mode = "disabled"]
<1>1. Good(t)
  BY StoreIfWantedGood
<1>2. Disable(s, no) = IF ~s.enabled THEN s
                       ELSE [t EXCEPT !.changed = FALSE, !.enabled = FALSE,
                                      !.mode = "disabled", !.data = <<>>, !.counter = 0]
  BY DEF Disable
<1> HIDE DEF t
<1>3. t \in State /\ t.table \in SUBSET Row /\ IsFiniteSet(t.table)
  BY <1>1 DEF Good, State
<1>4. u \in State
  BY <1>3 DEF State, Modes
<1>5. [t EXCEPT !.changed = FALSE, !.enabled = FALSE, !.mode = "disabled",
                !.data = <<>>, !.counter = 0]
        = [u EXCEPT !.table = t.table, !.data = <<>>, !.counter = 0]
  BY <1>3 DEF State
<1> HIDE DEF u
<1>6. <<>> \in Seq(Row) /\ 0 \in Nat
  OBVIOUS
<1>7. Good([u EXCEPT !.table = t.table, !.data = <<>>, !.counter = 0])
  BY <1>3, <1>4, <1>6, RowsGood
<1>8. QED
  BY <1>2, <1>5, <1>7

LEMMA CurrentRowType ==
  ASSUME NEW s, Good(s) PROVE CurrentRow(s) \in Nat \cup {NewRow, NoRow}
<1>1. CASE OnRow(s)
  <2>1. s.counter + 1 \in 1..Len(s.data) /\ s.data \in Seq(Row)
    BY <1>1 DEF Good, State, OnRow
  <2>2. s.data[s.counter + 1] \in Row
    BY <2>1, ElementOfSeq
  <2>3. QED
    BY <1>1, <2>2 DEF CurrentRow, Row
<1>2. CASE ~OnRow(s)
  BY <1>2 DEF CurrentRow
<1>3. QED
  BY <1>1, <1>2

LEMMA SetAsStringGood ==
  ASSUME NEW s, Good(s), NEW c \in Columns, NEW v \in Values
  PROVE  Good(SetAsString(s, c, v))
<1> DEFINE e == [value |-> v, row |-> CurrentRow(s)]
<1>1. CurrentRow(s) \in Nat \cup {NewRow, NoRow}
  BY CurrentRowType
<1>2. e \in Edit
  BY <1>1 DEF Edit
<1> HIDE DEF e
<1>3. Good([s EXCEPT !.edit[c] = e, !.changed = TRUE])
  BY <1>2 DEF Good, State, InRange, OnRow
<1>4. QED
  BY <1>3 DEF SetAsString, e

LEMMA DeleteRangeGood ==
  ASSUME NEW s, Good(s), NEW f \in Nat, NEW t \in Nat, f <= t, t < Len(s.data), NEW no
  PROVE  Good(DeleteRange(s, f, t, no))
<1> DEFINE T == s.table \ UNION { RowWhere(s, p) : p \in f..t }
           D == SubSeq(s.data, 1, f) \o SubSeq(s.data, t + 2, Len(s.data))
           u == IF "delete" \in no THEN s ELSE [s EXCEPT !.table = T, !.data = D]
           n == Len(u.data)
           k == IF n = 0 THEN 0 ELSE IF u.counter >= n THEN n - 1 ELSE u.counter
           v == [u EXCEPT !.open = FALSE, !.counter = k]
           w == [u EXCEPT !.open = FALSE]
<1>1. s \in State /\ s.table \in SUBSET Row /\ IsFiniteSet(s.table) /\ s.data \in Seq(Row)
      /\ s.counter \in Nat
  BY DEF Good, State
<1>2. T \in SUBSET Row /\ IsFiniteSet(T)
  BY <1>1, FS_Subset
<1>3. D \in Seq(Row)
  BY <1>1, CutProperties
<1> HIDE DEF T, D
<1>4. u \in State /\ u.table \in SUBSET Row /\ IsFiniteSet(u.table) /\ u.data \in Seq(Row)
      /\ u.counter \in Nat
  <2>1. CASE "delete" \in no
    BY <1>1, <2>1
  <2>2. CASE "delete" \notin no
    <3>1. u = [s EXCEPT !.table = T, !.data = D]
      BY <2>2
    <3>2. u \in State
      BY <1>1, <1>2, <1>3, <3>1 DEF State
    <3>3. u.table = T /\ u.data = D /\ u.counter = s.counter
      BY <1>1, <3>1 DEF State
    <3> HIDE DEF u
    <3>4. QED
      BY <1>1, <1>2, <1>3, <3>2, <3>3
  <2>3. QED
    BY <2>1, <2>2
<1>5. DeleteRange(s, f, t, no) = GotoRow(v, s.counter, no)
  BY <1>1 DEF DeleteRange, T, D, State
<1> HIDE DEF u
<1>6. k \in Nat /\ (k < Len(u.data) \/ (k = 0 /\ u.data = <<>>))
  <2>1. n \in Nat /\ (n = 0 => u.data = <<>>)
    BY <1>4, EmptySeq
  <2> QED BY <1>4, <2>1
<1> HIDE DEF k, n
<1>7. w \in State
  BY <1>4 DEF State
<1>8. v = [w EXCEPT !.table = u.table, !.data = u.data, !.counter = k]
  BY <1>4 DEF State
<1> HIDE DEF v, w
<1>9. Good([w EXCEPT !.table = u.table, !.data = u.data, !.counter = k])
  BY <1>4, <1>6, <1>7, RowsGood
<1>10. Good(v)
  BY <1>8, <1>9
<1>11. QED
  BY <1>1, <1>5, <1>10, GotoRowGood

LEMMA DeleteRowsGood ==
  ASSUME NEW s, Good(s), NEW from \in Nat, NEW to \in Nat, NEW no
  PROVE  Good(DeleteRows(s, from, to, no))
<1> DEFINE n == Len(s.data)
           f == IF from > to THEN to ELSE from
           g == IF from > to THEN from ELSE to
           t == IF g >= n THEN n - 1 ELSE g
<1>1. n \in Nat
  BY DEF Good, State
<1>2. Good(DeleteRow(GotoRow(s, from, no), no).ds)
  BY GotoRowGood, DeleteRowGood
<1>3. CASE f < n
  <2>1. f \in Nat /\ t \in Nat /\ f <= t /\ t < n
    BY <1>1, <1>3
  <2> HIDE DEF f, t
  <2>2. Good(DeleteRange(s, f, t, no))
    BY <2>1, DeleteRangeGood
  <2>3. QED
    BY <1>2, <2>2 DEF DeleteRows, f, t
<1>4. CASE ~(f < n)
  <2>1. f >= n
    BY <1>1, <1>4
  <2>2. DeleteRows(s, from, to, no) \in {s, DeleteRow(GotoRow(s, from, no), no).ds}
    BY <2>1 DEF DeleteRows
  <2>3. QED
    BY <1>2, <2>2
<1>5. QED
  BY <1>3, <1>4

-----------------------------------------------------------------------------
(* The invariant.                                                          *)

LEMMA FreshGood ==
  ASSUME NEW T \in SUBSET Row, IsFiniteSet(T), NEW n \in Nat, NEW b \in BOOLEAN
  PROVE  Good(Fresh(T, n, b))
<1>1. <<>> \in Seq(Row)
  OBVIOUS
<1>2. Fresh(T, n, b) \in State
  BY <1>1, NoEditType DEF Fresh, State, Modes
<1>3. QED
  BY <1>2 DEF Good, InRange, Fresh

\* Every table the program may start with is a finite set of rows.
LEMMA InitGood == Init => Good(ds)
<1> SUFFICES ASSUME NEW n \in 0..InitRows, NEW b \in BOOLEAN,
                    ds = Fresh({ BlankRow(i) : i \in 1..n }, n + 1, b)
             PROVE  Good(ds)
  BY DEF Init
<1> DEFINE T == { BlankRow(i) : i \in 1..n }
           g == [i \in 1..n |-> BlankRow(i)]
<1>1. n \in Nat
  BY ConstantsAssumption
<1>2. \A i \in 1..n : BlankRow(i) \in Row
  BY <1>1, ConstantsAssumption DEF BlankRow, Row
<1>3. T \in SUBSET Row
  BY <1>2
<1>4. IsFiniteSet(T)
  <2>1. g \in Surjection(1..n, T)
    BY DEF Surjection
  <2>2. IsFiniteSet(1..n)
    BY <1>1, FS_Interval
  <2> HIDE DEF g, T
  <2>3. QED
    BY <2>1, <2>2, FS_Surjection
<1> HIDE DEF T
<1>5. n + 1 \in Nat
  BY <1>1
<1>6. QED
  BY <1>3, <1>4, <1>5, FreshGood DEF T

\* Every call of the API preserves the predicate, whoever answers no to it.
LEMMA NextGood == ASSUME Good(ds), [Next]_ds PROVE Good(ds')
<1> USE DEF Answers
<1>1. MaxId \in Nat /\ 0..MaxId \subseteq Nat
  BY ConstantsAssumption
<1>2. ds.counter \in Nat /\ ds.data \in Seq(Row) /\ Len(ds.data) \in Nat
  BY DEF Good, State
<1>3. CASE GotoAnyRow
  BY <1>1, <1>3, GotoRowGood DEF GotoAnyRow
<1>4. CASE GotoLast
  <2>1. LastRow(ds) \in Nat
    BY <1>1, <1>2, EmptySeq DEF LastRow
  <2>2. QED
    BY <1>4, <2>1, GotoRowGood DEF GotoLast
<1>5. CASE GotoNext
  <2>1. ds.counter + 1 \in Nat
    BY <1>2
  <2>2. QED
    BY <1>5, <2>1, GotoRowGood DEF GotoNext
<1>6. CASE GotoPrevious
  <2>1. Good(SteppedBack(ds))
    BY SteppedGood
  <2>2. ds.counter > 0 => ds.counter - 1 \in Nat
    BY <1>2
  <2>3. QED
    BY <1>6, <2>1, <2>2, GotoRowGood DEF GotoPrevious
<1>7. CASE InsertMode
  BY <1>7, SetModeInsertrowGood DEF InsertMode
<1>8. CASE NormalMode
  BY <1>8, SetModeNormalGood DEF NormalMode
<1>9. CASE EditField
  BY <1>9, SetAsStringGood DEF EditField
<1>10. CASE Store
  BY <1>10, StoreChangedDataGood DEF Store
<1>11. CASE DeleteActual
  BY <1>11, DeleteActualRowGood DEF DeleteActual
<1>12. CASE DeleteSome
  BY <1>1, <1>12, DeleteRowsGood DEF DeleteSome
<1>13. CASE EnableCall
  BY <1>13, EnableGood DEF EnableCall
<1>14. CASE DisableCall
  BY <1>14, DisableGood DEF DisableCall
<1>15. CASE SetReadonly
  <2>1. PICK m : m \in Modes
    BY DEF Modes
  <2>2. QED
    BY <1>15, <2>1, Scalars DEF SetReadonly
<1>16. CASE SetIgnoreChangedData
  <2>1. PICK m : m \in Modes
    BY DEF Modes
  <2>2. QED
    BY <1>16, <2>1, ResetGood, Scalars DEF SetIgnoreChangedData
<1>17. CASE Restart
  <2>1. /\ ds.table \in SUBSET Row /\ IsFiniteSet(ds.table)
        /\ ds.nextid \in Nat /\ ds.automatic \in BOOLEAN
    BY DEF Good, State
  <2>2. QED
    BY <1>17, <2>1, FreshGood DEF Restart
<1>18. CASE UNCHANGED ds
  BY <1>18 DEF Good, State, InRange, OnRow
<1>19. QED
  BY <1>3, <1>4, <1>5, <1>6, <1>7, <1>8, <1>9, <1>10, <1>11, <1>12, <1>13, <1>14,
     <1>15, <1>16, <1>17, <1>18 DEF Next

\* What the two theorems below are conclusions of.
THEOREM AlwaysGood == Spec => []Good(ds)
<1>1. Good(ds) /\ [Next]_ds => Good(ds)'
  BY NextGood DEF Good, State, InRange, OnRow
<1>2. QED
  BY InitGood, <1>1, PTL DEF Spec

\* The datasource and its table keep their types.
THEOREM TypeCorrectness == Spec => []TypeOK
<1>1. Good(ds) => TypeOK
  BY DEF Good, TypeOK
<1>2. QED
  BY AlwaysGood, <1>1, PTL

\* Whatever calls are made and refused, update_row, delete_row and goto_row
\* find the cursor on a row that is loaded, or at 0 when there is none.
THEOREM CursorCorrectness == Spec => []CursorInRange
<1>1. Good(ds) => CursorInRange
  BY DEF Good, InRange, CursorInRange
<1>2. QED
  BY AlwaysGood, <1>1, PTL

-----------------------------------------------------------------------------
(***************************************************************************)
(* With a primary key the rows a datasource has loaded are those of its    *)
(* table, each once: the copy that update_row, insert_row, delete_row and  *)
(* delete_rows maintain row by row is what enable() would load, whatever is*)
(* called and refused.                                                     *)
(***************************************************************************)

\* Keys are unique and the server has not assigned the next one yet.
Keyed(T, n) ==
  /\ \A r \in T : r.id < n
  /\ \A q, r \in T : q.id = r.id => q = r

\* D holds the rows of T and no others, and no key twice.
Copied(D, T) ==
  /\ \A i \in 1..Len(D) : D[i] \in T
  /\ \A r \in T : \E i \in 1..Len(D) : D[i] = r
  /\ \A i, j \in 1..Len(D) : D[i].id = D[j].id => i = j

Mirrors(s) == /\ Keyed(s.table, s.nextid)
              /\ (s.enabled => Copied(s.data, s.table))

\* The rows of T that a WHERE clause on the primary key of row r finds.
SameKey(T, r) == { q \in T : q.id = r.id }

-----------------------------------------------------------------------------
(* A table and its copy, before and after one statement.                   *)

LEMMA SubsetKeyed ==
  ASSUME NEW T, NEW n, Keyed(T, n), NEW U \in SUBSET T PROVE Keyed(U, n)
BY DEF Keyed

\* What enable() loads is a copy.
LEMMA LoadedCopied ==
  ASSUME NEW T \in SUBSET Row, IsFiniteSet(T), NEW n, Keyed(T, n)
  PROVE  Copied(SetToSeq(T), T)
<1> DEFINE c == Cardinality(T)
           q == SetToSeq(T)
           IsOrder(f) == f \in [1..c -> T] /\ IsInjective(f)
           IsRank(f) == f \in Bijection(1..c, T)
<1>1. c \in Nat /\ \E f : IsRank(f)
  BY FS_CardinalityType DEF ExistsBijection
<1>2. \E f : IsOrder(f)
  BY <1>1 DEF Bijection, Injection
<1>3. q \in [1..c -> T] /\ IsInjective(q)
  BY <1>2 DEF SetToSeq
<1> HIDE DEF q
<1>4. q \in Injection(1..c, T)
  BY <1>3 DEF Injection
<1>5. q \in Surjection(1..c, T)
  <2>1. PICK f : IsRank(f)
    BY <1>1
  <2>2. f \in Surjection(1..c, T) /\ IsFiniteSet(1..c) /\ Cardinality(1..c) = c
    BY <1>1, <2>1, FS_Interval DEF Bijection
  <2> DEFINE I == { q[i] : i \in 1..c }
  <2>3. I \in SUBSET T
    BY <1>3
  <2>4. q \in Surjection(1..c, I) /\ q \in Injection(1..c, I)
    BY <1>3, <1>4 DEF Surjection, Injection
  <2> HIDE DEF I
  <2>5. IsFiniteSet(I) /\ Cardinality(I) = c
    BY <2>2, <2>4, FS_Surjection
  <2>6. I = T
    BY <2>3, <2>5, FS_Subset
  <2> QED BY <2>4, <2>6
<1>6. Len(q) = c /\ \A i \in 1..c : q[i] \in T
  BY <1>1, <1>3
<1>7. ASSUME NEW i \in 1..c, NEW j \in 1..c, q[i].id = q[j].id PROVE i = j
  <2>1. q[i] = q[j]
    BY <1>6, <1>7 DEF Keyed
  <2>2. QED
    BY <1>4, <2>1 DEF Injection, IsInjective
<1>8. ASSUME NEW r \in T PROVE \E i \in 1..c : q[i] = r
  BY <1>5 DEF Surjection
<1>9. QED
  BY <1>6, <1>7, <1>8 DEF Copied, q

\* The key of a row that is loaded finds that row and no other.
LEMMA KeyFindsRow ==
  ASSUME NEW T, NEW n, Keyed(T, n), NEW D, Copied(D, T), NEW p \in 1..Len(D)
  PROVE  SameKey(T, D[p]) = {D[p]}
BY DEF Keyed, Copied, SameKey

\* One row takes other values, in the table and in the copy.
LEMMA PatchedCopied ==
  ASSUME NEW T \in SUBSET Row, NEW n, Keyed(T, n), NEW D \in Seq(Row), Copied(D, T),
         NEW p \in 1..Len(D), NEW x \in Row, x.id = D[p].id
  PROVE  /\ Keyed((T \ {D[p]}) \cup {x}, n)
         /\ Copied([D EXCEPT ![p] = x], (T \ {D[p]}) \cup {x})
<1> DEFINE E == [D EXCEPT ![p] = x]
           U == (T \ {D[p]}) \cup {x}
<1>1. D[p] \in T
  BY DEF Copied
<1>2. Keyed(U, n)
  BY <1>1 DEF Keyed
<1>3. Len(E) = Len(D) /\ \A j \in 1..Len(D) : E[j] = IF j = p THEN x ELSE D[j]
  BY ExceptSeq
<1> HIDE DEF E
<1>4. \A i, j \in 1..Len(D) : D[i].id = D[j].id => i = j
  BY DEF Copied
<1>5. ASSUME NEW i \in 1..Len(E) PROVE E[i] \in U
  <2>1. CASE i = p
    BY <1>3, <2>1
  <2>2. CASE i # p
    BY <1>3, <1>4, <2>2 DEF Copied
  <2>3. QED
    BY <2>1, <2>2
<1>6. ASSUME NEW r \in U PROVE \E i \in 1..Len(E) : E[i] = r
  <2>1. CASE r = x
    BY <1>3, <2>1
  <2>2. CASE r # x
    <3>1. r \in T /\ r # D[p]
      BY <2>2
    <3>2. PICK i \in 1..Len(D) : D[i] = r
      BY <3>1 DEF Copied
    <3>3. E[i] = r /\ i \in 1..Len(E)
      BY <1>3, <3>1, <3>2
    <3>4. QED
      BY <3>3
  <2>3. QED
    BY <2>1, <2>2
<1>7. ASSUME NEW i \in 1..Len(E), NEW j \in 1..Len(E), E[i].id = E[j].id PROVE i = j
  <2>1. E[i].id = D[i].id /\ E[j].id = D[j].id
    BY <1>3
  <2>2. QED
    BY <1>3, <1>4, <1>7, <2>1
<1>8. QED
  BY <1>2, <1>5, <1>6, <1>7 DEF Copied, E

\* A row with the next key is appended to both.
LEMMA AppendedCopied ==
  ASSUME NEW T \in SUBSET Row, NEW n \in Nat, Keyed(T, n), NEW D \in Seq(Row),
         NEW x \in Row, x.id = n
  PROVE  /\ Keyed(T \cup {x}, n + 1)
         /\ Copied(D, T) => Copied(Append(D, x), T \cup {x})
<1> DEFINE E == Append(D, x)
<1>1. \A r \in T : r.id \in Nat /\ r.id < n
  BY DEF Keyed, Row
<1>2. Keyed(T \cup {x}, n + 1)
  BY <1>1 DEF Keyed
<1>3. /\ Len(D) \in Nat /\ Len(E) = Len(D) + 1
      /\ \A i \in 1..Len(D) : E[i] = D[i]
      /\ E[Len(D) + 1] = x
  BY AppendProperties
<1> HIDE DEF E
<1>4. ASSUME Copied(D, T) PROVE Copied(E, T \cup {x})
  <2>1. ASSUME NEW i \in 1..Len(E) PROVE E[i] \in T \cup {x}
    <3>1. i \in 1..Len(D) \/ i = Len(D) + 1
      BY <1>3
    <3>2. QED
      BY <1>3, <1>4, <3>1 DEF Copied
  <2>2. ASSUME NEW r \in T \cup {x} PROVE \E i \in 1..Len(E) : E[i] = r
    <3>1. CASE r \in T
      <4>1. PICK i \in 1..Len(D) : D[i] = r
        BY <1>4, <3>1 DEF Copied
      <4>2. i \in 1..Len(E) /\ E[i] = r
        BY <1>3, <4>1
      <4>3. QED
        BY <4>2
    <3>2. CASE r = x
      <4>1. Len(D) + 1 \in 1..Len(E)
        BY <1>3
      <4>2. QED
        BY <1>3, <3>2, <4>1
    <3>3. QED
      BY <3>1, <3>2
  <2>3. ASSUME NEW i \in 1..Len(E), NEW j \in 1..Len(E), E[i].id = E[j].id PROVE i = j
    <3>1. \A k \in 1..Len(D) : E[k].id # n
      BY <1>1, <1>3, <1>4 DEF Copied
    <3>2. /\ i \in 1..Len(D) \/ i = Len(D) + 1
          /\ j \in 1..Len(D) \/ j = Len(D) + 1
      BY <1>3
    <3>3. CASE i \in 1..Len(D) /\ j \in 1..Len(D)
      BY <1>3, <1>4, <2>3, <3>3 DEF Copied
    <3>4. CASE i = Len(D) + 1 \/ j = Len(D) + 1
      BY <1>3, <2>3, <3>1, <3>2, <3>4
    <3>5. QED
      BY <3>2, <3>3, <3>4
  <2>4. QED
    BY <2>1, <2>2, <2>3 DEF Copied
<1>5. QED
  BY <1>2, <1>4 DEF E

\* The rows f+1..t+1 go from the copy, and from the table what has their keys.
LEMMA CutCopied ==
  ASSUME NEW T \in SUBSET Row, NEW n, Keyed(T, n), NEW D \in Seq(Row), Copied(D, T),
         NEW f \in Nat, NEW t \in Nat, f <= t, t < Len(D)
  PROVE  Copied(SubSeq(D, 1, f) \o SubSeq(D, t + 2, Len(D)),
                T \ UNION { SameKey(T, D[p + 1]) : p \in f..t })
<1> DEFINE A == SubSeq(D, 1, f)
           B == SubSeq(D, t + 2, Len(D))
           E == A \o B
           w == t + 1 - f
           U == T \ UNION { SameKey(T, D[p + 1]) : p \in f..t }
           At(i) == IF i <= f THEN i ELSE i + w
<1>1. /\ Len(D) \in Nat /\ w \in Nat
      /\ \A i \in 1..Len(D) : D[i] \in Row
  BY ElementOfSeq
<1>2. A \in Seq(Row) /\ Len(A) = f /\ \A i \in 1..f : A[i] = D[i]
  BY <1>1, SubSeqProperties
<1>3. /\ B \in Seq(Row) /\ Len(B) = Len(D) - t - 1
      /\ \A i \in 1..(Len(D) - t - 1) : B[i] = D[t + 1 + i]
  <2>1. \A i \in (t + 2)..Len(D) : D[i] \in Row
    BY <1>1
  <2>2. /\ B \in Seq(Row)
        /\ Len(B) = IF t + 2 <= Len(D) THEN Len(D) - (t + 2) + 1 ELSE 0
        /\ \A i \in 1..(Len(D) - (t + 2) + 1) : B[i] = D[t + 2 + i - 1]
    BY <1>1, <2>1, SubSeqProperties
  <2>3. \A i \in Nat : t + 2 + i - 1 = t + 1 + i
    OBVIOUS
  <2> HIDE DEF B
  <2>4. QED
    BY <1>1, <2>2, <2>3
<1> HIDE DEF A, B
<1>4. /\ Len(E) = Len(D) - w
      /\ \A i \in 1..Len(E) : At(i) \in 1..Len(D) /\ E[i] = D[At(i)]
  <2>1. /\ Len(E) = f + (Len(D) - t - 1)
        /\ \A i \in 1..(f + (Len(D) - t - 1)) : E[i] = IF i <= f THEN A[i] ELSE B[i - f]
    <3>1. /\ Len(E) = Len(A) + Len(B)
          /\ \A i \in 1..Len(A) + Len(B) : E[i] = IF i <= Len(A) THEN A[i] ELSE B[i - Len(A)]
      BY <1>2, <1>3, ConcatProperties
    <3>2. Len(A) = f /\ Len(B) = Len(D) - t - 1
      BY <1>2, <1>3
    <3> HIDE DEF E
    <3>3. QED
      BY <3>1, <3>2
  <2>2. f + (Len(D) - t - 1) = Len(D) - w
    BY <1>1
  <2> HIDE DEF E
  <2>3. ASSUME NEW i \in 1..Len(E) PROVE At(i) \in 1..Len(D) /\ E[i] = D[At(i)]
    <3>1. CASE i <= f
      BY <1>1, <1>2, <2>1, <3>1
    <3>2. CASE ~(i <= f)
      <4>1. i - f \in 1..(Len(D) - t - 1) /\ t + 1 + (i - f) = i + w
        BY <1>1, <2>1, <3>2
      <4>2. E[i] = B[i - f] /\ B[i - f] = D[t + 1 + (i - f)]
        BY <1>3, <2>1, <3>2, <4>1
      <4>3. i + w \in 1..Len(D)
        BY <1>1, <2>1, <2>2, <3>2
      <4>4. QED
        BY <3>2, <4>1, <4>2, <4>3
    <3>3. QED
      BY <3>1, <3>2
  <2>4. QED
    BY <2>1, <2>2, <2>3
<1>5. /\ \A i, j \in 1..Len(D) : D[i].id = D[j].id => i = j
      /\ \A i \in 1..Len(D) : D[i] \in T
  BY DEF Copied
<1> HIDE DEF E
<1>6. \A i \in 1..Len(E) : At(i) \notin (f + 1)..(t + 1)
  BY <1>1, <1>4
<1>7. ASSUME NEW i \in 1..Len(E) PROVE E[i] \in U
  <2>1. E[i] \in T /\ At(i) \in 1..Len(D)
    BY <1>4, <1>5
  <2>2. ASSUME NEW p \in f..t PROVE E[i] \notin SameKey(T, D[p + 1])
    <3>1. p + 1 \in 1..Len(D) /\ p + 1 # At(i)
      BY <1>1, <1>6
    <3>2. QED
      BY <1>4, <1>5, <2>1, <3>1 DEF SameKey
  <2>3. QED
    BY <2>1, <2>2
<1>8. ASSUME NEW r \in U PROVE \E i \in 1..Len(E) : E[i] = r
  <2>1. PICK k \in 1..Len(D) : D[k] = r
    BY DEF Copied
  <2>2. k \notin (f + 1)..(t + 1)
    <3>1. SUFFICES ASSUME k \in (f + 1)..(t + 1) PROVE FALSE
      OBVIOUS
    <3>2. k - 1 \in f..t /\ (k - 1) + 1 = k
      BY <1>1, <3>1
    <3>3. r \in SameKey(T, D[(k - 1) + 1])
      BY <2>1, <3>2 DEF SameKey
    <3>4. QED
      BY <3>2, <3>3
  <2>3. CASE k <= f
    <3>1. k \in 1..Len(E) /\ At(k) = k
      BY <1>1, <1>4, <2>3
    <3>2. QED
      BY <1>4, <2>1, <3>1
  <2>4. CASE k > t + 1
    <3>1. k - w \in 1..Len(E) /\ At(k - w) = k
      BY <1>1, <1>4, <2>4
    <3>2. QED
      BY <1>4, <2>1, <3>1
  <2>5. QED
    BY <1>1, <2>2, <2>3, <2>4
<1>9. ASSUME NEW i \in 1..Len(E), NEW j \in 1..Len(E), E[i].id = E[j].id PROVE i = j
  <2>1. At(i) = At(j)
    BY <1>4, <1>5, <1>9
  <2>2. QED
    BY <1>1, <1>4, <2>1
<1>10. QED
  BY <1>7, <1>8, <1>9 DEF Copied, E, A, B

\* One row goes from both.
LEMMA RemovedCopied ==
  ASSUME NEW T \in SUBSET Row, NEW n, Keyed(T, n), NEW D \in Seq(Row), Copied(D, T),
         NEW p \in 1..Len(D)
  PROVE  Copied(RemoveAt(D, p), T \ SameKey(T, D[p]))
<1> DEFINE f == p - 1
<1>1. f \in Nat /\ f <= f /\ f < Len(D) /\ f + 2 = p + 1 /\ f..f = {f} /\ f + 1 = p
  OBVIOUS
<1> HIDE DEF f
<1>2. Copied(SubSeq(D, 1, f) \o SubSeq(D, f + 2, Len(D)),
             T \ UNION { SameKey(T, D[q + 1]) : q \in f..f })
  BY <1>1, CutCopied
<1>3. UNION { SameKey(T, D[q + 1]) : q \in f..f } = SameKey(T, D[p])
  BY <1>1
<1>4. RemoveAt(D, p) = SubSeq(D, 1, f) \o SubSeq(D, f + 2, Len(D))
  BY <1>1 DEF RemoveAt, f
<1>5. QED
  BY <1>2, <1>3, <1>4

\* A copy has the elements of the table and their number.
LEMMA CopiedMeans ==
  ASSUME NEW T \in SUBSET Row, NEW D \in Seq(Row), Copied(D, T)
  PROVE  ToSet(D) = T /\ Len(D) = Cardinality(T)
<1>1. Len(D) \in Nat /\ DOMAIN D = 1..Len(D)
  OBVIOUS
<1>2. ToSet(D) = T
  BY <1>1 DEF ToSet, Copied
<1>3. D \in Bijection(1..Len(D), T)
  <2>1. D \in [1..Len(D) -> T]
    BY DEF Copied
  <2>2. D \in Injection(1..Len(D), T)
    BY <2>1 DEF Injection, IsInjective, Copied
  <2>3. D \in Surjection(1..Len(D), T)
    BY <2>1 DEF Surjection, Copied
  <2>4. QED
    BY <2>2, <2>3 DEF Bijection
<1>4. Cardinality(T) = Len(D)
  BY <1>1, <1>3, FS_CountingElements DEF ExistsBijection
<1>5. QED
  BY <1>2, <1>4

-----------------------------------------------------------------------------
(* One lemma per handler.                                                  *)

\* What every handler preserves.
Mirrored(s) == Good(s) /\ Mirrors(s)

LEMMA SameMirrors ==
  ASSUME NEW s, Mirrors(s), NEW t, t.table = s.table, t.nextid = s.nextid,
         t.data = s.data, t.enabled = s.enabled
  PROVE  Mirrors(t)
BY DEF Mirrors

\* Handlers that change scalar fields only.
LEMMA ScalarsMirrored ==
  ASSUME NEW s, Mirrored(s), NEW b \in BOOLEAN, NEW m \in Modes
  PROVE  /\ Mirrored([s EXCEPT !.changed = b])
         /\ Mirrored([s EXCEPT !.mode = m])
         /\ Mirrored([s EXCEPT !.open = b])
         /\ Mirrored([s EXCEPT !.ignore = b])
         /\ Mirrored([s EXCEPT !.readonly = b])
         /\ Mirrored([s EXCEPT !.wild = b])
<1>1. s \in State
  BY DEF Mirrored, Good
<1>2. \A t : t.table = s.table /\ t.nextid = s.nextid /\ t.data = s.data
              /\ t.enabled = s.enabled => Mirrors(t)
  BY SameMirrors DEF Mirrored
<1>3. /\ Mirrors([s EXCEPT !.changed = b])
      /\ Mirrors([s EXCEPT !.mode = m])
      /\ Mirrors([s EXCEPT !.open = b])
      /\ Mirrors([s EXCEPT !.ignore = b])
      /\ Mirrors([s EXCEPT !.readonly = b])
      /\ Mirrors([s EXCEPT !.wild = b])
  BY <1>1, <1>2 DEF State
<1>4. QED
  BY <1>3, Scalars DEF Mirrored

LEMMA SteppedMirrored == ASSUME NEW s, Mirrored(s) PROVE Mirrored(SteppedBack(s))
BY SteppedGood, SteppedFields, SameMirrors DEF Mirrored, Good

LEMMA ClearedMirrored == ASSUME NEW s, Mirrored(s) PROVE Mirrored(Cleared(s))
<1>1. Mirrors(Cleared(s))
  <2>1. s \in State
    BY DEF Mirrored, Good
  <2> DEFINE t == Cleared(s)
  <2>2. t.table = s.table /\ t.nextid = s.nextid /\ t.data = s.data /\ t.enabled = s.enabled
    BY <2>1 DEF State, Cleared
  <2>3. QED
    BY <2>2, SameMirrors DEF Mirrored
<1>2. QED
  BY <1>1, ClearedGood DEF Mirrored

LEMMA ResetMirrored == ASSUME NEW s, Mirrored(s) PROVE Mirrored(ResetChangedData(s))
<1> DEFINE t == [s EXCEPT !.edit = NoEdit]
<1>1. t.table = s.table /\ t.nextid = s.nextid /\ t.data = s.data /\ t.enabled = s.enabled
  BY DEF State, Mirrored, Good
<1>2. Mirrors(t)
  BY <1>1, SameMirrors DEF Mirrored
<1>3. Good(t)
  BY NoEditType DEF Good, State, InRange, OnRow, Mirrored
<1>4. QED
  BY <1>2, <1>3, ClearedMirrored DEF ResetChangedData, Mirrored

LEMMA EnableMirrored ==
  ASSUME NEW s, Mirrored(s), NEW no PROVE Mirrored(Enable(s, no).ds)
<1> DEFINE t == Enable(s, no).ds
<1>1. CASE s.enabled
  <2>1. t = [s EXCEPT !.changed = FALSE]
    BY <1>1 DEF Enable
  <2>2. QED
    BY <2>1, ScalarsMirrored DEF Modes
<1>2. CASE ~s.enabled /\ "load" \in no
  BY <1>2, ClearedMirrored DEF Enable
<1>3. CASE ~s.enabled /\ "load" \notin no
  <2>1. s \in State /\ s.table \in SUBSET Row /\ IsFiniteSet(s.table)
        /\ Keyed(s.table, s.nextid)
    BY DEF Mirrored, Mirrors, Good, State
  <2>2. t.table = s.table /\ t.nextid = s.nextid /\ t.data = SetToSeq(s.table)
    BY <1>3, <2>1 DEF Enable, Cleared, State
  <2>3. Copied(t.data, t.table)
    BY <2>1, <2>2, LoadedCopied
  <2>4. Mirrors(t)
    BY <2>1, <2>2, <2>3 DEF Mirrors
  <2>5. QED
    BY <2>4, EnableGood DEF Mirrored
<1>4. QED
  BY <1>1, <1>2, <1>3

LEMMA SetModeNormalMirrored ==
  ASSUME NEW s, Mirrored(s), NEW no PROVE Mirrored(SetModeNormal(s, no))
BY EnableMirrored, ScalarsMirrored DEF SetModeNormal, Modes

LEMMA EnterInsertModeMirrored ==
  ASSUME NEW s, Mirrored(s) PROVE Mirrored(EnterInsertMode(s))
BY ScalarsMirrored DEF EnterInsertMode, Modes

LEMMA MoveToMirrored ==
  ASSUME NEW s, Mirrored(s), NEW r \in Nat, NEW no PROVE Mirrored(MoveTo(s, r, no))
<1> DEFINE t == IF s.mode = "insertrow" THEN SetModeNormal(s, no) ELSE s
<1>1. Mirrored(t)
  BY SetModeNormalMirrored
<1>2. ASSUME NEW u, Mirrored(u)
      PROVE  Mirrors(IF u.enabled /\ r < Len(u.data) THEN [u EXCEPT !.counter = r] ELSE u)
  <2> DEFINE v == [u EXCEPT !.counter = r]
  <2>1. v.table = u.table /\ v.nextid = u.nextid /\ v.data = u.data /\ v.enabled = u.enabled
    BY <1>2 DEF Mirrored, Good, State
  <2>2. Mirrors(v)
    BY <1>2, <2>1, SameMirrors DEF Mirrored
  <2>3. QED
    BY <1>2, <2>2 DEF Mirrored
<1>3. Mirrors(MoveTo(s, r, no))
  BY <1>1, <1>2 DEF MoveTo
<1>4. QED
  BY <1>3, MoveToGood DEF Mirrored

\* The WHERE clause of the row under the cursor finds that row alone.
LEMMA CurrentFound ==
  ASSUME PrimaryKey, NEW s, Mirrored(s), s.enabled
  PROVE  /\ OnRow(s) => /\ s.counter + 1 \in 1..Len(s.data)
                        /\ s.data[s.counter + 1] \in s.table
                        /\ RowWhere(s, s.counter) = {s.data[s.counter + 1]}
         /\ ~OnRow(s) => RowWhere(s, s.counter) = {}
<1> DEFINE p == s.counter + 1
<1>1. s.counter \in Nat /\ Len(s.data) \in Nat /\ Keyed(s.table, s.nextid)
      /\ Copied(s.data, s.table)
  BY DEF Mirrored, Mirrors, Good, State
<1>2. ASSUME OnRow(s) PROVE p \in 1..Len(s.data)
  BY <1>1, <1>2 DEF OnRow
<1>3. ASSUME OnRow(s) PROVE s.data[p] \in s.table
  BY <1>1, <1>2, <1>3 DEF Copied
<1>4. ASSUME OnRow(s) PROVE RowWhere(s, s.counter) = {s.data[p]}
  <2>1. SameKey(s.table, s.data[p]) = {s.data[p]}
    BY <1>1, <1>2, <1>4, KeyFindsRow, ZenonT(40)
  <2>2. QED
    BY <1>4, <2>1 DEF RowWhere, SameKey, OnRow
<1>5. ASSUME ~OnRow(s) PROVE RowWhere(s, s.counter) = {}
  BY <1>1, <1>5 DEF RowWhere, OnRow
<1>6. QED
  BY <1>2, <1>3, <1>4, <1>5

LEMMA UpdatedMirrored ==
  ASSUME PrimaryKey, NEW s, Mirrored(s), s.enabled PROVE Mirrored(Updated(s))
<1> DEFINE w == RowWhere(s, s.counter)
           p == s.counter + 1
           x == PatchedRow(s.data[p], s.edit)
           t == Updated(s)
<1>1. /\ s \in State /\ s.table \in SUBSET Row /\ s.data \in Seq(Row)
      /\ s.edit \in [Columns -> Edit \cup {None}]
      /\ Keyed(s.table, s.nextid) /\ Copied(s.data, s.table)
  BY DEF Mirrored, Mirrors, Good, State
<1>2. /\ t.table = (s.table \ w) \cup { PatchedRow(r, s.edit) : r \in w }
      /\ t.nextid = s.nextid
      /\ t.data = IF OnRow(s) THEN [s.data EXCEPT ![p] = x] ELSE s.data
  BY <1>1 DEF Updated, State
<1>3. CASE OnRow(s)
  <2>1. w = {s.data[p]} /\ p \in 1..Len(s.data) /\ s.data[p] \in s.table
    BY <1>3, CurrentFound
  <2>2. x \in Row /\ x.id = s.data[p].id
    <3>1. s.data[p] \in Row
      BY <1>1, <2>1
    <3>2. QED
      BY <1>1, <3>1, PatchedRowType DEF PatchedRow, Row
  <2>3. t.table = (s.table \ {s.data[p]}) \cup {x} /\ t.data = [s.data EXCEPT ![p] = x]
    BY <1>2, <1>3, <2>1
  <2> HIDE DEF x, p, t
  <2>4. Keyed(t.table, t.nextid) /\ Copied(t.data, t.table)
    <3>1. /\ Keyed((s.table \ {s.data[p]}) \cup {x}, s.nextid)
          /\ Copied([s.data EXCEPT ![p] = x], (s.table \ {s.data[p]}) \cup {x})
      BY <1>1, <2>1, <2>2, PatchedCopied
    <3>2. t.nextid = s.nextid
      BY <1>2
    <3>3. QED
      BY <2>3, <3>1, <3>2
  <2>5. QED
    BY <2>4, UpdatedGood DEF Mirrored, Mirrors, t
<1>4. CASE ~OnRow(s)
  <2>1. w = {}
    BY <1>4, CurrentFound
  <2>2. t.table = s.table /\ t.data = s.data
    BY <1>2, <1>4, <2>1
  <2>3. Mirrors(t)
    BY <1>1, <1>2, <2>2 DEF Mirrors
  <2>4. QED
    BY <2>3, UpdatedGood DEF Mirrored
<1>5. QED
  BY <1>3, <1>4

LEMMA UpdateRowMirrored ==
  ASSUME PrimaryKey, NEW s, Mirrored(s), s.enabled, NEW no
  PROVE  Mirrored(UpdateRow(s, no).ds)
<1>1. PICK m : m = "normal" /\ m \in Modes
  BY DEF Modes
<1>2. Mirrored([s EXCEPT !.changed = FALSE]) /\ Mirrored([s EXCEPT !.mode = "normal"])
  BY <1>1, ScalarsMirrored
<1>3. Mirrored([s EXCEPT !.mode = "normal", !.changed = FALSE])
  BY <1>1, <1>2, ScalarsMirrored
<1>4. Mirrored([s EXCEPT !.changed = FALSE, !.open = FALSE]) /\ Mirrored([s EXCEPT !.open = TRUE])
  BY <1>1, <1>2, ScalarsMirrored
<1>5. QED
  BY <1>3, <1>4, UpdatedMirrored DEF UpdateRow

LEMMA InsertedMirrored ==
  ASSUME NEW s, Mirrored(s) PROVE Mirrored(Inserted(s))
<1> DEFINE row == [id |-> s.nextid, val |-> Patched([c \in Columns |-> Null], s.edit)]
           t == [s EXCEPT !.table = @ \cup {row}, !.data = Append(@, row),
                          !.nextid = @ + 1, !.changed = FALSE, !.open = FALSE]
<1>1. /\ s \in State /\ s.table \in SUBSET Row /\ IsFiniteSet(s.table)
      /\ s.data \in Seq(Row) /\ s.nextid \in Nat /\ s.counter \in Nat
      /\ Keyed(s.table, s.nextid) /\ (s.enabled => Copied(s.data, s.table))
      /\ Len(s.data) \in Nat /\ s.counter <= Len(s.data)
  BY DEF Mirrored, Mirrors, Good, State, InRange, OnRow
<1>2. row \in Row /\ row.id = s.nextid
  BY <1>1, ConstantsAssumption DEF State, Row, Patched, Edit
<1> HIDE DEF row
<1>3. /\ Append(s.data, row) \in Seq(Row)
      /\ Len(Append(s.data, row)) = Len(s.data) + 1
  BY <1>1, <1>2, AppendProperties
<1>4. /\ t.table = s.table \cup {row} /\ t.data = Append(s.data, row)
      /\ t.nextid = s.nextid + 1 /\ t.enabled = s.enabled /\ t.counter = s.counter
  BY <1>1 DEF State
<1>5. IsFiniteSet(s.table \cup {row})
  BY <1>1, FS_AddElement
<1>6. Good(t)
  <2>1. t \in State
    <3> DEFINE T == s.table \cup {row}
               D == Append(s.data, row)
               n == s.nextid + 1
    <3>1. T \in SUBSET Row /\ D \in Seq(Row) /\ n \in Nat
      BY <1>1, <1>2, <1>3
    <3>2. t = [s EXCEPT !.table = T, !.data = D, !.nextid = n,
                        !.changed = FALSE, !.open = FALSE]
      BY <1>1 DEF State
    <3> HIDE DEF T, D, n, t
    <3>3. QED
      BY <1>1, <3>1, <3>2 DEF State
  <2>2. InRange(t)
    BY <1>1, <1>3, <1>4 DEF InRange, OnRow
  <2> HIDE DEF t
  <2>3. QED
    BY <1>4, <1>5, <2>1, <2>2 DEF Good
<1> HIDE DEF t
<1>7. Mirrors(t)
  <2>1. /\ Keyed(s.table \cup {row}, s.nextid + 1)
        /\ Copied(s.data, s.table) => Copied(Append(s.data, row), s.table \cup {row})
    BY <1>1, <1>2, AppendedCopied
  <2>2. QED
    BY <1>1, <1>4, <2>1 DEF Mirrors
<1>8. Len(t.data) - 1 \in Nat
  BY <1>1, <1>3, <1>4
<1>9. Inserted(s) = MoveTo(t, Len(t.data) - 1, {})
  BY DEF Inserted, row, t
<1>10. QED
  BY <1>6, <1>7, <1>8, <1>9, MoveToMirrored DEF Mirrored

LEMMA InsertRowMirrored ==
  ASSUME NEW s, Mirrored(s), NEW no PROVE Mirrored(InsertRow(s, no).ds)
<1>1. PICK m : m = "normal" /\ m \in Modes
  BY DEF Modes
<1>2. Mirrored([s EXCEPT !.open = FALSE]) /\ Mirrored([Inserted(s) EXCEPT !.mode = "normal"])
  BY <1>1, InsertedMirrored, ScalarsMirrored
<1>3. QED
  BY <1>2 DEF InsertRow

LEMMA DeletedMirrored ==
  ASSUME PrimaryKey, NEW s, Mirrored(s) PROVE Mirrored(Deleted(s))
<1> DEFINE w == RowWhere(s, s.counter)
           p == s.counter + 1
           t == Deleted(s)
<1>1. /\ s \in State /\ s.table \in SUBSET Row /\ s.data \in Seq(Row)
      /\ Keyed(s.table, s.nextid) /\ (s.enabled => Copied(s.data, s.table))
  BY DEF Mirrored, Mirrors, Good, State
<1>2. /\ t.table = s.table \ w /\ t.nextid = s.nextid /\ t.enabled = s.enabled
      /\ t.data = IF OnRow(s) THEN RemoveAt(s.data, p) ELSE s.data
  BY <1>1 DEF Deleted, State
<1>3. Keyed(t.table, t.nextid)
  BY <1>1, <1>2, SubsetKeyed
<1>4. ASSUME s.enabled PROVE Copied(t.data, t.table)
  <2>1. CASE OnRow(s)
    <3>1. w = {s.data[p]} /\ p \in 1..Len(s.data) /\ s.data[p] \in s.table
      BY <1>4, <2>1, CurrentFound
    <3> HIDE DEF p, t, w
    <3>2. SameKey(s.table, s.data[p]) = {s.data[p]}
      BY <1>1, <1>4, <3>1, KeyFindsRow
    <3>3. t.table = s.table \ SameKey(s.table, s.data[p])
      BY <1>2, <3>1, <3>2
    <3>4. t.data = RemoveAt(s.data, p)
      BY <1>2, <2>1
    <3>5. QED
      BY <1>1, <1>4, <3>1, <3>3, <3>4, RemovedCopied
  <2>2. CASE ~OnRow(s)
    BY <1>1, <1>2, <1>4, <2>2, CurrentFound
  <2>3. QED
    BY <2>1, <2>2
<1>5. QED
  BY <1>2, <1>3, <1>4, DeletedGood DEF Mirrored, Mirrors

LEMMA AfterDeleteMirrored ==
  ASSUME NEW s, Mirrored(s) PROVE Mirrored(AfterDelete(s))
<1> DEFINE t == [s EXCEPT !.changed = FALSE, !.open = FALSE]
<1>1. PICK m : m = "normal" /\ m \in Modes
  BY DEF Modes
<1>2. Mirrored([s EXCEPT !.changed = FALSE])
  BY <1>1, ScalarsMirrored
<1>3. Mirrored(t)
  BY <1>1, <1>2, ScalarsMirrored
<1> HIDE DEF t
<1>4. Mirrored([t EXCEPT !.mode = "normal"]) /\ Mirrored(EnterInsertMode(t))
  BY <1>1, <1>3, ScalarsMirrored, EnterInsertModeMirrored
<1>5. QED
  BY <1>4 DEF AfterDelete, t

LEMMA DeleteRowMirrored ==
  ASSUME PrimaryKey, NEW s, Mirrored(s), NEW no
  PROVE  Mirrored(DeleteRow(s, no).ds)
<1>1. PICK m : m = "normal" /\ m \in Modes
  BY DEF Modes
<1>2. Mirrored([s EXCEPT !.mode = "normal"])
  BY <1>1, ScalarsMirrored
<1>3. Mirrored([s EXCEPT !.mode = "normal", !.changed = FALSE])
  BY <1>1, <1>2, ScalarsMirrored
<1>4. Mirrored(AfterDelete(s)) /\ Mirrored(AfterDelete(Deleted(s)))
  BY AfterDeleteMirrored, DeletedMirrored
<1>5. QED
  BY <1>3, <1>4 DEF DeleteRow

LEMMA StoreMirrored ==
  ASSUME PrimaryKey, NEW s, Mirrored(s), NEW no
  PROVE  Mirrored(StoreChangedData(s, no).ds)
<1>1. PICK m : m = "normal" /\ m \in Modes
  BY DEF Modes
<1>2. CASE s.readonly
  BY <1>2 DEF StoreChangedData
<1>3. CASE ~s.readonly /\ (s.ignore \/ ~s.changed)
  <2> DEFINE t == ResetChangedData(s)
             n == IF t.mode = "insertrow" /\ s.data # <<>> THEN "normal" ELSE t.mode
  <2>1. Mirrored([t EXCEPT !.ignore = FALSE])
    BY <1>1, ResetMirrored, ScalarsMirrored
  <2>2. n \in Modes
    BY <1>1, ResetGood DEF Mirrored, Good, State
  <2>3. Mirrored([t EXCEPT !.ignore = FALSE, !.mode = n])
    <3> HIDE DEF n, t
    <3> QED BY <2>1, <2>2, ScalarsMirrored
  <2>4. StoreChangedData(s, no).ds = [t EXCEPT !.ignore = FALSE, !.mode = n]
    BY <1>3, ResetGood DEF StoreChangedData, Mirrored, Good, State
  <2>5. QED
    BY <2>3, <2>4
<1>4. CASE ~s.readonly /\ ~s.ignore /\ s.changed /\ ~s.enabled
  <2>1. StoreChangedData(s, no).ds = [s EXCEPT !.wild = TRUE]
    BY <1>4 DEF StoreChangedData
  <2>2. QED
    BY <1>1, <2>1, ScalarsMirrored
<1>5. CASE ~s.readonly /\ ~s.ignore /\ s.changed /\ s.enabled
  <2> DEFINE r == CASE s.mode = "normal"    -> UpdateRow(s, no)
                    [] s.mode = "deleterow" -> DeleteRow(s, no)
                    [] s.mode = "insertrow" -> InsertRow(s, no)
                    [] s.mode = "disabled"  -> [ds |-> s, ok |-> TRUE]
  <2>1. s.mode \in Modes
    BY DEF Mirrored, Good, State
  <2>2. Mirrored(r.ds)
    <3>1. CASE s.mode = "normal"
      BY <1>5, <3>1, UpdateRowMirrored
    <3>2. CASE s.mode = "deleterow"
      BY <3>2, DeleteRowMirrored
    <3>3. CASE s.mode = "insertrow"
      BY <3>3, InsertRowMirrored
    <3>4. CASE s.mode = "disabled"
      BY <3>4
    <3>5. QED
      BY <2>1, <3>1, <3>2, <3>3, <3>4 DEF Modes
  <2>3. StoreChangedData(s, no).ds = IF r.ok THEN ResetChangedData(r.ds) ELSE r.ds
    BY <1>5 DEF StoreChangedData
  <2> HIDE DEF r
  <2>4. QED
    BY <2>2, <2>3, ResetMirrored
<1>6. QED
  BY <1>2, <1>3, <1>4, <1>5

LEMMA StoreIfWantedMirrored ==
  ASSUME PrimaryKey, NEW s, Mirrored(s), NEW no
  PROVE  Mirrored(StoreIfWanted(s, no).ds)
BY ClearedMirrored, StoreMirrored DEF StoreIfWanted

-----------------------------------------------------------------------------
(* The calls of the API.                                                   *)

LEMMA GotoRowMirrored ==
  ASSUME PrimaryKey, NEW s, Mirrored(s), NEW r \in Nat, NEW no
  PROVE  Mirrored(GotoRow(s, r, no))
<1>1. Mirrored(StoreIfWanted(s, no).ds)
  BY StoreIfWantedMirrored
<1>2. Mirrored(MoveTo(StoreIfWanted(s, no).ds, r, no))
  BY <1>1, MoveToMirrored
<1>3. QED
  BY <1>1, <1>2 DEF GotoRow

LEMMA SetModeInsertrowMirrored ==
  ASSUME PrimaryKey, NEW s, Mirrored(s), NEW no PROVE Mirrored(SetModeInsertrow(s, no))
<1> DEFINE t == IF s.enabled THEN s ELSE Enable(s, no).ds
           u == IF t.mode \in {"normal", "insertrow"} THEN StoreIfWanted(t, no).ds ELSE t
<1>1. PICK m : m = "insertrow" /\ m \in Modes
  BY DEF Modes
<1>2. Mirrored(t)
  BY EnableMirrored
<1>3. Mirrored(u)
  <2> HIDE DEF t
  <2> QED BY <1>2, StoreIfWantedMirrored
<1>4. Mirrored([u EXCEPT !.mode = "insertrow"])
  <2> HIDE DEF u
  <2> QED BY <1>1, <1>3, ScalarsMirrored
<1>5. QED
  BY <1>4 DEF SetModeInsertrow

LEMMA DeleteActualRowMirrored ==
  ASSUME PrimaryKey, NEW s, Mirrored(s), NEW no PROVE Mirrored(DeleteActualRow(s, no))
<1> DEFINE t == [s EXCEPT !.mode = "deleterow", !.changed = TRUE]
<1>1. PICK m : m = "deleterow" /\ m \in Modes
  BY DEF Modes
<1>2. Mirrored([s EXCEPT !.mode = "deleterow"])
  BY <1>1, ScalarsMirrored
<1>3. Mirrored(t)
  BY <1>1, <1>2, ScalarsMirrored
<1> HIDE DEF t
<1>4. Mirrored(StoreChangedData(t, no).ds)
  BY <1>3, StoreMirrored
<1>5. QED
  BY <1>4 DEF DeleteActualRow, t

LEMMA DisableMirrored ==
  ASSUME PrimaryKey, NEW s, Mirrored(s), NEW no PROVE Mirrored(Disable(s, no))
<1> DEFINE t == StoreIfWanted(s, no).ds
           u == Disable(s, no)
<1>1. Mirrored(t)
  BY StoreIfWantedMirrored
<1>2. CASE ~s.enabled
  BY <1>2 DEF Disable
<1>3. CASE s.enabled
  <2>1. u = [t EXCEPT !.changed = FALSE, !.enabled = FALSE,
                      !.mode = "disabled", !.data = <<>>, !.counter = 0]
    BY <1>3 DEF Disable
  <2>2. t \in State /\ Keyed(t.table, t.nextid)
    BY <1>1 DEF Mirrored, Mirrors, Good
  <2> HIDE DEF t, u
  <2>3. u.table = t.table /\ u.nextid = t.nextid /\ u.enabled = FALSE
    BY <2>1, <2>2 DEF State
  <2>4. Mirrors(u)
    BY <2>2, <2>3 DEF Mirrors
  <2>5. QED
    BY <2>4, DisableGood DEF Mirrored, u
<1>4. QED
  BY <1>2, <1>3

LEMMA SetAsStringMirrored ==
  ASSUME NEW s, Mirrored(s), NEW c \in Columns, NEW v \in Values
  PROVE  Mirrored(SetAsString(s, c, v))
<1> DEFINE t == SetAsString(s, c, v)
<1>1. t.table = s.table /\ t.nextid = s.nextid /\ t.data = s.data /\ t.enabled = s.enabled
  BY DEF SetAsString, Mirrored, Good, State
<1>2. Mirrors(t)
  BY <1>1, SameMirrors DEF Mirrored
<1>3. QED
  BY <1>2, SetAsStringGood DEF Mirrored

LEMMA DeleteRangeMirrored ==
  ASSUME PrimaryKey, NEW s, Mirrored(s), NEW f \in Nat, NEW t \in Nat,
         f <= t, t < Len(s.data), NEW no
  PROVE  Mirrored(DeleteRange(s, f, t, no))
<1> DEFINE T == s.table \ UNION { RowWhere(s, p) : p \in f..t }
           D == SubSeq(s.data, 1, f) \o SubSeq(s.data, t + 2, Len(s.data))
           u == IF "delete" \in no THEN s ELSE [s EXCEPT !.table = T, !.data = D]
           n == Len(u.data)
           k == IF n = 0 THEN 0 ELSE IF u.counter >= n THEN n - 1 ELSE u.counter
           v == [u EXCEPT !.open = FALSE, !.counter = k]
<1>1. /\ s \in State /\ s.table \in SUBSET Row /\ IsFiniteSet(s.table)
      /\ s.data \in Seq(Row) /\ s.counter \in Nat
      /\ Keyed(s.table, s.nextid) /\ (s.enabled => Copied(s.data, s.table))
  BY DEF Mirrored, Mirrors, Good, State
<1>2. T \in SUBSET Row /\ IsFiniteSet(T) /\ Keyed(T, s.nextid)
  <2>1. T \in SUBSET s.table
    OBVIOUS
  <2> HIDE DEF T
  <2>2. QED
    BY <1>1, <2>1, FS_Subset, SubsetKeyed
<1>3. D \in Seq(Row)
  BY <1>1, CutProperties
<1>4. ASSUME s.enabled PROVE Copied(D, T)
  <2>1. \A p \in f..t : RowWhere(s, p) = SameKey(s.table, s.data[p + 1])
    BY <1>1 DEF RowWhere, SameKey
  <2>2. T = s.table \ UNION { SameKey(s.table, s.data[p + 1]) : p \in f..t }
    BY <2>1
  <2>3. Copied(D, s.table \ UNION { SameKey(s.table, s.data[p + 1]) : p \in f..t })
    BY <1>1, <1>4, CutCopied
  <2>4. QED
    BY <2>2, <2>3
<1>5. DeleteRange(s, f, t, no) = GotoRow(v, s.counter, no)
  BY <1>1 DEF DeleteRange, State
<1> HIDE DEF T, D
<1>6. /\ u \in State /\ u.table \in SUBSET Row /\ IsFiniteSet(u.table) /\ u.data \in Seq(Row)
      /\ u.counter \in Nat /\ Keyed(u.table, u.nextid) /\ (u.enabled => Copied(u.data, u.table))
  <2>1. CASE "delete" \in no
    BY <1>1, <2>1
  <2>2. CASE "delete" \notin no
    <3>1. u = [s EXCEPT !.table = T, !.data = D]
      BY <2>2
    <3>2. u \in State
      BY <1>1, <1>2, <1>3, <3>1 DEF State
    <3>3. /\ u.table = T /\ u.data = D /\ u.counter = s.counter
          /\ u.nextid = s.nextid /\ u.enabled = s.enabled
      BY <1>1, <3>1 DEF State
    <3> HIDE DEF u
    <3>4. QED
      BY <1>1, <1>2, <1>3, <1>4, <3>2, <3>3
  <2>3. QED
    BY <2>1, <2>2
<1> HIDE DEF u
<1>7. k \in Nat /\ (k < Len(u.data) \/ (k = 0 /\ u.data = <<>>))
  <2>1. u.data \in Seq(Row) /\ u.counter \in Nat
    BY <1>6
  <2>2. n \in Nat /\ (n = 0 => u.data = <<>>)
    BY <2>1, EmptySeq
  <2> QED BY <2>1, <2>2
<1> HIDE DEF k, n
<1>8. v \in State
  BY <1>6, <1>7 DEF State
<1>9. /\ v.table = u.table /\ v.data = u.data /\ v.counter = k
      /\ v.nextid = u.nextid /\ v.enabled = u.enabled
  BY <1>6, <1>7 DEF State
<1> HIDE DEF v
<1>10. Mirrored(v)
  <2>1. InRange(v)
    BY <1>7, <1>9 DEF InRange, OnRow
  <2>2. Mirrors(v)
    BY <1>6, <1>9 DEF Mirrors
  <2>3. QED
    BY <1>6, <1>8, <1>9, <2>1, <2>2 DEF Mirrored, Good
<1>11. QED
  BY <1>1, <1>5, <1>10, GotoRowMirrored

LEMMA DeleteRowsMirrored ==
  ASSUME PrimaryKey, NEW s, Mirrored(s), NEW from \in Nat, NEW to \in Nat, NEW no
  PROVE  Mirrored(DeleteRows(s, from, to, no))
<1> DEFINE n == Len(s.data)
           f == IF from > to THEN to ELSE from
           g == IF from > to THEN from ELSE to
           t == IF g >= n THEN n - 1 ELSE g
<1>1. n \in Nat
  BY DEF Mirrored, Good, State
<1>2. Mirrored(DeleteRow(GotoRow(s, from, no), no).ds)
  BY GotoRowMirrored, DeleteRowMirrored
<1>3. CASE f < n
  <2>1. f \in Nat /\ t \in Nat /\ f <= t /\ t < n
    BY <1>1, <1>3
  <2> HIDE DEF f, t
  <2>2. Mirrored(DeleteRange(s, f, t, no))
    BY <2>1, DeleteRangeMirrored
  <2>3. QED
    BY <1>2, <2>2 DEF DeleteRows, f, t
<1>4. CASE ~(f < n)
  <2>1. f >= n
    BY <1>1, <1>4
  <2>2. DeleteRows(s, from, to, no) \in {s, DeleteRow(GotoRow(s, from, no), no).ds}
    BY <2>1 DEF DeleteRows
  <2>3. QED
    BY <1>2, <2>2
<1>5. QED
  BY <1>3, <1>4

-----------------------------------------------------------------------------
(* The invariant.                                                          *)

LEMMA FreshMirrored ==
  ASSUME NEW T \in SUBSET Row, IsFiniteSet(T), NEW n \in Nat, Keyed(T, n),
         NEW b \in BOOLEAN
  PROVE  Mirrored(Fresh(T, n, b))
BY FreshGood DEF Mirrored, Mirrors, Fresh

LEMMA InitMirrored == Init => Mirrored(ds)
<1> SUFFICES ASSUME NEW n \in 0..InitRows, NEW b \in BOOLEAN,
                    ds = Fresh({ BlankRow(i) : i \in 1..n }, n + 1, b), Good(ds)
             PROVE  Mirrors(ds)
  BY InitGood DEF Init, Mirrored
<1>1. n \in Nat
  BY ConstantsAssumption
<1>2. \A i \in 1..n : BlankRow(i).id = i
  BY DEF BlankRow
<1>3. Keyed({ BlankRow(i) : i \in 1..n }, n + 1)
  BY <1>1, <1>2 DEF Keyed
<1>4. QED
  BY <1>3 DEF Mirrors, Fresh

\* Every call of the API preserves the predicate, whoever answers no to it.
LEMMA NextMirrored == ASSUME PrimaryKey, Mirrored(ds), [Next]_ds PROVE Mirrored(ds')
<1>1. MaxId \in Nat /\ 0..MaxId \subseteq Nat
  BY ConstantsAssumption
<1>2. ds.counter \in Nat /\ ds.data \in Seq(Row) /\ Len(ds.data) \in Nat
  BY DEF Mirrored, Good, State
<1>3. CASE GotoAnyRow
  BY <1>1, <1>3, GotoRowMirrored DEF GotoAnyRow
<1>4. CASE GotoLast
  <2>1. LastRow(ds) \in Nat
    BY <1>1, <1>2, EmptySeq DEF LastRow
  <2>2. QED
    BY <1>4, <2>1, GotoRowMirrored DEF GotoLast
<1>5. CASE GotoNext
  <2>1. ds.counter + 1 \in Nat
    BY <1>2
  <2>2. QED
    BY <1>5, <2>1, GotoRowMirrored DEF GotoNext
<1>6. CASE GotoPrevious
  <2>1. Mirrored(SteppedBack(ds))
    BY SteppedMirrored
  <2>2. ds.counter > 0 => ds.counter - 1 \in Nat
    BY <1>2
  <2>3. QED
    BY <1>6, <2>1, <2>2, GotoRowMirrored DEF GotoPrevious
<1>7. CASE InsertMode
  BY <1>7, SetModeInsertrowMirrored DEF InsertMode
<1>8. CASE NormalMode
  BY <1>8, SetModeNormalMirrored DEF NormalMode
<1>9. CASE EditField
  BY <1>9, SetAsStringMirrored DEF EditField
<1>10. CASE Store
  BY <1>10, StoreMirrored DEF Store
<1>11. CASE DeleteActual
  BY <1>11, DeleteActualRowMirrored DEF DeleteActual
<1>12. CASE DeleteSome
  BY <1>1, <1>12, DeleteRowsMirrored DEF DeleteSome
<1>13. CASE EnableCall
  BY <1>13, EnableMirrored DEF EnableCall
<1>14. CASE DisableCall
  BY <1>14, DisableMirrored DEF DisableCall
<1>15. CASE SetReadonly
  <2>1. PICK m : m \in Modes
    BY DEF Modes
  <2>2. QED
    BY <1>15, <2>1, ScalarsMirrored DEF SetReadonly
<1>16. CASE SetIgnoreChangedData
  <2>1. PICK m : m \in Modes
    BY DEF Modes
  <2>2. QED
    BY <1>16, <2>1, ResetMirrored, ScalarsMirrored DEF SetIgnoreChangedData
<1>17. CASE Restart
  <2>1. /\ ds.table \in SUBSET Row /\ IsFiniteSet(ds.table)
        /\ ds.nextid \in Nat /\ ds.automatic \in BOOLEAN /\ Keyed(ds.table, ds.nextid)
    BY DEF Mirrored, Mirrors, Good, State
  <2>2. QED
    BY <1>17, <2>1, FreshMirrored DEF Restart
<1>18. CASE UNCHANGED ds
  BY <1>18
<1>19. QED
  BY <1>3, <1>4, <1>5, <1>6, <1>7, <1>8, <1>9, <1>10, <1>11, <1>12, <1>13, <1>14,
     <1>15, <1>16, <1>17, <1>18 DEF Next

\* What the theorem below, and those about a form, are conclusions of.
THEOREM AlwaysMirrored == ASSUME PrimaryKey PROVE Spec => []Mirrored(ds)
<1>1. Mirrored(ds) /\ [Next]_ds => Mirrored(ds)'
  BY NextMirrored
<1>2. QED
  BY InitMirrored, <1>1, PTL DEF Spec

\* With a primary key, the copy of the table which update_row, insert_row,
\* delete_row and delete_rows maintain row by row is what a reload would give.
THEOREM MirrorCorrectness == ASSUME PrimaryKey PROVE Spec => []MirrorsServer
<1>1. Mirrored(ds) => MirrorsServer
  <2> SUFFICES ASSUME Mirrored(ds), ds.enabled
               PROVE  ToSet(ds.data) = ds.table /\ Len(ds.data) = Cardinality(ds.table)
    BY DEF MirrorsServer
  <2>1. ds.table \in SUBSET Row /\ ds.data \in Seq(Row) /\ Copied(ds.data, ds.table)
    BY DEF Mirrored, Mirrors, Good, State
  <2>2. QED
    BY <2>1, CopiedMeans
<1>2. QED
  BY AlwaysMirrored, <1>1, PTL

-----------------------------------------------------------------------------
(***************************************************************************)
(* What a form may rely on: the calls of hk_button, of the visible objects *)
(* and of a form that is opened and closed.                                *)
(***************************************************************************)

FormCallNames == {"goto", "insertrow", "delete", "store", "edit", "enable", "disable"}

\* A form and its scripts, on a datasource that can be loaded: the clients and
\* refusals of run datasource_form are an instance.
ScriptedForm == /\ Calls \subseteq FormCallNames \cup {"reenable"}
                /\ "load" \notin Refusals

\* A form without scripts, details or a server that refuses UPDATE or DELETE:
\* those of run datasource_rows.
PlainForm == /\ Calls \subseteq FormCallNames
             /\ Refusals \subseteq {"insert", "store?", "delete?"}

\* No call of a form makes the datasource read only, ignores changes or stays in
\* the mode for deleting; a transaction is open only while a call runs; a change
\* is one of a column, of a datasource that is enabled.
Form(s) ==
  /\ ~s.readonly /\ ~s.ignore /\ ~s.open
  /\ s.enabled <=> s.mode # "disabled"
  /\ s.mode # "deleterow"
  /\ s.changed => s.enabled /\ ~s.wild /\ ~Untouched(s)

\* The row that insert_row() appends.
RowToAdd(s) == [id |-> s.nextid, val |-> Patched([c \in Columns |-> Null], s.edit)]

\* What a call other than a deletion or an edit does to the table and to the
\* pending values: nothing, or
Kept(s, t) == t.table = s.table /\ t.edit = s.edit

\* they are dropped, because no change is set, the user is asked and wants that,
\* or there is no row to store them in,
Dropped(s, t) == /\ t.table = s.table /\ t.edit = NoEdit
                 /\ s.changed /\ s.automatic => t.wild

\* or they are stored in the current row,
StoredIn(s, t) ==
  /\ s.mode = "normal" /\ s.enabled /\ OnRow(s) /\ t.edit = NoEdit
  /\ t.table = (s.table \ RowWhere(s, s.counter))
                 \cup { PatchedRow(r, s.edit) : r \in RowWhere(s, s.counter) }

\* or in a new one.
Added(s, t) == /\ s.mode = "insertrow" /\ s.changed /\ ~Untouched(s) /\ t.edit = NoEdit
               /\ t.table = s.table \cup {RowToAdd(s)}

Step(s, t) == Kept(s, t) \/ Dropped(s, t) \/ StoredIn(s, t) \/ Added(s, t)

LEMMA StepSame ==
  ASSUME NEW s, NEW t, Step(s, t), NEW u, u.table = t.table, u.edit = t.edit, u.wild = t.wild
  PROVE  Step(s, u)
BY DEF Step, Kept, Dropped, StoredIn, Added

-----------------------------------------------------------------------------
(* The fields of the states that the handlers return.                      *)

LEMMA ClearedFields ==
  ASSUME NEW s \in State
  PROVE  /\ Cleared(s) \in State
         /\ ~Cleared(s).changed /\ Cleared(s).edit = NoEdit
         /\ Cleared(s).enabled = s.enabled /\ Cleared(s).mode = s.mode
         /\ Cleared(s).ignore = s.ignore /\ Cleared(s).readonly = s.readonly
         /\ Cleared(s).automatic = s.automatic /\ Cleared(s).open = s.open
         /\ Cleared(s).wild = s.wild /\ Cleared(s).table = s.table
         /\ Cleared(s).nextid = s.nextid /\ Cleared(s).data = s.data
         /\ Cleared(s).counter = s.counter
BY NoEditType DEF Cleared, State

\* goto_row() changes the cursor, and leaves insert mode.
LEMMA MoveToFields ==
  ASSUME NEW s \in State, s.mode = "insertrow" => s.enabled, NEW r \in Nat, NEW no
  PROVE  LET t == MoveTo(s, r, no)
         IN  /\ t \in State
             /\ t.mode = IF s.mode = "insertrow" THEN "normal" ELSE s.mode
             /\ t.changed = s.changed /\ t.edit = s.edit /\ t.enabled = s.enabled
             /\ t.ignore = s.ignore /\ t.readonly = s.readonly
             /\ t.automatic = s.automatic /\ t.open = s.open /\ t.wild = s.wild
             /\ t.table = s.table /\ t.nextid = s.nextid /\ t.data = s.data
<1> DEFINE u == IF s.mode = "insertrow" THEN [s EXCEPT !.mode = "normal"] ELSE s
           t == IF u.enabled /\ r < Len(u.data) THEN [u EXCEPT !.counter = r] ELSE u
<1>1. MoveTo(s, r, no) = t
  BY DEF MoveTo, SetModeNormal
<1>2. /\ u \in State
      /\ u.mode = IF s.mode = "insertrow" THEN "normal" ELSE s.mode
      /\ u.changed = s.changed /\ u.edit = s.edit /\ u.enabled = s.enabled
      /\ u.ignore = s.ignore /\ u.readonly = s.readonly
      /\ u.automatic = s.automatic /\ u.open = s.open /\ u.wild = s.wild
      /\ u.table = s.table /\ u.nextid = s.nextid /\ u.data = s.data
  BY DEF State, Modes
<1> HIDE DEF u
<1>3. /\ t \in State
      /\ t.mode = u.mode
      /\ t.changed = u.changed /\ t.edit = u.edit /\ t.enabled = u.enabled
      /\ t.ignore = u.ignore /\ t.readonly = u.readonly
      /\ t.automatic = u.automatic /\ t.open = u.open /\ t.wild = u.wild
      /\ t.table = u.table /\ t.nextid = u.nextid /\ t.data = u.data
  BY <1>2 DEF State
<1> HIDE DEF t
<1>4. QED
  BY <1>1, <1>2, <1>3

LEMMA UpdatedFields ==
  ASSUME NEW s, Good(s)
  PROVE  LET t == Updated(s)
         IN  /\ t \in State
             /\ t.enabled = s.enabled /\ t.mode = s.mode /\ ~t.changed /\ ~t.open
             /\ t.edit = s.edit /\ t.ignore = s.ignore /\ t.readonly = s.readonly
             /\ t.wild = (s.wild \/ ~OnRow(s))
             /\ t.table = (s.table \ RowWhere(s, s.counter))
                            \cup { PatchedRow(r, s.edit) : r \in RowWhere(s, s.counter) }
<1>1. Updated(s) \in State
  BY UpdatedGood DEF Good
<1>2. QED
  BY <1>1, ZenonT(40) DEF Good, State, Updated

LEMMA InsertedFields ==
  ASSUME NEW s, Good(s), s.mode = "insertrow", s.enabled
  PROVE  LET t == Inserted(s)
         IN  /\ t \in State
             /\ t.enabled /\ t.mode = "normal" /\ ~t.changed /\ ~t.open
             /\ t.edit = s.edit /\ t.ignore = s.ignore /\ t.readonly = s.readonly
             /\ t.wild = s.wild /\ t.table = s.table \cup {RowToAdd(s)}
<1> DEFINE row == RowToAdd(s)
           T == s.table \cup {row}
           D == Append(s.data, row)
           n == s.nextid + 1
           t == [s EXCEPT !.table = T, !.data = D, !.nextid = n,
                          !.changed = FALSE, !.open = FALSE]
<1>1. s \in State /\ s.table \in SUBSET Row /\ s.data \in Seq(Row) /\ s.nextid \in Nat
  BY DEF Good, State
<1>2. row \in Row
  BY <1>1, ConstantsAssumption DEF State, Row, Patched, Edit, RowToAdd
<1> HIDE DEF row
<1>3. T \in SUBSET Row /\ D \in Seq(Row) /\ n \in Nat /\ Len(D) = Len(s.data) + 1
  BY <1>1, <1>2, AppendProperties
<1>4. Inserted(s) = MoveTo(t, Len(t.data) - 1, {})
  BY <1>1 DEF Inserted, row, RowToAdd, State
<1> HIDE DEF T, D, n
<1>5. /\ t \in State /\ t.data = D
      /\ t.enabled /\ t.mode = "insertrow" /\ ~t.changed /\ ~t.open
      /\ t.edit = s.edit /\ t.ignore = s.ignore /\ t.readonly = s.readonly
      /\ t.wild = s.wild /\ t.table = T
  BY <1>1, <1>3 DEF State
<1>6. Len(t.data) - 1 \in Nat
  BY <1>1, <1>3, <1>5
<1> HIDE DEF t
<1>7. QED
  BY <1>4, <1>5, <1>6, MoveToFields DEF T, row

-----------------------------------------------------------------------------
(* Storing a change.                                                       *)

\* The four ways a change that is set can go: the new row is refused, or the
\* statement for the current row, or one of them is stored.
NewRowRefused(s, r) == s.mode = "insertrow" /\ ~r.ok /\ r.ds = s

ChangeRefused(s, r) == s.mode = "normal" /\ ~r.ok /\ r.ds = [s EXCEPT !.changed = FALSE]

RowUpdated(s, r) == s.mode = "normal" /\ r.ok /\ r.ds = Cleared(Updated(s))

RowInserted(s, r) == /\ s.mode = "insertrow" /\ r.ok
                     /\ r.ds = Cleared([Inserted(s) EXCEPT !.mode = "normal"])

StoreOutcome(s, r) == \/ NewRowRefused(s, r) \/ ChangeRefused(s, r)
                      \/ RowUpdated(s, r) \/ RowInserted(s, r)

LEMMA StoreOutcomes ==
  ASSUME NEW s, Good(s), Form(s), s.changed, NEW no
  PROVE  /\ StoreOutcome(s, StoreChangedData(s, no))
         /\ {"update", "details"} \cap no = {} => ~ChangeRefused(s, StoreChangedData(s, no))
<1> DEFINE r == StoreChangedData(s, no)
<1>1. /\ s \in State /\ s.enabled /\ ~s.readonly /\ ~s.ignore /\ s.open = FALSE
      /\ ~Untouched(s) /\ s.mode \in {"normal", "insertrow"}
  BY DEF Good, Form, State, Modes
<1>2. CASE s.mode = "normal"
  <2> DEFINE q == UpdateRow(s, no)
  <2>1. r = [ds |-> IF q.ok THEN ResetChangedData(q.ds) ELSE q.ds, ok |-> q.ok]
    BY <1>1, <1>2 DEF StoreChangedData
  <2>2. CASE "details" \in no
    <3>1. q = [ds |-> [s EXCEPT !.mode = "normal", !.changed = FALSE], ok |-> FALSE]
      BY <2>2 DEF UpdateRow
    <3>2. [s EXCEPT !.mode = "normal", !.changed = FALSE] = [s EXCEPT !.changed = FALSE]
      BY <1>1, <1>2 DEF State
    <3>3. ChangeRefused(s, r)
      BY <1>2, <2>1, <3>1, <3>2 DEF ChangeRefused
    <3>4. QED
      BY <2>2, <3>3 DEF StoreOutcome
  <2>3. CASE "details" \notin no /\ "update" \in no
    <3>1. q = [ds |-> [s EXCEPT !.changed = FALSE, !.open = FALSE], ok |-> FALSE]
      BY <1>1, <2>3 DEF UpdateRow
    <3>2. [s EXCEPT !.changed = FALSE, !.open = FALSE] = [s EXCEPT !.changed = FALSE]
      BY <1>1 DEF State
    <3>3. ChangeRefused(s, r)
      BY <1>2, <2>1, <3>1, <3>2 DEF ChangeRefused
    <3>4. QED
      BY <2>3, <3>3 DEF StoreOutcome
  <2>4. CASE "details" \notin no /\ "update" \notin no
    <3>1. q = [ds |-> Updated(s), ok |-> TRUE]
      BY <1>1, <2>4 DEF UpdateRow
    <3>2. ResetChangedData(Updated(s)) = Cleared(Updated(s))
      BY <1>1, UpdatedFields DEF ResetChangedData
    <3>3. r = [ds |-> Cleared(Updated(s)), ok |-> TRUE]
      BY <2>1, <3>1, <3>2
    <3>4. QED
      BY <1>2, <3>3 DEF StoreOutcome, RowUpdated, ChangeRefused
  <2>5. QED
    BY <2>2, <2>3, <2>4
<1>3. CASE s.mode = "insertrow"
  <2> DEFINE q == InsertRow(s, no)
  <2>1. r = [ds |-> IF q.ok THEN ResetChangedData(q.ds) ELSE q.ds, ok |-> q.ok]
    BY <1>1, <1>3 DEF StoreChangedData
  <2>2. CASE "insert" \in no \/ s.nextid > MaxId
    <3>1. q = [ds |-> [s EXCEPT !.open = FALSE], ok |-> FALSE]
      BY <2>2 DEF InsertRow
    <3>2. [s EXCEPT !.open = FALSE] = s
      BY <1>1 DEF State
    <3>3. QED
      BY <1>3, <2>1, <3>1, <3>2 DEF StoreOutcome, NewRowRefused, ChangeRefused
  <2>3. CASE ~("insert" \in no \/ s.nextid > MaxId)
    <3> DEFINE u == [Inserted(s) EXCEPT !.mode = "normal"]
    <3>1. q = [ds |-> u, ok |-> TRUE]
      BY <1>1, <2>3 DEF InsertRow
    <3>2. ResetChangedData(u) = Cleared(u)
      <4>1. u.enabled
        BY <1>1, <1>3, InsertedFields DEF State
      <4>2. QED
        BY <4>1 DEF ResetChangedData
    <3>3. r = [ds |-> Cleared(u), ok |-> TRUE]
      <4> HIDE DEF u
      <4>1. QED
        BY <2>1, <3>1, <3>2
    <3>4. QED
      BY <1>3, <3>3 DEF StoreOutcome, RowInserted, ChangeRefused
  <2>4. QED
    BY <2>2, <2>3
<1>4. QED
  BY <1>1, <1>2, <1>3

\* What the callers of store_changed_data() have to know about its result.
Settled(s, r) ==
  /\ Good(r.ds) /\ Form(r.ds) /\ Step(s, r.ds) /\ r.ds.enabled = s.enabled
  /\ r.ok => ~r.ds.changed
  /\ r.ok /\ s.changed => r.ds.edit = NoEdit
  /\ ~r.ok => r.ds.edit = s.edit

LEMMA StoredSettled ==
  ASSUME NEW s, Good(s), Form(s), s.changed, NEW no
  PROVE  Settled(s, StoreChangedData(s, no))
<1> DEFINE r == StoreChangedData(s, no)
           t == r.ds
<1>1. /\ s \in State /\ s.enabled /\ ~s.readonly /\ ~s.ignore /\ ~s.open
      /\ ~s.wild /\ ~Untouched(s) /\ s.mode \in {"normal", "insertrow"}
  BY DEF Good, Form, State, Modes
<1>2. Good(t)
  BY StoreChangedDataGood
<1>3. StoreOutcome(s, r)
  BY StoreOutcomes
<1>4. CASE NewRowRefused(s, r)
  BY <1>1, <1>2, <1>4 DEF NewRowRefused, Settled, Step, Kept
<1>5. CASE ChangeRefused(s, r)
  <2>1. /\ t.table = s.table /\ t.edit = s.edit /\ ~t.changed /\ ~r.ok
        /\ t.enabled = s.enabled /\ t.mode = s.mode
        /\ ~t.readonly /\ ~t.ignore /\ ~t.open
    BY <1>1, <1>5 DEF ChangeRefused, State
  <2>2. QED
    BY <1>1, <1>2, <2>1 DEF Settled, Form, Step, Kept
<1>6. CASE RowUpdated(s, r)
  <2>1. /\ t.edit = NoEdit /\ ~t.changed /\ r.ok
        /\ t.enabled = s.enabled /\ t.mode = s.mode /\ s.mode = "normal"
        /\ ~t.readonly /\ ~t.ignore /\ ~t.open /\ t.wild = ~OnRow(s)
        /\ t.table = (s.table \ RowWhere(s, s.counter))
                       \cup { PatchedRow(q, s.edit) : q \in RowWhere(s, s.counter) }
    <3> DEFINE u == Updated(s)
    <3>1. /\ u \in State
          /\ u.enabled = s.enabled /\ u.mode = s.mode /\ ~u.open
          /\ ~u.ignore /\ ~u.readonly /\ u.wild = ~OnRow(s)
          /\ u.table = (s.table \ RowWhere(s, s.counter))
                         \cup { PatchedRow(q, s.edit) : q \in RowWhere(s, s.counter) }
      BY <1>1, UpdatedFields
    <3>2. t = Cleared(u) /\ r.ok /\ s.mode = "normal"
      BY <1>6 DEF RowUpdated
    <3> HIDE DEF u, r
    <3>3. QED
      BY <3>1, <3>2, ClearedFields
  <2>2. Step(s, t)
    <3>1. CASE OnRow(s)
      BY <1>1, <2>1, <3>1 DEF Step, StoredIn
    <3>2. CASE ~OnRow(s)
      <4>1. RowWhere(s, s.counter) = {}
        BY <3>2 DEF RowWhere, OnRow
      <4>2. t.table = s.table
        BY <2>1, <4>1
      <4>3. QED
        BY <2>1, <3>2, <4>2 DEF Step, Dropped
    <3>3. QED
      BY <3>1, <3>2
  <2>3. QED
    BY <1>1, <1>2, <2>1, <2>2 DEF Settled, Form
<1>7. CASE RowInserted(s, r)
  <2> DEFINE u == [Inserted(s) EXCEPT !.mode = "normal"]
  <2>1. /\ u \in State
        /\ u.enabled /\ u.mode = "normal" /\ ~u.open
        /\ ~u.readonly /\ ~u.ignore /\ u.wild = s.wild
        /\ u.table = s.table \cup {RowToAdd(s)}
    BY <1>1, <1>7, InsertedFields DEF State, Modes, RowInserted
  <2>2. t = Cleared(u) /\ r.ok /\ s.mode = "insertrow"
    BY <1>7 DEF RowInserted
  <2> HIDE DEF u
  <2>3. /\ t.edit = NoEdit /\ ~t.changed
        /\ t.enabled /\ t.mode = "normal"
        /\ ~t.readonly /\ ~t.ignore /\ ~t.open
        /\ t.table = s.table \cup {RowToAdd(s)}
    BY <2>1, <2>2, ClearedFields
  <2>4. QED
    BY <1>1, <1>2, <2>2, <2>3 DEF Settled, Form, Step, Added
<1>8. QED
  BY <1>3, <1>4, <1>5, <1>6, <1>7 DEF StoreOutcome

LEMMA WantedSettled ==
  ASSUME NEW s, Good(s), Form(s), NEW no PROVE Settled(s, StoreIfWanted(s, no))
<1>1. CASE ~s.changed
  BY <1>1 DEF StoreIfWanted, Settled, Step, Kept
<1>2. CASE s.changed /\ (s.automatic \/ "store?" \notin no)
  BY <1>2, StoredSettled DEF StoreIfWanted
<1>3. CASE s.changed /\ ~s.automatic /\ "store?" \in no
  <2>1. StoreIfWanted(s, no) = [ds |-> Cleared(s), ok |-> TRUE]
    BY <1>3 DEF StoreIfWanted
  <2>2. s \in State /\ Good(Cleared(s))
    BY ClearedGood DEF Good
  <2>3. QED
    BY <1>3, <2>1, <2>2, ClearedFields DEF Settled, Form, Step, Dropped
<1>4. QED
  BY <1>1, <1>2, <1>3

-----------------------------------------------------------------------------
(* The calls of a form.                                                    *)

\* The predicate reads none of the rows, and the mode only as far as it is one
\* of an enabled datasource.
LEMMA FormSame ==
  ASSUME NEW s, Form(s), NEW t,
         t.changed = s.changed, t.edit = s.edit, t.enabled = s.enabled, t.wild = s.wild,
         t.ignore = s.ignore, t.readonly = s.readonly, t.open = s.open,
         t.mode = s.mode \/ (s.enabled /\ t.mode \in {"normal", "insertrow"})
  PROVE  Form(t)
BY DEF Form, Untouched

\* Nor does it read what a step back marks in the driver.
LEMMA SteppedForm ==
  ASSUME NEW s, Good(s), Form(s)
  PROVE  /\ Form(SteppedBack(s)) /\ Step(s, SteppedBack(s))
         /\ \A t : Step(SteppedBack(s), t) => Step(s, t)
<1> DEFINE u == SteppedBack(s)
<1>1. /\ u.enabled = s.enabled /\ u.mode = s.mode /\ u.counter = s.counter
      /\ u.data = s.data /\ u.changed = s.changed /\ u.edit = s.edit
      /\ u.ignore = s.ignore /\ u.readonly = s.readonly
      /\ u.automatic = s.automatic /\ u.open = s.open /\ u.wild = s.wild
      /\ u.table = s.table /\ u.nextid = s.nextid
  BY SteppedFields DEF Good
<1> HIDE DEF u
<1>2. Form(u)
  BY <1>1, FormSame
<1>3. Step(s, u)
  BY <1>1 DEF Step, Kept
<1>4. RowWhere(u, u.counter) = RowWhere(s, s.counter) /\ RowToAdd(u) = RowToAdd(s)
  BY <1>1 DEF RowWhere, RowToAdd
<1>5. ASSUME NEW t, Step(u, t) PROVE Step(s, t)
  BY <1>1, <1>4, <1>5 DEF Step, Kept, Dropped, StoredIn, Added, OnRow, Untouched
<1>6. QED
  BY <1>2, <1>3, <1>5 DEF u

LEMMA GotoRowForm ==
  ASSUME NEW s, Good(s), Form(s), NEW r \in Nat, NEW no
  PROVE  Form(GotoRow(s, r, no)) /\ Step(s, GotoRow(s, r, no))
<1> DEFINE u == StoreIfWanted(s, no).ds
           t == MoveTo(u, r, no)
<1>1. Good(u) /\ Form(u) /\ Step(s, u)
  BY WantedSettled DEF Settled
<1> HIDE DEF u
<1>2. u \in State /\ (u.mode = "insertrow" => u.enabled)
  BY <1>1 DEF Good, Form
<1>3. /\ t.mode = IF u.mode = "insertrow" THEN "normal" ELSE u.mode
      /\ t.changed = u.changed /\ t.edit = u.edit /\ t.enabled = u.enabled
      /\ t.ignore = u.ignore /\ t.readonly = u.readonly
      /\ t.open = u.open /\ t.wild = u.wild /\ t.table = u.table
  BY <1>2, MoveToFields
<1> HIDE DEF t
<1>4. Form(t)
  BY <1>1, <1>2, <1>3, FormSame
<1>5. Step(s, t)
  BY <1>1, <1>3, StepSame
<1>6. Step(s, s)
  BY DEF Step, Kept
<1>7. QED
  BY <1>1, <1>4, <1>5, <1>6 DEF GotoRow, u, t

LEMMA EnableForm ==
  ASSUME NEW s, Good(s), Form(s), NEW no, "load" \notin no
  PROVE  /\ Form(Enable(s, no).ds) /\ Step(s, Enable(s, no).ds)
         /\ ~s.enabled => /\ Enable(s, no).ds.enabled
                          /\ ~Enable(s, no).ds.changed
                          /\ Enable(s, no).ds.edit = NoEdit
<1> DEFINE t == Enable(s, no).ds
<1>1. s \in State
  BY DEF Good
<1>2. CASE s.enabled
  <2>1. /\ ~t.changed /\ t.edit = s.edit /\ t.enabled = s.enabled
        /\ t.ignore = s.ignore /\ t.readonly = s.readonly /\ t.open = s.open
        /\ t.mode = s.mode /\ t.table = s.table
    BY <1>1, <1>2 DEF Enable, State
  <2>2. QED
    BY <1>2, <2>1 DEF Form, Step, Kept
<1>3. CASE ~s.enabled
  <2>1. /\ ~t.changed /\ t.edit = NoEdit /\ t.enabled /\ t.mode \in {"normal", "insertrow"}
        /\ t.ignore = s.ignore /\ t.readonly = s.readonly /\ t.open = s.open
        /\ t.table = s.table
    BY <1>1, <1>3 DEF Enable, Cleared, State
  <2>2. ~s.changed
    BY <1>3 DEF Form
  <2>3. QED
    BY <1>3, <2>1, <2>2 DEF Form, Step, Dropped
<1>4. QED
  BY <1>2, <1>3

LEMMA SetModeInsertrowForm ==
  ASSUME NEW s, Good(s), Form(s), NEW no, "load" \notin no
  PROVE  Form(SetModeInsertrow(s, no)) /\ Step(s, SetModeInsertrow(s, no))
<1> DEFINE t == IF s.enabled THEN s ELSE Enable(s, no).ds
           u == StoreIfWanted(t, no).ds
           v == [u EXCEPT !.mode = "insertrow"]
<1>1. Good(t) /\ Form(t) /\ t.enabled /\ t.mode \in {"normal", "insertrow"}
  <2>1. Good(t) /\ Form(t) /\ t.enabled
    BY EnableGood, EnableForm
  <2> HIDE DEF t
  <2>2. QED
    BY <2>1 DEF Good, Form, State, Modes
<1>2. Good(u) /\ Form(u) /\ u.enabled /\ Step(s, u)
  <2>1. CASE s.enabled
    BY <2>1, WantedSettled DEF Settled
  <2>2. CASE ~s.enabled
    <3>1. ~t.changed /\ Step(s, t)
      BY <2>2, EnableForm
    <3>2. u = t
      BY <3>1 DEF StoreIfWanted
    <3>3. QED
      BY <1>1, <3>1, <3>2
  <2>3. QED
    BY <2>1, <2>2
<1>3. SetModeInsertrow(s, no) = v
  BY <1>1 DEF SetModeInsertrow, Form
<1> HIDE DEF t, u
<1>4. /\ v.mode = "insertrow"
      /\ v.changed = u.changed /\ v.edit = u.edit /\ v.enabled = u.enabled
      /\ v.ignore = u.ignore /\ v.readonly = u.readonly
      /\ v.open = u.open /\ v.wild = u.wild /\ v.table = u.table
  BY <1>2 DEF Good, State
<1> HIDE DEF v
<1>5. QED
  BY <1>2, <1>3, <1>4, FormSame, StepSame

LEMMA StoreForm ==
  ASSUME NEW s, Good(s), Form(s), NEW no
  PROVE  /\ Form(StoreChangedData(s, no).ds) /\ Step(s, StoreChangedData(s, no).ds)
         /\ ~s.changed => StoreChangedData(s, no).ds.edit = NoEdit
<1> DEFINE t == StoreChangedData(s, no).ds
           u == ResetChangedData(s)
<1>1. CASE s.changed
  BY <1>1, StoredSettled DEF Settled
<1>2. CASE ~s.changed
  <2>1. s \in State
    BY DEF Good
  <2>2. /\ u \in State /\ ~u.changed /\ u.edit = NoEdit /\ u.enabled = s.enabled
        /\ u.mode = s.mode /\ ~u.readonly /\ ~u.open /\ u.table = s.table
    <3>1. CASE s.enabled
      BY <2>1, <3>1, ClearedFields DEF ResetChangedData, Form
    <3>2. CASE ~s.enabled
      BY <1>2, <2>1, <3>2, NoEditType DEF ResetChangedData, Form, State
    <3>3. QED
      BY <3>1, <3>2
  <2>3. t = [u EXCEPT !.ignore = FALSE,
                      !.mode = IF @ = "insertrow" /\ s.data # <<>> THEN "normal" ELSE @]
    BY <1>2 DEF StoreChangedData, Form
  <2> HIDE DEF u
  <2>4. /\ ~t.changed /\ t.edit = NoEdit /\ t.enabled = s.enabled
        /\ t.mode = s.mode \/ (s.mode = "insertrow" /\ t.mode = "normal")
        /\ ~t.ignore /\ ~t.readonly /\ ~t.open /\ t.table = s.table
    BY <2>2, <2>3 DEF State
  <2> HIDE DEF t
  <2>5. Form(t) /\ Step(s, t) /\ t.edit = NoEdit
    BY <1>2, <2>4 DEF Form, Step, Dropped
  <2>6. QED
    BY <2>5 DEF t
<1>3. QED
  BY <1>1, <1>2

LEMMA DisableForm ==
  ASSUME NEW s, Good(s), Form(s), NEW no
  PROVE  Form(Disable(s, no)) /\ Step(s, Disable(s, no))
<1> DEFINE u == StoreIfWanted(s, no).ds
           t == [u EXCEPT !.changed = FALSE, !.enabled = FALSE, !.mode = "disabled",
                          !.data = <<>>, !.counter = 0]
<1>1. Good(u) /\ Form(u) /\ Step(s, u)
  BY WantedSettled DEF Settled
<1>2. Disable(s, no) = IF s.enabled THEN t ELSE s
  BY DEF Disable
<1> HIDE DEF u
<1>3. /\ ~t.changed /\ ~t.enabled /\ t.mode = "disabled" /\ t.edit = u.edit
      /\ t.ignore = u.ignore /\ t.readonly = u.readonly
      /\ t.open = u.open /\ t.wild = u.wild /\ t.table = u.table
  BY <1>1 DEF Good, State
<1> HIDE DEF t
<1>4. Form(t) /\ Step(s, t)
  BY <1>1, <1>3, StepSame DEF Form
<1>5. Step(s, s)
  BY DEF Step, Kept
<1>6. QED
  BY <1>2, <1>4, <1>5

LEMMA SetAsStringForm ==
  ASSUME NEW s, Good(s), Form(s), ~s.wild, NEW c \in Columns, NEW v \in Values
  PROVE  Form(SetAsString(s, c, v))
<1> DEFINE e == [value |-> v, row |-> CurrentRow(s)]
           t == [s EXCEPT !.edit[c] = e, !.changed = TRUE]
<1>1. CASE s.enabled
  <2>1. SetAsString(s, c, v) = t
    BY <1>1 DEF SetAsString, Form
  <2>2. SetAsString(s, c, v) \in State
    BY SetAsStringGood DEF Good
  <2>3. /\ t.changed /\ t.edit[c] = e /\ t.enabled = s.enabled /\ t.mode = s.mode
        /\ t.ignore = s.ignore /\ t.readonly = s.readonly /\ t.open = s.open
        /\ t.wild = s.wild
    BY DEF Good, State
  <2>4. e # None
    BY CurrentRowType, NoneAssumption DEF Edit
  <2> HIDE DEF t, e
  <2>5. Form(t)
    BY <1>1, <2>3, <2>4 DEF Form, Untouched
  <2>6. QED
    BY <2>1, <2>5
<1>2. CASE ~s.enabled
  BY <1>2 DEF SetAsString
<1>3. QED
  BY <1>1, <1>2

\* What deleting the current row does: nothing, the pending values are dropped,
\* or they are and the row is deleted.
Removed(s, t) == /\ s.mode = "normal" /\ s.enabled /\ t.edit = NoEdit
                 /\ t.table = s.table \ RowWhere(s, s.counter)

Deletion(s, t) == \/ Kept(s, t) \/ Removed(s, t)
                  \/ t.table = s.table /\ t.edit = NoEdit

LEMMA DeletedFields ==
  ASSUME NEW s, Good(s)
  PROVE  LET t == Deleted(s)
         IN  /\ t \in State
             /\ t.enabled = s.enabled /\ t.edit = s.edit /\ t.ignore = s.ignore
             /\ t.readonly = s.readonly /\ t.wild = s.wild
             /\ t.table = s.table \ RowWhere(s, s.counter)
<1>1. Deleted(s) \in State
  BY DeletedGood DEF Good
<1>2. QED
  BY <1>1 DEF Good, State, Deleted

LEMMA AfterDeleteFields ==
  ASSUME NEW s \in State, ~s.readonly
  PROVE  LET t == AfterDelete(s)
         IN  /\ t \in State /\ ~t.changed /\ ~t.open /\ t.mode \in {"normal", "insertrow"}
             /\ t.enabled = s.enabled /\ t.edit = s.edit /\ t.ignore = s.ignore
             /\ ~t.readonly /\ t.wild = s.wild /\ t.table = s.table
BY DEF State, Modes, AfterDelete, EnterInsertMode

LEMMA DeleteActualRowForm ==
  ASSUME NEW s, Good(s), Form(s), NEW no
  PROVE  LET t == DeleteActualRow(s, no)
         IN  /\ Form(t) /\ Deletion(s, t)
             /\ {"details", "cascade", "delete"} \cap no = {} => t = s \/ t.edit = NoEdit
<1> DEFINE d == [s EXCEPT !.mode = "deleterow", !.changed = TRUE]
           q == DeleteRow(d, no)
           t == IF q.ok THEN ResetChangedData(q.ds) ELSE q.ds
           refused == {"details", "cascade", "delete"} \cap no # {}
<1>1. s \in State
  BY DEF Good
<1>2. CASE s.mode # "normal"
  BY <1>2 DEF DeleteActualRow, Deletion, Kept
<1>3. CASE s.mode = "normal"
  <2>1. s.enabled /\ ~s.ignore /\ ~s.readonly /\ ~s.open
    BY <1>3 DEF Form
  <2>2. /\ d \in State /\ d.enabled /\ d.mode = "deleterow" /\ d.changed /\ ~d.ignore
        /\ ~d.readonly /\ ~d.open /\ d.edit = s.edit /\ d.table = s.table
        /\ d.data = s.data /\ d.counter = s.counter
    BY <1>1, <2>1 DEF State, Modes
  <2>3. Good(d) /\ RowWhere(d, d.counter) = RowWhere(s, s.counter)
    BY <2>2 DEF Good, InRange, OnRow, RowWhere
  <2> HIDE DEF d
  <2>4. StoreChangedData(d, no).ds = t
    BY <2>2 DEF StoreChangedData
  <2>5. DeleteActualRow(s, no) = t
    BY <1>3, <2>4 DEF DeleteActualRow, d
  <2>6. /\ q.ds.enabled /\ ~q.ds.changed /\ q.ds.mode \in {"normal", "insertrow"}
        /\ ~q.ds.ignore /\ ~q.ds.readonly /\ ~q.ds.open /\ q.ds \in State
        /\ q.ds.edit = s.edit
        /\ q.ds.table = s.table \/ (q.ok /\ q.ds.table = s.table \ RowWhere(s, s.counter))
        /\ ~refused => q.ok
    <3> DEFINE u == [d EXCEPT !.mode = "normal", !.changed = FALSE]
    <3>0. /\ u.enabled /\ ~u.changed /\ u.mode \in {"normal", "insertrow"}
          /\ ~u.ignore /\ ~u.readonly /\ ~u.open /\ u \in State
          /\ u.edit = s.edit /\ u.table = s.table
      BY <2>2 DEF State, Modes
    <3>1. CASE "delete?" \in no
      <4>1. q = [ds |-> u, ok |-> TRUE]
        BY <3>1 DEF DeleteRow
      <4> HIDE DEF u
      <4>2. QED
        BY <3>0, <4>1
    <3>2. CASE "delete?" \notin no /\ "details" \in no
      <4>1. q = [ds |-> u, ok |-> FALSE]
        BY <3>2 DEF DeleteRow
      <4> HIDE DEF u
      <4>2. QED
        BY <3>0, <3>2, <4>1
    <3>3. CASE {"delete?", "details"} \cap no = {} /\ {"cascade", "delete"} \cap no # {}
      <4>1. q = [ds |-> AfterDelete(d), ok |-> FALSE]
        BY <3>3 DEF DeleteRow
      <4>2. QED
        BY <2>2, <3>3, <4>1, AfterDeleteFields
    <3>4. CASE {"delete?", "details"} \cap no = {} /\ {"cascade", "delete"} \cap no = {}
      <4> DEFINE w == Deleted(d)
      <4>1. q = [ds |-> AfterDelete(w), ok |-> TRUE]
        BY <3>4 DEF DeleteRow
      <4>2. /\ w \in State /\ w.enabled /\ w.edit = s.edit /\ ~w.ignore /\ ~w.readonly
            /\ w.table = s.table \ RowWhere(s, s.counter)
        BY <2>2, <2>3, DeletedFields
      <4> HIDE DEF w
      <4>3. QED
        BY <4>1, <4>2, AfterDeleteFields
    <3>5. QED
      BY <3>1, <3>2, <3>3, <3>4
  <2> HIDE DEF q
  <2>7. /\ t.enabled /\ ~t.changed /\ t.mode \in {"normal", "insertrow"}
        /\ ~t.ignore /\ ~t.readonly /\ ~t.open /\ t.table = q.ds.table
        /\ t.edit = IF q.ok THEN NoEdit ELSE s.edit
    <3>1. CASE q.ok
      <4>1. t = Cleared(q.ds)
        BY <2>6, <3>1 DEF ResetChangedData
      <4>2. QED
        BY <2>6, <3>1, <4>1, ClearedFields
    <3>2. CASE ~q.ok
      BY <2>6, <3>2
    <3>3. QED
      BY <3>1, <3>2
  <2> HIDE DEF t
  <2>8. Form(t) /\ Deletion(s, t) /\ (~refused => t.edit = NoEdit)
    BY <1>3, <2>1, <2>6, <2>7 DEF Form, Deletion, Kept, Removed
  <2>9. QED
    BY <2>5, <2>8
<1>4. QED
  BY <1>2, <1>3

-----------------------------------------------------------------------------
(* The steps of a form.                                                    *)

\* Every step of a form is one of those above, and leads to a state of a form.
LEMMA FormNext ==
  ASSUME ScriptedForm, Good(ds), Form(ds), [Next]_ds
  PROVE  /\ Form(ds')
         /\ \/ Step(ds, ds')
            \/ EditField
            \/ DeleteActual /\ Deletion(ds, ds')
<1> USE DEF Answers
<1>1. MaxId \in Nat /\ 0..MaxId \subseteq Nat
  BY ConstantsAssumption
<1>2. ds.counter \in Nat /\ ds.data \in Seq(Row) /\ Len(ds.data) \in Nat
  BY DEF Good, State
<1>3. \A asked : \A no \in Answers(asked) : "load" \notin no
  BY DEF ScriptedForm
<1>4. CASE GotoAnyRow
  BY <1>1, <1>4, GotoRowForm DEF GotoAnyRow
<1>5. CASE GotoLast
  <2>1. LastRow(ds) \in Nat
    BY <1>1, <1>2, EmptySeq DEF LastRow
  <2>2. QED
    BY <1>5, <2>1, GotoRowForm DEF GotoLast
<1>6. CASE GotoNext
  <2>1. ds.counter + 1 \in Nat
    BY <1>2
  <2>2. QED
    BY <1>6, <2>1, GotoRowForm DEF GotoNext
<1>7. CASE GotoPrevious
  <2>1. Good(SteppedBack(ds)) /\ Form(SteppedBack(ds))
    BY SteppedGood, SteppedForm
  <2>2. ds.counter > 0 => ds.counter - 1 \in Nat
    BY <1>2
  <2>3. \/ ds' = SteppedBack(ds)
        \/ Form(ds') /\ Step(SteppedBack(ds), ds')
    BY <1>7, <2>1, <2>2, GotoRowForm DEF GotoPrevious
  <2>4. QED
    BY <2>1, <2>3, SteppedForm
<1>8. CASE InsertMode
  BY <1>3, <1>8, SetModeInsertrowForm DEF InsertMode
<1>9. CASE EditField
  BY <1>9, SetAsStringForm DEF EditField, Call
<1>10. CASE Store
  BY <1>10, StoreForm DEF Store
<1>11. CASE DeleteActual
  BY <1>11, DeleteActualRowForm DEF DeleteActual
<1>12. CASE EnableCall
  BY <1>3, <1>12, EnableForm DEF EnableCall
<1>13. CASE DisableCall
  BY <1>13, DisableForm DEF DisableCall
<1>14. CASE NormalMode \/ DeleteSome \/ SetReadonly \/ SetIgnoreChangedData
  BY <1>14 DEF NormalMode, DeleteSome, SetReadonly, SetIgnoreChangedData, Call,
               ScriptedForm, FormCallNames
<1>15. CASE Restart
  <2>1. /\ ~ds'.changed /\ ~ds'.enabled /\ ds'.mode = "disabled" /\ ds'.edit = NoEdit
        /\ ~ds'.ignore /\ ~ds'.readonly /\ ~ds'.open /\ ds'.table = ds.table
    BY <1>15 DEF Restart, Fresh
  <2>2. ~ds.changed
    BY <1>15 DEF Restart, Form
  <2>3. QED
    BY <2>1, <2>2 DEF Form, Step, Dropped
<1>16. CASE UNCHANGED ds
  BY <1>16 DEF Step, Kept, Form
<1>17. QED
  BY <1>4, <1>5, <1>6, <1>7, <1>8, <1>9, <1>10, <1>11, <1>12, <1>13, <1>14, <1>15, <1>16
     DEF Next

LEMMA FormInit == Init => Form(ds)
BY DEF Init, Fresh, Form

THEOREM AlwaysForm == ASSUME ScriptedForm PROVE Spec => []Form(ds)
<1>1. Good(ds) /\ Form(ds) /\ [Next]_ds => Form(ds)'
  BY FormNext
<1>2. QED
  BY FormInit, AlwaysGood, <1>1, PTL DEF Spec

\* When a call of a form returns, every transaction_begin has met its commit or
\* its rollback: the path of update_row() that leaves one open is never taken.
THEOREM TransactionsAreClosed == ASSUME ScriptedForm PROVE Spec => []TransactionsClosed
<1>1. Form(ds) => TransactionsClosed
  BY DEF Form, TransactionsClosed
<1>2. QED
  BY AlwaysForm, <1>1, PTL

\* In a form p_has_changed is never set without a changed column, so no store
\* fails, again and again, for having nothing to send.  That a changed column has
\* the flag is EditsAreFlagged, of the plain form below.
THEOREM ChangesHaveColumns == ASSUME ScriptedForm PROVE Spec => []ChangedHasColumns
<1>1. Form(ds) => ChangedHasColumns
  BY DEF Form, ChangedHasColumns
<1>2. QED
  BY AlwaysForm, <1>1, PTL

\* The table loses the key of a row only in delete_actualrow() or delete_rows().
THEOREM DeletionsAreRequested == ASSUME ScriptedForm PROVE Spec => DeletedOnlyOnRequest
<1>1. ASSUME Good(ds), Form(ds), [Next]_ds
      PROVE  [ (\E r \in ds.table : \A q \in ds'.table : q.id # r.id)
                 => DeleteActual \/ DeleteSome ]_ds
  <2>1. CASE Step(ds, ds')
    <3>1. ASSUME NEW r \in ds.table PROVE \E q \in ds'.table : q.id = r.id
      <4>1. r \in Row
        BY <1>1 DEF Good, State
      <4>2. PatchedRow(r, ds.edit).id = r.id
        BY <4>1 DEF PatchedRow, Row
      <4>3. QED
        BY <2>1, <4>2 DEF Step, Kept, Dropped, StoredIn, Added
    <3>2. QED
      BY <3>1
  <2>2. CASE EditField
    <3>1. ds'.table = ds.table
      BY <2>2 DEF EditField, SetAsString, Good, State
    <3>2. QED
      BY <3>1
  <2>3. CASE DeleteActual
    BY <2>3
  <2>4. QED
    BY <1>1, <2>1, <2>2, <2>3, FormNext
<1>2. QED
  BY <1>1, AlwaysGood, AlwaysForm, PTL DEF Spec, DeletedOnlyOnRequest

\* What EditField does to the pending values.
LEMMA EditFieldFields ==
  ASSUME Good(ds), Form(ds), EditField
  PROVE  /\ ds'.table = ds.table
         /\ \/ ds' = ds
            \/ /\ ds.enabled /\ ds'.enabled /\ ds'.changed
               /\ CurrentRow(ds') = CurrentRow(ds)
               /\ \E c \in Columns, v \in Values :
                    ds'.edit = [ds.edit EXCEPT ![c] = [value |-> v, row |-> CurrentRow(ds)]]
<1>1. PICK c \in Columns, v \in Values : ds' = SetAsString(ds, c, v)
  BY DEF EditField
<1>2. CASE ~ds.enabled
  BY <1>1, <1>2 DEF SetAsString
<1>3. CASE ds.enabled
  <2> DEFINE e == [value |-> v, row |-> CurrentRow(ds)]
  <2>1. ds' = [ds EXCEPT !.edit[c] = e, !.changed = TRUE]
    BY <1>1, <1>3 DEF SetAsString, Form
  <2>2. ds \in State
    BY DEF Good
  <2> HIDE DEF e
  <2>3. /\ ds'.table = ds.table /\ ds'.enabled /\ ds'.changed /\ ds'.mode = ds.mode
        /\ ds'.data = ds.data /\ ds'.counter = ds.counter
        /\ ds'.edit = [ds.edit EXCEPT ![c] = e]
    BY <1>3, <2>1, <2>2 DEF State
  <2>4. CurrentRow(ds') = CurrentRow(ds)
    BY <2>3 DEF CurrentRow, OnRow
  <2>5. QED
    BY <1>3, <2>3, <2>4 DEF e
<1>4. QED
  BY <1>2, <1>3

-----------------------------------------------------------------------------
(* A form that is never refused an UPDATE or a DELETE.                     *)

\* In a datasource that is enabled, the pending values are those of a change
\* that is set, and all are for the row the cursor is on.
Placed(s) ==
  s.enabled => /\ ~s.changed => Untouched(s)
               /\ \A c \in Columns : s.edit[c] # None => s.edit[c].row = CurrentRow(s)

LEMMA NoEditPlaced == ASSUME NEW s, s.edit = NoEdit PROVE Placed(s) /\ Untouched(s)
BY DEF Placed, Untouched, NoEdit

LEMMA UntouchedNoEdit ==
  ASSUME NEW s \in State, Untouched(s) PROVE s.edit = NoEdit
BY DEF State, Untouched, NoEdit

\* Storing leaves no value pending, or everything as it was.
LEMMA WantedPlaced ==
  ASSUME NEW s, Good(s), Form(s), Placed(s), s.enabled, NEW no,
         {"update", "details"} \cap no = {}
  PROVE  LET r == StoreIfWanted(s, no)
         IN  \/ r.ok /\ r.ds.edit = NoEdit
             \/ ~r.ok /\ r.ds = s /\ s.mode = "insertrow"
<1> DEFINE r == StoreIfWanted(s, no)
<1>1. s \in State
  BY DEF Good
<1>2. CASE ~s.changed
  BY <1>1, <1>2, UntouchedNoEdit DEF StoreIfWanted, Placed
<1>3. CASE s.changed /\ (s.automatic \/ "store?" \notin no)
  <2>1. r = StoreChangedData(s, no)
    BY <1>3 DEF StoreIfWanted
  <2>2. StoreOutcome(s, r) /\ ~ChangeRefused(s, r) /\ Settled(s, r)
    BY <1>3, <2>1, StoreOutcomes, StoredSettled
  <2> HIDE DEF r
  <2>3. NewRowRefused(s, r) \/ r.ok
    BY <2>2 DEF StoreOutcome, RowUpdated, RowInserted
  <2>4. r.ok => r.ds.edit = NoEdit
    BY <1>3, <2>2 DEF Settled
  <2>5. QED
    BY <2>3, <2>4 DEF NewRowRefused, r
<1>4. CASE s.changed /\ ~s.automatic /\ "store?" \in no
  BY <1>1, <1>4, ClearedFields DEF StoreIfWanted
<1>5. QED
  BY <1>2, <1>3, <1>4

LEMMA SteppedPlaced == ASSUME NEW s, Good(s), Placed(s) PROVE Placed(SteppedBack(s))
BY SteppedFields DEF Good, Placed, Untouched, CurrentRow, OnRow

LEMMA GotoRowPlaced ==
  ASSUME NEW s, Good(s), Form(s), Placed(s), NEW r \in Nat, NEW no,
         {"update", "details"} \cap no = {}
  PROVE  Placed(GotoRow(s, r, no))
<1> DEFINE w == StoreIfWanted(s, no)
           t == MoveTo(w.ds, r, no)
<1>1. Good(w.ds) /\ Form(w.ds) /\ w.ds.enabled = s.enabled
  BY WantedSettled DEF Settled
<1>2. s.enabled => (w.ok /\ w.ds.edit = NoEdit) \/ (~w.ok /\ w.ds = s)
  BY WantedPlaced
<1> HIDE DEF w
<1>3. t.edit = w.ds.edit /\ t.enabled = w.ds.enabled
  <2>1. w.ds \in State /\ (w.ds.mode = "insertrow" => w.ds.enabled)
    BY <1>1 DEF Good, Form
  <2>2. QED
    BY <2>1, MoveToFields
<1> HIDE DEF t
<1>4. GotoRow(s, r, no) \in {s, IF w.ok THEN t ELSE w.ds}
  BY DEF GotoRow, t, w
<1>5. CASE s.enabled
  BY <1>2, <1>3, <1>4, <1>5, NoEditPlaced
<1>6. CASE ~s.enabled
  BY <1>1, <1>3, <1>4, <1>6 DEF Placed
<1>7. QED
  BY <1>5, <1>6

LEMMA SetModeInsertrowPlaced ==
  ASSUME NEW s, Good(s), Form(s), Placed(s), NEW no,
         {"update", "details", "load"} \cap no = {}
  PROVE  Placed(SetModeInsertrow(s, no))
<1> DEFINE t == IF s.enabled THEN s ELSE Enable(s, no).ds
           w == StoreIfWanted(t, no)
           v == [w.ds EXCEPT !.mode = "insertrow"]
<1>1. Good(t) /\ Form(t) /\ t.enabled /\ Placed(t)
  BY EnableGood, EnableForm, NoEditPlaced
<1>2. SetModeInsertrow(s, no) = v
  <2>1. t.mode \in {"normal", "insertrow"}
    BY <1>1 DEF Good, Form, State, Modes
  <2>2. QED
    BY <2>1 DEF SetModeInsertrow, Form
<1> HIDE DEF t
<1>3. Good(w.ds) /\ ((w.ok /\ w.ds.edit = NoEdit)
                       \/ (~w.ok /\ w.ds = t /\ t.mode = "insertrow"))
  BY <1>1, WantedPlaced, WantedSettled DEF Settled
<1> HIDE DEF w
<1>4. v.edit = w.ds.edit
  BY <1>3 DEF Good, State
<1>5. w.ds.mode = "insertrow" => v = w.ds
  BY <1>3 DEF Good, State
<1>6. Placed(v)
  BY <1>1, <1>3, <1>4, <1>5, NoEditPlaced
<1>7. QED
  BY <1>2, <1>6

LEMMA StorePlaced ==
  ASSUME NEW s, Good(s), Form(s), Placed(s), NEW no, {"update", "details"} \cap no = {}
  PROVE  Placed(StoreChangedData(s, no).ds)
<1> DEFINE r == StoreChangedData(s, no)
<1>1. CASE s.changed
  <2>1. StoreOutcome(s, r) /\ ~ChangeRefused(s, r) /\ Settled(s, r)
    BY <1>1, StoreOutcomes, StoredSettled
  <2>2. NewRowRefused(s, r) \/ r.ok
    BY <2>1 DEF StoreOutcome, RowUpdated, RowInserted
  <2>3. r.ok => r.ds.edit = NoEdit
    BY <1>1, <2>1 DEF Settled
  <2>4. QED
    BY <2>2, <2>3, NoEditPlaced DEF NewRowRefused
<1>2. CASE ~s.changed
  BY <1>2, StoreForm, NoEditPlaced
<1>3. QED
  BY <1>1, <1>2

LEMMA PlacedNext ==
  ASSUME PlainForm, Good(ds), Form(ds), Placed(ds), [Next]_ds PROVE Placed(ds')
<1> USE DEF Answers
<1>1. MaxId \in Nat /\ 0..MaxId \subseteq Nat
  BY ConstantsAssumption
<1>2. ds.counter \in Nat /\ ds.data \in Seq(Row) /\ Len(ds.data) \in Nat
  BY DEF Good, State
<1>3. \A asked : \A no \in Answers(asked) :
         /\ {"update", "details", "load"} \cap no = {}
         /\ {"update", "details"} \cap no = {}
         /\ {"details", "cascade", "delete"} \cap no = {}
         /\ "load" \notin no
  BY DEF PlainForm
<1>4. CASE GotoAnyRow
  BY <1>1, <1>3, <1>4, GotoRowPlaced DEF GotoAnyRow
<1>5. CASE GotoLast
  <2>1. LastRow(ds) \in Nat
    BY <1>1, <1>2, EmptySeq DEF LastRow
  <2>2. QED
    BY <1>3, <1>5, <2>1, GotoRowPlaced DEF GotoLast
<1>6. CASE GotoNext
  <2>1. ds.counter + 1 \in Nat
    BY <1>2
  <2>2. QED
    BY <1>3, <1>6, <2>1, GotoRowPlaced DEF GotoNext
<1>7. CASE GotoPrevious
  <2>1. /\ Good(SteppedBack(ds)) /\ Form(SteppedBack(ds)) /\ Placed(SteppedBack(ds))
    BY SteppedGood, SteppedForm, SteppedPlaced
  <2>2. ds.counter > 0 => ds.counter - 1 \in Nat
    BY <1>2
  <2>3. QED
    BY <1>3, <1>7, <2>1, <2>2, GotoRowPlaced DEF GotoPrevious
<1>8. CASE InsertMode
  BY <1>3, <1>8, SetModeInsertrowPlaced DEF InsertMode
<1>9. CASE EditField
  <2>1. ds' = ds \/ Placed(ds')
    <3>1. ASSUME NEW c \in Columns, NEW v \in Values, ds'.changed,
                 CurrentRow(ds') = CurrentRow(ds), ds.enabled,
                 ds'.edit = [ds.edit EXCEPT ![c] = [value |-> v, row |-> CurrentRow(ds)]]
          PROVE  Placed(ds')
      <4>1. ds.edit \in [Columns -> Edit \cup {None}]
        BY DEF Good, State
      <4>2. QED
        BY <3>1, <4>1 DEF Placed
    <3>2. QED
      BY <1>9, <3>1, EditFieldFields
  <2>2. QED
    BY <2>1 DEF Placed, Untouched, CurrentRow, OnRow
<1>10. CASE Store
  BY <1>3, <1>10, StorePlaced DEF Store
<1>11. CASE DeleteActual
  BY <1>3, <1>11, DeleteActualRowForm, NoEditPlaced DEF DeleteActual
<1>12. CASE EnableCall
  <2>1. ~ds.enabled
    BY <1>12 DEF EnableCall, Call, PlainForm, FormCallNames
  <2>2. QED
    BY <1>3, <1>12, <2>1, EnableForm, NoEditPlaced DEF EnableCall
<1>13. CASE DisableCall
  <2>1. PICK no : ds' = Disable(ds, no)
    BY <1>13 DEF DisableCall
  <2>2. ds' = ds \/ ~ds'.enabled
    BY <2>1, WantedSettled DEF Disable, Settled, Good, State
  <2>3. QED
    BY <2>2 DEF Placed
<1>14. CASE NormalMode \/ DeleteSome \/ SetReadonly \/ SetIgnoreChangedData
  BY <1>14 DEF NormalMode, DeleteSome, SetReadonly, SetIgnoreChangedData, Call,
               PlainForm, FormCallNames
<1>15. CASE Restart
  BY <1>15, NoEditPlaced DEF Restart, Fresh
<1>16. CASE UNCHANGED ds
  BY <1>16 DEF Placed, Untouched, CurrentRow, OnRow
<1>17. QED
  BY <1>4, <1>5, <1>6, <1>7, <1>8, <1>9, <1>10, <1>11, <1>12, <1>13, <1>14, <1>15, <1>16
     DEF Next

LEMMA PlacedInit == Init => Placed(ds)
BY NoEditPlaced DEF Init, Fresh

LEMMA PlainIsScripted == PlainForm => ScriptedForm
BY DEF PlainForm, ScriptedForm

THEOREM AlwaysPlaced == ASSUME PlainForm PROVE Spec => []Placed(ds)
<1>1. Good(ds) /\ Form(ds) /\ Placed(ds) /\ [Next]_ds => Placed(ds)'
  BY PlacedNext
<1>2. QED
  BY PlainIsScripted, PlacedInit, AlwaysGood, AlwaysForm, <1>1, PTL DEF Spec

\* What waits in a column was typed for the row the cursor is on, as long as the
\* server refuses no UPDATE: goto_row() and the modes never carry it elsewhere.
THEOREM EditsAreOnTheirRow == ASSUME PlainForm PROVE Spec => []EditsStayOnTheirRow
<1>1. Placed(ds) => EditsStayOnTheirRow
  BY DEF Placed, EditsStayOnTheirRow
<1>2. QED
  BY AlwaysPlaced, <1>1, PTL

\* As long as the server refuses no UPDATE, what waits in a column has the change
\* flag and a mode that stores it: a later store sends it and does not drop it.
THEOREM EditsKeepTheirFlag == ASSUME PlainForm PROVE Spec => []EditsAreFlagged
<1>1. Good(ds) /\ Form(ds) /\ Placed(ds) => EditsAreFlagged
  BY DEF Good, State, Modes, Form, Placed, EditsAreFlagged
<1>2. QED
  BY PlainIsScripted, AlwaysGood, AlwaysForm, AlwaysPlaced, <1>1, PTL

\* With automatic update and a primary key, no call of such a form but a deletion
\* forgets a value that was typed into an enabled datasource: it is in the row it
\* was typed on, or in the new row, or still in its column.
THEOREM ValuesAreStoredOrKept ==
  ASSUME PlainForm, PrimaryKey PROVE Spec => StoredOrKept
<1>1. ASSUME Mirrored(ds), Form(ds), Placed(ds), [Next]_ds
      PROVE  [ ds.automatic /\ ds.enabled /\ ~ds.ignore /\ ~ds'.wild
                 => \/ DeleteActual \/ DeleteSome
                    \/ \A c \in Columns : ds.edit[c] # None /\ ds'.edit[c] = None
                                           => LandsIn(ds.edit[c].row, c) ]_ds
  <2> SUFFICES ASSUME ds.automatic, ds.enabled, ~ds'.wild, ~DeleteActual,
                      NEW c \in Columns, ds.edit[c] # None, ds'.edit[c] = None
               PROVE  LandsIn(CurrentRow(ds), c)
    BY <1>1 DEF Placed
  <2> ds.changed
    BY <1>1 DEF Placed, Untouched
  <2>1. ds \in State /\ ds.edit \in [Columns -> Edit \cup {None}] /\ Good(ds)
        /\ ds.table \in SUBSET Row /\ ds.nextid \in Nat
    BY <1>1 DEF Mirrored, Good, State
  <2>2. ASSUME Step(ds, ds') PROVE LandsIn(CurrentRow(ds), c)
    <3>1. ~Kept(ds, ds') /\ ~Dropped(ds, ds')
      BY DEF Kept, Dropped
    <3>2. CASE StoredIn(ds, ds')
      <4> DEFINE r == ds.data[ds.counter + 1]
                 x == PatchedRow(r, ds.edit)
      <4>1. r \in ds.table /\ RowWhere(ds, ds.counter) = {r} /\ CurrentRow(ds) = r.id
        BY <1>1, <3>2, CurrentFound DEF StoredIn, CurrentRow
      <4>2. r \in Row
        BY <2>1, <4>1
      <4>3. x \in ds'.table
        BY <3>2, <4>1 DEF StoredIn
      <4>4. x.id = r.id /\ x.val[c] = ds.edit[c].value
        BY <4>2 DEF PatchedRow, Patched, Row
      <4>5. CurrentRow(ds) # NewRow
        BY <4>1, <4>2, ConstantsAssumption DEF Row
      <4> HIDE DEF x, r
      <4>6. QED
        BY <4>1, <4>3, <4>4, <4>5 DEF LandsIn
    <3>3. CASE Added(ds, ds')
      <4>1. CurrentRow(ds) = NewRow
        BY <3>3 DEF Added, CurrentRow
      <4>2. RowToAdd(ds) \in ds'.table
        BY <3>3 DEF Added
      <4>3. RowToAdd(ds).id = ds.nextid /\ RowToAdd(ds).val[c] = ds.edit[c].value
        BY DEF RowToAdd, Patched
      <4>4. QED
        BY <4>1, <4>2, <4>3 DEF LandsIn
    <3>4. QED
      BY <2>2, <3>1, <3>2, <3>3 DEF Step
  <2>3. ASSUME EditField PROVE FALSE
    <3>1. \/ ds' = ds
          \/ \E d \in Columns, v \in Values :
               ds'.edit = [ds.edit EXCEPT ![d] = [value |-> v, row |-> CurrentRow(ds)]]
      BY <1>1, <2>1, <2>3, EditFieldFields
    <3>2. \A v \in Values : [value |-> v, row |-> CurrentRow(ds)] # None
      BY <2>1, CurrentRowType, NoneAssumption DEF Edit
    <3>3. QED
      BY <2>1, <3>1, <3>2
  <2>4. QED
    BY <1>1, <2>1, <2>2, <2>3, PlainIsScripted, FormNext
<1>2. QED
  BY <1>1, PlainIsScripted, AlwaysMirrored, AlwaysForm, AlwaysPlaced, PTL
     DEF Spec, StoredOrKept

\* Every step of the datasource is one of the user's view of rows.
LEMMA StepRefines ==
  ASSUME PrimaryKey, PlainForm, Mirrored(ds), Form(ds), Placed(ds), [Next]_ds
  PROVE  [Rows!Next]_<<ds.table, ds.edit>>
<1> DEFINE r == ds.data[ds.counter + 1]
<1>1. /\ Good(ds) /\ ds \in State /\ ds.edit \in [Columns -> Edit \cup {None}]
      /\ ds.table \in SUBSET Row /\ ds.nextid \in Nat /\ Keyed(ds.table, ds.nextid)
  BY DEF Mirrored, Mirrors, Good, State
<1>2. ASSUME ds.enabled PROVE Rows!DraftOf(CurrentRow(ds))
  BY <1>2 DEF Rows!DraftOf, Placed
<1>3. Rows!Untyped = NoEdit
  BY DEF Rows!Untyped, NoEdit
<1>4. ASSUME ds.enabled, ds.mode # "insertrow", OnRow(ds)
      PROVE  /\ r \in ds.table /\ r \in Row /\ CurrentRow(ds) = r.id
             /\ RowWhere(ds, ds.counter) = {r}
  BY <1>1, <1>4, CurrentFound DEF CurrentRow
<1> HIDE DEF r
<1>5. ASSUME ds'.table = ds.table, ds'.edit = NoEdit PROVE Rows!Next
  BY <1>3, <1>5 DEF Rows!Next, Rows!Discard
<1>6. ASSUME StoredIn(ds, ds') PROVE Rows!Next
  <2>1. /\ r \in ds.table /\ Rows!DraftOf(r.id)
        /\ ds'.table = (ds.table \ {r}) \cup {PatchedRow(r, ds.edit)} /\ ds'.edit = NoEdit
    BY <1>2, <1>4, <1>6 DEF StoredIn
  <2>2. PatchedRow(r, ds.edit) = [r EXCEPT !.val = Rows!Filled(@)]
    BY DEF PatchedRow, Patched, Rows!Filled
  <2>3. Rows!Commit(r)
    BY <1>3, <2>1, <2>2 DEF Rows!Commit
  <2>4. QED
    BY <2>1, <2>3 DEF Rows!Next
<1>7. ASSUME Added(ds, ds') PROVE Rows!Next
  <2>1. /\ ds.enabled /\ CurrentRow(ds) = NewRow /\ ds.edit # NoEdit
        /\ ds'.table = ds.table \cup {RowToAdd(ds)} /\ ds'.edit = NoEdit
    BY <1>7 DEF Added, CurrentRow, Form, Untouched, NoEdit
  <2>2. RowToAdd(ds) = [id |-> ds.nextid, val |-> Rows!Filled([c \in Columns |-> Null])]
    BY DEF RowToAdd, Patched, Rows!Filled
  <2>3. ds.nextid \in { q.id : q \in ds'.table }
    BY <2>1, <2>2
  <2>4. ds.nextid \notin Rows!Ids
    BY <1>1 DEF Rows!Ids, Keyed, Row
  <2>5. Rows!Add
    BY <1>2, <1>3, <2>1, <2>2, <2>3, <2>4 DEF Rows!Add
  <2>6. QED
    BY <2>5 DEF Rows!Next
<1>8. ASSUME Removed(ds, ds') PROVE Rows!Next
  <2>1. CASE OnRow(ds)
    <3>1. /\ r \in ds.table /\ Rows!DraftOf(r.id)
          /\ ds'.table = ds.table \ {r} /\ ds'.edit = NoEdit
      BY <1>2, <1>4, <1>8, <2>1 DEF Removed
    <3>2. Rows!Remove(r)
      BY <1>3, <3>1 DEF Rows!Remove
    <3>3. QED
      BY <3>1, <3>2 DEF Rows!Next
  <2>2. CASE ~OnRow(ds)
    <3>1. RowWhere(ds, ds.counter) = {}
      BY <1>8, <2>2, CurrentFound DEF Removed
    <3>2. QED
      BY <1>5, <1>8, <3>1 DEF Removed
  <2>3. QED
    BY <2>1, <2>2
<1>9. ASSUME EditField PROVE [Rows!Next]_<<ds.table, ds.edit>>
  <2>1. ASSUME ds.enabled, ds'.table = ds.table, NEW c \in Columns, NEW v \in Values,
               ds'.edit = [ds.edit EXCEPT ![c] = [value |-> v, row |-> CurrentRow(ds)]]
        PROVE  Rows!Next
    <3>1. CurrentRow(ds) \in Rows!Ids \cup {NewRow, NoRow}
      <4>1. CASE ds.mode # "insertrow" /\ OnRow(ds)
        BY <1>4, <2>1, <4>1 DEF Rows!Ids
      <4>2. CASE ~(ds.mode # "insertrow" /\ OnRow(ds))
        BY <4>2 DEF CurrentRow
      <4>3. QED
        BY <4>1, <4>2
    <3>2. Rows!Type(CurrentRow(ds), c, v)
      BY <1>2, <2>1 DEF Rows!Type
    <3>3. QED
      BY <3>1, <3>2 DEF Rows!Next
  <2>2. QED
    BY <1>1, <1>9, <2>1, EditFieldFields
<1>10. QED
  BY <1>1, <1>5, <1>6, <1>7, <1>8, <1>9, PlainIsScripted, FormNext
     DEF Step, Kept, Dropped, Deletion

\* The datasource of such a form implements row editing as a user sees it: what
\* is typed belongs to one row, goes into that row or one new row as a whole, and
\* a row is deleted alone.
THEOREM FormImplementsRowEditing ==
  ASSUME PrimaryKey, PlainForm PROVE Spec => ImplementsRowEditing
<1>1. Init => Rows!Init
  BY DEF Init, Fresh, Rows!Init, Rows!Untyped, NoEdit
<1>2. Mirrored(ds) /\ Form(ds) /\ Placed(ds) /\ [Next]_ds
        => [Rows!Next]_<<ds.table, ds.edit>>
  BY StepRefines
<1>3. QED
  BY <1>1, <1>2, PlainIsScripted, AlwaysMirrored, AlwaysForm, AlwaysPlaced, PTL
     DEF Spec, ImplementsRowEditing, Rows!Spec
=============================================================================
