---------------------------- MODULE CopyTableProofs ----------------------------
(***************************************************************************)
(* What copy_table stores are rows of the source, in order and complete,   *)
(* for every source, every driver and whatever server and user answer, if  *)
(* a source read in batch mode was not moved back before (goto_previous).  *)
(***************************************************************************)
EXTENDS CopyTable, TLAPS

Entries == [from : Nat, row : [Columns -> Fields \cup {Null}]]

Targets ==
  [changed : BOOLEAN, ignore : BOOLEAN, new : [Columns -> Fields \cup {Unset}],
   auto : {NoColumn}, from : Nat, stored : Seq(Entries)]

Batches ==
  [open : BOOLEAN, data : Seq(AllRows \cup {Dummy}), previous : BOOLEAN,
   counter : Nat, maxrows : Nat, read : Nat]

Copies ==
  [phase : {"called", "copying", "returned"}, schema : BOOLEAN, loaded : BOOLEAN,
   at : Nat, pos : Nat, blocked : BOOLEAN, r : Nat, cancel : BOOLEAN,
   result : BOOLEAN, refused : SUBSET Nat, goeson : BOOLEAN, bare : BOOLEAN]

Types ==
  /\ driver \in [steps : BOOLEAN, clears : BOOLEAN, knows : BOOLEAN]
  /\ batch \in Batches
  /\ rows \in Seq(AllRows)
  /\ target \in Targets
  /\ copy \in Copies

\* Before the call has begun to copy.
Calling ==
  copy.phase = "called" =>
    /\ target = EmptyTarget(NoColumn)
    /\ ~batch.open /\ ~batch.previous
    /\ copy.r = 0 /\ copy.refused = {}
    /\ ~copy.loaded /\ ~copy.cancel /\ ~copy.result /\ ~copy.goeson
    /\ copy.at = 1 /\ ~copy.blocked

\* The row of the source that is copied next, or the last one.
Coming == IF copy.r < Len(rows) THEN copy.r + 1 ELSE Len(rows)

\* The window shows row n of result r, which has been read last.
OnRowOf(b, r, n) ==
  /\ n \in 1..Len(r)
  /\ b.read = n /\ b.counter = n - 1
  /\ b.maxrows = (IF driver.knows THEN Len(r) ELSE n)
  /\ Len(b.data) = 2 /\ b.data[2] = r[n]

\* The source is on that row, and knows of it.
OnRow ==
  copy.phase = "copying" =>
    /\ copy.loaded /\ rows # <<>> => copy.at = Coming
    /\ ~copy.loaded =>
         /\ batch.open /\ ~batch.previous
         /\ rows = <<>> => batch.maxrows = 0
         /\ rows # <<>> => OnRowOf(batch, rows, Coming)

\* What is pending in the new table, and who knows of it.
Pending ==
  /\ ~target.changed => target.new = NothingNew
  /\ target.changed => copy.goeson
  /\ target.ignore => copy.cancel

\* What has become of the rows that were read.
Arrived ==
  \A k \in 1..copy.r :
    HasValues(rows[k]) =>
      k \in copy.refused \/ \E i \in DOMAIN target.stored : target.stored[i].from = k

Answers ==
  /\ copy.r <= Len(rows)
  /\ copy.refused \subseteq 1..copy.r
  /\ copy.refused = {} \/ copy.goeson \/ copy.cancel
  /\ copy.result => copy.phase = "returned"
  /\ copy.result /\ ~copy.schema => copy.r = Len(rows)
  /\ copy.result => copy.refused = {} \/ copy.goeson

Inv == Types /\ Calling /\ OnRow /\ Pending /\ Answers /\ Arrived /\ CopiedInOrder

-----------------------------------------------------------------------------
(* Storing.                                                                *)

\* The INSERT statement fills every column.
LEMMA InsertedType ==
  ASSUME NEW t \in Targets
  PROVE  Inserted(t) \in [Columns -> Fields \cup {Null}]
  BY BatchWriteAssumption DEF Inserted, Targets

\* reset_changed_data leaves the table as it is.
LEMMA ResetProperties ==
  ASSUME NEW t \in Targets
  PROVE  /\ ResetChangedData(t) \in Targets
         /\ ~ResetChangedData(t).changed
         /\ ResetChangedData(t).new = NothingNew
         /\ ResetChangedData(t).ignore = t.ignore
         /\ ResetChangedData(t).stored = t.stored
  BY DEF ResetChangedData, NothingNew, Targets

\* store_changed_data with nothing to store, or with the ignore flag.
LEMMA StoreNothing ==
  ASSUME NEW t \in Targets, NEW accepted \in BOOLEAN, t.ignore \/ ~t.changed
  PROVE  LET s == StoreChangedData(t, accepted) IN
         /\ s.ok /\ s.target \in Targets
         /\ ~s.target.changed /\ s.target.new = NothingNew /\ ~s.target.ignore
         /\ s.target.stored = t.stored
<1>1. StoreChangedData(t, accepted)
        = [ok |-> TRUE, target |-> [ResetChangedData(t) EXCEPT !.ignore = FALSE]]
  BY DEF StoreChangedData
<1>2. ResetChangedData(t) \in Targets
  BY ResetProperties
<1>3. [ResetChangedData(t) EXCEPT !.ignore = FALSE] \in Targets
  BY <1>2 DEF Targets
<1> QED
  BY <1>1, <1>2, <1>3, ResetProperties DEF Targets

\* store_changed_data of a row the server takes.
LEMMA StoreAccepted ==
  ASSUME NEW t \in Targets, ~t.ignore, t.changed
  PROVE  LET s == StoreChangedData(t, TRUE) IN
         /\ s.ok /\ s.target \in Targets
         /\ ~s.target.changed /\ s.target.new = NothingNew /\ ~s.target.ignore
         /\ s.target.stored = Append(t.stored, [from |-> t.from, row |-> Inserted(t)])
<1> DEFINE stored == Append(t.stored, [from |-> t.from, row |-> Inserted(t)])
<1>1. StoreChangedData(t, TRUE)
        = [ok |-> TRUE, target |-> [ResetChangedData(t) EXCEPT !.stored = stored]]
  <2>1. ResetChangedData(t).stored = t.stored
    BY ResetProperties
  <2> QED
    BY <2>1 DEF StoreChangedData, ResetChangedData
<1>2. [from |-> t.from, row |-> Inserted(t)] \in Entries
  BY InsertedType DEF Entries, Targets
<1>3. stored \in Seq(Entries)
  BY <1>2 DEF Targets
<1> HIDE DEF stored
<1>4. ResetChangedData(t) \in Targets
  BY ResetProperties
<1>5. [ResetChangedData(t) EXCEPT !.stored = stored] \in Targets
  BY <1>3, <1>4 DEF Targets
<1>6. ~[ResetChangedData(t) EXCEPT !.stored = stored].ignore
  BY <1>4, ResetProperties DEF Targets
<1>7. /\ [ResetChangedData(t) EXCEPT !.stored = stored].stored = stored
      /\ ~[ResetChangedData(t) EXCEPT !.stored = stored].changed
      /\ [ResetChangedData(t) EXCEPT !.stored = stored].new = NothingNew
  BY <1>4, ResetProperties DEF Targets
<1> DEFINE u == [ResetChangedData(t) EXCEPT !.stored = stored]
<1>8. /\ u \in Targets /\ u.stored = stored
      /\ ~u.changed /\ u.new = NothingNew /\ ~u.ignore
  BY <1>5, <1>6, <1>7
<1>9. StoreChangedData(t, TRUE) = [ok |-> TRUE, target |-> u]
  BY <1>1
<1>10. stored = Append(t.stored, [from |-> t.from, row |-> Inserted(t)])
  BY DEF stored
<1> HIDE DEF u
<1>11. ASSUME NEW s, s = [ok |-> TRUE, target |-> u]
       PROVE  /\ s.ok /\ s.target \in Targets
              /\ ~s.target.changed /\ s.target.new = NothingNew /\ ~s.target.ignore
              /\ s.target.stored = Append(t.stored, [from |-> t.from, row |-> Inserted(t)])
  <2>1. s.ok /\ s.target = u
    BY <1>11
  <2> QED
    BY <2>1, <1>8, <1>10
<1> QED
  BY <1>9, <1>11

\* store_changed_data of a row the server refuses.
LEMMA StoreRefused ==
  ASSUME NEW t \in Targets, ~t.ignore, t.changed
  PROVE  ~StoreChangedData(t, FALSE).ok /\ StoreChangedData(t, FALSE).target = t
  BY DEF StoreChangedData

\* setmode_insertrow may store what is pending; it keeps what is refused and
\* drops what the user does not want.
LEMMA SetmodeProperties ==
  ASSUME NEW t \in Targets, NEW n \in Nat, NEW wanted \in BOOLEAN, NEW accepted \in BOOLEAN, ~t.ignore,
         ~t.changed => t.new = NothingNew
  PROVE  LET m == SetmodeInsertrow(t, n, wanted, accepted) IN
         /\ m \in Targets /\ m.from = n /\ ~m.ignore
         /\ ~m.changed => m.new = NothingNew
         /\ ~t.changed => ~m.changed /\ m.stored = t.stored
         /\ \/ m.stored = t.stored
            \/ m.stored = Append(t.stored, [from |-> t.from, row |-> Inserted(t)])
<1> DEFINE s == IF ~t.changed THEN t
               ELSE IF wanted THEN StoreChangedData(t, accepted).target
               ELSE ResetChangedData(t)
<1>1. SetmodeInsertrow(t, n, wanted, accepted) = [s EXCEPT !.from = n]
  BY DEF SetmodeInsertrow
<1>2. /\ s \in Targets /\ ~s.ignore
      /\ ~s.changed => s.new = NothingNew
      /\ ~t.changed => ~s.changed /\ s.stored = t.stored
      /\ \/ s.stored = t.stored
         \/ s.stored = Append(t.stored, [from |-> t.from, row |-> Inserted(t)])
  <2>1. CASE ~t.changed
    BY <2>1
  <2>2. CASE t.changed /\ wanted /\ accepted = TRUE
    BY <2>2, StoreAccepted
  <2>3. CASE t.changed /\ wanted /\ accepted = FALSE
    BY <2>3, StoreRefused
  <2>4. CASE t.changed /\ ~wanted
    BY <2>4, ResetProperties
  <2> QED
    BY <2>1, <2>2, <2>3, <2>4
<1> HIDE DEF s
<1> QED
  BY <1>1, <1>2 DEF Targets

\* What is entered into a row with nothing pending is the row of the source.
LEMMA EnterProperties ==
  ASSUME NEW t \in Targets, NEW row \in AllRows
  PROVE  LET e == EnterRow(t, row) IN
         /\ e \in Targets /\ e.from = t.from /\ e.ignore = t.ignore
         /\ e.stored = t.stored
         /\ HasValues(row) => e.changed
         /\ ~e.changed /\ t.new = NothingNew => e.new = NothingNew
         /\ ~e.changed => ~t.changed
         /\ ~t.changed /\ t.new = NothingNew => Inserted(e) = Copied(row)
<1> DEFINE new == [c \in Columns |-> IF Shows(row[c]) THEN row[c] ELSE t.new[c]]
           changed == t.changed \/ \E c \in Columns : Shows(row[c])
<1>1. EnterRow(t, row) = [t EXCEPT !.new = new, !.changed = changed]
  BY DEF EnterRow, Targets
<1>2. \A c \in Columns : row[c] \in Fields /\ row[c] # Unset
  BY CopyAssumption
<1>3. new \in [Columns -> Fields \cup {Unset}] /\ changed \in BOOLEAN
  BY <1>2 DEF Targets
<1>4. changed <=> t.changed \/ HasValues(row)
  BY DEF HasValues
<1>5. ASSUME t.new = NothingNew, ~HasValues(row) PROVE new = NothingNew
  BY <1>5 DEF HasValues, NothingNew
<1>6. ASSUME t.new = NothingNew
      PROVE  [c \in Columns |-> IF new[c] # Unset THEN new[c]
                                ELSE IF c = NoColumn THEN Assigned ELSE Null]
               = Copied(row)
  BY <1>2, <1>6, BatchWriteAssumption DEF Copied, NothingNew
<1> HIDE DEF new, changed
<1>7. /\ EnterRow(t, row) \in Targets
      /\ EnterRow(t, row).new = new /\ EnterRow(t, row).changed = changed
      /\ EnterRow(t, row).from = t.from /\ EnterRow(t, row).ignore = t.ignore
      /\ EnterRow(t, row).stored = t.stored /\ EnterRow(t, row).auto = NoColumn
  BY <1>1, <1>3 DEF Targets
<1>8. t.new = NothingNew => Inserted(EnterRow(t, row)) = Copied(row)
  BY <1>6, <1>7 DEF Inserted
<1> QED
  BY <1>4, <1>5, <1>7, <1>8

-----------------------------------------------------------------------------
(* The source.                                                             *)

\* insert_data puts the new row behind the one that is kept.
LEMMA InsertProperties ==
  ASSUME NEW data \in Seq(AllRows \cup {Dummy}), NEW row \in AllRows
  PROVE  /\ Insert(data, row) \in Seq(AllRows \cup {Dummy})
         /\ Len(Insert(data, row)) = 2 /\ Insert(data, row)[2] = row
<1>1. data # <<>> => data[Len(data)] \in AllRows \cup {Dummy}
  OBVIOUS
<1>2. (IF data = <<>> THEN Dummy ELSE data[Len(data)]) \in AllRows \cup {Dummy}
  BY <1>1
<1> QED
  BY <1>2 DEF Insert

\* A row that arrives becomes the one that is shown.
LEMMA FetchedProperties ==
  ASSUME Types, NEW b \in Batches, NEW r \in Seq(AllRows), b.read + 1 \in 1..Len(r)
  PROVE  LET f == Fetched(b, r) IN
         /\ f \in Batches /\ f.open = b.open /\ f.previous = b.previous
         /\ f.counter = b.counter /\ f.read = b.read + 1
         /\ f.maxrows = (IF driver.knows THEN Len(r) ELSE b.maxrows + 1)
         /\ Len(f.data) = 2 /\ f.data[2] = r[b.read + 1]
<1> DEFINE data == Insert(b.data, r[b.read + 1])
           max == IF driver.knows THEN Len(r) ELSE b.maxrows + 1
<1>1. r[b.read + 1] \in AllRows
  OBVIOUS
<1>2. data \in Seq(AllRows \cup {Dummy}) /\ Len(data) = 2 /\ data[2] = r[b.read + 1]
  BY <1>1, InsertProperties DEF Batches
<1>3. max \in Nat /\ b.read + 1 \in Nat
  BY DEF Batches
<1>4. Fetched(b, r) = [b EXCEPT !.read = b.read + 1, !.data = data, !.maxrows = max]
  BY DEF Fetched, Batches
<1>5. max = (IF driver.knows THEN Len(r) ELSE b.maxrows + 1)
  OBVIOUS
<1> HIDE DEF data, max
<1>6. ASSUME NEW f, f = [b EXCEPT !.read = b.read + 1, !.data = data, !.maxrows = max]
      PROVE  /\ f \in Batches /\ f.open = b.open /\ f.previous = b.previous
             /\ f.counter = b.counter /\ f.read = b.read + 1
             /\ f.maxrows = max /\ f.data = data
  BY <1>2, <1>3, <1>6 DEF Batches
<1> QED
  BY <1>2, <1>4, <1>5, <1>6

\* enable() leaves the source on its first row.
LEMMA EnableSource ==
  ASSUME Types, Enable, ~batch.open, ~batch.previous
  PROVE  /\ batch' \in Batches /\ rows' \in Seq(AllRows)
         /\ batch'.open /\ ~batch'.previous
         /\ rows' = <<>> => batch'.maxrows = 0
         /\ rows' # <<>> => OnRowOf(batch', rows', 1)
<1> DEFINE b == [batch EXCEPT !.open = TRUE, !.counter = 0, !.maxrows = 0, !.read = 0]
<1>1. PICK r \in Results : rows' = r /\ batch' = IF r = <<>> THEN b ELSE Fetched(b, r)
  BY DEF Enable
<1>2. r \in Seq(AllRows)
  BY BatchAssumption
<1>3. /\ b \in Batches /\ b.open /\ ~b.previous
      /\ b.counter = 0 /\ b.maxrows = 0 /\ b.read = 0
  BY DEF Types, Batches
<1> HIDE DEF b
<1>4. CASE r = <<>>
  BY <1>1, <1>2, <1>3, <1>4
<1>5. CASE r # <<>>
  <2>1. b.read + 1 \in 1..Len(r)
    BY <1>2, <1>3, <1>5
  <2>2. batch' = Fetched(b, r) /\ rows' = r
    BY <1>1, <1>5
  <2>3. /\ Fetched(b, r) \in Batches /\ Fetched(b, r).open = b.open
        /\ Fetched(b, r).previous = b.previous
        /\ Fetched(b, r).counter = b.counter /\ Fetched(b, r).read = b.read + 1
        /\ Fetched(b, r).maxrows = (IF driver.knows THEN Len(r) ELSE b.maxrows + 1)
        /\ Len(Fetched(b, r).data) = 2 /\ Fetched(b, r).data[2] = r[b.read + 1]
    BY <1>2, <1>3, <2>1, FetchedProperties
  <2> QED
    BY <1>2, <1>3, <1>5, <2>1, <2>2, <2>3 DEF OnRowOf
<1> QED
  BY <1>4, <1>5

\* goto_next leads to the next row, if there is one.
LEMMA NextSource ==
  ASSUME Types, GotoNext, ~batch.previous, batch.open,
         NEW n \in Nat, OnRowOf(batch, rows, n)
  PROVE  /\ batch' \in Batches /\ rows' = rows
         /\ batch'.open /\ ~batch'.previous
         /\ OnRowOf(batch', rows, IF n < Len(rows) THEN n + 1 ELSE n)
<1>1. rows' = rows
  BY DEF GotoNext
<1>2. CASE n < Len(rows)
  <2>1. batch.read + 1 \in 1..Len(rows) /\ rows \in Seq(AllRows) /\ batch \in Batches
    BY <1>2 DEF OnRowOf, Types
  <2>2. batch' = [Fetched(batch, rows) EXCEPT !.counter = @ + 1]
    BY <1>2 DEF GotoNext, OnRowOf
  <2>3. ASSUME NEW f, f = Fetched(batch, rows), f \in Batches
        PROVE  /\ [f EXCEPT !.counter = @ + 1] \in Batches
               /\ [f EXCEPT !.counter = @ + 1].counter = f.counter + 1
               /\ [f EXCEPT !.counter = @ + 1].open = f.open
               /\ [f EXCEPT !.counter = @ + 1].previous = f.previous
               /\ [f EXCEPT !.counter = @ + 1].read = f.read
               /\ [f EXCEPT !.counter = @ + 1].maxrows = f.maxrows
               /\ [f EXCEPT !.counter = @ + 1].data = f.data
    BY <2>3 DEF Batches
  <2>4. /\ Fetched(batch, rows) \in Batches /\ Fetched(batch, rows).open = batch.open
        /\ Fetched(batch, rows).previous = batch.previous
        /\ Fetched(batch, rows).counter = batch.counter
        /\ Fetched(batch, rows).read = batch.read + 1
        /\ Fetched(batch, rows).maxrows
             = (IF driver.knows THEN Len(rows) ELSE batch.maxrows + 1)
        /\ Len(Fetched(batch, rows).data) = 2
        /\ Fetched(batch, rows).data[2] = rows[batch.read + 1]
    BY <2>1, FetchedProperties
  <2>5. /\ batch' \in Batches /\ batch'.open /\ ~batch'.previous
        /\ batch'.counter = batch.counter + 1 /\ batch'.read = batch.read + 1
        /\ batch'.maxrows = (IF driver.knows THEN Len(rows) ELSE batch.maxrows + 1)
        /\ Len(batch'.data) = 2 /\ batch'.data[2] = rows[batch.read + 1]
    BY <2>2, <2>3, <2>4
  <2> QED
    BY <1>1, <1>2, <2>1, <2>5 DEF OnRowOf
<1>3. CASE ~(n < Len(rows))
  <2>1. batch' = batch
    BY <1>3 DEF GotoNext, OnRowOf, Types
  <2> QED
    BY <1>1, <1>3, <2>1 DEF Types
<1> QED
  BY <1>2, <1>3

\* What the loop sees: it goes on as long as there are rows, and the fields
\* show the row it has come to.
LEMMA ReadingRow ==
  ASSUME Inv, copy.phase = "copying"
  PROVE  /\ copy.r < SourceRows <=> copy.r < Len(rows)
         /\ copy.r < Len(rows) => SourceRow = rows[copy.r + 1]
<1>1. copy.r \in Nat /\ Len(rows) \in Nat /\ copy.r <= Len(rows) /\ rows \in Seq(AllRows)
  BY DEF Inv, Types, Copies, Answers
<1>2. CASE copy.loaded
  BY <1>1, <1>2 DEF Inv, OnRow, Coming, SourceRow, SourceRows
<1>3. CASE ~copy.loaded /\ rows = <<>>
  BY <1>1, <1>3 DEF Inv, OnRow, SourceRows
<1>4. CASE ~copy.loaded /\ rows # <<>>
  <2>1. OnRowOf(batch, rows, Coming) /\ batch.open /\ ~batch.previous
    BY <1>4 DEF Inv, OnRow
  <2>2. batch.maxrows = (IF driver.knows THEN Len(rows) ELSE Coming)
    BY <2>1 DEF OnRowOf
  <2>3. copy.r < SourceRows <=> copy.r < Len(rows)
    BY <1>1, <1>4, <2>2 DEF SourceRows, Coming
  <2>4. ASSUME copy.r < Len(rows) PROVE SourceRow = rows[copy.r + 1]
    BY <1>1, <1>4, <2>1, <2>4 DEF OnRowOf, SourceRow, Coming, Shown, ColumnData
  <2> QED
    BY <2>3, <2>4
<1> QED
  BY <1>2, <1>3, <1>4

-----------------------------------------------------------------------------
(* The copy.                                                               *)

\* stored is a copy, in order, of some of the first n rows of r but those in
\* refused.
InOrder(stored, r, n, refused) ==
  /\ \A i \in DOMAIN stored :
       /\ stored[i].from \in 1..n /\ stored[i].row = Copied(r[stored[i].from])
       /\ stored[i].from \notin refused
  /\ \A i, j \in DOMAIN stored : i < j => stored[i].from < stored[j].from

\* The rows of r up to the n-th that have values are stored or refused.
Complete(stored, r, n, refused) ==
  \A k \in 1..n : HasValues(r[k]) =>
    k \in refused \/ \E i \in DOMAIN stored : stored[i].from = k

\* The properties, in these words.
LEMMA InTheseWords ==
  /\ CopiedInOrder <=> (~copy.goeson => InOrder(target.stored, rows, copy.r, copy.refused))
  /\ Arrived <=> Complete(target.stored, rows, copy.r, copy.refused)
  BY DEF CopiedInOrder, CopiedFieldByField, IsCopied, InOrder, Arrived, Complete

\* What an INSERT adds comes behind what is there.
LEMMA AppendKeeps ==
  ASSUME NEW stored \in Seq(Entries), NEW entry \in Entries
  PROVE  /\ DOMAIN Append(stored, entry) = 1..(Len(stored) + 1)
         /\ DOMAIN stored = 1..Len(stored)
         /\ \A i \in DOMAIN stored : Append(stored, entry)[i] = stored[i]
         /\ Append(stored, entry)[Len(stored) + 1] = entry
  OBVIOUS

\* A row that is added takes none away.
LEMMA CompleteKept ==
  ASSUME NEW stored \in Seq(Entries), NEW entry \in Entries, NEW r, NEW n \in Nat,
         NEW refused, Complete(stored, r, n, refused)
  PROVE  Complete(Append(stored, entry), r, n, refused)
  BY AppendKeeps DEF Complete

\* The next row is passed over, refused or stored.
LEMMA CompleteNext ==
  ASSUME NEW stored \in Seq(Entries), NEW r, NEW n \in Nat, NEW refused,
         Complete(stored, r, n, refused)
  PROVE  /\ ~HasValues(r[n + 1]) => Complete(stored, r, n + 1, refused)
         /\ Complete(stored, r, n + 1, refused \cup {n + 1})
         /\ \A entry \in Entries : entry.from = n + 1 =>
              Complete(Append(stored, entry), r, n + 1, refused)
<1>1. \A k \in 1..(n + 1) : k \in 1..n \/ k = n + 1
  OBVIOUS
<1>2. ~HasValues(r[n + 1]) => Complete(stored, r, n + 1, refused)
  BY <1>1 DEF Complete
<1>3. Complete(stored, r, n + 1, refused \cup {n + 1})
  BY <1>1 DEF Complete
<1>4. ASSUME NEW entry \in Entries, entry.from = n + 1
      PROVE  Complete(Append(stored, entry), r, n + 1, refused)
  <2>1. Complete(Append(stored, entry), r, n, refused)
    BY CompleteKept
  <2>2. /\ Len(stored) + 1 \in DOMAIN Append(stored, entry)
        /\ Append(stored, entry)[Len(stored) + 1].from = n + 1
    BY <1>4, AppendKeeps
  <2> QED
    BY <1>1, <2>1, <2>2 DEF Complete
<1> QED
  BY <1>2, <1>3, <1>4

\* The next row keeps the order.
LEMMA InOrderNext ==
  ASSUME NEW stored \in Seq(Entries), NEW r, NEW n \in Nat, NEW refused \in SUBSET (1..n),
         InOrder(stored, r, n, refused)
  PROVE  /\ InOrder(stored, r, n + 1, refused)
         /\ InOrder(stored, r, n + 1, refused \cup {n + 1})
         /\ \A entry \in Entries : entry.from = n + 1 /\ entry.row = Copied(r[n + 1]) =>
              InOrder(Append(stored, entry), r, n + 1, refused)
<1>1. \A i \in DOMAIN stored : stored[i].from \in 1..n
  BY DEF InOrder
<1>2. InOrder(stored, r, n + 1, refused)
  BY DEF InOrder
<1>3. InOrder(stored, r, n + 1, refused \cup {n + 1})
  BY <1>1 DEF InOrder
<1>4. ASSUME NEW entry \in Entries, entry.from = n + 1, entry.row = Copied(r[n + 1])
      PROVE  InOrder(Append(stored, entry), r, n + 1, refused)
  <2> DEFINE more == Append(stored, entry)
             last == Len(stored) + 1
  <2>1. /\ DOMAIN more = 1..last /\ DOMAIN stored = 1..Len(stored) /\ more[last] = entry
        /\ \A i \in DOMAIN stored : more[i] = stored[i]
    BY AppendKeeps
  <2>2. Len(stored) \in Nat
    OBVIOUS
  <2> HIDE DEF more
  <2>3. \A i \in DOMAIN more : i \in DOMAIN stored \/ i = last
    BY <2>1, <2>2
  <2>4. ASSUME NEW i \in DOMAIN more
        PROVE  /\ more[i].from \in 1..(n + 1) /\ more[i].row = Copied(r[more[i].from])
               /\ more[i].from \notin refused
    <3>1. CASE i \in DOMAIN stored
      BY <1>1, <2>1, <3>1 DEF InOrder
    <3>2. CASE i = last
      BY <1>4, <2>1, <3>2
    <3> QED
      BY <2>3, <3>1, <3>2
  <2>5. ASSUME NEW i \in DOMAIN more, NEW j \in DOMAIN more, i < j
        PROVE  more[i].from < more[j].from
    <3>1. i \in DOMAIN stored
      BY <2>1, <2>2, <2>5
    <3>2. CASE j \in DOMAIN stored
      BY <2>1, <2>5, <3>1, <3>2 DEF InOrder
    <3>3. CASE j = last
      BY <1>1, <1>4, <2>1, <3>1, <3>3
    <3> QED
      BY <2>3, <3>2, <3>3
  <2>6. InOrder(more, r, n + 1, refused)
    BY <2>4, <2>5 DEF InOrder
  <2> QED
    BY <2>6 DEF more
<1> QED
  BY <1>2, <1>3, <1>4

\* The call begins with an empty table and nothing read.
LEMMA InvInit ==
  ASSUME ~SteppedBefore
  PROVE  Init => Inv
<1> SUFFICES ASSUME Init PROVE Inv
  OBVIOUS
<1>1. <<>> \in Seq(AllRows) /\ <<>> \in Seq(AllRows \cup {Dummy}) /\ <<>> \in Seq(Entries)
  OBVIOUS
<1>2. NothingNew \in [Columns -> Fields \cup {Unset}]
  BY DEF NothingNew
<1>3. EmptyTarget(NoColumn) \in Targets
  BY <1>1, <1>2 DEF EmptyTarget, Targets
<1>4. Types
  BY <1>1, <1>3, BatchAssumption DEF Init, BatchInit, Types, Batches, Copies
<1>5. Calling /\ OnRow /\ Pending
  BY DEF Init, BatchInit, Calling, OnRow, Pending, EmptyTarget
<1>6. Answers /\ Arrived
  BY DEF Init, BatchInit, Answers, Arrived, EmptyTarget
<1>7. CopiedInOrder
  BY DEF Init, EmptyTarget, CopiedInOrder, CopiedFieldByField
<1> QED
  BY <1>4, <1>5, <1>6, <1>7 DEF Inv

\* A return before the first row leaves no more than an empty table.
LEMMA ReturnsEarly ==
  ASSUME Inv, NotCreated \/ SchemaOnly \/ NoColumns
  PROVE  Inv'
<1>1. /\ UNCHANGED <<driver, rows, batch, target>>
      /\ copy' \in Copies /\ copy'.phase = "returned" /\ copy'.r = copy.r
      /\ copy'.refused = copy.refused /\ copy'.goeson = copy.goeson
      /\ copy'.cancel = copy.cancel
      /\ copy'.result => copy'.schema
  BY ZenonT(40) DEF NotCreated, SchemaOnly, NoColumns, Inv, Types, Copies, Answers
<1>2. Types' /\ Calling' /\ OnRow' /\ Pending'
  BY <1>1 DEF Inv, Types, Calling, OnRow, Pending
<1>3. copy.result = FALSE /\ copy.r = 0
  BY DEF NotCreated, SchemaOnly, NoColumns, Inv, Types, Copies, Answers, Calling
<1>4. copy'.refused = {}
  BY <1>1, <1>3 DEF Inv, Answers
<1>5. Answers'
  BY <1>1, <1>3, <1>4 DEF Inv, Answers
<1>6. Arrived' /\ CopiedInOrder'
  BY <1>1 DEF Inv, Arrived, CopiedInOrder, CopiedFieldByField, IsCopied
<1> QED
  BY <1>2, <1>5, <1>6 DEF Inv

\* The source is enabled, or rewound.
LEMMA SourceReady ==
  ASSUME Inv, OpenSource \/ RewindSource
  PROVE  Inv'
<1>1. /\ UNCHANGED <<driver, target>> /\ copy.phase = "called"
      /\ copy' \in Copies /\ copy'.phase = "copying" /\ copy'.r = copy.r /\ copy'.at = copy.at
      /\ copy'.refused = copy.refused /\ copy'.goeson = copy.goeson
      /\ copy'.cancel = copy.cancel /\ copy'.result = copy.result
  <2>1. CASE OpenSource
    BY <2>1 DEF OpenSource, Inv, Types, Copies
  <2>2. CASE RewindSource
    <3>1. PICK r \in Results : \E pos \in 1..(IF r = <<>> THEN 1 ELSE Len(r)) :
            copy' = [copy EXCEPT !.phase = "copying", !.blocked = TRUE,
                                 !.loaded = TRUE, !.pos = pos]
      BY <2>2 DEF RewindSource
    <3>2. (IF r = <<>> THEN 1 ELSE Len(r)) \in Nat
      BY BatchAssumption
    <3>3. PICK pos \in 1..(IF r = <<>> THEN 1 ELSE Len(r)) :
            copy' = [copy EXCEPT !.phase = "copying", !.blocked = TRUE,
                                 !.loaded = TRUE, !.pos = pos]
      BY <3>1
    <3>4. pos \in Nat
      BY <3>2, <3>3
    <3>5. UNCHANGED <<driver, target>> /\ copy.phase = "called"
      BY <2>2 DEF RewindSource
    <3>6. copy \in Copies
      BY DEF Inv, Types
    <3> QED
      BY <3>3, <3>4, <3>5, <3>6 DEF Copies
  <2> QED
    BY <2>1, <2>2
<1>2. /\ target = EmptyTarget(NoColumn) /\ ~batch.open /\ ~batch.previous
      /\ copy.r = 0 /\ copy.refused = {} /\ ~copy.loaded /\ ~copy.cancel
      /\ ~copy.result /\ ~copy.goeson /\ copy.at = 1
  BY <1>1 DEF Inv, Calling
<1>3. /\ batch' \in Batches /\ rows' \in Seq(AllRows) /\ OnRow'
  <2>1. CASE OpenSource
    <3>1. Enable /\ ~copy'.loaded
      BY <1>1, <1>2, <2>1 DEF OpenSource, Inv, Types, Copies
    <3>2. /\ batch' \in Batches /\ rows' \in Seq(AllRows) /\ batch'.open /\ ~batch'.previous
          /\ rows' = <<>> => batch'.maxrows = 0
          /\ rows' # <<>> => OnRowOf(batch', rows', 1)
      BY <1>2, <3>1, EnableSource DEF Inv
    <3>3. rows' # <<>> => Coming' = 1
      BY <1>1, <1>2, <3>2 DEF Coming
    <3>4. OnRowOf(batch', rows', 1) => OnRowOf(batch, rows, 1)'
      BY <1>1 DEF OnRowOf
    <3> QED
      BY <1>1, <3>1, <3>2, <3>3, <3>4 DEF OnRow, OnRowOf
  <2>2. CASE RewindSource
    <3>1. PICK r \in Results : rows' = r
      BY <2>2 DEF RewindSource
    <3>2. rows' \in Seq(AllRows)
      BY <3>1, BatchAssumption
    <3>3. copy'.loaded /\ batch' = batch
      BY <2>2 DEF RewindSource, Inv, Types, Copies
    <3>4. rows' # <<>> => Coming' = 1
      BY <1>1, <1>2, <3>2 DEF Coming
    <3> QED
      BY <1>1, <1>2, <3>2, <3>3, <3>4 DEF OnRow, Inv, Types
  <2> QED
    BY <2>1, <2>2
<1>4. Types' /\ Calling' /\ Pending'
  BY <1>1, <1>2, <1>3 DEF Inv, Types, Calling, Pending
<1>5. Answers' /\ Arrived'
  BY <1>1, <1>2, <1>3 DEF Answers, Arrived
<1>6. CopiedInOrder'
  BY <1>1, <1>2 DEF CopiedInOrder, CopiedFieldByField, EmptyTarget
<1> QED
  BY <1>3, <1>4, <1>5, <1>6 DEF Inv

\* One turn of the loop: the row is stored, refused or passed over, and the
\* source goes to the next.
LEMMA CopiesRow ==
  ASSUME Inv, CopyRow
  PROVE  Inv'
<1>1. PICK wanted \in BOOLEAN, retried \in BOOLEAN, accepted \in BOOLEAN,
           cancelled \in BOOLEAN, go \in BOOLEAN :
        LET e == EnterRow(SetmodeInsertrow(target, copy.r + 1, wanted, retried), SourceRow)
            s == StoreChangedData(e, accepted)
        IN  /\ target' = IF s.ok \/ go THEN s.target ELSE SetIgnoreChangedData(s.target)
            /\ copy' = [copy EXCEPT
                 !.r = @ + 1,
                 !.at = IF copy.loaded /\ @ < Len(rows) THEN @ + 1 ELSE @,
                 !.cancel = cancelled \/ (~s.ok /\ ~go),
                 !.refused = IF s.ok THEN @ ELSE @ \cup {copy.r + 1},
                 !.goeson = @ \/ (~s.ok /\ go)]
  BY DEF CopyRow
<1> DEFINE n == copy.r + 1
           m == SetmodeInsertrow(target, n, wanted, retried)
           e == EnterRow(m, SourceRow)
           entry == [from |-> n, row |-> Inserted(e)]
<1>2. /\ copy.phase = "copying" /\ ~copy.cancel /\ driver' = driver
      /\ copy.r \in Nat /\ n \in Nat /\ n <= Len(rows)
      /\ SourceRow = rows[n] /\ rows[n] \in AllRows
      /\ copy \in Copies /\ target \in Targets /\ rows \in Seq(AllRows)
  <2>1. copy.phase = "copying" /\ ~copy.cancel /\ driver' = driver /\ copy.r < SourceRows
    BY DEF CopyRow
  <2>2. /\ copy.r \in Nat /\ copy \in Copies /\ target \in Targets
        /\ rows \in Seq(AllRows)
    BY DEF Inv, Types, Copies
  <2>3. copy.r < Len(rows) /\ SourceRow = rows[n]
    BY <2>1, ReadingRow
  <2> QED
    BY <2>1, <2>2, <2>3
<1>3. ~target.ignore /\ (~target.changed => target.new = NothingNew)
      /\ (target.changed => copy.goeson)
  BY <1>2 DEF Inv, Pending
<1>4. /\ m \in Targets /\ m.from = n /\ ~m.ignore
      /\ ~m.changed => m.new = NothingNew
      /\ ~copy.goeson => ~m.changed /\ m.stored = target.stored
      /\ \/ m.stored = target.stored
         \/ m.stored = Append(target.stored, [from |-> target.from, row |-> Inserted(target)])
  <2> HIDE DEF n
  <2>1. /\ m \in Targets /\ m.from = n /\ ~m.ignore
        /\ ~m.changed => m.new = NothingNew
        /\ ~target.changed => ~m.changed /\ m.stored = target.stored
        /\ \/ m.stored = target.stored
           \/ m.stored = Append(target.stored, [from |-> target.from, row |-> Inserted(target)])
    BY <1>2, <1>3, SetmodeProperties
  <2> HIDE DEF m
  <2> QED
    BY <1>3, <2>1
<1> HIDE DEF m
<1>5. /\ e \in Targets /\ e.from = n /\ ~e.ignore /\ e.stored = m.stored
      /\ HasValues(rows[n]) => e.changed
      /\ ~e.changed => e.new = NothingNew
      /\ ~copy.goeson => Inserted(e) = Copied(rows[n])
  <2>1. ~e.changed => ~m.changed
    BY <1>2, <1>4, EnterProperties
  <2> QED
    BY <1>2, <1>4, <2>1, EnterProperties
<1>6. entry \in Entries /\ entry.from = n /\ entry.row = Inserted(e)
  BY <1>2, <1>5, InsertedType DEF Entries
<1> HIDE DEF e
<1> DEFINE Step(ok, t) ==
      /\ target' = IF ok \/ go THEN t ELSE SetIgnoreChangedData(t)
      /\ copy' = [copy EXCEPT
           !.r = @ + 1,
           !.at = IF copy.loaded /\ @ < Len(rows) THEN @ + 1 ELSE @,
           !.cancel = cancelled \/ (~ok /\ ~go),
           !.refused = IF ok THEN @ ELSE @ \cup {copy.r + 1},
           !.goeson = @ \/ (~ok /\ go)]
<1>7. Step(StoreChangedData(e, accepted).ok, StoreChangedData(e, accepted).target)
  BY <1>1 DEF e, m
<1>8. \E ok \in BOOLEAN : \E t \in Targets :
        /\ Step(ok, t) /\ ~t.ignore
        /\ ok => ~t.changed /\ t.new = NothingNew
        /\ ~ok => t = e
        /\ \/ t.stored = e.stored /\ (ok => ~e.changed)
           \/ ok /\ t.stored = Append(e.stored, entry)
  <2>1. CASE ~e.changed
    <3>1. LET s == StoreChangedData(e, accepted) IN
            /\ s.ok /\ s.target \in Targets
            /\ ~s.target.changed /\ s.target.new = NothingNew /\ ~s.target.ignore
            /\ s.target.stored = e.stored
      BY <1>5, <2>1, StoreNothing
    <3>2. Step(TRUE, StoreChangedData(e, accepted).target)
      BY <1>7, <3>1
    <3> HIDE DEF Step
    <3> QED
      BY <2>1, <3>1, <3>2
  <2>2. CASE e.changed /\ accepted = TRUE
    <3>1. LET s == StoreChangedData(e, accepted) IN
            /\ s.ok /\ s.target \in Targets
            /\ ~s.target.changed /\ s.target.new = NothingNew /\ ~s.target.ignore
            /\ s.target.stored = Append(e.stored, entry)
      BY <1>5, <2>2, StoreAccepted
    <3>2. Step(TRUE, StoreChangedData(e, accepted).target)
      BY <1>7, <3>1
    <3> HIDE DEF Step, entry
    <3> QED
      BY <3>1, <3>2
  <2>3. CASE e.changed /\ accepted = FALSE
    <3>1. ~StoreChangedData(e, accepted).ok /\ StoreChangedData(e, accepted).target = e
      BY <1>5, <2>3, StoreRefused
    <3>2. Step(FALSE, e)
      BY <1>7, <3>1
    <3> HIDE DEF Step
    <3> QED
      BY <1>5, <3>2
  <2> QED
    BY <2>1, <2>2, <2>3
<1>9. PICK ok \in BOOLEAN : \E t \in Targets :
        /\ Step(ok, t) /\ ~t.ignore
        /\ ok => ~t.changed /\ t.new = NothingNew
        /\ ~ok => t = e
        /\ \/ t.stored = e.stored /\ (ok => ~e.changed)
           \/ ok /\ t.stored = Append(e.stored, entry)
  BY <1>8
<1>10. PICK t \in Targets :
        /\ Step(ok, t) /\ ~t.ignore
        /\ ok => ~t.changed /\ t.new = NothingNew
        /\ ~ok => t = e
        /\ \/ t.stored = e.stored /\ (ok => ~e.changed)
           \/ ok /\ t.stored = Append(e.stored, entry)
  BY <1>9
<1>11. /\ target' \in Targets /\ target'.stored = t.stored
       /\ target'.changed => t.changed /\ go
       /\ ~target'.changed => target'.new = NothingNew
       /\ target'.ignore <=> ~ok /\ ~go
  <2>1. CASE ok \/ go
    <3>1. target' = t
      BY <1>10, <2>1
    <3>2. ~t.changed => t.new = NothingNew
      BY <1>5, <1>10
    <3> HIDE DEF Step
    <3> QED
      BY <1>10, <2>1, <3>1, <3>2
  <2>2. CASE ~ok /\ ~go
    <3> DEFINE s == ResetChangedData(t)
    <3>1. target' = [s EXCEPT !.ignore = TRUE]
      BY <1>10, <2>2 DEF SetIgnoreChangedData
    <3>2. s \in Targets /\ ~s.changed /\ s.new = NothingNew /\ s.stored = t.stored
      BY <1>10, ResetProperties
    <3> HIDE DEF Step, s
    <3> QED
      BY <2>2, <3>1, <3>2 DEF Targets
  <2> QED
    BY <2>1, <2>2
<1>12. /\ copy' \in Copies /\ copy'.phase = "copying" /\ copy'.r = n
       /\ copy'.loaded = copy.loaded /\ copy'.schema = copy.schema
       /\ copy'.result = copy.result
       /\ copy'.at = (IF copy.loaded /\ copy.at < Len(rows) THEN copy.at + 1 ELSE copy.at)
       /\ copy'.cancel <=> cancelled \/ (~ok /\ ~go)
       /\ copy'.refused = (IF ok THEN copy.refused ELSE copy.refused \cup {n})
       /\ copy'.goeson <=> copy.goeson \/ (~ok /\ go)
  <2> DEFINE at == IF copy.loaded /\ copy.at < Len(rows) THEN copy.at + 1 ELSE copy.at
             cancel == cancelled \/ (~ok /\ ~go)
             refused == IF ok THEN copy.refused ELSE copy.refused \cup {n}
             goeson == copy.goeson \/ (~ok /\ go)
  <2>1. copy' = [copy EXCEPT !.r = n, !.at = at, !.cancel = cancel,
                             !.refused = refused, !.goeson = goeson]
    BY <1>10
  <2>2. at \in Nat /\ refused \in SUBSET Nat
    BY <1>2 DEF Copies
  <2>3. cancel \in BOOLEAN /\ goeson \in BOOLEAN
    OBVIOUS
  <2> HIDE DEF at, cancel, refused, goeson, n
  <2>4. /\ copy' \in Copies /\ copy'.phase = "copying" /\ copy'.r = n
        /\ copy'.loaded = copy.loaded /\ copy'.schema = copy.schema
        /\ copy'.result = copy.result /\ copy'.at = at
        /\ copy'.refused = refused
    BY <1>2, <2>1, <2>2, <2>3 DEF Copies
  <2>5. copy'.cancel = cancel /\ copy'.goeson = goeson
    BY <1>2, <2>1 DEF Copies
  <2> QED
    BY <2>4, <2>5 DEF at, cancel, refused, goeson
<1> HIDE DEF Step
<1>13. rows' = rows /\ batch' \in Batches /\ OnRow'
  <2>1. CASE copy.loaded
    <3>1. UNCHANGED <<rows, batch>>
      BY <2>1 DEF CopyRow
    <3>2. rows # <<>> => copy.at = n
      BY <1>2, <2>1 DEF Inv, OnRow, Coming
    <3>3. Coming' = IF n < Len(rows) THEN n + 1 ELSE Len(rows)
      BY <1>12, <3>1 DEF Coming
    <3> QED
      BY <1>2, <1>12, <2>1, <3>1, <3>2, <3>3 DEF OnRow, Inv, Types
  <2>2. CASE ~copy.loaded
    <3>1. GotoNext
      BY <2>2 DEF CopyRow
    <3>2. OnRowOf(batch, rows, n) /\ batch.open /\ ~batch.previous
      BY <1>2, <2>2 DEF Inv, OnRow, Coming
    <3>3. /\ batch' \in Batches /\ rows' = rows /\ batch'.open /\ ~batch'.previous
          /\ OnRowOf(batch', rows, IF n < Len(rows) THEN n + 1 ELSE n)
      BY <1>2, <3>1, <3>2, NextSource DEF Inv
    <3>4. Coming' = IF n < Len(rows) THEN n + 1 ELSE n
      BY <1>2, <1>12, <3>3 DEF Coming
    <3>5. OnRowOf(batch, rows, Coming)'
      BY <1>2, <3>3, <3>4 DEF OnRowOf
    <3> QED
      BY <1>2, <1>12, <2>2, <3>3, <3>5 DEF OnRow
  <2> QED
    BY <2>1, <2>2
<1>14. Types' /\ Calling'
  BY <1>2, <1>11, <1>12, <1>13 DEF Inv, Types, Calling
<1>15. Pending'
  BY <1>5, <1>10, <1>11, <1>12 DEF Pending
<1>16. Answers'
  <2>1. /\ copy.refused \subseteq 1..copy.r
        /\ copy.refused = {} \/ copy.goeson
        /\ ~copy.result
    BY <1>2 DEF Inv, Answers
  <2>2. copy'.refused \subseteq 1..n
    BY <1>2, <1>12, <2>1
  <2>3. copy'.refused = {} \/ copy'.goeson \/ copy'.cancel
    BY <1>12, <2>1
  <2> QED
    BY <1>2, <1>12, <1>13, <2>1, <2>2, <2>3 DEF Answers
<1>17. Arrived'
  <2>1. Complete(target.stored, rows, copy.r, copy.refused)
    BY InTheseWords DEF Inv
  <2>2. target.stored \in Seq(Entries) /\ m.stored \in Seq(Entries)
    BY <1>2, <1>4 DEF Targets
  <2>3. Complete(m.stored, rows, copy.r, copy.refused)
    <3>1. [from |-> target.from, row |-> Inserted(target)] \in Entries
      BY <1>2, InsertedType DEF Entries, Targets
    <3> QED
      BY <1>2, <1>4, <2>1, <2>2, <3>1, CompleteKept
  <2>4. Complete(t.stored, rows, n, copy'.refused)
    <3>1. /\ ~HasValues(rows[n]) => Complete(m.stored, rows, n, copy.refused)
          /\ Complete(m.stored, rows, n, copy.refused \cup {n})
          /\ Complete(Append(m.stored, entry), rows, n, copy.refused)
      BY <1>2, <1>6, <2>2, <2>3, CompleteNext
    <3> HIDE DEF n, entry
    <3> QED
      BY <1>5, <1>10, <1>12, <3>1
  <2>5. Complete(target.stored, rows, copy.r, copy.refused)'
    BY <1>11, <1>12, <1>13, <2>4 DEF Complete
  <2> QED
    BY <2>5, InTheseWords DEF Complete, Arrived
<1>18. CopiedInOrder'
  <2> SUFFICES ASSUME ~copy'.goeson PROVE InOrder(target'.stored, rows', copy'.r, copy'.refused)
    BY DEF CopiedInOrder, CopiedFieldByField, IsCopied, InOrder
  <2>1. ~copy.goeson /\ (~ok => ~go)
    BY <1>12
  <2>2. InOrder(target.stored, rows, copy.r, copy.refused)
    BY <2>1, InTheseWords DEF Inv
  <2>3. m.stored = target.stored /\ Inserted(e) = Copied(rows[n])
    BY <1>4, <1>5, <2>1
  <2>4. target.stored \in Seq(Entries) /\ copy.refused \in SUBSET (1..copy.r)
    BY <1>2 DEF Targets, Inv, Answers
  <2>5. /\ InOrder(target.stored, rows, n, copy.refused)
        /\ InOrder(target.stored, rows, n, copy.refused \cup {n})
        /\ InOrder(Append(target.stored, entry), rows, n, copy.refused)
    BY <1>2, <1>6, <2>2, <2>3, <2>4, InOrderNext
  <2> HIDE DEF n, entry
  <2>6. InOrder(t.stored, rows, n, copy'.refused)
    BY <1>5, <1>10, <1>12, <2>3, <2>5
  <2> QED
    BY <1>11, <1>12, <1>13, <2>6
<1> QED
  BY <1>13, <1>14, <1>15, <1>16, <1>17, <1>18 DEF Inv

\* The new table is disabled: a row that is pending is stored, unless it is
\* to be ignored, and nothing is pending any more.
LEMMA TargetClosed ==
  ASSUME Inv, Return, copy.phase = "copying"
  PROVE  /\ target' \in Targets
         /\ ~target'.changed /\ target'.new = NothingNew
         /\ target'.ignore => copy.cancel
         /\ \/ target'.stored = target.stored
            \/ /\ copy.goeson
               /\ \E entry \in Entries : target'.stored = Append(target.stored, entry)
<1>1. target \in Targets /\ (target.ignore => copy.cancel)
      /\ (~target.changed => target.new = NothingNew)
      /\ (target.changed => copy.goeson)
  BY DEF Inv, Types, Pending
<1>2. CASE ~target.changed
  <2>1. target' = target
    BY <1>2 DEF Return
  <2> QED
    BY <1>1, <1>2, <2>1
<1>3. CASE target.changed
  <2>1. PICK accepted \in BOOLEAN :
          target' = ResetChangedData(StoreChangedData(target, accepted).target)
    BY <1>3 DEF Return
  <2>2. \E s \in Targets :
          /\ target' = ResetChangedData(s) /\ (s.ignore => target.ignore)
          /\ \/ s.stored = target.stored
             \/ /\ copy.goeson
                /\ \E entry \in Entries : s.stored = Append(target.stored, entry)
    <3>1. CASE target.ignore
      <4>1. LET s == StoreChangedData(target, accepted) IN
              s.target \in Targets /\ ~s.target.ignore /\ s.target.stored = target.stored
        BY <1>1, <3>1, StoreNothing
      <4> QED
        BY <2>1, <4>1
    <3>2. CASE ~target.ignore /\ accepted = TRUE
      <4>1. LET s == StoreChangedData(target, accepted) IN
              /\ s.target \in Targets /\ ~s.target.ignore
              /\ s.target.stored
                   = Append(target.stored, [from |-> target.from, row |-> Inserted(target)])
        BY <1>1, <1>3, <3>2, StoreAccepted
      <4>2. [from |-> target.from, row |-> Inserted(target)] \in Entries
        BY <1>1, InsertedType DEF Entries, Targets
      <4>3. copy.goeson
        BY <1>1, <1>3, <3>2
      <4> QED
        BY <2>1, <4>1, <4>2, <4>3
    <3>3. CASE ~target.ignore /\ accepted = FALSE
      <4>1. StoreChangedData(target, accepted).target = target
        BY <1>1, <1>3, <3>3, StoreRefused
      <4> QED
        BY <1>1, <2>1, <4>1
    <3> QED
      BY <3>1, <3>2, <3>3
  <2>3. PICK s \in Targets :
          /\ target' = ResetChangedData(s) /\ (s.ignore => target.ignore)
          /\ \/ s.stored = target.stored
             \/ /\ copy.goeson
                /\ \E entry \in Entries : s.stored = Append(target.stored, entry)
    BY <2>2
  <2> QED
    BY <1>1, <2>3, ResetProperties
<1> QED
  BY <1>2, <1>3

\* The copy ends, after the last row or because it was cancelled.
LEMMA Returns ==
  ASSUME Inv, Return
  PROVE  Inv'
<1>1. /\ copy.phase = "copying" /\ driver' = driver /\ rows' = rows
      /\ copy \in Copies /\ copy.r <= Len(rows) /\ rows \in Seq(AllRows)
      /\ copy.r >= SourceRows \/ copy.cancel
  BY DEF Return, Disable, Inv, Types, Answers
<1>2. /\ copy' \in Copies /\ copy'.phase = "returned" /\ copy'.r = copy.r
      /\ copy'.refused = copy.refused /\ copy'.schema = copy.schema
      /\ copy'.cancel = copy.cancel /\ copy'.goeson = copy.goeson
      /\ copy'.result = ~copy.cancel
  BY <1>1 DEF Return, Copies
<1>3. batch' \in Batches
  <2>1. batch \in Batches /\ <<>> \in Seq(AllRows \cup {Dummy})
    BY DEF Inv, Types
  <2>2. Closed(batch) \in Batches
    BY <2>1 DEF Closed, Batches
  <2> QED
    BY <2>1, <2>2 DEF Return, Disable
<1>4. /\ target' \in Targets
      /\ ~target'.changed /\ target'.new = NothingNew
      /\ target'.ignore => copy.cancel
      /\ \/ target'.stored = target.stored
         \/ /\ copy.goeson
            /\ \E entry \in Entries : target'.stored = Append(target.stored, entry)
  BY <1>1, TargetClosed
<1>5. Types' /\ Calling' /\ OnRow' /\ Pending'
  BY <1>1, <1>2, <1>3, <1>4 DEF Inv, Types, Calling, OnRow, Pending
<1>6. Answers'
  <2>1. ~copy.cancel => copy.r = Len(rows)
    <3>1. SourceRows \in Nat
      BY <1>1 DEF SourceRows, Inv, Types, Batches
    <3>2. copy.r \in Nat /\ Len(rows) \in Nat
      BY <1>1 DEF Copies
    <3> QED
      BY <1>1, <3>1, <3>2, ReadingRow
  <2> QED
    BY <1>1, <1>2, <2>1 DEF Inv, Answers
<1>7. Arrived'
  <2>1. Complete(target.stored, rows, copy.r, copy.refused)
    BY InTheseWords DEF Inv
  <2>2. target.stored \in Seq(Entries) /\ copy.r \in Nat
    BY <1>1 DEF Inv, Types, Targets, Copies
  <2>3. Complete(target'.stored, rows, copy.r, copy.refused)
    BY <1>4, <2>1, <2>2, CompleteKept
  <2> QED
    BY <1>1, <1>2, <2>3 DEF Complete, Arrived
<1>8. CopiedInOrder'
  <2> SUFFICES ASSUME ~copy.goeson PROVE CopiedInOrder'
    BY <1>2 DEF CopiedInOrder
  <2>1. target'.stored = target.stored
    BY <1>4
  <2> QED
    BY <1>1, <1>2, <2>1 DEF Inv, CopiedInOrder, CopiedFieldByField, IsCopied
<1> QED
  BY <1>5, <1>6, <1>7, <1>8 DEF Inv

\* Every step keeps the invariant.
LEMMA InvNext == Inv /\ [Next]_vars => Inv'
<1> SUFFICES ASSUME Inv, [Next]_vars PROVE Inv'
  OBVIOUS
<1>1. CASE NotCreated \/ SchemaOnly \/ NoColumns
  BY <1>1, ReturnsEarly
<1>2. CASE OpenSource \/ RewindSource
  BY <1>2, SourceReady
<1>3. CASE CopyRow
  BY <1>3, CopiesRow
<1>4. CASE Return
  BY <1>4, Returns
<1>5. CASE UNCHANGED vars
  BY <1>5 DEF vars, Inv, Types, Calling, OnRow, Coming, OnRowOf, Pending, Answers, Arrived,
              CopiedInOrder, CopiedFieldByField, IsCopied
<1> QED
  BY <1>1, <1>2, <1>3, <1>4, <1>5 DEF Next

-----------------------------------------------------------------------------
(* The source, which is given back.                                        *)

(***************************************************************************)
(* What the call owes the source: nothing before it begins to copy, and a  *)
(* source that was loaded is not opened a second time.                     *)
(***************************************************************************)
Borrowed ==
  /\ copy.phase = "copying" /\ copy.loaded => ~batch.open
  /\ SourceGivenBack

LEMMA BorrowedInit == Init => Borrowed
  BY DEF Init, Borrowed, SourceGivenBack

\* Before the first row: a source that is not read is left as it was found.
LEMMA BorrowedBefore ==
  ASSUME Inv, Borrowed, NotCreated \/ SchemaOnly \/ NoColumns
  PROVE  Borrowed'
<1>1. copy \in Copies /\ UNCHANGED batch
  BY DEF Inv, Types, NotCreated, SchemaOnly, NoColumns
<1>2. CASE NotCreated
  BY <1>1, <1>2 DEF Inv, Calling, Borrowed, SourceGivenBack, NotCreated, Copies
<1>3. CASE SchemaOnly
  BY <1>1, <1>3 DEF Inv, Calling, Borrowed, SourceGivenBack, SchemaOnly, Copies
<1>4. CASE NoColumns
  BY <1>1, <1>4 DEF Borrowed, SourceGivenBack, NoColumns, Copies
<1> QED
  BY <1>2, <1>3, <1>4

\* The source is borrowed: opened if it was closed, else only rewound.
LEMMA BorrowedReady ==
  ASSUME Inv, Borrowed, OpenSource \/ RewindSource
  PROVE  Borrowed'
<1>1. copy \in Copies
  BY DEF Inv, Types
<1>2. /\ copy.phase = "called" /\ ~batch.open /\ ~copy.loaded
  BY DEF Inv, Calling, OpenSource, RewindSource
<1>3. CASE OpenSource
  BY <1>1, <1>2, <1>3 DEF Borrowed, SourceGivenBack, OpenSource, Copies
<1>4. CASE RewindSource
  <2>1. copy'.phase = "copying" /\ batch' = batch
    BY <1>1, <1>2, <1>4 DEF RewindSource, Copies
  <2> QED
    BY <1>2, <2>1 DEF Borrowed, SourceGivenBack
<1> QED
  BY <1>3, <1>4

\* A row is read.
LEMMA BorrowedReading ==
  ASSUME Inv, Borrowed, CopyRow
  PROVE  Borrowed'
<1>1. copy \in Copies
  BY DEF Inv, Types
<1>2. copy.phase = "copying" /\ copy'.phase = "copying" /\ copy'.loaded = copy.loaded
  BY <1>1 DEF CopyRow, Copies
<1>3. copy.loaded => batch' = batch
  BY DEF CopyRow
<1> QED
  BY <1>2, <1>3 DEF Borrowed, SourceGivenBack

\* The call returns: what it has opened it closes, else it goes back.
LEMMA BorrowedReturned ==
  ASSUME Inv, Borrowed, Return
  PROVE  Borrowed'
<1>1. copy \in Copies /\ batch \in Batches
  BY DEF Inv, Types
<1>2. /\ copy'.phase = "returned" /\ ~copy'.blocked
      /\ copy'.at = copy.pos /\ copy'.pos = copy.pos
      /\ copy'.loaded = copy.loaded
  BY <1>1 DEF Return, Copies
<1>3. ~batch'.open
  <2>1. CASE copy.loaded
    BY <2>1 DEF Borrowed, Return
  <2>2. CASE ~copy.loaded
    <3>1. batch' = Closed(batch)
      BY <2>2 DEF Return, Disable
    <3> QED
      BY <1>1, <3>1 DEF Closed, Batches
  <2> QED
    BY <2>1, <2>2
<1> QED
  BY <1>2, <1>3 DEF Borrowed, SourceGivenBack

LEMMA BorrowedNext == Inv /\ Borrowed /\ [Next]_vars => Borrowed'
<1> SUFFICES ASSUME Inv, Borrowed, [Next]_vars PROVE Borrowed'
  OBVIOUS
<1>1. CASE UNCHANGED vars
  BY <1>1 DEF vars, Borrowed, SourceGivenBack
<1> QED
  BY <1>1, BorrowedBefore, BorrowedReady, BorrowedReading, BorrowedReturned DEF Next

-----------------------------------------------------------------------------
(* The theorems.                                                           *)

\* Whatever the source, the driver and the answers: until the user goes on
\* after a refused row, copy_table stores rows of the source as they are, in
\* their order, none twice and none that was refused.
THEOREM CopyInOrder ==
  ASSUME ~SteppedBefore
  PROVE  Spec => []CopiedInOrder
<1>1. Inv => CopiedInOrder
  BY DEF Inv
<1> QED
  BY <1>1, InvInit, InvNext, PTL DEF Spec

\* Whatever the source, the driver and the answers: a row that was read and
\* holds a value is in the copy or was refused, and copy_table returns true
\* only after the last row, with no row refused that the user did not hear of.
THEOREM CopyComplete ==
  ASSUME ~SteppedBefore
  PROVE  Spec => []NothingLeftOut
<1>1. Inv => NothingLeftOut
  BY DEF Inv, Arrived, Answers, NothingLeftOut
<1> QED
  BY <1>1, InvInit, InvNext, PTL DEF Spec

\* Whatever the source, the driver and the answers: by every way out of
\* copy_table but the return for a new table without columns, the source is
\* left unblocked, disabled if it was, and else on the row it showed.
THEOREM SourceComesBack ==
  ASSUME ~SteppedBefore
  PROVE  Spec => []SourceGivenBack
<1>1. Borrowed => SourceGivenBack
  BY DEF Borrowed
<1> QED
  BY <1>1, InvInit, InvNext, BorrowedInit, BorrowedNext, PTL DEF Spec
=============================================================================
