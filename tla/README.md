# A TLA+ model of hk_classes

hk_classes is the C++ library underneath knoda: it gives forms, reports and
scripts one interface to several SQL servers. A program sees *datasources* (a
table, view or query loaded into memory, with a row cursor), *columns* (typed
access to the field under the cursor and a pending new value), *visible objects*
(fields, grids, buttons of a form that show a datasource and are informed about
its changes) and *presentations* (forms and reports that own datasources).

The library has no threads. What makes it hard is the depth of one call: moving
the cursor of one datasource may ask the user, store a row, fail at the server,
delete or reload the rows of depending datasources, switch modes and call back
into scripts, and every step of that is a way out that must leave some dozen
flags in agreement. The models are therefore state machines whose actions are
whole calls, with the answers of server, user and details as nondeterminism.

## Inventory

| Part (hk_classes/) | State | Operations | What must be right |
|---|---|---|---|
| `hk_datasource`, `hk_storagedatasource`, `hk_column` | rows loaded, cursor, mode, change flags of datasource and columns, pending values, open transaction | goto_*, setmode_*, set_as*, store, delete, delete_rows, enable, disable | the cursor is on a row; the copy equals the server's rows; a value reaches the row it was typed on; nothing is deleted unasked |
| master and details (`set_depending_on`, `depending_on_datasource_*`, `inform_depending_ds_*`) | the tree of datasources, what each detail has loaded, suppression flags | enable/disable/goto/insert/store of a master reach its details; a master row is updated or deleted with its details | no cycles; a detail shows the rows of the master's current row; no detail row is orphaned |
| `hk_dsvisible`, `hk_dsdatavisible`, `hk_dsgrid`, `hk_dscombobox`, `hk_dbvisible`, `hk_dsmodevisible` | registration lists, the cached column pointer, handled marks | datasource_enable/disable, row_change, columns created/deleted, source vanishes | the pointer is never one to a deleted column; every object is informed although the list changes while it is walked |
| batch access (`batchread`, `batchwrite`) | a window of two rows | goto_next, goto_previous | a report reads every row once |
| table and index definition (`setmode_createtable`, `setmode_altertable`, `create_table_now`, `alter_table_now`) | mode, column lists of the definition | create, alter, index, reference | the modes return to a usable one on failure |
| `hk_presentation`, `hk_form`, `hk_report`, `hk_subform` | registry of datasources and objects, design or view mode | open, close, load, save, number and name datasources | numbers are unique and survive loading; master numbers resolve |
| `hk_database`, `hk_connection`, `hk_drivermanager` | lists of datasources, visibles and presentations; connected; stored files | connect, disconnect, select_db, load, save, copy, rename, delete | everything registered is disabled or informed before its source goes; a copy is complete or said to have failed |
| `hk_qbe`, the SQL parser of `hk_datasource`, filters | definitions | parse, build SQL, combine filters | quotes and parentheses balance |
| `hk_interpreter` | who calls, error state | execute | an error does not loop |
| `hk_importcsv` | tokens of a line, counters | create_columns, execute, set_data | every field ends in its column |
| `hk_reportsection`, `hk_reportdata`, `hk_report` | counters, page position | execute, print_header/detail/footer | each group has one header and one footer |
| values: `hk_datetime`, `hk_string`, `hk_url`, `hk_font`, `hk_colour`, `hk_definitions` | none | conversions | |
| drivers (`hk_mysqlclasses`, `hk_sqlite3classes`, ...) | client handles | select, execute, list tables | fill the rows in order and tell failures |

## Modules

| Module | Kind | What it is |
|---|---|---|
| `RowEditing` | abstract specification | rows of a table and what is typed but not stored: type, commit into its own row, add one row, discard, remove one row |
| `Datasource` | component | one table datasource, its columns and the table on the server |
| `MCDatasource` | model checking | the calls of different clients and the parties that may refuse |
| `DatasourceProofs` | proofs | types and the range of the cursor; the copy of a table is the server's rows; what a form may rely on, and that it implements `RowEditing` |
| `MasterDetail` | composition | a tree of datasources: the calls of `Datasource` that reach details, and what the details do about them |
| `MCMasterDetail` | model checking | the trees, tables and clients |
| `Presentation` | component | the registry of a form: numbers, masters, the search for circles, saving and loading |
| `MCPresentation` | model checking | the clients |
| `PresentationProofs` | proofs | no circles, pointers in both directions, unique numbers, masters that are those which were meant |
| `RowCursor` | abstract specification | a result read with a cursor that moves by one row |
| `BatchAccess` | component | a datasource in access mode batchread: the window of two rows |
| `Report` | composition | the printing of a report over `BatchAccess` |
| `MCReport`, `ReportProofs` | model checking, proofs | results, layouts and drivers; the report reads as with a cursor, prints every row once, with the counts and sums of its group, and encloses the groups |
| `BatchWrite` | component | a datasource in access mode batchwrite: rows are entered and sent |
| `CopyTable` | composition | `hk_database::copy_table`, from `BatchAccess` to `BatchWrite` |
| `MCCopyTable`, `CopyTableProofs` | model checking, proofs | tables and drivers; the copy is in order and complete, the source is given back |
| `CsvText` | pure algorithms | lines, values and types of a CSV file, and what `hk_reportcsv` writes |
| `CsvImport` | composition | `hk_importcsv`, from `CsvText` to `BatchWrite` |
| `MCCsvImport` | model checking | files and settings |
| `CsvReadProofs` | proofs | the lines and values read of any file are those written |
| `CsvImportProofs` | proofs | types that fit, values in their columns, which rows may get lost |
| `FoldLemmas` | proofs | induction over numbers and sequences, and folds from the left |
| `Visibles` | composition | two datasources and the visible objects they inform |
| `MCVisibles` | model checking | a form or a window with a field, a grid and a combobox |
| `VisiblesProofs` | proofs | lists, iterators and pointers to columns; everybody is told |

`Datasource` looks at one datasource closely (two columns, modes, flags, every
refusal); `MasterDetail` repeats the calls with one key and one link column and
adds the cascades; `Presentation` builds the tree that `MasterDetail` takes as
given. `Visibles` is about what the three leave out, the objects that are told of
every change. The access modes batchread and batchwrite are modules of their own,
because other code relies on them: reports read, the CSV import writes, and
copying a table does both.

### Datasource

The variable `ds` is the object: `enabled` (`p_enabled`), `mode` (`p_mode`),
`counter` (`p_counter`, from 0 as in the code), `data` (`p_data`), `changed`
(`p_has_changed`), `edit` (each column's `p_has_changed` and new data),
`ignore`, `readonly`, `automatic`; and the server's side: `table`, `nextid`
(the auto increment key) and `open`, a `transaction_begin` without its end. `stepped` is
`use_batch_previous`, which belongs to batch access but is set by `goto_previous` in
every mode: nothing here reads it, and `BatchAccess` begins with it (`SteppedBefore`).
Two parts are history: `edit[c].row` is the row a value was typed on, and `wild`
says that the code used a pointer or an index out of range; the next step is
then a restart of the program.

Handlers are operators named as in the source (`GotoRow` is `goto_row`,
`StoreChangedData` is `store_changed_data`, ...): they take the state and the
set `no` of parties that refuse during the call and give the state after,
together with the C++ return value where callers look at it. Callees are
applied in the order of the code. An action is one call of the API with some
set `no` among those whom that call asks.

Abstractions: a field holds NULL or a member of `Values`; rows have one integer
key assigned by the server, which no column edits; notifications to visible
objects change nothing here; the objects of details appear as the answers
`"details"` (may the row change?) and `"cascade"` (could their rows be deleted?).
`StoredOrKept` says of a call that drops a typed value that it has written it; it
leaves out the calls that mean to drop it (a deletion, also one the user takes back,
and changes to be ignored) and `disable()`, after which what the server has refused
goes with the columns when `enable()` makes them anew.
`SetToSeq` fixes the order in which the server sends the rows. The driver's way
of adding a row is that of the MySQL driver: the key comes from
`mysql_insert_id`, every other field is the pending value or NULL.

### MasterDetail

`w[d]` is one datasource and its table on the server, as in `Datasource` but
with the two columns that matter to a tree: `key`, the primary key, and `ref`,
the depending field, which is linked to the master's `key`. `going`, `enabling`
and `disabling` are `p_while_goto_row`, `p_while_enabling` and
`p_while_disabling`, which suppress notifications while a call is under way.
`setup` never changes: it is the tree with its dependency modes
(`enum_dependingmodes`), which details react on data changes, which are queries,
and, for the model, the calls, tables and refusals.

Notifications are functions in the code (`inform_depending_ds_*` loops over
`p_dependinglist` and calls `depending_on_datasource_*` of each detail). In the
model all of them go through one recursive operator, `Do(call, v, ds, no)`, which
applies `Handle` to the details in turn; `Handle` says which operator answers
which call. A handler of a detail calls `Do` for its own details.

The server refuses a statement either because `no` says so or because a key is
used already. The statements a master sends about the rows of its details
(`BeforeUpdate`, `BeforeDelete`) take effect when they are sent, and nothing
takes them back: `transaction_begin`, `transaction_commit` and
`transaction_rollback` call driver hooks that are empty.

Some calls have a name of their own when they are made in a state that most
clients avoid, so that a setup can include or leave out the case: `storenothing`
(the store button with nothing changed), `gotonothing` (a move with no row
loaded), `reenable`, `rekey` (the key of a row that has details is edited) and
`retake` (a key that is in use is typed).

### Presentation

A datasource remembers its master twice: `wants` is the number
(`p_depending_on_presentationdatasource`), which is saved, and `master` is the
pointer (`p_depending_on_datasource`), which `depending_on()` looks up when it
is first asked for. To look it up is to call `set_depending_on`, which walks from
the new master upwards, through `depending_on()`, and so may look up other
masters on its way. `stack` holds the calls of `set_depending_on` that are under
way and one action is one step of the topmost: `Climb` (to a master whose pointer
is known), `LookUp` (a call for a datasource whose pointer is not), `Refuse` (the
circle is seen) and `Attach` (the master is set, the call returns and the walk
below goes on). The other actions are calls of the client and begin only when no
call is under way; there are no threads.

`place` says whether the presentation lists a datasource. `Vanish` is
`before_source_vanishes`, after which the presentation no longer lists it, though
it keeps its masters and details. `Save` writes numbers; `Load` is a new program
that opens the file: what it reads has numbers, and pointers only once they are
asked for. `file` is the stored form,
`asked[d]` remembers which datasource the client meant (numbers are reused,
datasources are not), and `seen` is where a walk has been. The last two are
history; no action is guarded by them.

`set_depending_on` enables or disables the detail at its end, which changes no
variable of this module. Not covered: `set_depending_on` called with a datasource
of another presentation (`hk_subform` and `hk_reportsection` do), and loading
a second file into the same presentation object. `~hk_datasource` removes
itself from the presentation by its number, which `NumbersUnique` makes the same
as removing itself.

### BatchAccess and Report

`batch` is a datasource that holds two rows (`p_data`), a flag that says which of
them is shown (`previous`, `use_batch_previous`), its row number and `max_rows()`.
The drivers differ in three ways, and a `driver` is a record of them: whether
`goto_next` first takes back a `goto_previous` (`steps`), whether disabling
deletes the two rows (`clears`) and whether `max_rows()` is known from the
beginning (`knows`). `RowCursor` is what a program may rely on; `Cursor` maps the
window to it and `ReadsAsCursor` is the refinement.

`Report` is the main loop of `hk_report::internal_execute`, cut where it prints a
section or moves the datasource by a row; `phase` is where it is, `at` and `foot`
are its loop variables, `position` is `p_rowposition`. A `layout` has the pairs of
sections with the column each groups by, the sections that exist and those that
ask for a new page after them. `out` records what was printed: the section, the
row it read, and the rows its counters had counted (a counter is modelled by the
rows it has seen, from which every sum, count or minimum follows). The report is
stopped between any two steps where the code looks for it. `Frames` is the
reference definition of the sections between two rows, computed from the result
alone.

Left out: subreports, page breaks that come from the length of a page, contents
of page header and footer, scripts of the sections that stop the report in the
middle of a section, lack of memory. A columnless pair never clears its counters
(see below), so `MaxCarried` ends the reports that would count for ever.

### BatchWrite and CopyTable

`target` is the new table: the change flags and pending values of its columns, the
ignore flag and what the server has stored. Each stored row carries the number of
the row of the source it was entered for (`from`, history). The operators are
the calls the two clients make, `SetmodeInsertrow`, `SetColumn`,
`StoreChangedData` and `SetIgnoreChangedData`; the server's answer is their
parameter, like the user's to "Store changed data?", which `check_store_changed_data`
asks when the database does not update automatically. `SetIgnoreChangedData` resets
the columns as well, as the code does, so the flag is not consumed by the next
`SetmodeInsertrow`, which finds nothing to store, but by the store after it, of another
row. The datasource is a new one, as both clients make it; a flag that an earlier use
has left would discard the first row.

`copy` is the call of `copy_table`. Its beginnings are actions of their own
(`NotCreated`, `SchemaOnly`, `NoColumns`, `OpenSource` for a source that is
disabled and `RewindSource` for one that was enabled); `CopyRow` is one turn of the
loop with the answers of server, progress dialog and user, `Return` what follows
the loop; `.bare` marks the return for a new table without columns. Enabling the new table is assumed to succeed.

### CsvText and CsvImport

`CsvText` has `get_line`, the loop over characters of `create_valuelist` (`Scan`,
folded over a line), `interpret_columntype` and the way types of successive lines
are merged; and from the exporter `CsvField` and `CsvSection`. A character is any
value; the few the code names are constants, and `CharactersAssumption` says that
those which delimit can be told apart and rows end as lines do (every caller of
`set_filedefinition` sets "\n").

`CsvImport` starts from a table of texts, writes it (`Written`) and imports the
file, so that what comes in can be compared with what was meant. `imp` is the
`hk_importcsv`; `lines` is what the calls of `get_line` will give, a function of
the file that is computed once. `InitializeTable` finds the columns: names from
the header, types from the first `MaxPreview` lines, an `auto_inc` column if a
column of ascending numbers is found; `ImportLine` is one turn of the loop.
`Crash` and `imp.stuck` are two ways in which the code does not come to an end,
described below.

Not covered: a carriage return within a value (`FilesAssumption`; of one at the end
of a line see below), an unquoted text that holds a delimiter, booleans, dates, times
and memos among the guessed types, character sets, column names (they are positions) and replacing
a table.

### Visibles

`vis.list[d]` is `p_visibles` of a datasource, in order; `vis.of` is
`p_datasource` and `vis.column` `p_column` of a visible, a pointer that is `Null`,
leads to a column (a datasource and a name) or is `Freed`. `vis.cols` are the
columns of the grid, which are visibles themselves, `vis.view` is the second
pointer of the combobox's list (`p_viewcolumn`), and `vis.handled` are those whose
`p_already_handled` is set.

The calls are nested: `enable()` tells the combobox, which enables the datasource
it lists, in the middle of a walk over the list of the first. `todo` is that stack,
written as the sequence of what remains to be done: a call or a walk, and for a
walk where its iterator is. One step tells one visible (`Told` says what it does),
and puts the calls it makes in front (`CallsOf`). There are two kinds of walks.
Those for enabled, disabled, vanishing and deleted begin again at the first visible
after each one and go by `p_already_handled`; the others keep an iterator. `Paint`
is a widget that asks for its column at any moment, in the middle of a walk too.
What several visibles do one after the other, as the columns of a grid that is
cleared, is one operator on sets: `Detached` takes a set of visibles from their lists
(`Without` is `std::list::remove`), `Appended` is a sequence of `visible_add`.

Abstractions: `p_already_handled` is forgotten between two calls, since no walk
reads it before it has set it. The driver tells the visibles a second time
before it makes the columns of a query; at that time they have no columns. A
visible takes a datasource only when it has none. Scripts query a datasource again
(`ScriptRequeries`); `CarefulScripts` says that they keep off the datasource of a grid
which creates its columns, see below. Left
out: comboboxes inside the columns of a grid, blocked signals, the values that
visibles show, filters, and moving to another datasource.

## Runs

| Run | What it asks |
|---|---|
| `datasource_form` | a form with two fields, buttons, a script that calls `enable()` twice, and every refusal: `CursorInRange`, `MirrorsServer`, `TransactionsClosed`, `ChangedHasColumns`, `DeletedOnlyOnRequest` |
| `datasource_rows` | a form without refused UPDATEs implements `RowEditing` (`ImplementsRowEditing`): pending values stay on their row (`EditsStayOnTheirRow`), have the flag that sends them (`EditsAreFlagged`), and are dropped only when they are stored there (`StoredOrKept`) |
| `datasource_api` | every call, `delete_rows`, `setmode_normal`, `set_readonly` and `set_ignore_changed_data` included, one column: `MirrorsServer` |
| `datasource_refused` | violation: a value is typed, its UPDATE is refused, and the next `store_changed_data` drops it and returns true (`StoredOrKept`) |
| `master_forms` | seven setups: details in the modes standard and changedelete, edited master keys, a detail that is a query, a chain of three, details opened and closed on their own, and details that react on what is typed into the master, with refused statements; `TypeOK`, `DetailFollowsMaster`, `NoDetailAlone`, `NoOrphans`, `InsertedUnderMaster`, and nothing typed into a detail is lost (`DetailEditsSurvive`) |
| `presentation_working` | two clients, one that deletes datasources and tables during a session and one that saves, reopens and goes on: `Acyclic`, `PointersAgree`, `NumbersUnique`, `SavedAsShown`, `MasterAsAsked`, and every walk returns (`WalkReturns`) |
| `report_groups` | six layouts with up to two groups over every small result, three drivers, a source not moved back before, stopped anywhere: `EveryRowOnce`, `GroupsFramed`, `SummariesMatch`, `ReadsAsCursor` and `ReportEnds` |
| `table_copy` | a table is copied from four kinds of drivers, read in batch mode or enabled before and not moved back, with refused rows and a user who stops or goes on: `CopiedInOrder`, `NothingLeftOut`, `SourceGivenBack`, `CopyReturns` |
| `copy_goon` | violation: after a refused row and "Continue loading data?", values of the refused row get into the next one |
| `csv_import` | files with quotes, separators and ends of line in their texts, written by the exporter of the library or by other programs: `LinesAreRows`, `TypesFitPreview`, `ValuesInTheirColumns`, `LostOnlyBehindRefused`, `ImportReturns` |
| `csv_refused` | violation: the row behind a refused one is neither stored nor reported (`EveryRowAccounted`) |
| `visibles_form` | a form or a window whose datasources are enabled, disabled, moved, closed and deleted while visibles come and go and careful scripts query again: `IteratorsValid`, `ColumnsAlive`, `EverybodyTold`, `CallsReturn` |

Each violation run checks one statement that the source, its comments or its
headers make, and `PROJECT.json` quotes it under "findings".

### Bounds

*Datasource.* `MaxId = 3` keys are ever given and `InitRows = 2` rows exist at
first, so the table goes through every size from 0 to 3, the cursor has a first,
a middle and a last row, a row can be added after a deletion, and a range of two
of three rows can be deleted. Two columns with two values (one of them NULL)
distinguish a partly edited row from an edited one and equal rows from different
ones. The server refuses an INSERT beyond `MaxId`, which is an answer the code
must handle anyway, so the bound cuts no behaviour short.

*MasterDetail.* Keys are 1 to 3 (typed keys 1 and 2 in the setups standard and
chain): a master moves between two rows and a new one, and a detail can have no,
one or two rows under it. The tables at first put the lines under the first, the
second or no order. In the chain the form works on the lower two levels and only
opens, moves and deletes on the first; with all calls on all levels the states
outgrow what can be checked in minutes.

*Presentation.* Three datasources are the shortest circle that is neither a
datasource and itself nor two. Numbers 0 to 3 let numbers be reused after
loading. `MaxDepth = 4` walks under way are more than `presentation_working` ever
needs (no state reaches the guard).

*Report.* Three rows over two columns, with the four rows `Fields` of equal,
different and blank values, give groups of one, two and three rows, an inner group
that continues while the outer changes, and blank group values. Two pairs are an
outer and an inner group. `MaxCarried = 1`.

*CopyTable.* Tables of no to three rows, two columns, four different rows of which
one is empty; every row may be refused. *CsvImport.* Files of up to five lines
and three columns, ten texts, four styles of file, five settings. `MaxPreview = 3`
instead of 50 is the least with which an `auto_inc` column is detected; the files of
five lines without a header have a line behind the preview.

*Visibles.* Two datasources, a field, a grid with up to two columns, a combobox and
its list; the queries of the first yield one or two columns, so that a column can
disappear and come back, those of the second only the other column, so that the
list falls back on it. `MaxScripts = 1` script queries again within one walk,
otherwise scripts could do so for ever.

Two switches are not bounds but a choice of the case: `SteppedBefore` is FALSE and
`CarefulScripts` TRUE in the runs. With the other value the models have the behaviours
described below under "What does not hold".

Deadlock is checked everywhere but in `report_groups`, `table_copy`, `copy_goon`,
`csv_import` and `csv_refused`: there the model is one call, or a report that may meet
`MaxCarried`, and it ends.

### Fairness

`Datasource` and `MasterDetail` state no fairness and no liveness: nothing there
happens by itself, and a call is one step. The other modules assume weak fairness
of the steps of a call that is under way, and of nothing else: a function that has
been entered runs on until it returns. These steps are `Walk` in `Presentation`,
`PrintStep` in `Report`, `CopyRow` or `Return` in `CopyTable`, `ImportLine` or
`Return` in `CsvImport` and `Step` in `Visibles`. Nothing is assumed of users,
servers and widgets: a datasource that is never enabled again, or a `Paint` that
never happens, is a behaviour.

## What does not hold

The runs that pass leave cases out, and these are they. Three have a run of their
own (`datasource_refused`, `copy_goon`, `csv_refused`). The others follow from the cited lines;
where the behaviour is in a model, it shows as soon as the setup, the layout or the
client admits it. File names without a path are in `src/hk_classes/`.

*One datasource.*
* `update_row` drops `p_has_changed` before the statement is sent (hk_datasource.cpp:1407).
  When the server refuses it, the columns still carry the values and nothing speaks for
  them. The call that stored them is refused, but the next one is not: a store drops
  them and returns true (`datasource_refused`), a move takes them to another row.
  `setmode_insertrow` does not even look at the result (247), and the values become those
  of the new row. Where `UPDATE`s may be refused, `StoredOrKept`, `EditsAreFlagged` and
  `EditsStayOnTheirRow` are therefore false; `datasource_rows` has a server that
  refuses none.
* `setmode_normal` during data entry leaves the values of the new row pending
  (hk_datasource.cpp:222); the next store writes them over the row the cursor is
  on. hk_datasource.h:70 says that it adds the row.
* The ignore flag is consumed by the next store, whenever that is (4984).
  `disable()` ignores the result of its store (953): an edit the server refuses
  is lost with the columns.
* A query whose loading the user cancels halfway counts as complete
  (hk_mysqldatasource.cpp:245). Not modelled.
* `goto_row` leaves insert mode whether or not a row exists
  (hk_datasource.cpp:645). In an empty table the datasource is then in mode
  normal without a row, and a store indexes `p_data[0]`. `Datasource` follows it
  there (`wild`) and restarts.
* Without a primary key a row is addressed by its values (3387): the server
  updates and deletes all equal rows, the loaded copy only one. The runs set
  `PrimaryKey = TRUE`.
* `delete_rows` of one row ignores that `goto_row` was refused (4483) and deletes
  the row the cursor is on. With an edit pending, or with `set_readonly` called
  between the request and the store, the step properties of `datasource_form` do
  not hold either; `datasource_api` therefore asks for `MirrorsServer` only, which
  like `CursorInRange` is proved for every client.
* `enable()` of an enabled datasource forgets `p_has_changed` (883), but the
  columns keep their values: the next store drops them.
  `EditsStayOnTheirRow`, `EditsAreFlagged` and `StoredOrKept` are not asked of clients
  that do that.

*Masters and details.* `DetailFollowsMaster` is violated when the last row of the
master is deleted with `delete_rows`: the details are not told and show the rows
of the deleted one (1730). `InsertedUnderMaster` is violated by a store with
nothing changed while a detail enters a row, and by the deletion of the first row:
both clear the change flag of the link, which `setmode_insertrow` has set (1234; the
comment at 259 says that the new row gets the value of the master). `NoOrphans` would be violated when
* the server refuses the UPDATE of a master's key: the keys of the details are
  changed already and nothing changes them back (1304; hk_datasource.h:315 says
  that they change when the master's does); the property leaves out the setups in which
  a master's UPDATE may be refused;
* a detail that reacts on data changes has already loaded the rows of the key
  being typed when the standard mode looks for rows to protect (4402);
* a detail is disabled, so that it has no rows loaded for the standard mode to
  count (1752);
* in a chain of changedelete datasources the first row is deleted: the statement
  that deletes the rows of the second does not ask the third (1780);
* a new detail row, refused once because its key was in use, is sent again after
  the statement that deleted that row and its master (1654; the call `retake`
  in changedelete mode);
* a row is being entered in a detail while the key of the master is edited: the
  UPDATE reaches the stored rows, the entered one is stored with the old key
  (4460).

`DetailEditsSurvive` leaves out the setups in which a detail's INSERT or UPDATE may be
refused: `disable()` ignores the result of its store (953). `NoDetailAlone` is violated when `reload_data` of a detail fails: its own details
are not told (3043). A master that moves, is disabled or loses a row ignores whether
its details could store theirs (1978). A detail that is a query in mode nohandle keeps its master's
rows from being deleted (1765), although the mode says to ignore it.

*Presentations.* In a form just loaded, before any pointer has been looked up,
masters can be set so that their numbers form a circle before their pointers do:
the search for a circle then calls itself without end (1809). `WalkReturns` holds
for the clients of the run, which do not set masters then. `MasterAsAsked` is
violated if a form is saved while a detail still has the number of a master that was deleted or whose table is gone. The
file has no datasource of that number, so that it may be given again after
loading, and the detail follows the newcomer (hk_presentation.cpp:345). `FileClient` therefore neither deletes a master nor loses a
table. A datasource that is enabled when its master changes keeps its rows
(hk_datasource.cpp:1886).

*Batch access and reports.*
* The drivers of files (xBase, Firebird, Paradox, MDB) read a row when `goto_next`
  follows `goto_previous` (`steps = FALSE`; hk_xbasedatasource.cpp:236, against
  hk_datasource.h:181): a report with groups loses a row at the end of each.
* `use_batch_previous` is reset by `goto_next` of the drivers that take back a step, and
  by nothing else: who steps back and enables the datasource again begins with the row
  before the first. SQLite 3 and the drivers of files do not delete the window when they
  are disabled (`clears`), so that this is the last row of the result before. A report
  never ends while it is stepped back (`Stepping` in `ReportProofs`). But `goto_previous`
  sets the flag in the access mode standard too, at every move to the row before
  (hk_datasource.cpp:732), so that a datasource that was browsed begins its next batch in
  the same way. A copy from it loses the last row and reports success: with
  `SteppedBefore = TRUE` in `CopyTable_rows.cfg`, TLC finds `NothingLeftOut` violated. The
  runs and theorems about reports and copies are about datasources that were not moved back.
* A pair without a header never ends: the loop moves on inside `if (h!=NULL)`
  (hk_report.cpp:658). The model has that behaviour (`NoHeader`), `ReportEnds`
  speaks of the other layouts.
* A pair that groups by no column gets its header with the first row and its footer
  at the end, but its counters keep what earlier reports counted (482). The header
  of a group whose value is empty or NULL is not printed, because an empty text also
  stands for "nothing printed yet".
* If the report is stopped at a new page (634-638) it returns without disabling the
  datasource and without taking its temporary sorting back.
* `reload_data` of a datasource in batch mode always fails (hk_datasource.cpp:3023),
  and when `driver_specific_batch_enable` fails but a standard query succeeds, the
  loop that waits for the end of a result waits for ever. Both are not modelled.

*Copying a table.*
* After a refused row and "Continue loading data?" the pending values stay
  (hk_database.cpp:1648), and columns that are NULL or empty in the next row take
  them: run `copy_goon`. `CopiedInOrder` speaks of copies where nobody goes on.
* An empty text is not set and becomes NULL; a row of only empty or NULL fields sets
  nothing, and is left out without a message.
* The return for a new table without columns (1608) leaves the source blocked, in batch
  mode and enabled, and does not delete the new datasource. `SourceGivenBack` speaks of
  all other ways out (`~copy.bare`).
* A source that cannot be enabled counts as one without rows, and `copy_table`
  returns true.
* `copy_database` ignores that one of its tables was cancelled (hk_connection.cpp:781).
  Not modelled.

*CSV files.*
* A refused row is to be forgotten by `set_ignore_changed_data()` (hk_importcsv.cpp:146).
  It resets the columns at once (hk_datasource.cpp:4985), so the next `setmode_insertrow`
  has nothing to store and leaves the flag for the store of the next row, which discards
  it and returns true (1228): that row is neither in the table nor in the list of failed
  rows (`csv_refused`). `LostOnlyBehindRefused` is what remains true: no other row gets
  lost in this way.
* `hk_reportcsv` does not double quotes within a text (hk_reportutils.cpp:847;
  ChangeLog:485 says it "handles textdelimiters correctly now"), so that the importer cannot
  read them back. `Unambiguous` leaves these files out of the properties, not out of
  the runs.
* A file of nothing but a header, or whose first line of data is shorter than the
  header, has columns that are NULL when the search for an `auto_inc` column looks
  at them (hk_importcsv.cpp:382, and 363): the program ends (`Crash`). ChangeLog:670
  says that the latter is fixed.
* Such a file, appended to a table and without an end of line, is read for ever: the
  stream has failed and never says `eof()` (`imp.stuck`).
* A column of ascending numbers becomes `auto_inc`: the server numbers the rows and
  the numbers of the file are lost. A file of one such column gives an empty table
  and the answer true. A row of only empty numbers is lost as well.
* Appending with a header names the columns twice: a row longer than the table
  overwrites the first columns (against hk_importcsv.h:71), and the order of the
  header does not matter.
* Only the first carriage return of a line is removed; `get_line` appends "\n"
  whatever the row delimiter is; separators of more than one character match nothing;
  a quote within an unquoted value swallows the lines that follow; behind the 50
  lines of the preview a text in a column of numbers becomes 0.
* What the user answers to the progress dialog is replaced by the answer to "Cancel
  import?" when the same row was refused. Returns before the end keep the column list
  for the next import, and the datasource stays in access mode batchwrite.

*Visible objects.*
* `hk_dsdatavisible::set_datasource` keeps the pointer to the column if the new
  datasource is disabled (hk_dsdatavisible.cpp:99-114), and `column()` returns it:
  the column of another datasource, alive or not.
* `hk_listvisible` keeps `p_viewcolumn` when its datasource is deleted;
  `ColumnsAlive` speaks of visibles that have a datasource.
* What belongs to a presentation ignores `set_datasource(NULL)`
  (hk_dsvisible.cpp:95), so `before_source_vanishes` leaves it attached, but the
  columns of its grid, which have no presentation, are released.
* The walks of hk_datasource.cpp:3803-3890 keep an iterator to the next visible. A
  script that queries its own datasource again, while the next visible is a column
  that an automatic grid deletes, leaves that iterator dangling: with
  `CarefulScripts = FALSE` in `Visibles_form.cfg`, TLC finds `IteratorsValid` violated.
  `visibles_form` and the theorems are about careful scripts.
* Two comboboxes of different datasources may list the same one: disabling one
  datasource closes the list of the other (hk_dscombobox.cpp:412). Likewise a detail
  whose combobox lists its master disables the master.
* `hk_listvisible::datasource_disable` does not take itself out of the column's list
  of listeners (hk_dscombobox.cpp:130-135). The walks for `before_insert_row` and
  `table_structure_changes` set the mark after the call instead of before it
  (hk_datasource.cpp:427, 455). `hk_dsgrid::resize_cols` leaks a column when it
  shrinks (hk_dsgrid.cpp:489). Not modelled.

## Proofs

`DatasourceProofs` proves for all values of the constants (the assumption
`ConstantsAssumption` is what they are declared to be)

* `TypeCorrectness`: `Spec => []TypeOK`,
* `CursorCorrectness`: `Spec => []CursorInRange`.

Neither is inductive alone. The invariant is `Good(ds)`: the types, the cursor's
range, and that the server's table is finite, without which `enable()` could not
load it into a sequence. Each handler has a lemma `...Good` that it preserves
`Good` for every set of refusals; the lemmas follow the call graph, from
`EnableGood` and `UpdatedGood` up to `DeleteRowsGood`, and `NextGood` has one
case per action. `RowsGood` states once what a handler that changes rows and
cursor has to show. `RemoveAtProperties` and `CutProperties` are the two facts
about shortened sequences the deletions rest on.

Its second part proves for every client and every set of refusals

* `MirrorCorrectness`: `PrimaryKey => (Spec => []MirrorsServer)`.

The invariant `Mirrored` joins `Good` with two facts about keys. `Keyed`: the keys in
the table differ and are below the next one, so that an inserted row is new.
`Copied`: while the datasource is enabled, `p_data` has every row of the table at
exactly one place. An UPDATE or DELETE goes by the key, the copy is changed at the
cursor, and only because the key occurs once do both reach the same row
(`PatchedCopied`, `AppendedCopied`, `RemovedCopied`, `CutCopied`: one for each way the
code changes rows). Without a primary key the statement goes by values and the theorem
is false, see above.

Its third part is about clients that do what buttons, visible objects and the
opening and closing of a form do. `ScriptedForm` says so of `Calls` (a script may also
call `enable()` twice) and that a query succeeds; every other party may refuse. Run
`datasource_form` is an instance. Under it

* `TransactionsAreClosed`: `Spec => []TransactionsClosed`,
* `ChangesHaveColumns`: `Spec => []ChangedHasColumns`,
* `DeletionsAreRequested`: `Spec => DeletedOnlyOnRequest`.

Its invariant `Form` is what those clients never do to the object: it is not read
only, ignores nothing, leaves no transaction open and is not left in the mode for
deleting, and `p_has_changed` is set only when a column has changed. The last part is
what the early returns of `update_row()` and `insert_row()` depend on, after which a
transaction would stay open. For the step properties each handler has a lemma which
of five outcomes it has for the table and the pending values: `Kept`, `Dropped`,
`StoredIn` the current row, `Added` as a new row, or, in a deletion, `Removed`.

`PlainForm` is a form that enables only what is disabled and whose server refuses no
UPDATE and no DELETE (run `datasource_rows`). Then `Placed` is invariant too: what is
pending was typed for the row under the cursor and has the change flag (`NoneAssumption`:
nothing pending is no pending value), and

* `EditsAreOnTheirRow`: `Spec => []EditsStayOnTheirRow`,
* `EditsKeepTheirFlag`: `Spec => []EditsAreFlagged`,
* `ValuesAreStoredOrKept`: `Spec => StoredOrKept`, of a table with a primary key,
* `FormImplementsRowEditing`: `Spec => ImplementsRowEditing`, of a table with a primary
  key. This is the refinement: each of the five outcomes is one action of `RowEditing` or a stutter.

`PresentationProofs` proves, under `PresentationAssumption` (`NoDS` is no
datasource, the bounds are numbers), for any number of datasources, finite or
not, and any client, also one for which `WalkReturns` does not hold

* `NoCircles`: `Spec => []Acyclic`,
* `MastersKnowDetails`: `Spec => []PointersAgree`,
* `UniqueNumbers`: `Spec => []NumbersUnique`,
* `PresentationTypes`: `Spec => []TypeOK`,

and for `CarefulClients`

* `MastersAreSaved`: `Spec => []SavedAsShown`,
* `MastersAreMeant`: `Spec => []MasterAsAsked`.

That no circle arises is not obvious, because the walk that searches for one
changes masters while it searches: when `Attach` sets the master of `d` to `t`,
other calls have set masters since the walk from `t` began. The invariant says
what the walk can still rely on. `Passed(f)`: the set `f.seen` of datasources
the walk has passed is closed, every master of one of them is in the set or is
where the walk is now, and `f.this` is not in it. `Waiting(i)`: a walk below the
top is at a datasource, and no walk above it works for a datasource it has
passed, so what it has passed keeps its master until it goes on. When a walk
ends, the set is closed under masters and contains the target but not `d`, so a
circle through the new edge would have to enter the set and could not leave
it (`AttachAcyclic`). `Acyclic` speaks of sets: every nonempty one has a member
whose master is outside. That says it without paths and recursion. `UniqueNumbers` has an
invariant of its own, `Numbered`: the numbers listed are different and below the
counter, and those in the file are different.

`CarefulClients` do not set masters before the pointers are known, and one that loads
the presentation does not delete a datasource that others have as master nor lose its
table; both clients of `presentation_working` are such. What was meant (`asked`) is
remembered by number only, and a number can be
that of somebody else. The invariant `Meaning` says why it is not: every number
remembered is that of the datasource meant (`Remembered`), also during a call, which
has changed it already and would change it back (`OwnNumber`); a call that looks up a
master looks up the one meant, and one that sets a master is alone on the stack
(`Meant`); the file says the same (`Kept`); and no number is given a second time while
it is remembered (`Unmistakable`).

`ReportProofs` proves, for every result, layout, number of groups and moment the
report is stopped, and every driver that takes back a step (which is what
`ASSUME \A d \in Drivers : d.steps` says), and a datasource that was not moved back before
(`~SteppedBefore`),

* `ReportReadsAsCursor`: `Spec => ReadsAsCursor`, the refinement of `RowCursor`,
* `RowPositionUnsigned`: `p_rowposition` is never counted below 0,

and under `ReportAssumption` (`Nothing` is no row, a layout has finitely many pairs of
sections) in addition,

* `RowsArePrintedOnce`: `Spec => []EveryRowOnce`,
* `SummariesAreOfTheirGroup`: `Spec => []SummariesMatch`,
* `GroupsAreFramed`: `Spec => []GroupsFramed`.

A step of the report maps to a step of the cursor or to none. That needs to know where
the window is: `BatchTypes`; `Window` (the second row is the one read last, the first
the one before it, and the counter belongs to them); `Stepping` (the flag of
`goto_previous` is set exactly in the phases between a step back and the step
forward again); `Positions` (`p_rowposition` agrees with the counter, or is one less
while stepped back).

`RowsPrinted` adds how many rows have been printed in each phase (`Progress`) and that the
row of the i-th data section is row i. `EveryRowOnce` counts sections by the
cardinality of a set, and `AppendCounts` is how that grows. For the sums, `Pairs` says
of each pair of sections which rows its counters have seen: those from the row that
opened its group to the row before or at the cursor, depending on the phase
and on how far the loops over headers and footers have come; `Endings` says
that footers are printed from the outermost pair whose column has changed inwards, and
otherwise none; `Totals` is the same for the whole report; `Summaries` is the
property for what has been printed. They need each other: a counter is cleared when a
header is printed, and whether one is printed was decided by the footers before it.

`ShapeInv` says of each phase what the sections printed so far look like: the rows
before this one with their frames (`Before`), then the footers from the innermost pair
out to where the loop is, then, if footers were printed, the headers from the outermost
pair that has ended (`FirstEnd`) in to where that loop is (`Reopened`). A header is due
exactly where the reference definition has one (`DueIsTitled`): if its group goes on the
field it remembers is the same, and otherwise it remembers nothing. That needs `Pairs`
and `Endings`. `Shape`, `Headers`, `Footers` and `Frames` are folds; the invariant is
stated with folds of constants (`HeadersIn`, ...), of which the prover knows that they do
not change when the state does, and `HeadersAre`, `FootersAre` and `FramesAre` say that
they are the same.

`CopyTableProofs` proves, for all tables and columns, every driver and all answers of
server and user, for a source not moved back before (`~SteppedBefore`), under
`CopyAssumption` (rows have the columns of the table, and
"not set" is no value) and the assumptions of the two components,

* `CopyInOrder`: `Spec => []CopiedInOrder`,
* `CopyComplete`: `Spec => []NothingLeftOut`,
* `SourceComesBack`: `Spec => []SourceGivenBack`.

The invariant has seven parts: `Types`; `Calling` (nothing has happened before the
call begins); `OnRow` (the source shows the row the loop is about to copy, in the
window or among the rows loaded, also behind the last); `Pending` (what is pending in
the new table, and that nothing is unless a row was refused); `Answers` (why the loop
ended, and who knew of it); `Arrived` (what was read is stored or refused); and
`CopiedInOrder`. The lemmas about `SetColumn` folded over the columns say that the
pending values are exactly the fields of the row. `SourceComesBack` has an invariant
of its own, `Borrowed`: a source that was loaded before is not opened as a batch, and
only the loop can be cancelled.

`VisiblesProofs` proves under `VisiblesAssumption` (the kinds of visibles are
different things, a query yields columns) and for `CarefulScripts`, without which
`IteratorsValid` is false, for any fields, names, queries and bound of
scripts,

* `CallsKeepTogether`: `Spec => []Safe`,
* `IteratorsStayValid`: `Spec => []IteratorsValid`,
* `PointersStayAlive`: `Spec => []ColumnsAlive`,
* `WhoIsNotToldFits`: `Spec => []Knowing`,
* `EverybodyIsTold`: `Spec => []EverybodyTold`.

That a pointer is not left at a deleted column depends on everybody having been told
before, by a walk that other calls may have interrupted. `Safe` is what each step can
rely on: `Types`; `Linked` (a list holds exactly the visibles that point to its
datasource, once); `Placed` (who can be attached where); `Stacked`, the shape of the
stack: `Chained` says what an item stands upon, for example that `delete_columns` of
`enable()` has `query` below it and that a walk in the middle of another is one of the
other datasource; `Undisturbed` (an iterator is in its list, and no walk stands at a
column of the grid while the grid deletes it); `Working` (how far a call that deletes columns
has come: whoever is before the iterator has given up the pointer, and when the
columns are deleted nobody has one); `AllAlive`, the property. Each operator that
changes the visibles has a lemma that says once what it leaves (`AttachedIs`,
`ReleasedIs`, `ColsCreatedIs`, ...); `Calm` and `Over` are for calls that put items on the
stack: below an item that is not itself part of an enabling or a deletion nobody is, so
that the shape of what is below does not change.

`EverybodyTold` says something of the end of a call only, while the flag `handled`,
the walks that begin again and the calls of scripts matter before it. `Knowing` is the
invariant that relates them, on top of `Safe`. `Informed`: the visibles of a datasource
show what they should (`Settled`) unless an item of the stack tells them or will
(`Telling`); each walk finds the datasource as it announces it, and when it begins the
visibles that it would skip, because they are marked as handled, fit already (`Going`);
while columns are announced, an automatic grid that is behind the iterator has made its
own (`Creating`). `Living`: a datasource that vanishes or is deleted does not come back,
one that is enabled has columns, an automatic grid that waits for its datasource has none.
Each step then shows for each datasource that it is told, that it is settled, or that
whoever fitted still does (`Keeps`, `Marked`); `StepInformed` draws the conclusion once
for all steps. When the stack is empty nobody is being told, so everybody is settled.

`CsvReadProofs` and `CsvImportProofs` prove for any characters, files, settings, answers of
server and user, and length of the preview, under the assumptions about characters and
files above, `UnsetAssumption` (a value that is not set is no text) and
`SettingsAssumption` (a missing column is no number),

* `ReadsLinesAsRows`: `Spec => []LinesAreRows`,
* `GuessesFittingTypes`: `Spec => []TypesFitPreview`,
* `PutsValuesInTheirColumns`: `Spec => []ValuesInTheirColumns`,
* `LosesOnlyBehindRefused`: `Spec => []LostOnlyBehindRefused`,
* `ImportKeepsInv`: the invariant they follow from.

The properties speak of files whose quotes can be told apart (`Unambiguous`), and so does
the invariant (`ClearFile`). The first half is about text, without steps. `Scan` is
followed through one value (`SectionsRead`: behind its delimiter the scan holds the values
written so far, whatever quotes, separators and ends of line are in them, because a quote
within a value is doubled or there is none), from there through a row (`RowRead`), and
through the file: the characters `get_line` looks at have an even number of quotes before
an end of line that is one (`WatchedNext`, `GetLast`), so each call takes off one row
(`GotOne`, `GotAll`). `LinesAre` is the result: the lines are the rows.

The second half is the import. `TypesInv`; `Untouched` (nothing has happened before the
first line); `OnLine` (the values are those of the line read last); `Prepared` (the types
fit what was previewed, each value has the column it should); `InOrder`, `RowsKept` and
`Accounted`, of every line that has been read where it is: stored, with the values of that
row and no other, reported, empty, or behind a reported one; `AtEnd`. That a refused row
leaves no value behind for the next one is in `Settled`: no column has a pending value
between two lines. What it leaves is the ignore flag, and `FlagIsNew` says that the flag
is set only directly behind a refused row: the store of the next one consumes it.
The pending values of a line are a fold of `set_asstring` over its values, and
`LineKept` says that they are the row.

Induction. What a recursive definition or a fold computes is proved by induction over
numbers and sequences, which the library states with operators as parameters, and those
the provers cannot instantiate. `SetInduction`, `LeastExists` and `SeqInduction` state it
with the set of those for which the claim holds, and rest on the least element of a
well-founded set (`WFMin`). In `FoldLemmas` the operator that is folded is a constant of
the module: each fold is an instance (`Scanning`, `Calling`, `Shaping`, ...), which then
has the equations `FoldEmpty` and `FoldAppend` as its own lemmas.

Only model-checked: the invariants of `MasterDetail`, whose handlers call each other
recursively over the tree, as RECURSIVE operators the prover does not reason about;
`WalkReturns` and all other liveness.

## Plan

1. Done: `Datasource`, `MasterDetail`, `Presentation`, `BatchAccess` and `Report`,
   `CopyTable`, `CsvImport`, `Visibles`; the proofs above.
2. `FormModes`: a form with objects, opening, closing, design mode, subforms and
   triggers; joins `Presentation` and `Visibles` with the enabling of `MasterDetail`.
3. `TableDefinition` (create and alter table, their modes on failure); `TableLoad`
   (loading that is cancelled halfway).
4. `Connection`: connecting with retries, disconnecting everything opened, copying a
   database; the lists and stored files of `hk_database`.
5. Pure parts against reference definitions: `ColumnScan` (`find`, `sum`, `count`),
   the SQL parser, query by example.
6. Proofs about `MasterDetail`, with its handlers as functions over the levels of the
   tree instead of RECURSIVE operators.

Small modules will share runs (several components in one MC module, one setup
each), as the setups of `MasterDetail` do, so that the whole project stays
quick to check.

## Not modelled

Formatting of values, translation, printing and page layout, the drivers'
calls into client libraries, the vendored SQLite, xbase, pxlib and mdbtools,
the generated Python wrapper and the command line utilities: no state of the
parts above depends on how they work beyond success or failure.

Nearly three quarters of the lines below `src/` are vendored or generated: two versions
of SQLite, xbase, pxlib, mdbtools and the SWIG wrapper. Of the library's own code the
plan names what is left with state worth a model. The rest keeps none: buttons and
labels call one operation, `hk_dsquery` and `hk_dstable` give a datasource a name,
fonts and colours are values, and saving and loading of properties is one tag after
the other.
