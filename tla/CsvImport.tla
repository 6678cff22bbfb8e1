------------------------------- MODULE CsvImport -------------------------------
(***************************************************************************)
(* hk_importcsv: the types of a new table are guessed from the first lines *)
(* of the file, or the columns of a table that exists are taken; then      *)
(* every line is taken apart (CsvText) and entered as a row (BatchWrite).  *)
(*                                                                         *)
(* Columns are numbers, those of a new table in the order of its names     *)
(* (the first line of the file, or "field_0", "field_1"...).               *)
(***************************************************************************)
EXTENDS CsvText, BatchWrite

CONSTANTS
  Files,       \* the files, see Written
  Settings,    \* how they are imported
  MaxPreview   \* the lines read to guess types (maxpreview, 50)

ASSUME PreviewAssumption == MaxPreview \in Nat

(***************************************************************************)
(* A row of a file is a sequence of [text, quoted]; a text that is not     *)
(* quoted holds no delimiter.  hk_reportcsv writes quotes within a text as *)
(* they are (not .doubled); other programs double them, or end lines with  *)
(* a carriage return as well, or leave the last end of line out (not       *)
(* .last).  A carriage return within a value is left out of the model.     *)
(***************************************************************************)
Rows == Seq(Seq([text : Seq(Characters \ {CarriageReturn}), quoted : BOOLEAN]))

ASSUME FilesAssumption ==
  \A f \in Files :
    /\ f \in [rows : Rows, doubled : BOOLEAN, last : BOOLEAN,
              end : {<<RowDelimiter>>, <<CarriageReturn, RowDelimiter>>}]
    /\ \A k \in DOMAIN f.rows : \A i \in DOMAIN f.rows[k] :
         \/ f.rows[k][i].quoted
         \/ f.rows[k][i].text \in
              Seq(Characters \ {CarriageReturn, TextDelimiter, BetweenFields, RowDelimiter})

\* What is set is told from what is not.
ASSUME UnsetAssumption ==
  /\ Unset # Garbled
  /\ \A f \in Files : \A k \in DOMAIN f.rows : \A i \in DOMAIN f.rows[k] :
       Unset # f.rows[k][i].text

\* Columns are numbers, a NULL pointer is none.
ASSUME SettingsAssumption ==
  /\ NoColumn \notin Nat
  /\ Settings \subseteq
       [header : BOOLEAN, append : BOOLEAN, detect : BOOLEAN, dialog : BOOLEAN,
        types : Seq({"text", "integer", "float", "auto"}), given : Seq(Columns)]

VARIABLES
  file,        \* the file [rows, doubled, end, last]
  setting,     \* [header, append, types, given, detect, dialog]
  lines,       \* what is read from the file, see Lines
  imp,         \* the hk_importcsv
  target       \* the table that is filled

vars == <<file, setting, lines, imp, target>>

\* Quotes are doubled.
Doubled(text) ==
  FoldLeft(LAMBDA acc, c : acc \o (IF c = TextDelimiter THEN <<c, c>> ELSE <<c>>),
           <<>>, text)

WrittenRow(f, k) ==
  CsvSection([i \in DOMAIN f.rows[k] |->
                CsvField(IF f.doubled THEN Doubled(f.rows[k][i].text) ELSE f.rows[k][i].text,
                         f.rows[k][i].quoted)],
             IF k = Len(f.rows) /\ ~f.last THEN <<>> ELSE f.end)

Written(f) == FlattenSeq([k \in DOMAIN f.rows |-> WrittenRow(f, k)])

(***************************************************************************)
(* setting: .header is p_firstrow_contains_fieldnames, .append says that   *)
(* the rows go to a table that exists, with columns of .types; .given are  *)
(* columns named before, .detect is p_detect_autoinc; .dialog says that    *)
(* there is a progress dialog to cancel the import.                        *)
(* imp: .line is how many lines have been read from the stream, .eof its   *)
(* eof() (.stuck: it has failed and will not say so), .values p_valuelist, *)
(* .list the columns of p_columnlist, .types those of the table, .cancel   *)
(* p_cancelimport, .errors the rows reported in the end, .result what      *)
(* execute returns.                                                        *)
(***************************************************************************)

(***************************************************************************)
(* What the calls of get_line on file f give, one after the other: the     *)
(* values create_valuelist makes of each line as data (.values) and for    *)
(* the guess of types (.marked), and whether eof() is set then.            *)
(***************************************************************************)
Lines(f) ==
  LET text  == Written(f)
      calls == Cardinality({ i \in DOMAIN text : text[i] = RowDelimiter }) + MaxPreview + 2
      reads == FoldLeft(LAMBDA acc, i : Append(acc, GetLine(IF i = 1 THEN text ELSE Last(acc).rest)),
                        <<>>, [i \in 1..calls |-> i])
  IN  [i \in 1..calls |-> [values |-> CreateValuelist(reads[i].line, TRUE),
                           marked |-> CreateValuelist(reads[i].line, FALSE),
                           eof |-> reads[i].eof]]

Init ==
  /\ file \in Files
  /\ setting \in Settings
  /\ lines = Lines(file)
  /\ imp = [phase |-> "called", eof |-> FALSE, stuck |-> FALSE, line |-> 0,
            values |-> <<>>, list |-> <<>>, types |-> <<>>,
            cancel |-> FALSE, errors |-> {}, result |-> FALSE]
  /\ target = EmptyTarget(NoColumn)

-----------------------------------------------------------------------------
(* initialize_table.                                                       *)

HeaderLines == IF setting.header THEN 1 ELSE 0

\* The lines whose values correct the types guessed from the first one.
PreviewLines ==
  { n \in (HeaderLines + 2)..(HeaderLines + 1 + MaxPreview) :
      \A m \in (HeaderLines + 1)..(n - 1) : ~lines[m].eof }

\* create_automatic_columns for a new table, unless columns were named.
Names == IF setting.given # <<>> THEN Len(setting.given) ELSE Len(lines[1].values)

\* A new table gets the columns the first line of data has a value for.
NewWidth == Min({Names, Len(lines[HeaderLines + 1].marked)})

\* Column c after the preview: its type, and the last of its values if they
\* have been ascending (currentvalue).
Guessed(c) ==
  LET first == lines[HeaderLines + 1].marked[c]
      corrected(g, n) ==
        LET values == lines[n].marked
            type == Merged(g.type, InterpretColumntype(values[c]))
            v == IntegerOf(values[c])
        IN  IF c \notin DOMAIN values THEN g
            ELSE [type |-> type,
                  value |-> IF type = "integer" /\ v > g.value /\ g.value > 0
                            THEN v ELSE -1]
  IN  FoldLeft(corrected,
               [type |-> InterpretColumntype(first),
                value |-> IF InterpretColumntype(first) = "integer"
                          THEN IntegerOf(first) ELSE -1],
               [i \in 1..Cardinality(PreviewLines) |-> HeaderLines + 1 + i])

\* The first column that has been ascending becomes an auto_inc column, if
\* the preview went more than two rounds, the one that met the end included.
AutoColumn ==
  LET rounds == Min({MaxPreview, Cardinality(PreviewLines) + 1})
      ascending == { c \in 1..NewWidth :
                       Guessed(c).type = "integer" /\ Guessed(c).value > 0 }
  IN  IF setting.detect /\ rounds > 2 /\ ascending # {} THEN Min(ascending) ELSE NoColumn

\* A name without a column is a NULL pointer, looked through when auto_inc
\* columns are searched for, or at the first line with a value for it.
LooksThroughNull ==
  /\ Names > NewWidth
  /\ setting.detect \/ \E n \in PreviewLines : Len(lines[n].marked) > NewWidth

NewTypes ==
  [c \in 1..NewWidth |-> IF c = AutoColumn THEN "auto" ELSE Guessed(c).type]

\* create_automatic_columns for a table that exists names all its columns,
\* and is called twice if the header was read.
AppendList ==
  LET all == [c \in DOMAIN setting.types |-> c]
  IN  setting.given
      \o (IF setting.header /\ setting.given = <<>> THEN all ELSE <<>>) \o all

\* Faulty variant: an auto_inc column is filled like any other.
NoAuto(types) == NoColumn

AutoOf(types) ==
  IF "auto" \in Range(types) THEN CHOOSE c \in DOMAIN types : types[c] = "auto"
  ELSE NoColumn

\* No file, a table that exists and may not be replaced, one that cannot be
\* created or enabled.
NotInitialized ==
  /\ imp.phase = "called"
  /\ imp' = [imp EXCEPT !.phase = "returned"]
  /\ UNCHANGED <<file, setting, lines, target>>

Crash ==
  /\ imp.phase = "called" /\ ~setting.append /\ LooksThroughNull
  /\ imp' = [imp EXCEPT !.phase = "crashed"]
  /\ UNCHANGED <<file, setting, lines, target>>

\* The table is ready and the stream behind the header.  execute seeks to
\* the end and back, which clears eof() and not that reading has failed.
InitializeTable ==
  /\ imp.phase = "called" /\ (setting.append \/ ~LooksThroughNull)
  /\ LET types == IF setting.append THEN setting.types ELSE NewTypes
         list  == IF setting.append THEN AppendList
                  ELSE [i \in 1..Names |-> IF i <= NewWidth THEN i ELSE NoColumn]
     IN  /\ types # <<>>
         /\ imp' = [imp EXCEPT
              !.phase = "importing", !.line = HeaderLines,
              !.stuck = setting.header /\ lines[1].eof,
              !.types = types, !.list = list]
         /\ target' = EmptyTarget(AutoOf(types))
  /\ UNCHANGED <<file, setting, lines>>

-----------------------------------------------------------------------------
(* execute.                                                                *)

\* One column: an empty text is no number.
SetValue(t, c, text) ==
  IF c = NoColumn \/ (IsNumeric(imp.types[c]) /\ text = <<>>) THEN t
  ELSE SetColumn(t, c, Read(imp.types[c], text))

SetValues(t, values) ==
  LET n == Min({Len(imp.list), Len(values)})
  IN  FoldLeft(LAMBDA acc, i : SetValue(acc, imp.list[i], values[i]), t,
               [i \in 1..n |-> i])

\* Faulty variant: a row that was refused stays pending.
ImportLineKeeping ==
  /\ imp.phase = "importing" /\ ~imp.eof /\ ~imp.cancel
  /\ \E wanted, accepted, gives_up \in BOOLEAN :
     \E stops \in (IF setting.dialog THEN BOOLEAN ELSE {FALSE}) :
       LET line == Min({imp.line + 1, Len(lines)})
           values == lines[line].values
           begun == SetmodeInsertrow(target, line, wanted, accepted)
           s == StoreChangedData(SetValues(begun, values), accepted)
       IN  /\ target' = s.target
           /\ imp' = [imp EXCEPT
                !.line = line, !.values = values, !.eof = lines[line].eof /\ ~imp.stuck,
                !.errors = IF s.ok THEN @ ELSE @ \cup {line},
                !.cancel = IF s.ok THEN stops ELSE gives_up]
  /\ UNCHANGED <<file, setting, lines>>

\* One turn of the loop.  accepted is the server's answer, wanted, stops and
\* gives_up the user's to "Store changed data?", to the progress dialog and to
\* "Cancel import?": the last answer replaces the one before.
ImportLine ==
  /\ imp.phase = "importing" /\ ~imp.eof /\ ~imp.cancel
  /\ \E wanted, accepted, gives_up \in BOOLEAN :
     \E stops \in (IF setting.dialog THEN BOOLEAN ELSE {FALSE}) :
       LET line == Min({imp.line + 1, Len(lines)})
           values == lines[line].values
           begun == SetmodeInsertrow(target, line, wanted, accepted)
           s == StoreChangedData(SetValues(begun, values), accepted)
       IN  /\ target' = IF s.ok THEN s.target ELSE SetIgnoreChangedData(s.target)
           /\ imp' = [imp EXCEPT
                !.line = line, !.values = values, !.eof = lines[line].eof /\ ~imp.stuck,
                !.errors = IF s.ok THEN @ ELSE @ \cup {line},
                !.cancel = IF s.ok THEN stops ELSE gives_up]
  /\ UNCHANGED <<file, setting, lines>>

\* Faulty variant: a cancelled import waits for the end of the file.
ReturnAtEnd ==
  /\ imp.phase = "importing" /\ imp.eof
  /\ imp' = [imp EXCEPT !.phase = "returned", !.result = ~imp.cancel]
  /\ UNCHANGED <<file, setting, lines, target>>

Return ==
  /\ imp.phase = "importing" /\ (imp.eof \/ imp.cancel)
  /\ imp' = [imp EXCEPT !.phase = "returned", !.result = ~imp.cancel]
  /\ UNCHANGED <<file, setting, lines, target>>

Next == NotInitialized \/ Crash \/ InitializeTable \/ ImportLine \/ Return

\* The loop runs within one call.
Spec == Init /\ [][Next]_vars /\ WF_vars(ImportLine \/ Return)

-----------------------------------------------------------------------------
(* Properties.                                                             *)

Texts(row) == [i \in DOMAIN row |-> row[i].text]

IsBlank(row) == Len(row) = 1 /\ row[1].text = <<>> /\ ~row[1].quoted

Reading == imp.phase \in {"importing", "returned"} /\ imp.line > HeaderLines

\* A file no quote of which can be mistaken.
Unambiguous ==
  file.doubled \/ \A k \in DOMAIN file.rows : \A i \in DOMAIN file.rows[k] :
                    TextDelimiter \notin ToSet(file.rows[k][i].text)

(***************************************************************************)
(* get_line and create_valuelist read what was written: the n-th line is   *)
(* the n-th row, value by value, whatever quotes, separators and ends of   *)
(* line its texts hold.  A row of one empty value is a blank line, and     *)
(* what follows the last end of line is one more.                          *)
(***************************************************************************)
LinesAreRows ==
  Reading /\ Unambiguous =>
    imp.values = IF imp.line > Len(file.rows) \/ IsBlank(file.rows[imp.line]) THEN <<>>
                 ELSE Texts(file.rows[imp.line])

\* The lines of data the types were guessed from.
Previewed == (HeaderLines + 1)..Min({HeaderLines + 1 + MaxPreview, Len(file.rows)})

IsNumber(f, kinds) == ~f.quoted /\ InterpretColumntype(f.text) \in kinds

(***************************************************************************)
(* The types of a new table do not depend on the order of the lines: a     *)
(* column is of type integer or auto_inc if all values seen are unquoted   *)
(* integers, numeric if they are numbers, and text otherwise.              *)
(***************************************************************************)
TypesFitPreview ==
  imp.phase = "importing" /\ ~setting.append /\ Unambiguous =>
    \A c \in DOMAIN imp.types :
      LET seen == { file.rows[k][c] : k \in { l \in Previewed : c \in DOMAIN file.rows[l]
                                                                /\ ~IsBlank(file.rows[l]) } }
      IN  /\ imp.types[c] \in {"integer", "auto"} <=> \A f \in seen : IsNumber(f, {"integer"})
          /\ imp.types[c] = "text" <=> ~\A f \in seen : IsNumber(f, {"integer", "float"})

\* What column c of the table holds of a row.
Kept(row, c) ==
  IF c = target.auto THEN Assigned
  ELSE IF c \notin DOMAIN imp.types \cap DOMAIN row \/ IsBlank(row) THEN Null
  ELSE IF IsNumeric(imp.types[c]) /\ row[c].text = <<>> THEN Null
  ELSE Read(imp.types[c], row[c].text)

(***************************************************************************)
(* Every row of the table is a row of the file with each value in its      *)
(* column, in the order of the file, none twice, and none that has been    *)
(* reported as not imported: nothing of a row the server refused gets into *)
(* a later one.  Of rows longer than a table that exists see the README.   *)
(***************************************************************************)
ValuesInTheirColumns ==
  Unambiguous /\ setting.given = <<>>
  /\ (setting.append => \A k \in DOMAIN file.rows : Len(file.rows[k]) <= Len(setting.types)) =>
    /\ \A i \in DOMAIN target.stored :
         LET s == target.stored[i]
         IN  /\ s.from \in DOMAIN file.rows \ imp.errors
             /\ s.row = [c \in Columns |-> Kept(file.rows[s.from], c)]
    /\ \A i, j \in DOMAIN target.stored :
         i < j => target.stored[i].from < target.stored[j].from

\* A row whose values are for columns that take none.
HoldsNothing(row) ==
  \A i \in DOMAIN row \cap DOMAIN imp.list :
    \/ imp.list[i] \in {NoColumn, target.auto}
    \/ IsBlank(row)
    \/ IsNumeric(imp.types[imp.list[i]]) /\ row[i].text = <<>>

RowsRead == (HeaderLines + 1)..Min({imp.line, Len(file.rows)})

\* Row k is in the table or reported as not imported, or holds nothing to store.
IsAccounted(k) ==
  \/ HoldsNothing(file.rows[k])
  \/ k \in imp.errors
  \/ \E i \in DOMAIN target.stored : target.stored[i].from = k

(***************************************************************************)
(* Each row read is accounted for: what is not imported is in the list     *)
(* shown in the end (ChangeLog: "failed imported rows will be displayed"). *)
(***************************************************************************)
EveryRowAccounted == Reading /\ Unambiguous => \A k \in RowsRead : IsAccounted(k)

(***************************************************************************)
(* What the code keeps of it: a row that is neither in the table nor       *)
(* reported comes right behind a reported one, whose ignore flag it met;   *)
(* no refusal costs more than one row beside its own, and execute returns  *)
(* true only after the last row.                                           *)
(***************************************************************************)
LostOnlyBehindRefused ==
  Reading /\ Unambiguous =>
    /\ \A k \in RowsRead : IsAccounted(k) \/ k - 1 \in imp.errors
    /\ imp.result => imp.line >= Len(file.rows)

\* execute returns, but for a file that ends within its header.
ImportReturns == imp.phase = "importing" /\ ~imp.stuck ~> imp.phase = "returned"
=============================================================================
