-------------------------------- MODULE Report --------------------------------
(***************************************************************************)
(* The printing of a report (hk_report::internal_execute) with the         *)
(* sections it is made of (hk_reportsection, hk_reportsectionpair) over a  *)
(* datasource in batch access.                                             *)
(*                                                                         *)
(* A pair of sections groups the rows by a column: its header is printed   *)
(* before the first row of a group and its footer after the last.  That a  *)
(* group has ended shows only when the next row has been read, so the      *)
(* report steps back to print the footers and forward again to go on.      *)
(* One action prints one section or moves the datasource by one row.       *)
(***************************************************************************)
EXTENDS BatchAccess, SequencesExt

CONSTANTS
  Layouts,     \* the reports: [pairs, breakdata]
  Blank,       \* a field that is empty or NULL reads as "", which is also
               \* what p_lastuniquevalue is set to
  NoColumn,    \* a pair that groups by nothing
  MaxCarried   \* bound: no report is stopped when a columnless pair counts more

(***************************************************************************)
(* A row is [id, is], its number in the table and its fields.  A pair is   *)
(* [column, header, footer, breaks]: the column it groups by, which of its *)
(* sections exist (set_sections), and which of them ask for a new page     *)
(* after them (new_page_after_section).                                    *)
(***************************************************************************)
ASSUME ReportAssumption ==
  /\ Nothing \notin AllRows
  /\ \A l \in Layouts : Len(l.pairs) \in Nat

VARIABLES
  layout,
  phase,       \* where internal_execute is, "idle" outside
  at,          \* p: the pair whose header is looked at
  foot,        \* c: the pair whose footer is next
  footers,     \* printfootersection
  position,    \* p_rowposition
  last,        \* p_lastuniquevalue of the headers
  counted,     \* what the counters of footers, data section and report
               \* footer have counted: rows
  stopped,     \* p_cancelreport
  out          \* the sections printed

vars == <<driver, rows, batch, layout, phase, at, foot, footers, position,
          last, counted, stopped, out>>

N == Len(layout.pairs)
Pair(p) == layout.pairs[p]
\* Whose counters: a footer's, the data section's, the report footer's.
Counters == 0..(N + 1)
DataSection == 0
ReportFooter == N + 1

Here == Shown(batch)

RowPosition == batch.counter        \* row_position()
MaxRows == batch.maxrows            \* max_rows()

ReportInit ==
  /\ BatchInit
  /\ layout \in Layouts
  /\ phase = "idle" /\ at = 1 /\ foot = 0 /\ footers = TRUE /\ position = 0
  /\ last = [p \in 1..N |-> Blank]
  /\ counted = [s \in Counters |-> <<>>]
  /\ stopped = FALSE /\ out = <<>>

-----------------------------------------------------------------------------
(* Sections.                                                               *)

Field(p) == IF Here = Nothing \/ Pair(p).column = NoColumn THEN Blank ELSE Here.is[Pair(p).column]

\* new_uniquevalue of a header.
HeaderDue(p) ==
  \/ MaxRows = 0
  \/ IF Pair(p).column = NoColumn THEN RowPosition = 0 ELSE last[p] # Field(p)

\* new_uniquevalue of a footer nobody forced, whose p_lastuniquevalue is "".
FooterDue(p) ==
  \/ MaxRows = 0
  \/ RowPosition >= MaxRows - 1
  \/ Pair(p).column # NoColumn /\ RowPosition > 0 /\ Field(p) # Blank

\* actual_string: a report that is stopped prints sections without data.
Section(kind, p, count) ==
  [kind |-> kind, pair |-> p, row |-> IF stopped THEN Nothing ELSE Here,
   count |-> IF stopped THEN <<>> ELSE count]

Page == [kind |-> "page", pair |-> 0, row |-> Nothing, count |-> <<>>]

Output(s, break) == out' = out \o (IF break THEN <<s, Page>> ELSE <<s>>)

\* count_countingfields
Count(s) == IF MaxRows > 0 THEN Append(counted[s], Here) ELSE counted[s]

-----------------------------------------------------------------------------
(* A report begins.  The sections of a pair without a column keep what     *)
(* they have counted.                                                      *)

Execute ==
  /\ phase = "idle" /\ phase' = "row"
  /\ Enable
  /\ position' = 0 /\ stopped' = FALSE /\ out' = <<>>
  /\ last' = [p \in 1..N |-> Blank]
  /\ counted' = [s \in Counters |->
                   IF s \in 1..N /\ Pair(s).column = NoColumn THEN counted[s] ELSE <<>>]
  /\ UNCHANGED <<driver, layout, at, foot, footers>>

\* The user or a script may stop the report.
MayStop ==
  \E stop \in BOOLEAN :
    /\ stop => \A p \in 1..N :
                 Pair(p).column = NoColumn => Len(counted[p]) <= MaxCarried
    /\ stopped' = (stopped \/ stop)

\* One turn of the main loop; the progress dialog may stop it.
BeginRow ==
  /\ phase = "row" /\ phase' = "header"
  /\ at' = 1 /\ footers' = TRUE
  /\ MayStop
  /\ UNCHANGED <<driver, rows, batch, layout, foot, position, last, counted, out>>

-----------------------------------------------------------------------------
(* The headers, and before them the footers of the groups that have ended. *)

GroupEnds == HeaderDue(at) /\ RowPosition > 0 /\ footers

\* The loop goes on to the next pair inside if (h!=NULL) only.
NoHeader ==
  /\ phase = "header" /\ at <= N /\ ~Pair(at).header
  /\ UNCHANGED vars

StepBack ==
  /\ phase = "header" /\ at <= N /\ Pair(at).header /\ GroupEnds
  /\ GotoPrevious /\ position' = position - 1
  /\ phase' = "foot" /\ foot' = N
  /\ UNCHANGED <<driver, layout, at, footers, last, counted, stopped, out>>

\* Faulty variant: the inner headers remember the group that has ended.
FootedOnly == phase' = "foot" /\ foot' = foot - 1 /\ UNCHANGED last

\* Afterwards p_lastuniquevalue of the header is "".
Footed == /\ phase' = "foot" /\ foot' = foot - 1
          /\ last' = [last EXCEPT ![foot] = Blank]

Footer ==
  /\ phase = "foot" /\ foot >= at
  /\ IF Pair(foot).footer
     THEN /\ out' = Append(out, Section("footer", foot, counted[foot]))
          /\ counted' = [counted EXCEPT ![foot] = <<>>]
     ELSE UNCHANGED <<out, counted>>
  /\ IF Pair(foot).footer /\ "footer" \in Pair(foot).breaks
     THEN phase' = "break" /\ UNCHANGED <<foot, last>>
     ELSE Footed
  /\ UNCHANGED <<driver, rows, batch, layout, at, footers, position, stopped>>

\* The new page begins on the row the report has come to.
StepToPage ==
  /\ phase = "break" /\ phase' = "page"
  /\ GotoNext /\ position' = position + 1
  /\ UNCHANGED <<driver, layout, at, foot, footers, last, counted, stopped, out>>

NewPage ==
  /\ phase = "page"
  /\ out' = Append(out, Page)
  /\ MayStop
  /\ IF stopped'
     THEN /\ phase' = "idle"            \* the datasource stays enabled
          /\ UNCHANGED <<rows, batch, position, foot, last>>
     ELSE GotoPrevious /\ position' = position - 1 /\ Footed
  /\ UNCHANGED <<driver, layout, at, footers, counted>>

\* Faulty variant: the data section goes on counting in the next group.
StepForwardCounting ==
  /\ phase = "foot" /\ foot < at
  /\ GotoNext /\ position' = position + 1
  /\ footers' = FALSE /\ phase' = "header"
  /\ UNCHANGED <<driver, layout, at, foot, last, counted, stopped, out>>

StepForward ==
  /\ phase = "foot" /\ foot < at
  /\ GotoNext /\ position' = position + 1
  /\ footers' = FALSE /\ phase' = "header"
  /\ counted' = [counted EXCEPT ![DataSection] = <<>>]
  /\ UNCHANGED <<driver, layout, at, foot, last, stopped, out>>

Header ==
  /\ phase = "header" /\ at <= N /\ Pair(at).header /\ ~GroupEnds
  /\ IF HeaderDue(at)
     THEN /\ Output(Section("header", at, <<>>), "header" \in Pair(at).breaks)
          /\ last' = [last EXCEPT ![at] = Field(at)]
     ELSE UNCHANGED <<out, last>>
  /\ counted' = [counted EXCEPT ![at] = IF Pair(at).footer THEN Count(at) ELSE @]
  /\ at' = at + 1
  /\ UNCHANGED <<driver, rows, batch, layout, phase, foot, footers, position, stopped>>

-----------------------------------------------------------------------------
(* The row itself, and the next one.                                       *)

Data ==
  /\ phase = "header" /\ at > N /\ phase' = "next"
  /\ counted' = [counted EXCEPT ![DataSection] = Count(DataSection), ![ReportFooter] = Count(ReportFooter)]
  /\ Output(Section("data", 0, Count(DataSection)), layout.breakdata)
  /\ UNCHANGED <<driver, rows, batch, layout, at, foot, footers, position, last, stopped>>

NextRow ==
  /\ phase = "next"
  /\ GotoNext /\ position' = position + 1
  /\ phase' = IF position' < batch'.maxrows /\ ~stopped THEN "row" ELSE "end"
  /\ foot' = N
  /\ UNCHANGED <<driver, layout, at, footers, last, counted, stopped, out>>

-----------------------------------------------------------------------------
(* The end: all footers, the report's footer, and the datasource.  The     *)
(* report's footer has fields, so that a page may end before it.           *)

\* Faulty variant: the loop goes on inside if (footer!=NULL) only.
LastFooterInside ==
  /\ phase = "end" /\ foot > 0
  /\ foot' = IF Pair(foot).footer THEN foot - 1 ELSE foot
  /\ IF Pair(foot).footer /\ FooterDue(foot)
     THEN /\ out' = Append(out, Section("footer", foot, counted[foot]))
          /\ counted' = [counted EXCEPT ![foot] = <<>>]
     ELSE UNCHANGED <<out, counted>>
  /\ UNCHANGED <<driver, rows, batch, layout, phase, at, footers, position, last, stopped>>

LastFooter ==
  /\ phase = "end" /\ foot > 0
  /\ IF Pair(foot).footer /\ FooterDue(foot)
     THEN /\ Output(Section("footer", foot, counted[foot]),
                    "footer" \in Pair(foot).breaks)
          /\ counted' = [counted EXCEPT ![foot] = <<>>]
     ELSE UNCHANGED <<out, counted>>
  /\ foot' = foot - 1
  /\ UNCHANGED <<driver, rows, batch, layout, phase, at, footers, position, last, stopped>>

Finish ==
  /\ phase = "end" /\ foot = 0
  /\ out' = Append(out, Section("report", 0, counted[ReportFooter]))
  /\ Disable
  /\ phase' = "idle"
  /\ UNCHANGED <<driver, layout, at, foot, footers, position, last, counted, stopped>>

PrintStep == \/ BeginRow \/ NoHeader \/ StepBack \/ Footer \/ StepToPage
             \/ NewPage \/ StepForward \/ Header \/ Data \/ NextRow
             \/ LastFooter \/ Finish

Next == Execute \/ PrintStep

\* A report that has begun runs on until it is done.
Spec == ReportInit /\ [][Next]_vars /\ WF_vars(PrintStep)

-----------------------------------------------------------------------------
(* The groups of the result, from the result alone.                        *)

Same(r, s, p) ==
  \A q \in 1..p : Pair(q).column # NoColumn => r.is[Pair(q).column] = s.is[Pair(q).column]

\* The first row of the group of pair p that row i is in.
GroupBegin(p, i) ==
  CHOOSE b \in 1..i : /\ \A j \in b..i : Same(rows[j], rows[i], p)
                      /\ b = 1 \/ ~Same(rows[b - 1], rows[i], p)

Group(p, i) == IF rows = <<>> THEN <<>> ELSE SubSeq(rows, GroupBegin(p, i), i)

\* The outermost pair of which row i begins a new group, N + 1 if none.
Outermost(i) ==
  CHOOSE p \in 1..(N + 1) :
    /\ p = N + 1 \/ ~Same(rows[i - 1], rows[i], p)
    /\ \A q \in 1..(p - 1) : Same(rows[i - 1], rows[i], q)

\* Whether pair p has a header to print on row i: an empty field has none.
Titled(p, i) ==
  \/ rows = <<>>
  \/ IF Pair(p).column = NoColumn THEN i = 1 ELSE rows[i].is[Pair(p).column] # Blank

\* The headers of pair p and those within it, the footers from the innermost
\* out to that of pair p.
Headers(i, p) ==
  FoldLeft(LAMBDA acc, q : IF Titled(q, i) THEN Append(acc, <<"header", q>>) ELSE acc,
           <<>>, [k \in 1..(N + 1 - p) |-> p + k - 1])

Footers(p) ==
  FoldLeft(LAMBDA acc, q : IF Pair(q).footer THEN Append(acc, <<"footer", q>>) ELSE acc,
           <<>>, [k \in 1..(N + 1 - p) |-> N + 1 - k])

\* The sections between row i - 1 and row i.
Frame(i) == IF i = 1 THEN Headers(1, 1) ELSE Footers(Outermost(i)) \o Headers(i, Outermost(i))

\* The first n rows, framed.
Frames(n) ==
  FoldLeft(LAMBDA acc, i : (acc \o Frame(i)) \o <<(<<"data", 0>>)>>, <<>>, [i \in 1..n |-> i])

Turns == IF rows = <<>> THEN 1 ELSE Len(rows)

-----------------------------------------------------------------------------
(* Properties.                                                             *)

Complete == phase = "idle" /\ out # <<>> /\ ~stopped

\* The sections printed, but for the report's footer and new pages.
Framed == {"header", "footer", "data"}

Shape ==
  FoldLeft(LAMBDA acc, s : IF s.kind \in Framed THEN Append(acc, <<s.kind, s.pair>>) ELSE acc,
           <<>>, out)

\* How many rows the first i sections have printed.
Printed(i) == Cardinality({ j \in 1..i : out[j].kind = "data" })

\* Every row of the result is printed, once and in order, however often the
\* report steps back for footers and pages (main loop of internal_execute).
EveryRowOnce ==
  /\ \A i \in DOMAIN out : out[i].kind = "data" =>
       \/ out[i].row = Cursor!RowAt(rows, Printed(i))
       \/ stopped /\ Printed(i) = Printed(Len(out))
  /\ Complete => Printed(Len(out)) = Turns

\* Footers and headers enclose the groups like brackets: where a column
\* changes, the groups from the innermost out to that column's are closed and
\* opened again in reverse order, and all are closed at the end (the loops over
\* p_sectionpairs in internal_execute).
GroupsFramed == Complete => Shape = Frames(Turns) \o Footers(1)

\* A footer shows the last row of its group and counts the rows of that group,
\* the data section counts within the innermost group, the report's footer
\* counts all rows (count_countingfields and reset_count, called in an order
\* that puts the row read ahead into the next group).
SummariesMatch ==
  Complete =>
    \A i \in DOMAIN out :
      LET s == out[i]
          n == Printed(i)
      IN  CASE s.kind = "footer" ->
                 /\ s.row = Cursor!RowAt(rows, n)
                 /\ IF Pair(s.pair).column # NoColumn THEN s.count = Group(s.pair, n)
                    ELSE IsSuffix(Group(s.pair, n), s.count)
            [] s.kind = "data"   -> s.count = Group(N, n)
            [] s.kind = "report" -> s.count = rows
            [] OTHER -> TRUE

\* A report that has begun comes to its end, if every pair has a header.
ReportEnds ==
  (phase # "idle" /\ \A p \in 1..N : Pair(p).header) ~> (phase = "idle")
=============================================================================
