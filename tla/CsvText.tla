-------------------------------- MODULE CsvText --------------------------------
(***************************************************************************)
(* The text of a CSV file: how hk_importcsv takes it apart into lines and  *)
(* values and guesses the types of its columns, and how hk_reportcsv       *)
(* writes one.  A text is a sequence of characters.                        *)
(*                                                                         *)
(* Characters are compared with delimiters that are strings: one of more   *)
(* than a character equals none.  The conversion of the file's character   *)
(* set is left out, and so are booleans, dates, times and memos among the  *)
(* types.                                                                  *)
(***************************************************************************)
EXTENDS Integers, SequencesExt

CONSTANTS
  Characters,
  TextDelimiter, BetweenFields, RowDelimiter,   \* set_filedefinition
  NewLine, CarriageReturn, Point,               \* characters the code names
  Mark,              \* the "X" that marks a quoted value
  DigitValue,        \* the value of each character that is a digit
  Garbled            \* the number read from a text that is none

\* The delimiters are characters that can be told apart, and rows end as lines
\* do: set_filedefinition is called with "\n" everywhere, which is its default.
ASSUME CharactersAssumption ==
  /\ {TextDelimiter, BetweenFields, RowDelimiter, CarriageReturn, Mark} \subseteq Characters
  /\ TextDelimiter \notin {BetweenFields, RowDelimiter, CarriageReturn}
  /\ BetweenFields \notin {RowDelimiter, CarriageReturn}
  /\ CarriageReturn # RowDelimiter
  /\ RowDelimiter = NewLine
  /\ Point \notin DOMAIN DigitValue
  /\ Mark \notin DOMAIN DigitValue \cup {Point}

-----------------------------------------------------------------------------
(* Reading.                                                                *)

\* A row ends at a row delimiter with an even number of quotes before it.
RowEnds(text) ==
  { i \in DOMAIN text :
      /\ text[i] = RowDelimiter
      /\ Cardinality({ j \in 1..(i - 1) : text[j] = TextDelimiter }) % 2 = 0 }

\* get_line.  Only reading beyond the last character sets eof().
GetLine(text) ==
  LET ends == RowEnds(text)
  IN  IF ends = {} THEN [line |-> text, rest |-> <<>>, eof |-> TRUE]
      ELSE [line |-> SubSeq(text, 1, Min(ends) - 1),
            rest |-> SubSeq(text, Min(ends) + 1, Len(text)), eof |-> FALSE]

EndsField(c) == c \in {BetweenFields, RowDelimiter}

\* Faulty variant: a doubled quote ends the value.
ScanNoDouble(s, c, datamode) ==
  CASE s.state = "quoted" ->
         IF c = TextDelimiter THEN [s EXCEPT !.state = "maybe_end"]
         ELSE [s EXCEPT !.field = Append(@, c)]
    [] s.state = "start" /\ c = TextDelimiter ->
         [s EXCEPT !.state = "quoted", !.field = IF datamode THEN @ ELSE <<Mark>>]
    [] ~(s.state = "start" /\ c = TextDelimiter) /\ s.state # "quoted" /\ EndsField(c) ->
         [state |-> "start", field |-> <<>>, values |-> Append(s.values, s.field)]
    [] OTHER ->
         IF s.state \in {"start", "normal"}
         THEN [s EXCEPT !.state = "normal", !.field = Append(@, c)]
         ELSE [s EXCEPT !.state = "end"]

\* One character in the loop of create_valuelist.  What follows the closing
\* quote of a value is dropped; a quote within an unquoted value is data.
Scan(s, c, datamode) ==
  IF s.state = "quoted" THEN
    IF c = TextDelimiter THEN [s EXCEPT !.state = "maybe_end"]
    ELSE [s EXCEPT !.field = Append(@, c)]
  ELSE IF s.state = "start" /\ c = TextDelimiter THEN
    [s EXCEPT !.state = "quoted", !.field = IF datamode THEN @ ELSE <<Mark>>]
  ELSE IF s.state = "maybe_end" /\ c = TextDelimiter THEN
    [s EXCEPT !.state = "quoted", !.field = Append(@, c)]
  ELSE IF EndsField(c) THEN
    [state |-> "start", field |-> <<>>, values |-> Append(s.values, s.field)]
  ELSE IF s.state \in {"start", "normal"} THEN
    [s EXCEPT !.state = "normal", !.field = Append(@, c)]
  ELSE [s EXCEPT !.state = "end"]

WithoutFirst(text, c) ==
  LET at == { i \in DOMAIN text : text[i] = c }
  IN  IF at = {} THEN text ELSE RemoveAt(text, Min(at))

\* create_valuelist.
CreateValuelist(line, datamode) ==
  LET row == Append(WithoutFirst(line, CarriageReturn), NewLine)
      s == FoldLeft(LAMBDA acc, c : Scan(acc, c, datamode),
                    [state |-> "start", field |-> <<>>, values |-> <<>>], row)
  IN  IF Len(row) < 2 THEN <<>>
      ELSE IF s.state = "start" THEN s.values ELSE Append(s.values, s.field)

-----------------------------------------------------------------------------
(* Types.                                                                  *)

Digits == DOMAIN DigitValue

\* interpret_columntype.
InterpretColumntype(field) ==
  LET points == Cardinality({ i \in DOMAIN field : field[i] = Point })
      digits == Cardinality({ i \in DOMAIN field : field[i] \in Digits })
  IN  IF points + digits < Len(field) \/ points > 1 \/ digits = 0 THEN "text"
      ELSE IF points = 1 THEN "float" ELSE "integer"

\* Faulty variant: an integer column stays one when a float comes.
MergedKeeping(t, u) ==
  IF t = u THEN t ELSE IF {t, u} = {"integer", "float"} THEN t ELSE "text"

\* The type of a column of type t in which a value of type u is found.
Merged(t, u) ==
  IF t = u THEN t ELSE IF {t, u} = {"integer", "float"} THEN "float" ELSE "text"

IsNumeric(type) == type \in {"integer", "float", "auto"}

\* What a column reads when it is set to a text (standardstring2double).
Read(type, text) ==
  LET t == InterpretColumntype(text)
  IN  IF ~IsNumeric(type) \/ t = "integer" \/ t = type THEN text ELSE Garbled

\* localestring2int, of a text that is an integer.
IntegerOf(text) ==
  IF InterpretColumntype(text) # "integer" THEN 0
  ELSE FoldLeft(LAMBDA n, c : 10 * n + DigitValue[c], 0, text)

-----------------------------------------------------------------------------
(* Writing.                                                                *)

\* automatic_create_csvfields: text columns get the delimiter before and
\* after their data, whatever the data is.
CsvField(value, istext) ==
  IF istext THEN <<TextDelimiter>> \o value \o <<TextDelimiter>> ELSE value

\* A section with betweendata and sectionend.
CsvSection(fields, end) ==
  FoldLeft(LAMBDA acc, i : acc \o (IF i = 1 THEN <<>> ELSE <<BetweenFields>>) \o fields[i],
           <<>>, [i \in DOMAIN fields |-> i]) \o end
=============================================================================
