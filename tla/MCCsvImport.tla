------------------------------ MODULE MCCsvImport ------------------------------
(***************************************************************************)
(* Small files for TLC: a character is a string that names it.              *)
(***************************************************************************)
EXTENDS CsvImport

SmallCharacters ==
  {TextDelimiter, BetweenFields, NewLine, CarriageReturn, Point, Mark, "1", "2", "a"}

DigitValues == [c \in {"1", "2"} |-> IF c = "1" THEN 1 ELSE 2]

Bare(text)   == [text |-> text, quoted |-> FALSE]
Quoted(text) == [text |-> text, quoted |-> TRUE]

Plain  == {Bare(<<>>), Bare(<<"1">>), Bare(<<"2">>), Bare(<<"1", Point, "2">>), Bare(<<"a">>)}

\* Texts that need their quotes.
Special == {Quoted(<<>>), Quoted(<<"2">>), Quoted(<<"a", BetweenFields, NewLine>>),
            Quoted(<<TextDelimiter, TextDelimiter>>), Quoted(<<NewLine, TextDelimiter, "a">>)}

Wide == {<<f, g>> : f \in {Bare(<<"1">>), Bare(<<>>)},
                    g \in {Bare(<<"1">>), Quoted(<<BetweenFields, TextDelimiter>>), Quoted(<<NewLine>>)}}

Narrow == {<<f>> : f \in Plain \cup Special}

Longer == <<Bare(<<"2">>), Bare(<<"1">>), Bare(<<"a">>)>>

\* Files of some lines, each with a first line that serves as a header or as
\* data.
Tables ==
  { <<<<Bare(<<"a">>)>>>> }
  \cup { <<<<Quoted(<<"a">>)>>, r, s>> : r, s \in Narrow }
  \cup { <<<<Bare(<<"1">>)>>, <<Bare(<<"2">>)>>, r>> : r \in Narrow }
  \cup { <<<<Bare(<<"1">>)>>, <<Bare(<<"1", "1">>)>>, <<Bare(<<"1", "2">>)>>, r>> : r \in Narrow }
  \cup { <<<<Bare(<<"1">>)>>, <<Bare(<<"2">>)>>, <<Bare(<<"1", "1">>)>>, <<Bare(<<"1">>)>>, r>> : r \in Narrow }
  \cup { <<<<Bare(<<"a">>), Quoted(<<"2">>)>>, r, s>> : r, s \in Wide }
  \cup { <<<<Bare(<<"a">>), Bare(<<"1">>)>>, r, Longer>> : r \in Wide }

Unix    == [doubled |-> TRUE, end |-> <<NewLine>>, last |-> TRUE]
NoEnd   == [Unix EXCEPT !.last = FALSE]
Windows == [Unix EXCEPT !.end = <<CarriageReturn, NewLine>>]
Report  == [Unix EXCEPT !.doubled = FALSE]

File(rows, kind) ==
  [rows |-> rows, doubled |-> kind.doubled, end |-> kind.end, last |-> kind.last]

SmallFiles == { File(t, k) : t \in Tables, k \in {Unix, NoEnd, Windows, Report} }

New == [header |-> TRUE, append |-> FALSE, types |-> <<>>, given |-> <<>>,
        detect |-> TRUE, dialog |-> FALSE]

SmallSettings == {
  New,
  [New EXCEPT !.header = FALSE],
  [New EXCEPT !.detect = FALSE, !.dialog = TRUE],
  [New EXCEPT !.append = TRUE, !.types = <<"text", "integer">>],
  [New EXCEPT !.append = TRUE, !.header = FALSE, !.types = <<"auto", "text">>] }
=============================================================================
