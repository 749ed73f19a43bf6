----------------------------- MODULE MCPlotBars -----------------------------
(***************************************************************************)
(* Model-checking instances of PlotBars: the input alphabets.  Series      *)
(* labels are "a" and "b", values are "1" and "2".                         *)
(***************************************************************************)
EXTENDS PlotBars

MCLabels == {"a", "b"}
MCNums == {"1", "2"}
MCNumVal == ("1" :> 1) @@ ("2" :> 2)

TwoColLines == {<<l, y>> : l \in MCLabels, y \in MCNums}
ThreeColLines == {<<l, x, y>> : l \in MCLabels, x \in MCNums, y \in MCNums}
SortLines == {<<"SORT", "a", "b">>, <<"SORT", "b", "a">>}

\* Well-formed lines: both column layouts, sorting that reorders series,
\* renaming and ignoring; with four lines a series can have two samples
\* that the sort must keep in order around a line of the other series.
MainLines ==
  TwoColLines \cup ThreeColLines \cup SortLines \cup
  {<<"IGNORE", "a">>, <<"RENAME", "a", "b">>}

\* Adds the lines that stop the script: a label-only line, a blank line, an
\* XLABEL line (loaded as data unless an IGNORE line names its keyword), a
\* RENAME line without a new name, and the SORT list of "b" alone (missing
\* "a", and the list a file whose series "a" is ignored or renamed needs).
ErrorLines ==
  MainLines \cup
  {<<"a">>, Blank, <<"XLABEL", "w">>, <<"IGNORE", "XLABEL">>,
   <<"RENAME", "b">>, <<"SORT", "b">>}

\* Data lines, SORT lines and an IGNORE line, with no RENAME: a series in a
\* table is then the series of its input lines.
IgnoreLines == TwoColLines \cup ThreeColLines \cup SortLines \cup {<<"IGNORE", "a">>}

\* A series named "1", like a value: RENAME 1 a, the SORT lists the new
\* name needs, and rows of series "1".
NumLabelLines ==
  {<<"RENAME", "1", "a">>, <<"SORT", "a">>, <<"SORT", "1">>} \cup
  {<<"1", x, y>> : x \in MCNums, y \in MCNums}

\* Three-column rows of one series and the SORT line it needs: with five
\* lines a cell can hold three unequal samples and the x index two values.
ErrorBarLines == {<<"SORT", "a">>} \cup {<<"a", x, y>> : x \in MCNums, y \in MCNums}

\* Data lines and SORT lines only.
DataSortLines == TwoColLines \cup ThreeColLines \cup SortLines
=============================================================================
