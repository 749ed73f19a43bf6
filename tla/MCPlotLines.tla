---------------------------- MODULE MCPlotLines -----------------------------
(* Model values for PlotLines: two series, two integers, and the lines     *)
(* that reach each branch of the loading loop.                             *)
EXTENDS PlotLines

MCLabels == {"a", "b"}
MCInts   == {"1", "2"}
MCIntVal == ("1" :> 1) @@ ("2" :> 2)

\* well-formed rows of the two series
RowLines == {<<s, x, y>> : s \in MCLabels, x \in MCInts, y \in MCInts}

\* an empty line, a two-token line, a trailing space ("a 1 2 " has a
\* fourth, empty token, "a 1 " a third one, so int("") raises after x was
\* appended) and a double space (int("") raises on x)
OddLines == {Blank, <<"a", "1">>, <<"a", "1", "2", "">>, <<"a", "1", "">>,
             <<"b", "", "1">>}

MCLines == RowLines \cup OddLines

=============================================================================
