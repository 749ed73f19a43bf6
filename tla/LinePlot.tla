------------------------------ MODULE LinePlot ------------------------------
(***************************************************************************)
(* What src/tools/plotlines.py promises, stated without its loop: in one  *)
(* step the program goes from the input file to its result.  If every    *)
(* non-empty line is "<series> <x> <y>" with integer x and y, the figure  *)
(* has one curve per series in order of first appearance, holding the    *)
(* points of that series in file order; otherwise the first line that is  *)
(* not is reported: by its line number when it has the wrong number of    *)
(* tokens, and as a failed int() conversion when a value is not integer.  *)
(***************************************************************************)
EXTENDS Integers, Sequences, SequencesExt

CONSTANTS Lines, MaxLines, IntVal

VARIABLES input, curves, errline, outcome

absvars == <<input, curves, errline, outcome>>

Blank == <<"">>

IsRow(l) == Len(l) = 3 /\ l[2] \in DOMAIN IntVal /\ l[3] \in DOMAIN IntVal

Rows == SelectSeq(input, LAMBDA l : l # Blank)

\* the labels of the rows in order of first appearance
FirstSeen ==
  LET firsts == SelectSeq([k \in DOMAIN Rows |-> k],
                          LAMBDA k : \A j \in 1..(k - 1) : Rows[j][1] # Rows[k][1])
  IN [k \in DOMAIN firsts |-> Rows[firsts[k]][1]]

\* the x (c = 2) or y (c = 3) values of the rows of label s, in file order
Column(s, c) ==
  LET rs == SelectSeq(Rows, LAMBDA l : l[1] = s) IN [k \in DOMAIN rs |-> IntVal[rs[k][c]]]

\* the positions of the lines that are neither empty nor a valid row
BadLines == {k \in DOMAIN input : input[k] # Blank /\ ~IsRow(input[k])}

Init ==
  /\ \E n \in 0..MaxLines : input \in [1..n -> Lines]
  /\ curves = <<>>
  /\ errline = 0
  /\ outcome = "running"

Run ==
  /\ outcome = "running"
  /\ IF BadLines = {}
     THEN /\ curves' = [k \in DOMAIN FirstSeen |->
                          <<FirstSeen[k], <<Column(FirstSeen[k], 2), Column(FirstSeen[k], 3)>>>>]
          /\ outcome' = "ok"
          /\ UNCHANGED errline
     ELSE LET bad == Min(BadLines) IN
          IF Len(input[bad]) # 3
          THEN /\ errline' = bad
               /\ outcome' = "ERROR"
               /\ UNCHANGED curves
          ELSE /\ outcome' = "ValueError"
               /\ UNCHANGED <<curves, errline>>
  /\ UNCHANGED input

Spec == Init /\ [][Run]_absvars /\ WF_absvars(Run)

=============================================================================
