----------------------------- MODULE PlotLines ------------------------------
(***************************************************************************)
(* src/tools/plotlines.py: reads "<series> <x> <y>" lines into a dict of   *)
(* per-series x and y lists, stops with an error message naming the line   *)
(* number at the first line that does not split into three tokens, then    *)
(* draws one curve per series in dict order and saves the figure.         *)
(*                                                                         *)
(* A line is line.rstrip('\r\n').split(" ") as a token sequence; the empty *)
(* line is <<"">>.  int() is the IntVal table.  argparse opens the -o file *)
(* (default op.png), so args.outfile is never None.                        *)
(***************************************************************************)
EXTENDS Integers, Sequences, SequencesExt, FiniteSets

CONSTANTS
  Lines,        \* the lines an input file may contain, as token sequences
  MaxLines,     \* the longest input file
  IntVal        \* token -> int(token), for the tokens int() accepts

ASSUME MaxLines \in Nat

VARIABLES
  input,        \* the lines of args.infile
  pos,          \* how many lines the for loop has taken from the file
  i,            \* the line counter i of line 37
  series,       \* series: label -> <<xs, ys>>
  order,        \* the keys of series in insertion order
  errline,      \* the line number the ERROR message names, 0 if none
  curves,       \* the curves passed to plt.plot, in call order
  pc,           \* "load", "plot" or "done"
  outcome       \* "running", "ok", "ERROR" or "ValueError"

vars == <<input, pos, i, series, order, errline, curves, pc, outcome>>

Blank == <<"">>

Inputs == UNION {[1..n -> Lines] : n \in 0..MaxLines}

is_int(tok) == tok \in DOMAIN IntVal

(***************************************************************************)
(* The loading loop, lines 37-57.                                          *)
(***************************************************************************)
\* Faulty variant for mutation checks: the counter is only advanced for
\* lines that are not skipped.
CountNonBlank(n, line) == IF line = Blank THEN n ELSE n + 1

\* i=i+1 at the top of the loop body, before the empty-line check (line 40)
Count(n, line) == n + 1

\* Faulty variant for mutation checks: the "if s not in series" guard is
\* missing and every line starts its series afresh.
WithSeriesReset(s) == (s :> <<<<>>, <<>>>>) @@ series

\* if s not in series: series[s] = ([], []) (lines 51-53)
WithSeries(s) ==
  IF s \in DOMAIN series THEN series ELSE (s :> <<<<>>, <<>>>>) @@ series

\* Faulty variant for mutation checks: keys kept in a list that is appended
\* to on every line, as if series were a list of pairs.
RegisterAlways(s) == Append(order, s)

\* the dict's insertion order: a key is added once, when first assigned
Register(s) == IF s \in DOMAIN series THEN order ELSE Append(order, s)

\* series[s][c].append(int(tok)) for column c (lines 56-57)
AppendTo(sr, s, c, tok) == [sr EXCEPT ![s][c] = Append(@, IntVal[tok])]

ReadLine ==
  /\ pc = "load"
  /\ pos < Len(input)
  /\ LET line == input[pos + 1]
         n    == Count(i, line)
     IN /\ i' = n
        /\ \/ /\ line = Blank
              /\ UNCHANGED <<series, order, errline, pc, outcome>>
           \/ /\ line # Blank
              /\ Len(line) # 3
              /\ errline' = n
              /\ outcome' = "ERROR"
              /\ pc' = "done"
              /\ UNCHANGED <<series, order>>
           \/ /\ line # Blank
              /\ Len(line) = 3
              /\ order' = Register(line[1])
              /\ LET sr == WithSeries(line[1]) IN
                   IF is_int(line[2]) /\ is_int(line[3])
                   THEN /\ series' = AppendTo(AppendTo(sr, line[1], 1, line[2]),
                                              line[1], 2, line[3])
                        /\ UNCHANGED <<errline, pc, outcome>>
                   \* int() raises after the entry was created and
                   \* possibly after the x value was appended
                   ELSE /\ series' = IF is_int(line[2])
                                     THEN AppendTo(sr, line[1], 1, line[2])
                                     ELSE sr
                        /\ outcome' = "ValueError"
                        /\ pc' = "done"
                        /\ UNCHANGED errline
  /\ pos' = pos + 1
  /\ UNCHANGED <<input, curves>>

EndLoad ==
  /\ pc = "load"
  /\ pos = Len(input)
  /\ pc' = "plot"
  /\ UNCHANGED <<input, pos, i, series, order, errline, curves, outcome>>

(***************************************************************************)
(* One plt.plot per series in dict order (lines 85-87), then the figure is *)
(* written by plt.savefig (lines 139-146: args.outfile is never None).     *)
(* The curves are the saved figure's content; outcome "ok" is the save.   *)
(***************************************************************************)
Plot ==
  /\ pc = "plot"
  /\ curves' = [k \in DOMAIN order |-> <<order[k], series[order[k]]>>]
  /\ outcome' = "ok"
  /\ pc' = "done"
  /\ UNCHANGED <<input, pos, i, series, order, errline>>

Init ==
  /\ input \in Inputs
  /\ pos = 0
  /\ i = 0
  /\ series = <<>>
  /\ order = <<>>
  /\ errline = 0
  /\ curves = <<>>
  /\ pc = "load"
  /\ outcome = "running"

Next == ReadLine \/ EndLoad \/ Plot

Spec == Init /\ [][Next]_vars /\ WF_vars(Next)

-----------------------------------------------------------------------------
(* Properties                                                              *)

TypeOK ==
  /\ input \in Inputs
  /\ pos \in 0..Len(input)
  /\ i \in 0..pos
  /\ DOMAIN series = ToSet(order)
  /\ IsInjective(order)
  /\ errline \in 0..Len(input)
  /\ pc \in {"load", "plot", "done"}
  /\ (pc = "done") <=> (outcome # "running")

\* The one-step description of the program (module LinePlot), with the
\* same input, curves, error line and outcome.
LinePlotAbs == INSTANCE LinePlot

\* The loading loop, the dict of series and the plot together implement
\* LinePlot: every run ends (the loop takes each line once), with the
\* curves of every series in first-appearance order and file order when
\* the file is valid, and otherwise with the error of its first bad line:
\* the 1-based line number, empty lines counted, for a wrong token count,
\* a ValueError for a non-integer value.
ImplementsLinePlot == LinePlotAbs!Spec

=============================================================================
