--------------------------- MODULE ExperimentPlot ---------------------------
(***************************************************************************)
(* The plot functions the experiment scripts hand to the data framework:  *)
(* my_plot_func and my_memplot_func of                                     *)
(* src/pop_experiments/pop_exp_run_ll.py (series RECLAIMER_ALGOS, x        *)
(* TOTAL_THREADS, several trials) and of pop_exp_run_hml_longops.py        *)
(* (x DS_SIZE, one trial, throughput normalised by the 'none' reclaimer).  *)
(*                                                                         *)
(* The framework runs every combination of the parameters and calls each  *)
(* plot function once per plot set with the rows of that set; a call is   *)
(* one action that reshapes the rows, styles the lines and saves the      *)
(* figure, or raises.  Numbers are kept exact as fractions [n, d].        *)
(***************************************************************************)
EXTENDS Integers, Sequences, SequencesExt, FiniteSets, LegendStyle

CONSTANTS
  Script,       \* "ll" or "hml": which experiment script defines the functions
  Universe,     \* the reclaimer names reclaimer.txt may list
  AlgOrder,     \* Universe in Python's string order (pivot_table sorts columns)
  MaxAlgs,      \* the longest reclaimer list
  Xs,           \* the x values: thread counts (ll) or list sizes (hml)
  Trials,       \* the __trials values
  ThrVals,      \* the throughputs a run may report
  MemVals,      \* the max_reclamation_event_size_total values a run may report
  Inf, NaN      \* float('inf') and float('nan')

ASSUME Script \in {"ll", "hml"} /\ ToSet(AlgOrder) = Universe

VARIABLES
  algs,         \* the RECLAIMER_ALGOS of the experiment
  frame,        \* the framework's rows: <<alg, x, trial>> -> [thr, mem]
  figure,       \* plot function -> the saved figure, or None
  outcome       \* plot function -> "pending", "saved" or the exception

vars == <<algs, frame, figure, outcome>>

Fns == {"my_plot_func", "my_memplot_func"}

None == [none |-> TRUE]

(***************************************************************************)
(* Fractions and the aggregations of pandas.                              *)
(***************************************************************************)
Frac(n, d) == [n |-> n, d |-> d]

\* the float division p / q, with IEEE results for a zero divisor
Ratio(p, q) ==
  IF q.n = 0 THEN (IF p.n = 0 THEN NaN ELSE Inf)
  ELSE Frac(p.n * q.d, p.d * q.n)

\* the trial values of one (reclaimer, x) cell of the frame
Samples(a, x, col) == [t \in Trials |-> frame[<<a, x, t>>][col]]

\* data.groupby(['RECLAIMER_ALGOS', x])[col].mean().reset_index():
\* one row per (reclaimer, x) holding the mean over the trials
GroupMean(col) ==
  [c \in algs \X Xs |-> Frac(SumFunction(Samples(c[1], c[2], col)), Cardinality(Trials))]

\* Faulty variant for mutation checks: pivot_table(dropna=False), every
\* (x, series) cell kept, NaN ones included.
PivotKeepNaN(rows) == [x \in Xs |-> [a \in algs |-> rows[<<a, x>>]]]

\* pandas.pivot_table(index=x, columns=series, aggfunc='mean') of grouped
\* rows.  With the default dropna=True a NaN mean is dropped before the
\* unstack, so an x or a series without a defined cell has no row or
\* column, and the cells left empty by the unstack are NaN.  Inf is kept.
Pivot(rows) ==
  LET cells == {c \in DOMAIN rows : rows[c] # NaN}
  IN [x \in {c[2] : c \in cells} |->
        [a \in {c[1] : c \in cells} |-> IF <<a, x>> \in cells THEN rows[<<a, x>>] ELSE NaN]]

\* the columns of a table, sorted by name
TableColumns(table) == UNION {DOMAIN table[x] : x \in DOMAIN table}
Columns(table) == SelectSeq(AlgOrder, LAMBDA a : a \in TableColumns(table))

\* save one figure
Finish(fn, fig) ==
  /\ figure' = [figure EXCEPT ![fn] = fig]
  /\ outcome' = [outcome EXCEPT ![fn] = "saved"]

\* table.plot draws one line per column and saves the figure; a table
\* without a column raises TypeError ("no numeric data to plot")
PlotTable(fn, table) ==
  IF TableColumns(table) = {}
  THEN /\ outcome' = [outcome EXCEPT ![fn] = "TypeError"]
       /\ UNCHANGED figure
  ELSE Finish(fn, [table |-> table, legend |-> Legend(Columns(table))])

\* data.apply(row['query_throughput'] / data_none.loc[row['DS_SIZE']])
\* with data_none the 'none' rows indexed by DS_SIZE (hml lines 29-34)
Normalise(rows) ==
  [c \in DOMAIN rows |-> Ratio(rows[c], rows[<<"none", c[2]>>])]

(***************************************************************************)
(* The plot functions.  Each call builds the table, draws one line per    *)
(* column, runs the relabelling chain over the lines and saves the        *)
(* figure.                                                                *)
(***************************************************************************)
\* my_plot_func of the ll script: throughput per thread count
ll_my_plot_func ==
  /\ Script = "ll"
  /\ outcome["my_plot_func"] = "pending"
  /\ PlotTable("my_plot_func", Pivot(GroupMean("thr")))
  /\ UNCHANGED <<algs, frame>>

\* my_memplot_func of the ll script: max retire-list size per thread count
ll_my_memplot_func ==
  /\ Script = "ll"
  /\ outcome["my_memplot_func"] = "pending"
  /\ PlotTable("my_memplot_func", Pivot(GroupMean("mem")))
  /\ UNCHANGED <<algs, frame>>

\* my_plot_func of the hml script: read throughput relative to 'none' per
\* list size; data_none.loc raises KeyError for a size without 'none' rows
hml_my_plot_func ==
  /\ Script = "hml"
  /\ outcome["my_plot_func"] = "pending"
  /\ \/ /\ "none" \notin algs
        /\ outcome' = [outcome EXCEPT !["my_plot_func"] = "KeyError"]
        /\ UNCHANGED figure
     \/ /\ "none" \in algs
        /\ PlotTable("my_plot_func", Pivot(Normalise(GroupMean("thr"))))
  /\ UNCHANGED <<algs, frame>>

\* my_memplot_func of the hml script: max retire-list size per list size
hml_my_memplot_func ==
  /\ Script = "hml"
  /\ outcome["my_memplot_func"] = "pending"
  /\ PlotTable("my_memplot_func", Pivot(GroupMean("mem")))
  /\ UNCHANGED <<algs, frame>>

\* reclaimer.txt lists at least one reclaimer; the framework then has one
\* row per reclaimer, x and trial
Init ==
  /\ algs \in UNION {kSubset(n, Universe) : n \in 1..MaxAlgs}
  /\ frame \in [algs \X Xs \X Trials -> [thr : ThrVals, mem : MemVals]]
  /\ figure = [fn \in Fns |-> None]
  /\ outcome = [fn \in Fns |-> "pending"]

Next ==
  \/ ll_my_plot_func
  \/ ll_my_memplot_func
  \/ hml_my_plot_func
  \/ hml_my_memplot_func

Spec == Init /\ [][Next]_vars /\ WF_vars(Next)

-----------------------------------------------------------------------------
Saved(fn) == outcome[fn] = "saved"

-----------------------------------------------------------------------------
(* Properties                                                              *)

\* The shape of a saved figure: its table has a row per x value and a
\* column per reclaimer that has a defined (non-NaN) point, every row and
\* every column holds one, and the legend has one entry per column.  A
\* zero 'none' throughput (hml line 34) makes its size's points inf, or
\* NaN for 0/0; pivot_table drops the NaN points and with them the line of
\* a reclaimer that is 0/0 at every size.
TypeOK ==
  /\ algs \subseteq Universe
  /\ outcome \in [Fns -> {"pending", "saved", "KeyError", "TypeError"}]
  /\ \A fn \in Fns : Saved(fn) =>
        LET t == figure[fn].table IN
        /\ DOMAIN t \subseteq Xs
        /\ \A x \in DOMAIN t : DOMAIN t[x] = TableColumns(t) /\ \E a \in DOMAIN t[x] : t[x][a] # NaN
        /\ TableColumns(t) \subseteq algs
        /\ \A a \in TableColumns(t) : \E x \in DOMAIN t : t[x][a] # NaN
        /\ Len(figure[fn].legend) = Cardinality(TableColumns(t))

\* The lines of a saved figure are told apart: no two reclaimers share a
\* legend entry or a look (line style, marker, colour and width) after the
\* relabelling chain.
DistinctLegend ==
  \A fn \in Fns : Saved(fn) =>
    LET lg == figure[fn].legend IN
    \A j, k \in DOMAIN lg : j # k =>
      lg[j].label # lg[k].label /\ Look(lg[j]) # Look(lg[k])

=============================================================================
