---------------------------- MODULE LegendStyle -----------------------------
(***************************************************************************)
(* The legend relabelling chain of the experiment plot functions          *)
(* (src/pop_experiments/pop_exp_run_ll.py lines 41-119, repeated at        *)
(* 146-224, and at 53-131 and 160-238 of pop_exp_run_hml_longops.py).     *)
(*                                                                         *)
(* Each plotted line starts with the style pandas gives the k-th column   *)
(* (its column name as label, solid, no marker, the k-th colour of the    *)
(* cycle, default width) and then runs through sixteen independent `if`s, *)
(* each testing the line's CURRENT label, so a label set by one branch is *)
(* what the later branches see.                                           *)
(***************************************************************************)
EXTENDS Integers, Sequences, SequencesExt, TLC

\* The branches of the chain in source order: the label a branch tests and
\* the attributes its set_label / set_ls / set_marker / set_color /
\* set_linewidth calls assign.
Branches == <<
  [when |-> "2geibr",        set |-> [label |-> "IBR", ls |-> "dashed", marker |-> "*", color |-> "violet"]],
  [when |-> "rcu_popplushp", set |-> [label |-> "EpochPOP", marker |-> ">", color |-> "orange", lw |-> 3]],
  [when |-> "crystallineL",  set |-> [label |-> "crystL", marker |-> "+", ls |-> "dotted", color |-> "magenta"]],
  [when |-> "crystallineW",  set |-> [label |-> "crystW", marker |-> "x", ls |-> "dotted", color |-> "indigo"]],
  [when |-> "debra",         set |-> [marker |-> "*", color |-> "blue"]],
  [when |-> "he",            set |-> [label |-> "HE", ls |-> "dashed", marker |-> "P", color |-> "green"]],
  [when |-> "nbr_popplushe", set |-> [label |-> "HazardEraPOP", marker |-> "P", color |-> "green", lw |-> 3]],
  [when |-> "ibr_hp",        set |-> [label |-> "HP", marker |-> "D", color |-> "blue", ls |-> "dashed"]],
  [when |-> "ibr_hpasyf",    set |-> [label |-> "HPAsym", marker |-> "+", color |-> "blue", ls |-> "dashed"]],
  [when |-> "ibr_popplushp", set |-> [label |-> "HazardPOP", marker |-> "D", color |-> "blue", lw |-> 3]],
  [when |-> "ibr_rcu",       set |-> [label |-> "EBR", marker |-> ">", color |-> "orange", ls |-> "dashed"]],
  [when |-> "nbr",           set |-> [marker |-> "D", color |-> "dimgray"]],
  [when |-> "nbrplus",       set |-> [label |-> "NBR+", marker |-> ".", color |-> "red", ls |-> "dashed"]],
  [when |-> "none",          set |-> [label |-> "NR", ls |-> "dotted", color |-> "black"]],
  [when |-> "qsbr",          set |-> [marker |-> "p", color |-> "brown"]],
  [when |-> "wfe",           set |-> [marker |-> "1", color |-> "sienna"]]
>>

\* the style DataFrame.plot(kind='line') gives the k-th column: the colour
\* cycle C0..C9 of matplotlib, solid line, no marker, width 1.5
DefaultStyle(name, k) ==
  [label |-> name, ls |-> "solid", marker |-> "none",
   color |-> "C" \o ToString((k - 1) % 10), lw |-> 1]

\* Faulty variant for mutation checks: a copied branch whose label was not
\* edited, so ibr_hpasyf is also shown as HP.
ChainCopyPaste(st) ==
  FoldLeft(LAMBDA s, b :
             IF s.label = b.when
             THEN (IF b.when = "ibr_hpasyf" THEN [b.set EXCEPT !.label = "HP"] ELSE b.set) @@ s
             ELSE s,
           st, Branches)

\* the sixteen ifs applied in order, each to the style the previous left
Chain(st) ==
  FoldLeft(LAMBDA s, b : IF s.label = b.when THEN b.set @@ s ELSE s, st, Branches)

\* the styled lines of ax.get_lines() for the given table columns
Legend(columns) == [k \in DOMAIN columns |-> Chain(DefaultStyle(columns[k], k))]

\* what tells two lines apart on the figure, the legend text aside
Look(st) == <<st.ls, st.marker, st.color, st.lw>>

=============================================================================
