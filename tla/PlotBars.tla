------------------------------ MODULE PlotBars ------------------------------
(***************************************************************************)
(* The data path of src/tools/plotbars_mkhalaji.py, the TabularResult-     *)
(* Reshaper of the spec: the script reads every input line, treats IGNORE, *)
(* SORT and RENAME lines as directives and every other line as data,       *)
(* sorts the data by the SORT list, lets pandas parse it as three-column   *)
(* text, falls back to two-column data with per-series positional x when   *)
(* that leaves a missing value, builds the mean/min/max pivot tables and   *)
(* decides whether error bars are drawn before the plot is made.           *)
(*                                                                         *)
(* A line is its token sequence line.split(" "); tokens are strings.  The  *)
(* program runs once, from the first line to one final outcome: "Plotted"  *)
(* or the exception or exit that stops it.  Of the chart styling the      *)
(* hatch and face colour of every bar and the title and axis labels (token *)
(* sequences; -t, --x-title and --y-title at their default "") are kept;   *)
(* fonts, grids and the printed diagnostics are not modelled.              *)
(***************************************************************************)
EXTENDS Integers, Sequences, SequencesExt, FiniteSets

CONSTANTS
  Lines,          \* the lines an input file may contain, as token sequences
  MaxLines,       \* the longest input file
  NumVal,         \* numeric token -> the integer pandas parses it as
  ErrorBarWidths, \* values the --error-bar-width argument may take
  NaN             \* the missing value pandas puts in a short row

ASSUME MaxLines \in Nat
ASSUME \A l \in Lines : Len(l) \in 1..3
ASSUME ErrorBarWidths \subseteq Nat

VARIABLES
  input,        \* the lines of args.infile (content)
  i,            \* index of the next line the loading loop reads
  ignores,      \* the IGNORE list in force
  ordering,     \* the SORT list in force
  renames,      \* the RENAME dictionary: old label -> new label
  actual_data,  \* the data lines kept by the loading loop
  data,         \* the pandas frame: a sequence of [series, x, y] rows
  layout,       \* which column hypothesis was accepted: "three" or "two"
  table,        \* tmean/tmin/tmax: <<x, series>> -> [sum, cnt, lo, hi]
  width,        \* args.error_bar_width
  bars,         \* <<k, r>> -> the look of the r-th bar of the k-th series
  yerr,         \* <<x, series>> -> the error pair passed to tmean.plot
  labels,       \* args.title, args.x_title, args.y_title, by keyword
  chart,        \* the title and axis labels the saved figure shows
  pc,           \* the section of the script being executed
  outcome       \* "running", "Plotted" or what stopped the script

vars == <<input, i, ignores, ordering, renames, actual_data, data, layout,
          table, width, bars, yerr, labels, chart, pc, outcome>>

Blank == <<"">>                          \* "".split(" ") for an empty line
Directives == {"IGNORE", "SORT", "RENAME"}
TitleDirectives == {"TITLE", "XLABEL", "YLABEL"}

Inputs == UNION {[1..n -> Lines] : n \in 0..MaxLines}

(***************************************************************************)
(* Loading loop, lines 104-128.  The directive tests are line.startswith;  *)
(* no token of the model's alphabets begins with a keyword other than the  *)
(* keyword itself, so they are tests of the first token.                   *)
(***************************************************************************)
Label(line) == line[1]

\* line.replace(label, renames[label]) replaces every occurrence of the
\* label text in the line, values included.  Labels and new names hold no
\* space, and no token of the model's alphabets is a proper substring of
\* another, so on the joined line this is replacing every token equal to
\* the label.
Renamed(line) ==
  IF Label(line) \in DOMAIN renames
  THEN ReplaceAll(line, Label(line), renames[Label(line)])
  ELSE line

\* Faulty variant for mutation checks: line.replace("TITLE", ""), the
\* keyword dropped without its space.
LabelTextNoSpace(line, kw) == [k \in DOMAIN line |-> IF line[k] = kw THEN "" ELSE line[k]]

\* line.replace("TITLE ", "") removes every keyword token that a space
\* follows, the keyword of a bare "TITLE" line excepted.
LabelText(line, kw) ==
  FlattenSeq([k \in DOMAIN line |-> IF line[k] = kw /\ k < Len(line) THEN <<>> ELSE <<line[k]>>])

\* lines 108-113: three independent ifs ahead of the directive chain, so a
\* label line also reaches the chain (and is loaded as data)
SetLabels(line) ==
  [kw \in TitleDirectives |-> IF Label(line) = kw THEN LabelText(line, kw) ELSE labels[kw]]

LoadIgnore(line) ==
  /\ Label(line) = "IGNORE"
  /\ ignores' = Tail(line)
  /\ UNCHANGED <<ordering, renames, actual_data, pc, outcome>>

LoadSort(line) ==
  /\ Label(line) = "SORT"
  /\ ordering' = Tail(line)
  /\ UNCHANGED <<ignores, renames, actual_data, pc, outcome>>

LoadRename(line) ==
  /\ Label(line) = "RENAME"
  /\ Len(line) >= 3
  /\ renames' = (line[2] :> line[3]) @@ renames
  /\ UNCHANGED <<ignores, ordering, actual_data, pc, outcome>>

\* line.split(" ")[2] of a RENAME line without a new name raises IndexError.
LoadRenameShort(line) ==
  /\ Label(line) = "RENAME"
  /\ Len(line) < 3
  /\ outcome' = "IndexError"
  /\ pc' = "done"
  /\ UNCHANGED <<ignores, ordering, renames, actual_data>>

SkipIgnored(line) ==
  /\ Label(line) \notin Directives
  /\ Label(line) \in ToSet(ignores)
  /\ UNCHANGED <<ignores, ordering, renames, actual_data, pc, outcome>>

\* Every other line, TITLE, XLABEL and YLABEL lines included, is data.
AppendData(line) ==
  /\ Label(line) \notin Directives
  /\ Label(line) \notin ToSet(ignores)
  /\ actual_data' = Append(actual_data, Renamed(line))
  /\ UNCHANGED <<ignores, ordering, renames, pc, outcome>>

LoadLine ==
  /\ pc = "load"
  /\ i <= Len(input)
  /\ LET line == input[i] IN
       \/ LoadIgnore(line)
       \/ LoadSort(line)
       \/ LoadRename(line)
       \/ LoadRenameShort(line)
       \/ SkipIgnored(line)
       \/ AppendData(line)
  /\ labels' = SetLabels(input[i])
  /\ i' = i + 1
  /\ UNCHANGED <<input, data, layout, table, width, bars, yerr, chart>>

(***************************************************************************)
(* actual_data.sort(key=lambda row: ordering.index(label)), lines 130-131: *)
(* a stable sort by the first position of the label in the SORT list; a    *)
(* label missing from the list raises ValueError.                          *)
(***************************************************************************)
\* Faulty variant for mutation checks: a sort that is not stable.
SortedUnstable(rows) ==
  FlattenSeq([k \in 1..Len(ordering) |->
                IF \E j \in 1..(k - 1) : ordering[j] = ordering[k]
                THEN <<>>
                ELSE Reverse(SelectSeq(rows, LAMBDA r : Label(r) = ordering[k]))])

SortedByOrdering(rows) ==
  FlattenSeq([k \in 1..Len(ordering) |->
                IF \E j \in 1..(k - 1) : ordering[j] = ordering[k]
                THEN <<>>
                ELSE SelectSeq(rows, LAMBDA r : Label(r) = ordering[k])])

SortData ==
  /\ pc = "load"
  /\ i > Len(input)
  /\ \/ /\ ordering = <<>>
        /\ pc' = "read"
        /\ UNCHANGED <<actual_data, outcome>>
     \/ /\ ordering # <<>>
        /\ \A k \in DOMAIN actual_data : Label(actual_data[k]) \in ToSet(ordering)
        /\ actual_data' = SortedByOrdering(actual_data)
        /\ pc' = "read"
        /\ UNCHANGED outcome
     \/ /\ ordering # <<>>
        /\ \E k \in DOMAIN actual_data : Label(actual_data[k]) \notin ToSet(ordering)
        /\ outcome' = "ValueError"
        /\ pc' = "done"
        /\ UNCHANGED actual_data
  /\ UNCHANGED <<input, i, ignores, ordering, renames, data, layout, table, width, bars, yerr, labels, chart>>

(***************************************************************************)
(* pd.read_csv(names=['series', 'x', 'y'], sep=' '), line 135: empty lines *)
(* are skipped and a short row gets NaN in its missing columns.  When no   *)
(* row is left the script ends without a figure (read_csv raises on empty  *)
(* text, or the "no data provided" exit of line 191 is taken).             *)
(***************************************************************************)
ToRow(line) ==
  [series |-> line[1],
   x      |-> IF Len(line) >= 2 THEN line[2] ELSE NaN,
   y      |-> IF Len(line) >= 3 THEN line[3] ELSE NaN]

ReadCsv ==
  /\ pc = "read"
  /\ LET rows == SelectSeq(actual_data, LAMBDA l : l # Blank) IN
       \/ /\ rows = <<>>
          /\ outcome' = "NoData"
          /\ pc' = "done"
          /\ UNCHANGED data
       \/ /\ rows # <<>>
          /\ data' = [k \in DOMAIN rows |-> ToRow(rows[k])]
          /\ pc' = "infer"
          /\ UNCHANGED outcome
  /\ UNCHANGED <<input, i, ignores, ordering, renames, actual_data, layout,
                 table, width, bars, yerr, labels, chart>>

(***************************************************************************)
(* The three-/two-column inference, lines 137-162.                         *)
(***************************************************************************)
\* data.isnull().values.any()
HasNaN(rows) == \E k \in DOMAIN rows : NaN \in {rows[k].x, rows[k].y}

\* data['y'] = data['x']
YFromX(rows) == [k \in DOMAIN rows |-> [rows[k] EXCEPT !.y = rows[k].x]]

\* x = per-series running count of the rows, in frame order (lines 153-162)
\* Faulty variant for mutation checks: the counter is read before it is
\* incremented, so the first row of a series gets x = 0.
PositionalXFromZero(rows) ==
  [k \in DOMAIN rows |->
     [rows[k] EXCEPT !.x = Cardinality({j \in 1..(k - 1) : rows[j].series = rows[k].series})]]

PositionalX(rows) ==
  [k \in DOMAIN rows |->
     [rows[k] EXCEPT !.x = Cardinality({j \in 1..k : rows[j].series = rows[k].series})]]

InferColumns ==
  /\ pc = "infer"
  /\ \/ /\ ~HasNaN(data)
        /\ layout' = "three"
        /\ pc' = "pivot"
        /\ UNCHANGED <<data, outcome>>
     \/ /\ HasNaN(data)
        /\ ~HasNaN(YFromX(data))
        /\ data' = PositionalX(YFromX(data))
        /\ layout' = "two"
        /\ pc' = "pivot"
        /\ UNCHANGED outcome
     \/ /\ HasNaN(data)
        /\ HasNaN(YFromX(data))
        /\ outcome' = "Malformed"
        /\ pc' = "done"
        /\ UNCHANGED <<data, layout>>
  /\ UNCHANGED <<input, i, ignores, ordering, renames, actual_data, table, width, bars, yerr, labels, chart>>

(***************************************************************************)
(* The pivot tables, lines 167-170: pivot_table(columns='series', index=   *)
(* 'x', values='y', aggfunc=mean|min|max)[ordering].  A cell is kept as    *)
(* the sum, count, least and greatest of its samples: mean = sum / cnt.    *)
(* A non-numeric y column cannot be averaged, and a SORT label that names  *)
(* no series is a KeyError of the [ordering] selection.                    *)
(***************************************************************************)
IsNumeric(v) == v \in DOMAIN NumVal

Series(rows) == {rows[k].series : k \in DOMAIN rows}

\* Faulty variant for mutation checks: repeated samples of a cell counted once.
AggregateDistinct(rows, key) ==
  LET vals == {rows[k].y : k \in {j \in DOMAIN rows : <<rows[j].x, rows[j].series>> = key}}
  IN [sum |-> SumSet({NumVal[v] : v \in vals}),
      cnt |-> Cardinality(vals),
      lo  |-> Min({NumVal[v] : v \in vals}),
      hi  |-> Max({NumVal[v] : v \in vals})]

Aggregate(rows, key) ==
  LET samples == SelectSeq(rows, LAMBDA r : <<r.x, r.series>> = key)
      vals    == [k \in DOMAIN samples |-> NumVal[samples[k].y]]
  IN [sum |-> FoldLeft(LAMBDA a, b : a + b, 0, vals),
      cnt |-> Len(vals),
      lo  |-> Min(ToSet(vals)),
      hi  |-> Max(ToSet(vals))]

\* the cells of the tables: an (x, series) pair with a sample, for the
\* series the [ordering] selection keeps
PivotKeys(rows) ==
  {<<rows[k].x, rows[k].series>> : k \in {j \in DOMAIN rows : rows[j].series \in ToSet(ordering)}}

Pivot ==
  /\ pc = "pivot"
  /\ \/ /\ \E k \in DOMAIN data : ~IsNumeric(data[k].y)
        /\ outcome' = "AggError"
        /\ pc' = "done"
        /\ UNCHANGED table
     \/ /\ \A k \in DOMAIN data : IsNumeric(data[k].y)
        /\ ~(ToSet(ordering) \subseteq Series(data))
        /\ outcome' = "KeyError"
        /\ pc' = "done"
        /\ UNCHANGED table
     \/ /\ \A k \in DOMAIN data : IsNumeric(data[k].y)
        /\ ToSet(ordering) \subseteq Series(data)
        /\ table' = [key \in PivotKeys(data) |-> Aggregate(data, key)]
        /\ pc' = "render"
        /\ UNCHANGED outcome
  /\ UNCHANGED <<input, i, ignores, ordering, renames, actual_data, data, layout, width, bars, yerr, labels, chart>>

(***************************************************************************)
(* Bar styling, lines 279-332.  tmean.plot(kind='bar') draws the bars     *)
(* series by series, so ax.patches holds the R bars of the first column,  *)
(* then the R bars of the second, ..., with R = len(tmean) the number of  *)
(* x values.  The loop zips the patches with three flattened lists that   *)
(* repeat each entry R times: the column labels, the ten hatch patterns   *)
(* and the ten Pastel_10 face colours; zip stops at the shortest list, so *)
(* only the bars of the first ten series are styled.  A pattern or colour *)
(* is named by its 0-based index in patterns or faces.                    *)
(***************************************************************************)
NumStyles == 10     \* len(patterns) = len(Pastel_10.mpl_colors)

\* PATTERN_MAP and COLOR_MAP give each of these labels the same index
StyleMap ==
  ("O-BWT" :> 0) @@ ("NAT-BST" :> 1) @@ ("BRON-BST" :> 2) @@ ("C-IST" :> 3) @@
  ("Elim-ABT" :> 4) @@ ("VEB" :> 5) @@ ("NAIVE-VEB" :> 6) @@ ("IDEAL" :> 7)

\* a bar the loop never reaches keeps pandas' default look
Unstyled == [hatch |-> -1, face |-> -1]

\* Faulty variant for mutation checks: the comprehension's loops swapped,
\* [p for i in range(len(tmean)) for p in patterns].
HatchesInterleaved(R) == [j \in 1..(NumStyles * R) |-> (j - 1) % NumStyles]

\* hatches = [p for p in patterns for i in range(len(tmean))]
Hatches(R) == [j \in 1..(NumStyles * R) |-> (j - 1) \div R]

\* facecolors = [f for f in faces for i in range(len(tmean))]
Faces(R) == [j \in 1..(NumStyles * R) |-> (j - 1) \div R]

\* llabels = [l for l in tmean.columns for i in range(len(tmean))]
LLabels(cols, R) == [j \in 1..(Len(cols) * R) |-> cols[(j - 1) \div R + 1]]

\* the look the loop gives patch j: the maps' entry for a listed label,
\* else the j-th entries of hatches and facecolors
PatchStyle(cols, R, j) ==
  IF j > Len(LLabels(cols, R)) \/ j > Len(Hatches(R)) THEN Unstyled
  ELSE LET l == LLabels(cols, R)[j] IN
       IF l \in DOMAIN StyleMap
       THEN [hatch |-> StyleMap[l], face |-> StyleMap[l]]
       ELSE [hatch |-> Hatches(R)[j], face |-> Faces(R)[j]]

\* the r-th bar of the k-th column is patch (k - 1) * R + r
BarStyles(cols, R) ==
  [b \in (DOMAIN cols) \X (1..R) |-> PatchStyle(cols, R, (b[1] - 1) * R + b[2])]

(***************************************************************************)
(* Error bars, the plot and the save, lines 184-201, 234-244 and 390-397:  *)
(* error bars are turned off when the x index has at most one value; a    *)
(* table with no column (no SORT list) makes DataFrame.plot raise "no     *)
(* numeric data".  Otherwise the bars are styled and plt.savefig writes   *)
(* args.outfile (default out.png; --legend-only is not modelled): outcome *)
(* "Plotted" is that save.  With error bars the plot call gets yerr=err   *)
(* (line 237).                                                            *)
(***************************************************************************)
XIndex(rows) == {rows[k].x : k \in DOMAIN rows}

\* err = [[tpos_err[c], tneg_err[c]] for c in tmean] (lines 186-188): for
\* a cell, <<max - mean, mean - min>>, both scaled by the cell's count so
\* that they stay integers
ErrPair(cell) == <<cell.hi * cell.cnt - cell.sum, cell.sum - cell.lo * cell.cnt>>

ErrorBarWidth(w) ==
  IF w > 0 /\ Cardinality(XIndex(data)) <= 1 THEN 0 ELSE w

\* lines 374-386: an axis label is hidden when its text is ""; otherwise
\* set_xlabel/set_ylabel replace pandas' default (the index name)
AxisLabel(text) ==
  IF text = <<>> THEN [shown |-> FALSE, text |-> <<>>] ELSE [shown |-> TRUE, text |-> text]

Render ==
  /\ pc = "render"
  /\ \/ /\ Len(ordering) = 0
        /\ width' = 0
        /\ outcome' = "EmptyPlot"
        /\ UNCHANGED <<bars, yerr, chart>>
     \/ /\ Len(ordering) > 0
        /\ width' = ErrorBarWidth(width)
        /\ bars' = BarStyles(ordering, Cardinality(XIndex(data)))
        /\ yerr' = IF width' = 0 THEN <<>> ELSE [key \in DOMAIN table |-> ErrPair(table[key])]
        /\ chart' = [title  |-> labels["TITLE"],
                     xlabel |-> AxisLabel(labels["XLABEL"]),
                     ylabel |-> AxisLabel(labels["YLABEL"])]
        /\ outcome' = "Plotted"
  /\ pc' = "done"
  /\ UNCHANGED <<input, i, ignores, ordering, renames, actual_data, data, layout, table, labels>>

Init ==
  /\ input \in Inputs
  /\ width \in ErrorBarWidths
  /\ i = 1
  /\ ignores = <<>>
  /\ ordering = <<>>
  /\ renames = <<>>
  /\ actual_data = <<>>
  /\ data = <<>>
  /\ layout = "unknown"
  /\ table = <<>>
  /\ bars = <<>>
  /\ yerr = <<>>
  /\ labels = [kw \in TitleDirectives |-> <<>>]
  /\ chart = <<>>
  /\ pc = "load"
  /\ outcome = "running"

Next ==
  \/ LoadLine
  \/ SortData
  \/ ReadCsv
  \/ InferColumns
  \/ Pivot
  \/ Render

Spec == Init /\ [][Next]_vars /\ WF_vars(Next)

-----------------------------------------------------------------------------
(***************************************************************************)
(* What the spec (section 4.1) says the reshaper computes from its input:  *)
(* directives apply to the whole input, data lines have two or three       *)
(* tokens, ignored series are dropped on their own label, a label is       *)
(* renamed once, two-column data gets x = n on the n-th line of a series,  *)
(* and the tables are restricted to the SORT list when one is given.       *)
(***************************************************************************)
IsDataLine(l) == l # Blank /\ Label(l) \notin Directives \cup TitleDirectives

DirectiveLines(kw) == SelectSeq(input, LAMBDA l : Label(l) = kw)

SpecIgnored == UNION {ToSet(Tail(l)) : l \in ToSet(DirectiveLines("IGNORE"))}

SpecOrdering ==
  IF DirectiveLines("SORT") = <<>> THEN <<>> ELSE Tail(Last(DirectiveLines("SORT")))

SpecRename(lbl) ==
  LET rs == SelectSeq(DirectiveLines("RENAME"), LAMBDA l : Len(l) = 3 /\ l[2] = lbl)
  IN IF rs = <<>> THEN lbl ELSE Last(rs)[3]

\* the data lines the spec keeps, in input order
SpecKept ==
  SelectSeq(SelectSeq(input, IsDataLine), LAMBDA l : Label(l) \notin SpecIgnored)

SpecRows ==
  LET recs == [k \in DOMAIN SpecKept |-> [series |-> SpecRename(SpecKept[k][1]),
                                           toks   |-> Tail(SpecKept[k])]]
      Nth(k) == Len(SelectSeq(SubSeq(recs, 1, k),
                              LAMBDA r : r.series = recs[k].series))
  IN [k \in DOMAIN recs |->
        IF Len(recs[k].toks) = 1
        THEN [series |-> recs[k].series, x |-> Nth(k), y |-> recs[k].toks[1]]
        ELSE [series |-> recs[k].series, x |-> recs[k].toks[1], y |-> recs[k].toks[2]]]

SpecColumns ==
  IF SpecOrdering = <<>> THEN {r.series : r \in ToSet(SpecRows)} ELSE ToSet(SpecOrdering)

SpecTable ==
  LET rows == SpecRows
      Key(k) == <<rows[k].x, rows[k].series>>
  IN [key \in {Key(k) : k \in {j \in DOMAIN rows : rows[j].series \in SpecColumns}} |->
        LET idx  == {k \in DOMAIN rows : Key(k) = key}
            vals == [k \in idx |-> NumVal[rows[k].y]]
        IN [sum |-> SumFunction(vals), cnt |-> Cardinality(idx),
            lo  |-> Min(Range(vals)), hi  |-> Max(Range(vals))]]

\* IGNORE and RENAME lines all come before the first data line, and there
\* is at most one IGNORE line
DirectivesFirst ==
  /\ \A j, k \in DOMAIN input :
        Label(input[j]) \in {"IGNORE", "RENAME"} /\ IsDataLine(input[k]) => j < k
  /\ Len(DirectiveLines("IGNORE")) <= 1

\* every kept data line has the same number of tokens
UniformColumns == \A j, k \in DOMAIN SpecKept : Len(SpecKept[j]) = Len(SpecKept[k])

\* the look of the k-th series of a chart: its entry in PATTERN_MAP and
\* COLOR_MAP, else the k-th pattern and the k-th colour
SeriesLook(l, k) ==
  IF l \in DOMAIN StyleMap THEN [hatch |-> StyleMap[l], face |-> StyleMap[l]]
  ELSE [hatch |-> k - 1, face |-> k - 1]

-----------------------------------------------------------------------------
(* Properties                                                              *)

Tokens == UNION {ToSet(l) : l \in Lines}

TypeOK ==
  /\ i \in 1..(Len(input) + 1)
  /\ ignores \in Seq(Tokens)
  /\ ordering \in Seq(Tokens)
  /\ renames \in [DOMAIN renames -> Tokens]
  /\ \A k \in DOMAIN actual_data : actual_data[k] \in Seq(Tokens)
  /\ \A k \in DOMAIN data :
        /\ data[k].series \in Tokens
        /\ data[k].y \in Tokens \cup {NaN}
        /\ IF layout = "two" THEN data[k].x \in 1..Len(data) ELSE data[k].x \in Tokens \cup {NaN}
  /\ layout \in {"unknown", "three", "two"}
  /\ \A key \in DOMAIN table :
        /\ table[key].cnt \in 1..Len(data)
        /\ table[key].lo <= table[key].hi
  /\ width \in ErrorBarWidths \cup {0}
  /\ bars \in [DOMAIN bars -> [hatch : -1..(NumStyles - 1), face : -1..(NumStyles - 1)]]
  /\ yerr \in [DOMAIN yerr -> Nat \X Nat]
  /\ labels \in [TitleDirectives -> Seq(Tokens)]
  /\ chart # <<>> => chart \in [title  : Seq(Tokens),
                                xlabel : [shown : BOOLEAN, text : Seq(Tokens)],
                                ylabel : [shown : BOOLEAN, text : Seq(Tokens)]]
  /\ pc \in {"load", "read", "infer", "pivot", "render", "done"}
  /\ (pc = "done") <=> (outcome # "running")

\* When the script plots an input whose IGNORE and RENAME lines precede its
\* data and whose data lines all have the same number of columns, the
\* mean/min/max tables it plots are the ones the spec defines from the
\* input: the loading loop, the SORT-keyed sort, the column inference with
\* its positional x, and the pivot together compute the spec's tables.
PlotMatchesSpec ==
  (outcome = "Plotted" /\ DirectivesFirst /\ UniformColumns) => table = SpecTable

\* Every bar of a saved chart has the look of its own series: one bar per
\* x value of the tables for each series of the SORT list, and all bars of
\* the k-th series (k <= 10) carry the hatch and face colour PATTERN_MAP and
\* COLOR_MAP give its label, or else the k-th pattern and colour.  The loop
\* at lines 315-330 finds a bar's series only through the order of
\* ax.patches and the order of its flattened lists, which must agree.
BarsStyledBySeries ==
  outcome = "Plotted" =>
    /\ DOMAIN bars = (DOMAIN ordering) \X (1..Cardinality({key[1] : key \in DOMAIN table}))
    /\ \A b \in DOMAIN bars : b[1] <= NumStyles => bars[b] = SeriesLook(ordering[b[1]], b[1])

\* The spec (section 3): a bar's error bar reaches max - mean above and
\* mean - min below the mean, that is from the least to the greatest
\* sample of its cell.  pandas hands each column's pair in yerr to
\* matplotlib, which reads the first entry as the error below the mean and
\* the second as the error above it.
ErrorBarsSpanSamples ==
  outcome = "Plotted" =>
    \A key \in DOMAIN yerr :
      /\ table[key].sum - yerr[key][1] = table[key].lo * table[key].cnt
      /\ table[key].sum + yerr[key][2] = table[key].hi * table[key].cnt

\* The spec (section 8): input that mixes two- and three-token data lines
\* for one series is rejected (the fallback at lines 143-144 overwrites y).
MixedColumnsRejected ==
  outcome = "Plotted" =>
    \A j, k \in DOMAIN SpecKept :
      SpecRename(Label(SpecKept[j])) = SpecRename(Label(SpecKept[k]))
        => Len(SpecKept[j]) = Len(SpecKept[k])

\* The spec: series named on an IGNORE line are dropped before pivoting,
\* wherever the IGNORE line stands (the loop at lines 115-125 applies the
\* IGNORE list in force to the lines after it).
IgnoredSeriesDropped ==
  outcome = "Plotted" => \A key \in DOMAIN table : key[2] \notin SpecIgnored

\* The spec: TITLE, XLABEL and YLABEL lines are directives that set chart
\* labels; no such line is taken as data (lines 108-113 are not part of the
\* if/elif chain that ends in the data branch at line 121).
TitleLinesNotData ==
  \A k \in DOMAIN actual_data : Label(actual_data[k]) \notin TitleDirectives

\* The spec (section 4.1): TITLE <text>, XLABEL <text> and YLABEL <text>
\* set the chart's labels.  When every such line has a text that does not
\* repeat its keyword, a saved chart shows the text of the last TITLE line
\* as its title (none without one), and an axis label exactly when there
\* is an XLABEL (YLABEL) line, with the text of the last one.  Lines
\* 108-113 cut the keyword out of the line with str.replace, and lines
\* 374-386 show an axis label only when that text is not empty.
SpecLabel(kw) == IF DirectiveLines(kw) = <<>> THEN <<>> ELSE Tail(Last(DirectiveLines(kw)))

ChartLabelsFromDirectives ==
  (outcome = "Plotted" /\
   \A kw \in TitleDirectives :
     \A l \in ToSet(DirectiveLines(kw)) : Len(l) >= 2 /\ kw \notin ToSet(Tail(l)))
    => /\ chart.title = SpecLabel("TITLE")
       /\ \A kw \in {"XLABEL", "YLABEL"} :
            LET axis == IF kw = "XLABEL" THEN chart.xlabel ELSE chart.ylabel
            IN /\ axis.shown <=> DirectiveLines(kw) # <<>>
               /\ axis.shown => axis.text = SpecLabel(kw)

\* The spec: well-formed input (non-empty, two or three tokens per data
\* line, a SORT list, if any, naming exactly the series) is plotted; the
\* SORT list is optional.
WellFormedInputPlotted ==
  LET wellFormed ==
        /\ SpecKept # <<>>
        /\ \A k \in DOMAIN input : input[k] # Blank
        /\ \A k \in DOMAIN SpecKept : Len(SpecKept[k]) \in {2, 3}
        /\ UniformColumns
        /\ \A k \in DOMAIN input : Label(input[k]) = "RENAME" => Len(input[k]) = 3
        /\ SpecOrdering # <<>> => ToSet(SpecOrdering) = {r.series : r \in ToSet(SpecRows)}
  IN (pc = "done" /\ wellFormed) => outcome = "Plotted"

=============================================================================
