# TLA+ models of the pop_setbench result-processing scripts

This directory holds TLA+ specifications of the result-processing code in
`src/`, the TLC configurations that check them, and `PROJECT.json`, which
records the components, the runs, the mutants, the source lines that each
definition models, the findings and the hazards.

## 1. The system

The repository contains six sequential Python scripts. None of them runs
concurrently or keeps anything between invocations. Each one reads a text
file, reshapes it into tables and either prints the result or plots it.
What makes them hard is not interleaving. It is the control flow over
arbitrary input files: the order of directives, the mixing of row widths,
ties, empty groups, negative values and exceptions raised halfway through.
TLC explores every file up to a bound, so it reaches exactly these cases.

| Part | Source | State | Operations |
|---|---|---|---|
| TabularResultReshaper (bar-chart tool) | `src/tools/plotbars_mkhalaji.py` | `ignores`, `ordering`, `renames`, `actual_data`, the data frame, the pivot tables, `error_bar_width` | load loop (TITLE/XLABEL/YLABEL/IGNORE/SORT/RENAME/data lines), stable sort by SORT, `read_csv`, three/two-column inference, mean/min/max pivot with `[ordering]`, error-bar rule and error pairs, plot, bar hatch/colour loop, save |
| Result averager | `src/pop_experiments/process_results.py` | `results`, `current_benchmark`, the module-level `allocators` list, `result_comparison` | parse loop (skip, header, record), report loop (floor averages, best other allocator, improvement) |
| Line-plot loader | `src/tools/plotlines.py` | `series` | strict three-token loader, one `plt.plot` per series, `savefig` |
| Experiment plot functions | `src/pop_experiments/pop_exp_run_ll.py`, `pop_exp_run_hml_longops.py` | the frame passed in by the framework, the pivot table, the legend lines | groupby mean, pivot, normalisation by the `none` reclaimer (long-read experiment), legend relabel chain |
| Experiment definitions | the same two files, `pop_exp_compile.py` | the framework's `exp_dict` | reading the input lists, registering parameters, commands and plot sets |

How the parts interact: the experiment scripts run the external benchmark
binaries through an external framework, which is not in this repository. The
framework calls `my_plot_func` and `my_memplot_func` with a frame for each
plot set. The bar-chart tool and `process_results.py` are run by hand on
text files that the benchmarks produced. The parts share no state, so every
module stands alone and no composition module is needed.

## 2. Modules

### PlotBars (`PlotBars.tla`, `MCPlotBars.tla`)

This module models the data path of `plotbars_mkhalaji.py`, lines 96-244,
and the styling loop, axis titles and save that follow it (lines 279-332,
372-386, 390-397).

- **Input.** The input file is a sequence of lines. Each line is a sequence
  of tokens, which is `line.split(" ")`. An empty line is `<<"">>`.
- **Initial state.** `Init` chooses the file from every sequence of up to
  `MaxLines` lines over the `Lines` alphabet. It also chooses the
  `--error-bar-width` argument.
- **Phases.** A `pc` holds the section of the script being run. Each action
  is a whole section:
  - `LoadLine` handles one iteration of the loop at 104-128. Its disjuncts
    are `LoadIgnore`, `LoadSort`, `LoadRename`, `LoadRenameShort` (the
    IndexError of a one-argument RENAME), `SkipIgnored` and `AppendData`.
    Every iteration also runs the three label `if`s of lines 108-113
    (`SetLabels`), which come before the directive chain: `labels` holds
    `args.title`, `args.x_title` and `args.y_title` by keyword, as token
    sequences, starting from the arguments' default `""`. `LabelText` is
    `line.replace("TITLE ", "")`: it removes every keyword token that a
    space follows, so a bare `TITLE` line keeps its keyword.
  - `SortData` is line 131. It is a stable sort by the position in `ordering`,
    or a ValueError.
  - `ReadCsv` is line 135, with the "no data" exits.
  - `InferColumns` is lines 137-162: three columns, two columns with
    positional x, or the exit(1) on malformed data.
  - `Pivot` is lines 167-170. It raises an aggregation error on non-numeric
    y and a KeyError for a SORT label that is not a series. Otherwise a cell
    is kept as `[sum, cnt, lo, hi]`, and mean = sum/cnt.
  - `Render` is lines 184-397: the error-bar rule of line 197, the plot,
    which fails on an empty `[ordering]`, the `yerr` pairs passed to it
    (`ErrPair`, lines 186-188), the look of every bar, and the save.
    `bars` maps `<<k, r>>` to the hatch and face colour of the r-th bar of
    the k-th series. `BarStyles` models the loop at 315-330: pandas draws
    the bars column by column, and the loop zips `ax.patches` with the
    label, hatch and colour lists, each repeating its entries
    `len(tmean)` times. A hatch or colour is named by its index in
    `patterns` or `faces`; `StyleMap` is `PATTERN_MAP`/`COLOR_MAP`, which
    give a label the same index. `chart` is what the saved figure shows:
    the title passed to the plot (line 210), and each axis label hidden
    when its text is empty and set otherwise (`AxisLabel`, lines 372-386).
    `--legend-only` (lines 399-412) is not modelled.
- **Data abstraction.** Numbers are tokens mapped through the `NumVal`
  table, the model's `float(token)`. NaN is a model value.
- **Strings.** The directive tests (`line.startswith`) and the rename
  (`line.replace(label, new)`) work on the text of the line. On the model's
  alphabets no token begins with a keyword other than the keyword itself,
  and no token is a proper substring of another, so they are tests of the
  first token and replacement of every token equal to the label. The
  replacement reaches the values too: a series named like a value has that
  value rewritten, which `plotbars_rename` shows.

**Reference definitions.** The spec's reading of the input is written
separately from the code: `SpecRows`, `SpecTable`, `SpecIgnored` and
`SpecOrdering` are computed directly from the input lines (spec §4.1, §8).
The properties compare the code's state with these references.

### ResultAverager (`ResultAverager.tla`, `MCResultAverager.tla`)

This module models `process_results.py`.

- **Actions.**
  - `ParseLine` is one iteration of the loop at 17-36. It has the four
    outcomes of the code: skip, header, ignored line, and record.
  - `EndParse` moves from parsing to the report.
  - `ReportBenchmark` is one iteration of the report loop at 40-57. It
    computes the floor averages, the best other allocator and the
    improvement, and it ends the run with the exception the improvement
    raises.
  - `EndReport` ends the run once every benchmark is reported.
- **Data abstraction.** `int()` is the `IntVal` table. Whether a token
  starts with a digit is the `DigitStart` set. The output that is printed is
  kept as `report`, with one record per benchmark.
- **Abstract specification.** `AveragerReport.tla` states the printed
  report in one step from the whole file. A value belongs to the benchmark
  of the last header above it. Benchmarks come in the order of their first
  value. Each entry has the floor mean of every allocator, computed as the
  greatest q with q·n ≤ sum. The comparison base is the first greatest
  non-deqalloc allocator, in the order allocators were first seen in the
  whole file, starting with deqalloc and mimalloc. The report stops at the
  first benchmark whose improvement raises. The line grammar (skipped lines,
  headers, records) is a constant-operator parameter, instantiated with
  ResultAverager's own definitions.
- **Refinement.** `AveragerReportAbs == INSTANCE AveragerReport WITH report
  <- IF pc = "done" THEN report ELSE <<>>`: the report counts only once the
  run is over, so every parsing and report step but the last is a stutter
  of the abstract specification.

### PlotLines (`PlotLines.tla`, `MCPlotLines.tla`)

This module models `plotlines.py`.

- **Loading loop.** `ReadLine` is one iteration of the loop at 39-57:
  - the counter `i` is advanced first (line 40);
  - an empty line is skipped;
  - a line without three tokens sets `errline` and ends with ERROR;
  - otherwise the series entry is created, and `order` keeps the dict's
    insertion order;
  - `int()` of either value either appends the point or raises ValueError.
- **Plotting.** `EndLoad` ends the loop. `Plot` is lines 80-146: one curve
  per key in dict order, then `plt.savefig` (`-o` defaults to `op.png`, so
  `args.outfile` is never None). Line 146 has no trailing newline.
- **Abstract specification.** `LinePlot.tla` states the result in one step:
  if every non-empty line is a valid row, one curve per label in order of
  first appearance with its points in file order; otherwise the error of the
  first bad line (ERROR with its line number for a wrong token count,
  ValueError for a non-integer value). `LinePlotAbs == INSTANCE LinePlot`
  maps every variable to the variable of the same name.
- **Lines.** A line is `rstrip('\r\n').split(" ")`. The alphabet includes a
  trailing space and a double space, which produce empty tokens.

### LegendStyle (`LegendStyle.tla`)

This is a constant module for the legend relabelling chain. The chain is
repeated four times in the two experiment scripts, and the four copies are
identical.

- `Branches` lists the sixteen `if`s in source order. Each entry records the
  label tested and the attributes set.
- `Chain` folds them over a line's style. It tests the *current* label, as
  the sequential `if`s do.
- `DefaultStyle` is the style `DataFrame.plot` gives the k-th column: the
  column name, solid, no marker, and colour C(k-1) mod 10.

### ExperimentPlot (`ExperimentPlot.tla`, `MCExperimentPlot.tla`)

This module models the plot functions that the external data framework
calls.

- **Initial state.** `Init` chooses the reclaimer list, which is read from
  `reclaimer.txt`, and one row per reclaimer × x × trial. This is what
  `define_experiment` makes the framework produce for one plot set.
- **Actions.** Each function is one action that runs the whole handler: the
  groupby mean, the normalisation by `none` (long-read `my_plot_func` only,
  hml lines 29-34), the pivot, one line per column in sorted column order
  styled by `Legend`, and the save. `Pivot` keeps `pivot_table`'s default
  `dropna=True`: a NaN point (0/0) is dropped before the unstack, so a size
  or a reclaimer without a defined point has no row or line, and a cell the
  unstack leaves empty is NaN. A table left without a column makes
  `table.plot` raise TypeError (`PlotTable`). The actions are `ll_my_plot_func`,
  `ll_my_memplot_func`, `hml_my_plot_func` and `hml_my_memplot_func`.
- **Data abstraction.** Values are exact fractions. Division by a zero
  baseline gives the model values `Inf` or `NaN`, as float division in
  pandas does.

## 3. Runs

All runs use `CHECK_DEADLOCK FALSE`. The scripts terminate: each one ends in
`pc = "done"` and really stops there. Each specification has
`WF_vars(Next)`, because the scripts are sequential and never block: every
enabled section runs.

Liveness is checked where it is cheap to evaluate. `ImplementsLinePlot` is
`LinePlot!Spec`, including `WF(Run)`. Under the identity mapping this says
that every run of plotlines ends with the abstract result: a stuck state
before `done` would violate it, and deadlock checking alone would not find
one, because it is off. For the averager only the safety part
`SafetySpec` is checked. The report is mapped through an expression of
`pc`, and TLC does not evaluate the abstract `ENABLED Run` through that
substitution.

| Run | cfg | Bounds | Checks | Result |
|---|---|---|---|---|
| plotbars_main | PlotBars.cfg | files of ≤4 lines over two-/three-column rows of series a, b with values 1, 2, both SORT orders, IGNORE a, RENAME a b, and one-token, blank, `XLABEL w`, `IGNORE XLABEL`, one-argument RENAME and `SORT b` lines; width 10 (1.9 million states, about 1 minute) | TypeOK, PlotMatchesSpec, BarsStyledBySeries, ChartLabelsFromDirectives | pass |
| plotbars_error_bars | PlotBarsErrorBars.cfg | ≤5 lines: SORT a and three-column rows of series a with x, y in 1, 2; width 10 | ErrorBarsSpanSamples | violation |
| plotbars_rename | PlotBarsRename.cfg | ≤3 lines: RENAME 1 a, SORT a or SORT 1, rows of a series named 1 | PlotMatchesSpec | violation |
| plotbars_mixed_columns | PlotBarsMixed.cfg | as main | MixedColumnsRejected | violation |
| plotbars_late_ignore | PlotBarsLateIgnore.cfg | ≤4 lines, without RENAME | IgnoredSeriesDropped | violation |
| plotbars_title | PlotBarsTitle.cfg | ≤2 lines of the error alphabet | TitleLinesNotData | violation |
| plotbars_no_sort | PlotBarsNoSort.cfg | ≤2 data/SORT lines | WellFormedInputPlotted | violation |
| averager_main | ResultAverager.cfg | ≤4 lines: headers B, C; deqalloc/mimalloc/jemalloc records with values -1..2; comment, empty, digit-only, non-numeric and three-token lines | TypeOK, ImplementsAveragerReport | pass |
| plotlines_main | PlotLines.cfg | ≤4 lines: rows of a, b with values 1, 2; an empty line, a two-token line, a trailing and a double space | TypeOK, ImplementsLinePlot | pass |
| experiment_ll | ExperimentPlotLL.cfg | every list of ≤2 of the 16 styled names plus 2 unstyled ones; 2 thread counts; 2 trials; throughputs 1, 2 | DistinctLegend | pass |
| experiment_hml | ExperimentPlotHML.cfg | ≤3 reclaimers with and without none; 2 sizes; 1 trial; throughputs 0..2 | TypeOK | pass |

What each property says:

- **PlotMatchesSpec.** Suppose the directives precede the data and all rows
  have one width. Then the plotted mean/min/max tables are the reference
  aggregation of the input: IGNORE and RENAME are applied and x is assigned
  positionally for two-column rows. This depends on the stable sort, on
  ignore being checked before rename, on the positional counter and on the
  aggregation of repeated samples.
- **BarsStyledBySeries.** Every bar of a saved chart has the look of its
  own series: one bar per x value for each series of the SORT list, and
  all the bars of the k-th series carry the hatch and colour the maps give
  its label, or else the k-th ones. The loop finds a bar's series only
  through the order of `ax.patches` and of its flattened lists.
- **ErrorBarsSpanSamples** (violation run). The error bar of a cell runs
  from its least to its greatest sample (spec §3: positive error max − mean,
  negative error mean − min).
- **ChartLabelsFromDirectives.** Suppose every TITLE/XLABEL/YLABEL line
  has a text that does not repeat its keyword. Then a saved chart shows the
  text of the last TITLE line as its title, and an axis label exactly when
  there is an XLABEL (YLABEL) line, with the text of the last one (spec
  §4.1). This depends on the label lines being read ahead of the IGNORE
  test (which must drop them from the data for such a chart to be plotted
  at all), on the `str.replace` that cuts the keyword out, and on the
  empty-text test of lines 374-386.
- **ImplementsAveragerReport.** The two loops of `process_results.py`
  refine `AveragerReport`. This covers the merging of repeated sections,
  the floor of negative means, the skipping of allocators first seen in
  other benchmarks, the tie-break by the global first-seen order, and the
  report cut short by the first raising benchmark.
- **ImplementsLinePlot.** The loading loop of `plotlines.py` refines
  `LinePlot`, termination included. This covers the line counter advanced
  before empty lines are skipped, the dict's insertion order, and the
  ValueError left after a partial append.
- **TypeOK of ExperimentPlot** (hml run). A saved figure has a row per
  list size and a line and legend entry per reclaimer with a defined point,
  and every row and line holds one. With throughput 0 in the bound, a zero
  `none` baseline gives inf points, which are kept, and 0/0 gives NaN
  points, which `pivot_table` drops together with a line that is NaN at
  every size.
- **DistinctLegend.** No two lines share a legend entry or a look (line
  style, marker, colour and width).

**Why the bounds are enough.** Every branch of the code is reachable within
them, and the passing runs together fire every action and every disjunct.

- For plotbars, four lines are enough for the following, and each error
  exit is reached with three:
  - a directive after data;
  - a repeated (x, series) cell;
  - two series with two rows each;
  - a SORT that reorders rows.
- Two values per cell are enough to tell mean from min and max. Error bars
  that are drawn upside down need a cell with three unequal samples and a
  second x value, so `plotbars_error_bars` allows five lines of one series.
- A chart with an x-axis label needs four lines (`IGNORE XLABEL`,
  `XLABEL w`, `SORT b`, a row of b). The alphabet has one label line:
  every label line goes through the same `LabelText`, and the XLABEL one
  also goes through the hide/show test of lines 374-378. The title and
  the y label are checked at their default, which must stay empty and
  hidden while an XLABEL line is read. Two label lines in one plotted
  chart need five lines, so overwriting is not reached.
- Two x values are enough for the bar styling: the repetition of every
  style entry per row shows only with at least two rows.
- For the averager, four lines are enough for:
  - a header followed by three records;
  - two headers with records under each;
  - a repeated header.
- The values -1..2 include a negative sum, where floor and truncation
  differ, and ties.
- For plotlines, four lines are enough for an error line after an empty
  line, and for two labels that each have two points.
- For the experiment runs:
  - two trials with the values 1 and 2 tell a mean from a sum;
  - two sizes tell a per-size baseline from the baseline of another size;
  - throughput 0 reaches the division by zero;
  - reclaimer lists of up to two names cover every pair of the eighteen
    names, including the two names the chain does not style;
    `DistinctLegend` is a pairwise property, so pairs are enough.

**Mutants.** Each property of the passing runs is checked against a
plausible bug in the definition it depends on:

- an unstable sort;
- counting distinct samples instead of all samples;
- a positional counter starting at 0;
- the hatch list comprehension with its loops swapped;
- `line.replace("TITLE", "")`, the keyword cut out without its space;
- a defaultdict that loses the first value;
- `<=` instead of `<` in the best-system update;
- the series reset on every line;
- keys appended on every line;
- a pivot with index and columns swapped;
- `pivot_table(dropna=False)`, which keeps the NaN points;
- a copied relabel branch.

TLC finds the property violated in every case.

## 4. Findings

- **Mixed columns** (`plotbars_mkhalaji.py:144`). A file that mixes
  two-token and three-token rows is plotted, with y replaced by x. Spec §8
  requires a MalformedInputError.
- **Late IGNORE** (`plotbars_mkhalaji.py:116`). IGNORE only filters the lines
  read after it, and a second IGNORE replaces the first one.
- **TITLE lines are data** (`plotbars_mkhalaji.py:108`). TITLE/XLABEL/YLABEL
  are separate `if`s, outside the `elif` chain, so those lines are also
  appended as data. The file then fails at the SORT or pivot step, or is
  plotted with a bogus series.
- **SORT is required** (`plotbars_mkhalaji.py:167`). Without SORT, the
  `[ordering]` selection is empty and plotting raises.
- **RENAME rewrites values** (`plotbars_mkhalaji.py:127`). The rename is
  `line.replace(label, new)` on the whole line. For a series named `1`,
  `RENAME 1 a` turns the line `1 1 2` into `a a 2`, which is plotted at
  x = a. Spec §8 says a rename changes the label and leaves the values
  unchanged.
- **Error bars upside down** (`plotbars_mkhalaji.py:188`). `err` gives each
  column the pair (max − mean, mean − min), and matplotlib reads the first
  entry of an asymmetric pair as the error *below* the mean. The bar is
  drawn from 2·mean − max to 2·mean − min instead of from min to max: for
  the samples 1, 1, 2 it spans 2/3..5/3. Spec §3 defines the positive
  error as max − mean. With two samples per cell, or the spec's example
  (10, 30), the errors are symmetric and the swap cannot be seen.

## 5. What is not modelled, and why

- **Styling and output.** Argument parsing, tick and label formatting,
  fonts, grids, the style hooks and the `--legend-only` output hold no
  state that a property is about. The bar hatches and colours and the
  chart's title and axis labels are modelled. `-t`, `--x-title` and
  `--y-title` keep their default `""`: letting them vary would multiply
  the 1.9 million states of `plotbars_main` by eight.
- **Keywords inside a label text.** `line.replace("TITLE ", "")` removes
  every `TITLE ` of the line, so `TITLE TITLE w` gives the title `w`. The
  spec's `TITLE <text>` does not settle whether such a text is allowed, so
  ChartLabelsFromDirectives is stated for texts without their keyword and
  the case is listed as a hazard.
- **External code.** `define_experiment`, `get_maxres` and
  `pop_exp_compile.py` only configure the external data framework, or run
  shell pipelines.
- **The data framework.** Run scheduling, the parsing of benchmark output
  into rows and failed runs belong to the external framework. The model
  assumes one row per parameter combination.
- **Prefix tests and substrings.** Tokens are atomic. The model can show
  `line.replace` rewriting a value equal to the label, but not a label that
  is a proper substring of a value. It also cannot show a series whose name
  begins with a keyword (`SORTED`) being taken as a directive. Both are
  listed as hazards.
- **Colour cycles with more than ten series.** Both `plotlines.py` (line
  83) and the experiment plots (the default colour cycle) repeat after ten
  lines. A file or reclaimer list with eleven series is beyond the
  enumerated inputs. For the experiment scripts the two names the legend
  chain leaves unstyled are at most five columns apart, so the wrap cannot
  make two known reclaimers look alike.
- **Bar styles beyond ten series, and mapped labels.** The styling loop
  stops after ten series (`zip` with ten entries per row), and a label of
  `PATTERN_MAP` takes a fixed index that an unmapped series may also get
  by position. Both are listed as hazards. The first needs eleven series.
  The maps name data-structure labels that no series of this repository
  carries, and the spec leaves styling out of scope.
- **Plot-set file names** (`pop_exp_run_hml_longops.py:324, 334`). The
  long-read plot sets vary TOTAL_THREADS, but their names omit it. Expanding
  a plot set into figures is done by the external framework, so this is a
  hazard without a model.
- **The 'none' requirement** (`pop_exp_run_hml_longops.py:34`).
  `experiment_hml` reaches the KeyError raised for a list without `none`,
  but no run states a property about it. Nothing in the repository says
  what should happen without `none`.

## 6. Plan

Done:
- stage 1: PlotBars, ResultAverager, PlotLines, LegendStyle and
  ExperimentPlot;
- stage 2:
  - the abstract specifications LinePlot and AveragerReport, with their
    refinement checked (LinePlot with termination);
  - the rename finding;
  - a correction: plotlines does save its figure (line 146);
  - the two PlotBars passing runs merged into one over the full alphabet;
- stage 3:
  - the bar styling loop and the save in `Render`, with BarsStyledBySeries;
  - the error-bar finding (`plotbars_error_bars`). It took the run slot of
    the earlier 'none' check, which is now a hazard.
- stage 4:
  - the TITLE/XLABEL/YLABEL labels (lines 108-113, 210, 372-386), with
    ChartLabelsFromDirectives;
- stage 5:
  - `pivot_table`'s `dropna` in ExperimentPlot, with the TypeError of an
    empty table;
  - `SORT b` in the main bar-chart alphabet, so that a file that ignores
    or renames series a before its data is plotted and compared with the
    reference tables;
  - removed: the error-bar rule, the trial-mean and the normalisation
    properties, which restated the definitions they checked, and the
    averager crash run, whose property nothing in the repository states.

Next:

1. **A reshaper abstraction** for PlotBars. This would state the code's own
   semantics in one step: directives applied from their position, renames
   applied to the text of the line. PlotBars would be checked against it.
   The PlotBars state space (1.9 million states) makes this costly, so it
   needs a smaller alphabet of its own.
2. **Missing rows** in the experiment frame. This would model failed
   benchmark runs, once it is known how the framework reports them.
