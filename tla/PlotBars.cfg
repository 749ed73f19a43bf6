\* The reshaper on every input of up to four lines: well-formed data and
\* directive lines, and the lines that stop the script (short, blank,
\* XLABEL, malformed RENAME and incomplete SORT lines); the error-bar width
\* is the default 10 (no property here depends on it).
CONSTANTS
  Lines <- ErrorLines
  NumVal <- MCNumVal
  MaxLines = 4
  ErrorBarWidths = {10}
  NaN = NaN
SPECIFICATION Spec
INVARIANTS TypeOK PlotMatchesSpec BarsStyledBySeries ChartLabelsFromDirectives
\* The script ends after one pass: its final state has no successor.
CHECK_DEADLOCK FALSE
