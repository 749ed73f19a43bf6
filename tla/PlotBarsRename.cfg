\* RENAME of a series whose name also occurs as a value.
CONSTANTS
  Lines <- NumLabelLines
  NumVal <- MCNumVal
  MaxLines = 3
  ErrorBarWidths = {10}
  NaN = NaN
SPECIFICATION Spec
INVARIANT PlotMatchesSpec
\* The script ends after one pass: its final state has no successor.
CHECK_DEADLOCK FALSE
