\* Well-formed input without a SORT line is not plotted.
CONSTANTS
  Lines <- DataSortLines
  NumVal <- MCNumVal
  MaxLines = 2
  ErrorBarWidths = {10}
  NaN = NaN
SPECIFICATION Spec
INVARIANT WellFormedInputPlotted
\* The script ends after one pass: its final state has no successor.
CHECK_DEADLOCK FALSE
