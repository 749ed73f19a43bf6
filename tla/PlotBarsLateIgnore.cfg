\* An IGNORE line after data lines of its series leaves them in the tables.
CONSTANTS
  Lines <- IgnoreLines
  NumVal <- MCNumVal
  MaxLines = 4
  ErrorBarWidths = {10}
  NaN = NaN
SPECIFICATION Spec
INVARIANT IgnoredSeriesDropped
\* The script ends after one pass: its final state has no successor.
CHECK_DEADLOCK FALSE
