\* A TITLE line is loaded as a data line.
CONSTANTS
  Lines <- ErrorLines
  NumVal <- MCNumVal
  MaxLines = 2
  ErrorBarWidths = {10}
  NaN = NaN
SPECIFICATION Spec
INVARIANT TitleLinesNotData
\* The script ends after one pass: its final state has no successor.
CHECK_DEADLOCK FALSE
