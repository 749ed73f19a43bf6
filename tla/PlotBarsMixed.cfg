\* Mixing two- and three-token data lines of one series is plotted, not rejected.
CONSTANTS
  Lines <- MainLines
  NumVal <- MCNumVal
  MaxLines = 4
  ErrorBarWidths = {10}
  NaN = NaN
SPECIFICATION Spec
INVARIANT MixedColumnsRejected
\* The script ends after one pass: its final state has no successor.
CHECK_DEADLOCK FALSE
