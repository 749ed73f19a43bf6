\* Files of up to five lines of one series, with error bars requested:
\* the error bars of a cell with unequal samples.
CONSTANTS
  Lines <- ErrorBarLines
  NumVal <- MCNumVal
  MaxLines = 5
  ErrorBarWidths = {10}
  NaN = NaN
SPECIFICATION Spec
INVARIANT ErrorBarsSpanSamples
\* The script ends after one pass: its final state has no successor.
CHECK_DEADLOCK FALSE
