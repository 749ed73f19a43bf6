\* Every input file of up to four lines over the MCPlotLines alphabet.
CONSTANTS
  Lines    <- MCLines
  MaxLines = 4
  IntVal   <- MCIntVal
SPECIFICATION Spec
INVARIANT TypeOK
PROPERTY ImplementsLinePlot
\* The script ends after one pass over its input: a final state is not a deadlock.
CHECK_DEADLOCK FALSE
