\* parse_and_average on every results file of up to four lines.
CONSTANTS
  Lines <- MCLines
  IntVal <- MCIntVal
  DigitStart <- MCDigitStart
  MaxLines = 4
  None = None
SPECIFICATION Spec
INVARIANT TypeOK
PROPERTY ImplementsAveragerReport
\* The script ends after one pass: its final state has no successor.
CHECK_DEADLOCK FALSE
