\* The ll experiment: every list of up to two of the eighteen reclaimer
\* names, two thread counts, two trials with throughputs 1 or 2; the memory
\* values are fixed.
CONSTANTS
  Script   = "ll"
  Universe <- MCUniverseAll
  AlgOrder <- AllNames
  MaxAlgs  = 2
  Xs       = {1, 2}
  Trials   = {1, 2}
  ThrVals  = {1, 2}
  MemVals  = {1}
  Inf      = Inf
  NaN      = NaN
SPECIFICATION Spec
INVARIANTS
  DistinctLegend
\* Each plot function is called once per plot set; the run then ends.
CHECK_DEADLOCK FALSE
