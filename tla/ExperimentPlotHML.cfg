\* The hml experiment: one trial, two list sizes, throughputs including 0,
\* and every list of up to three of the reclaimers, with and without 'none'.
CONSTANTS
  Script   = "hml"
  Universe <- MCUniverseFew
  AlgOrder <- FewNames
  MaxAlgs  = 3
  Xs       = {1, 2}
  Trials   = {1}
  ThrVals  = {0, 1, 2}
  MemVals  = {1, 2}
  Inf      = Inf
  NaN      = NaN
SPECIFICATION Spec
INVARIANTS
  TypeOK
\* Each plot function is called once per plot set; the run then ends.
CHECK_DEADLOCK FALSE
