\* The default -n 7 and the compiled-in 5 levels, one client re-created until
\* its id gives a chain qdisc handle tc cannot parse.
CONSTANTS
  k1 = k1
  k2 = k2
  Keys <- MCOneKey
  NumPriorities = 7
  NumLevels = 5
  MaxRate = 1
  Rates = {1}
  MaxBatch = 1
  MaxIds = 300
  MaxBytes = 0
  MaxElapsed = 1
  QueryUnknown = FALSE
  MaxTcFailures = 0

SPECIFICATION Spec
CONSTRAINT LongRunConstraint

INVARIANT KernelMatchesTable
