\* One client with traffic and time, at any priority: each query restarts its counters.
CONSTANTS
  k1 = k1
  k2 = k2
  Keys <- MCOneKey
  NumPriorities = 2
  NumLevels = 1
  MaxRate = 1
  Rates = {1}
  MaxBatch = 1
  MaxIds = 3
  MaxBytes = 1
  MaxElapsed = 1
  QueryUnknown = FALSE
  MaxTcFailures = 0

SPECIFICATION Spec
CONSTRAINT StateConstraint

PROPERTY QueryResetsCounters
