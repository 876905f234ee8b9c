\* One client with traffic and time: every step refines EnforcerPolicy.
CONSTANTS
  k1 = k1
  k2 = k2
  Keys <- MCOneKey
  NumPriorities = 2
  NumLevels = 2
  MaxRate = 1
  Rates = {1}
  MaxBatch = 1
  MaxIds = 4
  MaxBytes = 1
  MaxElapsed = 1
  QueryUnknown = FALSE
  MaxTcFailures = 0

SPECIFICATION Spec
CONSTRAINT StateConstraint

PROPERTY RefinesPolicy
