\* Two clients at one priority, ids up to 18: the counter read for client 0.
CONSTANTS
  k1 = k1
  k2 = k2
  Keys <- MCKeys
  NumPriorities = 2
  NumLevels = 1
  MaxRate = 1
  Rates = {1}
  MaxBatch = 1
  MaxIds = 19
  MaxBytes = 1
  MaxElapsed = 1
  QueryUnknown = FALSE
  MaxTcFailures = 0

SPECIFICATION Spec
SYMMETRY KeySymmetry
CONSTRAINT SamePriorityConstraint

INVARIANT SamplesOwnClass
