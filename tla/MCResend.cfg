\* One client; one tc command of an updateClient call fails: does re-sending the configuration repair it?
CONSTANTS
  k1 = k1
  k2 = k2
  Keys <- MCOneKey
  NumPriorities = 2
  NumLevels = 1
  MaxRate = 1
  Rates = {1}
  MaxBatch = 1
  MaxIds = 3
  MaxBytes = 0
  MaxElapsed = 1
  QueryUnknown = FALSE
  MaxTcFailures = 1

SPECIFICATION Spec
CONSTRAINT StateConstraint

INVARIANT RepairableByResend
