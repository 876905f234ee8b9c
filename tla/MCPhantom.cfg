\* Two clients; the controller may ask the occupancy of a client it never configured.
CONSTANTS
  k1 = k1
  k2 = k2
  Keys <- MCKeys
  NumPriorities = 2
  NumLevels = 1
  MaxRate = 1
  Rates = {1}
  MaxBatch = 1
  MaxIds = 3
  MaxBytes = 0
  MaxElapsed = 1
  QueryUnknown = TRUE
  MaxTcFailures = 0

SPECIFICATION Spec
CONSTRAINT StateConstraint

PROPERTY UntouchedClientsKeepTC
