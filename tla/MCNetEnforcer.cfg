\* Topology: two clients, no traffic, at most one failed tc command.
CONSTANTS
  k1 = k1
  k2 = k2
  Keys <- MCKeys
  NumPriorities = 2
  NumLevels = 1
  MaxRate = 1
  Rates = {1}
  MaxBatch = 1
  MaxIds = 3
  MaxBytes = 0
  MaxElapsed = 1
  QueryUnknown = FALSE
  MaxTcFailures = 1

SPECIFICATION Spec
SYMMETRY KeySymmetry
CONSTRAINT TimelessConstraint

INVARIANT TypeOK
 
PROPERTY UntouchedClientsKeepTC
