\* initTC for -n 1..8 and four link rates. The loop ends after the last
\* priority, so the final state has no successor.
CONSTANTS
  PriorityCounts <- MCPriorityCounts
  MaxRates <- MCMaxRates

SPECIFICATION Spec
CHECK_DEADLOCK FALSE

INVARIANT TypeOK
INVARIANT RatesNested
PROPERTY RootTreeBuilt
