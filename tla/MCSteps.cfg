CONSTANTS
  Last = 3
  Stable = {1, 2}
  Exact = {1, 3}
  MaxFaults = 3
SPECIFICATION MCSpec
INVARIANTS
  EarlierHold
  ConvergedWhenOk
  AppliesOnlyMissing
PROPERTY Converges
