CONSTANTS
  Files = 2
  Assets = 1
  Configs = 2
  MaxFaults = 1
  MaxRots = 0
  Deletes = {}
SPECIFICATION MCSpec
INVARIANT StaleMeansTold
