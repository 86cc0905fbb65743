CONSTANTS
  Files = 2
  Assets = 2
  Configs = 3
  MaxFaults = 2
  MaxRots = 1
  Deletes = {1, 2}
SPECIFICATION MCSpec
INVARIANTS
  TypeOK
  
PROPERTIES
  OkMeansEmitted
  Converges
