SPECIFICATION MCSpec
CONSTANTS
  Urls = 3
  Edits = "new"
  MaxFaults = 3
  MaxEdits = 2
INVARIANTS
  OkMeansBuilt
PROPERTY
  Converges
