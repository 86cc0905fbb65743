SPECIFICATION MCSpec
CONSTANTS
  Urls = 2
  Edits = "any"
  MaxFaults = 1
  MaxEdits = 2
INVARIANT OkMeansBuilt
