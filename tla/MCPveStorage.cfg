CONSTANTS
  N = 2
  Field = {"nodes", "disable"}
  Shared = {2}
  MaxFaults = 2
  MaxEdits = 2
  Opinion <- MCOpinion
SPECIFICATION MCSpec
PROPERTIES
  ConflictsKept
  WritesOnlyDrift
  ImplementsStage
