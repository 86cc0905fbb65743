\* Faults, an outage and an extra member; the primary may be in any cluster.
CONSTANTS
  N = 4
  Extras = {x}
  x = x
  Initial = {"none", "ours", "foreign"}
  MaxFaults = 3
  MaxOutages = 1
SPECIFICATION MCSpec
INVARIANTS
  ChangesSerialized
  OkMeansFormed
PROPERTIES
  ImplementsStage
  OkMeansOnline
  JoinGatedNoOutage
  Converges
