CONSTANTS
  N = 2
  Slots = 2
  Want = "production"
  Builtin = {2}
  MaxFaults = 2
  MaxEdits = 1
  FirstUse = {"enabled"}
  FirstSlots = {"stale", "other"}
SPECIFICATION MCSpec
INVARIANTS
  OrderedFromWant
  OkMeansServed
PROPERTIES
  RightCertKept
  OtherSlotsKept
  Converges
