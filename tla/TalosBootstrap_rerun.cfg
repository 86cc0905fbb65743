CONSTANTS
  Bundles = 4
  MaxFaults = 3
SPECIFICATION MCSpec
INVARIANTS
  OneIdentity
  OkMeansCredentials
PROPERTY
  Converges
