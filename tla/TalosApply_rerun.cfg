CONSTANTS
  N = 3
  Versions = 4
  Reboots = {2}
  Schematics = {3}
  Releases = {3, 4}
  MaxFaults = 2
  MaxOutside = 2
  Secrets = {2, 3}
  MaxLines = 4
  MaxScript = 9
SPECIFICATION MCSpec
INVARIANTS
  RightNode
  ShortestScript
  DiffShowsChanges
PROPERTIES
  ConvergedInOrder
  Converges
