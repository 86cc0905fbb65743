CONSTANTS
  Unset = Unset
  Malformed = Malformed
  AddressBits = 4
  N = 3
  MaxFaults = 2
  MaxOutside = 2
  MaxTrouble = 2
  MaxEdits = 2
  MaxSlips = 2
  MaxChanges = 2
  EditedNodes = {2}
  Drafts <- MCDrafts
  ModeValues <- MCModeValues
  Addresses <- MCAddresses
  Labels <- MCLabels
  Clusters <- MCClusters
  Versions <- MCVersions
  Loadable <- MCLoadable
  Emittable <- MCEmittable
  MACs <- MCMACs
  Answers <- MCAnswers
  NodeConfigs <- MCNodeConfigs
SPECIFICATION AllSpec
INVARIANTS
  OneErrorPerMistake
  SameWhicheverForm
  LabelsOnce
  ServesOwnConfig
  OwnIdentity
PROPERTIES
  RunningInOrder
  Converges
  Installs
