\* One interruption and no outage: the gate is skipped by the re-run.
CONSTANTS
  N = 3
  Extras = {}
  Initial = {"none"}
  MaxFaults = 1
  MaxOutages = 0
SPECIFICATION MCSpec
PROPERTY JoinGated
