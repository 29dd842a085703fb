SPECIFICATION FairSpec
CONSTANTS
  Locations = {a, b}
  Versions = {v1}
  Servers <- Seven
  Named = FALSE
  Faults <- Repaired
  MaxFaults = 2
  MaxUpdates = 3
  NotDesired = NotDesired
  NoServer = NoServer
  Failed = Failed
PROPERTIES
  Converges
CHECK_DEADLOCK FALSE
