SPECIFICATION Spec
CONSTANTS
  Locations = {a, b}
  Versions = {v1}
  Servers <- Six
  Named = TRUE
  Faults <- EveryFault
  MaxFaults = 2
  MaxUpdates = 3
  NotDesired = NotDesired
  NoServer = NoServer
  Failed = Failed
INVARIANTS
  TypeOK
  HandlesAreSound
  EveryServerIsTracked
  JoinedStopLeavesNothing
PROPERTIES
  HealthyServersAreKept
  KeepsItsPromise
CHECK_DEADLOCK FALSE
