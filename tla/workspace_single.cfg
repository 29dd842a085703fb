SPECIFICATION FairSpec
CONSTANTS
  l1 = l1  l2 = l2  a1 = a1  a2 = a2
  Locations = {l1, l2}
  Agents = {a1}
  Matches <- AllMatch
  Allowed <- AnyName
  Servers <- Four
  Ports = {1, 2}
  Threads = {"refresher", "ui"}
  Window = 2
  Faults = {"crash", "unhealthy", "query", "reload", "write"}
  MaxFaults = 1
  MaxEdits = 2
  NoServer = NoServer
INVARIANTS
  TypeOK
  FileNeverGoesBack
PROPERTIES
  FileCatchesUp
  Converges
