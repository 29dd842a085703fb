SPECIFICATION FairSpec
CONSTANTS
  l1 = l1  l2 = l2  a1 = a1  a2 = a2
  Locations = {l2}
  Agents = {a1, a2}
  Matches <- AllMatch
  Allowed <- OneName
  Servers <- Three
  Ports = {1, 2}
  Threads = {"refresher"}
  Window = 2
  Faults = {"crash", "unhealthy", "delay", "query", "reload", "write"}
  MaxFaults = 1
  MaxEdits = 1
  NoServer = NoServer
PROPERTIES
  Converges
