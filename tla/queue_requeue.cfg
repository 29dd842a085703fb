SPECIFICATION TimedSpec
CONSTANTS
  w1 = w1  w2 = w2
  r1 = r1  r2 = r2  r3 = r3  r4 = r4
  Requests = {r1}
  Workers = {w1, w2}
  Identities = {w1, w2}
  IdentityOf <- OwnIdentity
  RequestLabels <- Unlabelled
  WorkerLabels <- NoLabels
  BadApi = {}
  Limit = 1
  RequeueLoop = TRUE
  Faults = {"crash"}
  MaxFaults = 1
  NoAgent = NoAgent
  NoRequest = NoRequest
PROPERTY RequeuedIsPickedUp
