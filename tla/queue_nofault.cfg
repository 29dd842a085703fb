SPECIFICATION FairSpec
CONSTANTS
  w1 = w1  w2 = w2
  r1 = r1  r2 = r2  r3 = r3  r4 = r4
  Requests = {r1, r2, r3, r4}
  Workers = {w1, w2}
  Identities = {w1, w2}
  IdentityOf <- OwnIdentity
  RequestLabels <- Regions
  WorkerLabels <- EuWorker
  BadApi = {}
  Limit = 2
  RequeueLoop = FALSE
  Faults = {}
  MaxFaults = 0
  NoAgent = NoAgent
  NoRequest = NoRequest
INVARIANTS ProcessingIsHeld HandledInOrder
PROPERTY EveryRequestIsAnswered
