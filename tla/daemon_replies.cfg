SPECIFICATION DaemonSpec
CONSTANTS
  w1 = w1  w2 = w2  r1 = r1
  Requests = {r1}
  Workers = {w1, w2}
  Identities = {w1, w2}
  IdentityOf <- OwnIdentity
  RequestLabels <- Unlabelled
  WorkerLabels <- NoLabels
  BadApi = {}
  Limit = 1
  RequeueLoop = TRUE
  Faults = {"loss", "delay", "raise", "none", "crash"}
  MaxFaults = 1
  NoAgent = NoAgent
  NoRequest = NoRequest
  ApiOf <- Launches
  Daemons <- SomeDaemons
  Reloads = 1
  None = None
INVARIANTS ToldWhatAWorkerSaid FailuresHaveACause
CHECK_DEADLOCK FALSE
PROPERTY TheAnswerIsLearnt
