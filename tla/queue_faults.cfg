SPECIFICATION Spec
CONSTANTS
  w1 = w1  w2 = w2
  r1 = r1  r2 = r2  r3 = r3  r4 = r4
  Requests = {r1, r2}
  Workers = {w1, w2}
  Identities = {w1, w2}
  IdentityOf <- OwnIdentity
  RequestLabels <- Unlabelled
  WorkerLabels <- NoLabels
  BadApi = {r2}
  Limit = 2
  RequeueLoop = TRUE
  Faults = {"crash", "loss", "delay", "raise", "none"}
  MaxFaults = 2
  NoAgent = NoAgent
  NoRequest = NoRequest
INVARIANTS TypeOK AssignmentMatchesStatus CompletedWasHandled
PROPERTY ForgottenStaysForgotten
