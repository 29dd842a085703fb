SPECIFICATION Spec
CONSTANTS
  r1 = r1  r2 = r2  ann = ann  bea = bea  acme = acme  corp = corp  home = home  work = work
  bob = bob  b1 = b1  b2 = b2  sso = sso
  Requests = {r1, r2}
  Browsers = {b1, b2}
  Flows = {1, 2}
  Providers = {sso}
  Ids = {1, 2}
  Issuers = {acme, corp}
  Identities = {ann, bea}
  IssuerOf <- Issuer
  SubOf <- SameSub
  EmailOf <- Address
  Locals = {bob}
  Emails = {home, work}
  Databases = {TRUE, FALSE}
  MaxAsks = 4
  MaxChanges = 2
  None = None
INVARIANTS TypeOK OnlyItsOwnFlow OneAccountPerIdentity LinksHaveTheirProviders
PROPERTIES NamesChangeInTurn EnteredByItsOwn
CONSTRAINT Explored
SYMMETRY OneForAnother
CHECK_DEADLOCK FALSE
