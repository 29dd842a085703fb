SPECIFICATION Spec
CONSTANTS
  root = root  bob = bob  ops = ops  loc = loc
  r1 = r1  r2 = r2  k1 = k1
  Requests = {r1, r2}
  Names = {root, bob}
  Uids = {1, 2, 3}
  Customs = {ops}
  Locations = {loc}
  Ids = {1, 2, 3, 4, 5, 6, 7, 8, 9}
  Databases = {TRUE, FALSE}
  Keys = {k1}
  Grants <- TwoGrants
  Forms <- AllForms
  MaxAsks = 4
  Root = root
  DefaultRole = "viewer"
  Global = Global
  None = None
INVARIANTS TypeOK RowsHaveTheirOwners RowsHaveTheirOwnersInTurn AdminsRemainInTurn
PROPERTY RevokedStaysRevoked
CONSTRAINT Explored
SYMMETRY OneForAnother
CHECK_DEADLOCK FALSE
