SPECIFICATION Spec
CONSTANTS
  r1 = r1  r2 = r2  etl = etl  ml = ml  m1 = m1  m2 = m2  eu = eu  ok = ok  bad = bad
  Requests = {r1, r2}
  Names = {etl, ml}
  Ids = {1, 2, 3, 4}
  Metas = {m1, m2}
  Labels = {eu}
  Manifests = {ok}
  Errors = {bad}
  Yaml <- BothLocations
  Databases = {TRUE, FALSE}
  MaxAsks = 3
  Keep = Keep
  None = None
INVARIANTS TypeOK ErrorIsOfTheLastReport
PROPERTIES ColumnsChangeToWhatWasGiven RowsChangeUnderTheirName
SYMMETRY OneForAnother
CHECK_DEADLOCK FALSE
