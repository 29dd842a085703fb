SPECIFICATION Spec
CONSTANTS
  op1 = op1  op2 = op2
  Ids = {op1, op2}
  Tasks = {1, 2, 3}
  MaxMessages = 4
  None = None
INVARIANTS TypeOK WorkingTasksAreKnown
PROPERTY LeftOperationsEnd
CHECK_DEADLOCK FALSE
