CONSTANTS
  i = i  c1 = c1  c2 = c2  c3 = c3  none = none
  Instances = {i}
  Calls = {c1, c2, c3}
  At <- MCAt
  Tty = {c1}
  Capacity = 1
  AgentCapacity = 3
  Breakable = {i}
SYMMETRY MCSymmetry
SPECIFICATION Spec
INVARIANTS TypeOK CommandsKnown CloseQuiesces
PROPERTY FinishOwnsState
CHECK_DEADLOCK FALSE
