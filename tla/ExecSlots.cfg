CONSTANTS
  i = i  c1 = c1  c2 = c2  c3 = c3  none = none
  Instances = {i}
  Calls = {c1, c2}
  At <- MCAt
  Tty = {}
  Capacity = 1
  AgentCapacity = 1
  Breakable = {}
SPECIFICATION Spec
PROPERTY RefusalMeansBusy
CHECK_DEADLOCK FALSE
