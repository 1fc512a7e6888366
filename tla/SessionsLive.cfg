CONSTANTS
  i = i  c1 = c1  c2 = c2  c3 = c3  none = none
  Instances = {i}
  Calls = {c1, c2, c3}
  At <- MCAt
  Tty = {c1}
  Capacity = 1
  AgentCapacity = 2
  Breakable = {}
SPECIFICATION DrainingSpec
PROPERTIES CallsEnd FinishEnds
CHECK_DEADLOCK FALSE
