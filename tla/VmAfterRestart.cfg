CONSTANTS
  a = a  b = b  t1 = t1  t2 = t2  t3 = t3  empty = empty  x = x
  Threads = {b}
  ThreadOf <- MCThreadOf
  EmptyTree = empty
  Turns = {t3}
  Durable = {}
  Firecracker = {t3}
  Rejecting = {}
  Trees = {empty}
  Faults = {}
  MaxLeases = 1
  MaxCrashes = 1
  MaxStops = 0
SPECIFICATION FairSpec
PROPERTIES HandleDroppedOnlyWhenGone
