CONSTANTS
  a = a  b = b  t1 = t1  t2 = t2  t3 = t3  empty = empty  x = x
  Threads = {a}
  ThreadOf <- MCThreadOf
  EmptyTree = empty
  Turns = {t1}
  Durable = {t1}
  Firecracker = {}
  Rejecting = {}
  Trees = {empty}
  Faults = {"preflight"}
  MaxLeases = 1
  MaxCrashes = 0
  MaxStops = 0
SPECIFICATION Spec
INVARIANTS WorkHasOwner
