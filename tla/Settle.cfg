CONSTANTS
  a = a  b = b  t1 = t1  t2 = t2  t3 = t3  empty = empty  x = x
  Threads = {a, b}
  ThreadOf <- MCThreadOf
  EmptyTree = empty
  Turns = {t1, t3}
  Durable = {t1}
  Firecracker = {t3}
  Rejecting = {t1}
  Trees = {empty}
  Faults = {"preflight", "create", "kill", "snapshot", "destroy", "delete", "remove"}
  MaxLeases = 2
  MaxCrashes = 0
  MaxStops = 1
SPECIFICATION FairSpec
PROPERTIES FinishEnds CloseEnds RecoveryEnds
