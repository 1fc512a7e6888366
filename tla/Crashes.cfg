CONSTANTS
  a = a  b = b  t1 = t1  t2 = t2  t3 = t3  empty = empty  x = x
  Threads = {a}
  ThreadOf <- MCThreadOf
  EmptyTree = empty
  Turns = {t1, t2, t3}
  Durable = {t1, t2}
  Firecracker = {}
  Rejecting = {t2}
  Trees = {empty}
  Faults = {"create", "kill", "snapshot", "destroy", "delete", "remove"}
  MaxLeases = 1
  MaxCrashes = 2
  MaxStops = 1
SPECIFICATION Spec
INVARIANTS LifecycleInv WorkHasOwner CloseLeavesNothing OneCommitPerTurn
PROPERTIES HandleDroppedOnlyWhenGone TerminalIsFinal ImplementsHistory
