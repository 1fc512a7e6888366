CONSTANTS
  a = a  b = b  t1 = t1  t2 = t2  t3 = t3  empty = empty  x = x
  Threads = {a, b}
  ThreadOf <- MCThreadOf
  EmptyTree = empty
  Turns = {t1, t2, t3}
  Durable = {t1, t2, t3}
  Firecracker = {t3}
  Rejecting = {}
  Trees = {empty, x}
  Faults = {"kill", "snapshot", "destroy", "delete", "remove"}
  MaxLeases = 1
  MaxCrashes = 0
  MaxStops = 0
SYMMETRY MCSymmetry
SPECIFICATION Spec
INVARIANTS TypeOK HeadStable SnapshotFaithful LeaseProtectsRuntime RuntimesAccounted
PROPERTIES PublicationAtomic ImplementsHistory
