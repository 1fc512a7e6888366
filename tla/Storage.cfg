CONSTANTS
  a = a  b = b  t1 = t1  t2 = t2  t3 = t3  t4 = t4  empty = empty  full = full
  n1 = n1  n2 = n2  n3 = n3  back = back  raw = raw  text = text  u1 = u1  u2 = u2  u3 = u3
  Threads = {a, b}
  ThreadOf <- MCThreadOf
  Turns = {t1, t2, t3, t4}
  Durable = {t1, t2, t3}
  Docker = {t1}
  EmptyTree = empty
  Trees = {empty, full}
  Devices = {"one", "two"}
  MaxCrashes = 1
  MaxStops = 1
  PathOrder <- MCPathOrder
  LongPaths <- MCLongPaths
  Workspaces <- MCWorkspaces
  HandMade <- MCHandMade
  TextOf <- MCTextOf
  Slashed <- MCSlashed
  Root = FALSE
  Uploads = {u1, u2, u3}
  UploadThread <- MCUploadThread
  Versions <- MCVersions
  MaxReplaced = 1
  MaxRestarts = 1
SPECIFICATION MCSpec
CHECK_DEADLOCK FALSE
INVARIANTS StoreTypeOK HeadsMaterialize BaseIsThere StagingHasOwner
  SnapshotsRestore AcceptedIsWorkspace GrantedResolves UploadsLeaveNothing
PROPERTIES ObjectsAreKept GcIsComplete NothingReplaced
