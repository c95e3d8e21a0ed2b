SPECIFICATION Spec
CONSTANTS
  a = a
  b = b
  v = v
  w = w
  absent = absent
  Shells = {s1}
  Identities = {a, b}
  Values = {v}
  Absent = absent
  Unsafe = {}
  Branches = {main}
  Main = main
  Profiles <- SyncProfiles
  Operations = {o1}
  AutoApplySettings = {}
  MaxStateEvents = 2
  MaxReceipts = 0
  MaxShellRecords = 1
  MaxRevision = 3
  MaxObjects = 3
INVARIANT DirtyIsCommittable
CHECK_DEADLOCK FALSE
