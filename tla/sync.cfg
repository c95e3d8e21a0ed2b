SPECIFICATION Spec
CONSTANTS
  a = a
  b = b
  v = v
  w = w
  absent = absent
  Shells = {s1, s2}
  Identities = {a, b}
  Values = {v}
  Absent = absent
  Unsafe = {}
  Branches = {main}
  Main = main
  Profiles <- SyncProfiles
  Operations = {o1}
  AutoApplySettings = {}
  MaxStateEvents = 1
  MaxReceipts = 0
  MaxShellRecords = 2
  MaxRevision = 3
  MaxObjects = 1
SYMMETRY ShellSymmetry
INVARIANTS
  TypeOK
  ValidState
  AppliedIsHistory
  NoCapturedChangeForgotten
  UpToDateHoldsShared
PROPERTIES
  NoStaleOverwrite
  ImplementsSharedLog
CHECK_DEADLOCK FALSE
