SPECIFICATION Spec
CONSTANTS
  a = a
  b = b
  v = v
  w = w
  absent = absent
  Shells = {s1}
  Identities = {a, b}
  Values = {v}
  Absent = absent
  Unsafe = {}
  Branches = {main, dev}
  Main = main
  Profiles <- BothProfiles
  Operations = {o1}
  AutoApplySettings = {FALSE}
  MaxStateEvents = 2
  MaxReceipts = 0
  MaxShellRecords = 1
  MaxRevision = 3
  MaxObjects = 3
INVARIANTS
  PinnedNeverShared
  AdmittedNeverExcluded
  BaseIsCommitted
PROPERTIES
  CommitRecordsShared
  NoCommitOverwritten
  CheckoutKeepsWork
CHECK_DEADLOCK FALSE
