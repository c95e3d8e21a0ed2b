SPECIFICATION Spec
CONSTANTS
  a = a
  b = b
  v = v
  w = w
  absent = absent
  Shells = {s1}
  Identities = {a}
  Values = {v, w}
  Absent = absent
  Unsafe = {}
  Branches = {main}
  Main = main
  Profiles <- OneIdentity
  Operations = {o1,o2,o3,o4,o5,o6}
  AutoApplySettings = {}
  MaxStateEvents = 3
  MaxReceipts = 6
  MaxShellRecords = 1
  MaxRevision = 4
  MaxObjects = 1
SYMMETRY OperationSymmetry
INVARIANTS
  ValidState
  NoDuplicateRevision
CHECK_DEADLOCK FALSE
