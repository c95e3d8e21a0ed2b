SPECIFICATION ShellSpec
CONSTANTS
  a = a
  b = b
  v = v
  absent = absent
  s1 = s1
  Shells = {s1}
  Identities = {a, b}
  Values = {v}
  Absent = absent
  Unsafe = {}
  Branches = {main}
  Main = main
  Profiles <- TwoManaged
  Operations = {1, 2, 3, 4, 5, 6, 7, 8, 9, 10}
  AutoApplySettings = {}
  MaxStateEvents = 5
  MaxReceipts = 2
  MaxShellRecords = 2
  MaxRevision = 5
  MaxObjects = 1
  Environments <- EmptyTerminals
  NoOp = noOp
  NoBaseline = noBaseline
  NoReply = noReply
  NoReverse = noReverse
  Failures <- TransientFailures
  MaxFailures = 1
  Edits <- TwoEdits
CHECK_DEADLOCK FALSE

INVARIANTS
  ShellTypeOK
  NoFalseConvergence
PROPERTIES
  PullKeepsEdits
  ReverseOwnsTransition
  Converges
