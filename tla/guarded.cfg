SPECIFICATION Spec
CONSTANTS
  Transactions = {t1, t2}
  User = user
  Nobody = nobody
  Free = free
  MaxSaves = 2
  MaxStops = 1
SYMMETRY Symmetry
CHECK_DEADLOCK FALSE
INVARIANTS
  NoTraceLeft
  NewestSaveKept
  CandidateWhole
  DisplacedIsJournaled
  InstalledIsDurable
PROPERTY ImplementsStartupFile
