SPECIFICATION FairSpec
CONSTANTS
  Clients = {c1, c2}
  Timed = {c1}
  Free = free
  MaxGenerations = 3
INVARIANTS
  OldOrCompleteNew
  EvidenceKept
PROPERTIES
  ImplementsGenerationLog
  EveryTransactionEnds
