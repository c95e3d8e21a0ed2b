CONSTANTS
  r1 = r1
  r2 = r2
  Runs = {r1, r2}
  Nobody = Nobody
  User = User
  MaxFaults = 1
  MaxEdits = 1
SPECIFICATION Spec
SYMMETRY Symmetry
CONSTRAINT RemovalBound
INVARIANTS
  TypeOK
  PublishedIsReadable
  SecretsMatchMain
  CleanFailureRestores
  ReportTruthful
  LoaderOutlivesBlock
