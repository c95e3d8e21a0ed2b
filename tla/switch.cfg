SPECIFICATION Spec
CONSTANTS
  scalar = scalar
  dynamic = dynamic
  path = path
  fpath = fpath
  alias = alias
  option = option
  refused = refused
  u = u
  p = p
  g = g
  h = h
  A = A
  B = B
  Scalars = {scalar, dynamic}
  Lists = {path}
  Aliases = {alias}
  Options = {option, refused}
  Dynamic = {dynamic}
  Refused = {refused}
  Path = path
  Words = {u, p}
  Given = {g, h}
  Profiles = {A, B}
  Contents <- TwoProfiles
  Start <- Terminal
  Absent = absent
  None = none
  MaxEdits = 2
CHECK_DEADLOCK FALSE

INVARIANTS
  NothingLeftBehind
  NoAccumulation
  ReverseReachable
  NeverStranded
