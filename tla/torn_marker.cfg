SPECIFICATION Spec
CONSTANTS
  Clients = {c1, c2}
  Timed = {c1}
  Free = free
  MaxGenerations = 3
INVARIANT AlwaysReadable
