SPECIFICATION Spec
CONSTANTS
  u = u
  v = v
  p = p
  q = q
  None = None
  Uids = {u, v}
  Names = {p, q}
  Vocabulary <- Elements
  MaxElements = 4
  MaxBindings = 2
  MaxEntries = 3
INVARIANTS TypeOK MeansItsTree
CHECK_DEADLOCK FALSE
