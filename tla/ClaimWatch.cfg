SPECIFICATION Spec
CONSTANTS
  Conn = {c1, c2}
  Handle = {1}
  None = None
  Scenarios <- HandleReuse
INVARIANTS StaysWatched
CHECK_DEADLOCK FALSE
