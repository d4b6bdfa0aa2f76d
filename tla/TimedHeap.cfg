SPECIFICATION Spec
CONSTANTS
  Req = {r1, r2, r3, r4, r5, r6}
  Times = {0, 1, 2}
  None = None
SYMMETRY Symmetry
INVARIANTS IdxExact Ordered
PROPERTIES ImplementsSet
