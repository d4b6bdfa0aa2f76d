SPECIFICATION Spec
CONSTANTS
  Conn = {c1, c2}
  MaxBytes = 1
  SndBuf = 1
  Env = {"dup", "watch", "fin", "rst"}
  MaxReq = 2
  MaxTime = 1
  Cap = 1
  Shapes <- PairShapes
SYMMETRY Symmetry
INVARIANTS ExactlyOnce DescriptorsOwned NoLostReadiness
PROPERTIES EventSetStable
CHECK_DEADLOCK FALSE
