SPECIFICATION FairSpec
CONSTANTS
  Conn = {c1}
  MaxBytes = 0
  SndBuf = 1
  Env = {"close"}
  MaxReq = 2
  MaxTime = 2
  Cap = 1
  Shapes <- CloseShapes
INVARIANTS CleanWhenDone
PROPERTIES DeadlineServed CloseEnds ImplementsService
CHECK_DEADLOCK FALSE
