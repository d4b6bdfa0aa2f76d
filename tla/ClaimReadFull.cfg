SPECIFICATION FairSpec
CONSTANTS
  Conn = {c1}
  MaxBytes = 1
  SndBuf = 1
  Env = {"fin"}
  MaxReq = 1
  MaxTime = 1
  Cap = 1
  Shapes <- OneReadFull
PROPERTIES ReadFullCompletes
CHECK_DEADLOCK FALSE
