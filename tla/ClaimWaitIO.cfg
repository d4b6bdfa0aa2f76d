SPECIFICATION FairSpec
CONSTANTS
  Conn = {c1}
  MaxBytes = 0
  SndBuf = 4
  Env = {"close"}
  MaxReq = 2
  MaxTime = 1
  Cap = 1
  Shapes <- OneWrite
PROPERTIES WaitIOEnds
CHECK_DEADLOCK FALSE
