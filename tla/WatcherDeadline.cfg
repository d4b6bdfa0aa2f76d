SPECIFICATION Spec
CONSTANTS
  Conn = {c1}
  MaxBytes = 1
  SndBuf = 1
  Env = {}
  MaxReq = 3
  MaxTime = 3
  Cap = 1
  Shapes <- DeadlineShapes
INVARIANTS ExactlyOnce DeadlinesTracked TimerArmed
PROPERTIES DeliveredUntouched
CHECK_DEADLOCK FALSE
