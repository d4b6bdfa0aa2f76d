SPECIFICATION Spec
CONSTANTS
  Conn = {c1}
  MaxBytes = 2
  SndBuf = 1
  Env = {"fin"}
  MaxReq = 3
  MaxTime = 1
  Cap = 1
  Shapes <- ServiceShapes
INVARIANTS ExactlyOnce NoLostSubmission NoLostReadiness ResultsSound StreamConserved
PROPERTIES OrderedService
CHECK_DEADLOCK FALSE
