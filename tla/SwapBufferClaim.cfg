SPECIFICATION Spec
CONSTANTS
  SwapSize = 2
  Cap = 2
INVARIANTS ValidUntilNextWaitIO
