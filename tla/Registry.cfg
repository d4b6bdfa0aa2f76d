SPECIFICATION FairSpec
CONSTANTS
  Object = {1, 2, 3}
  Addr = {1, 2}
  Fd = {1, 2}
  None = None
  Scenarios <- Cases
  Cap = 1
INVARIANTS IdentitySound GCFindsIdle
PROPERTIES Reclaimed AffinityAnswered
CHECK_DEADLOCK FALSE
