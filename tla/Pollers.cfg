SPECIFICATION FairSpec
CONSTANTS
  Conn = {c1, c2, c3}
  Handle = {1, 2, 3}
  None = None
  Scenarios <- Cases
INVARIANTS StaysWatched NoLostReadiness PollSetIndexed AffinityNoticed ErrorReported
PROPERTIES BatchStable AllEnd OpenSettles
CHECK_DEADLOCK FALSE
