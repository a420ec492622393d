SPECIFICATION Spec
CONSTANTS
  Vars <- MCVars
  Start <- MCStart
  Window <- MCWindow
  MaxAsked = 3
  MaxGiven = 6
  Requests <- NarrowRequests
INVARIANTS NothingLost RefusedRightly InOrder AllGiven
CHECK_DEADLOCK FALSE
