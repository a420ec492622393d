\* Ranges, when there is no memory for one of their bounds.
SPECIFICATION Spec
CONSTANTS
  Functions <- MCFunctions
  Called <- MCCalled
  Names <- MCLocals
  FirstCapacity = 2
INVARIANT NothingLeaks
CHECK_DEADLOCK FALSE
