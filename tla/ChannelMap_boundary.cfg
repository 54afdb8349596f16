\* The first descriptor outside an array of 2 and the next one.
CONSTANTS
  InitSize = 2
  MaxFd = 6
  ReallocFails = FALSE
SPECIFICATION Spec
INVARIANT AssertHolds
CHECK_DEADLOCK FALSE
