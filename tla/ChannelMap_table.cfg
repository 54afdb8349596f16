\* Sizes 2, 4 and 8 of the array, and descriptors on both sides of 2 and 4.
CONSTANTS
  InitSize = 2
  MaxFd = 6
  ReallocFails = TRUE
SPECIFICATION Spec
INVARIANT TableIsRight
PROPERTY NewIsWatched
\* A failed assertion ends the process.
CHECK_DEADLOCK FALSE
