SPECIFICATION FairSpec
CONSTANTS
  ThreadNum = 3
  MainLoop = mainLoop
  NULL = null
  MayFail = {"pthread_create", "socketpair"}
  TakeCap = 3
INVARIANTS ReadyToServe NoMissedSignal Balanced
PROPERTY Listens
CHECK_DEADLOCK FALSE
