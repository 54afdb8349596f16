\* Two worker loops and one descriptor for two connections: it is closed and
\* handed out again, often to the other loop.
SPECIFICATION Spec
CONSTANTS
  ThreadNum = 2
  Conn = {c1, c2}
  Fd = {f1, wake, listen}
  WakeFd = wake
  ListenFd = listen
  NoFd = none
  NULL = null
  BadConn = bad
  MAX = 4
  RequestKind = {"complete", "partial"}
  WakeLen = 1
  LocalBuf = 1
  PairCap = 1
SYMMETRY Symmetry
INVARIANTS TypeOK QueueBounded NoBlockingCallback NoDanglingTask NoLostWakeup MapMatchesPoll AcceptedIsHeld
PROPERTY ImplementsConnService
