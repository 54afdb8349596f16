SPECIFICATION Spec
CONSTANTS
  ThreadNum = 1
  Conn = {c1, c2}
  Fd = {f1, f2, wake, listen}
  WakeFd = wake
  ListenFd = listen
  NoFd = none
  NULL = null
  BadConn = bad
  MAX = 4
  RequestKind = {"complete", "partial"}
  WakeLen = 1
  LocalBuf = 1
  PairCap = 1
SYMMETRY Symmetry
INVARIANT NoUseAfterPublish
