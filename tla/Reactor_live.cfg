\* One descriptor for two clients: a connection that is silent, stranded or
\* stuck keeps it from the other.  Two descriptors, with the kinds "complete"
\* and "unread", put a stuck connection next to another in one table.
SPECIFICATION FairSpec
CONSTANTS
  ThreadNum = 1
  Conn = {c1, c2}
  Fd = {f1, wake, listen}
  WakeFd = wake
  ListenFd = listen
  NoFd = none
  NULL = null
  BadConn = bad
  MAX = 4
  RequestKind = {"complete", "partial", "unread"}
  WakeLen = 1
  LocalBuf = 1
  PairCap = 1
PROPERTIES RequestServed LoopsKeepPolling
\* A worker stuck in send and an acceptor that has filled its pair stop for good.
CHECK_DEADLOCK FALSE
