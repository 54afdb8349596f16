\* Three connections; a poll table of two entries, an fd_set of two
\* descriptors, one event per epoll_wait: each limit is passed.
SPECIFICATION FairSpec
CONSTANTS
  Fd = {0, 1, 2}
  NoFd = none
  MAX = 2
  EPOLL_MAX = 1
  SELECT_MAX = 2
  Kinds = {"poll", "epoll", "select"}
  Builds = {TRUE, FALSE}
INVARIANTS ActivatesLiveChannels WatchedAsAsked NeverExits
PROPERTIES OnlyTheLimitRefuses ImplementsWatchSet OnlyEpollOmits LoopReturns
