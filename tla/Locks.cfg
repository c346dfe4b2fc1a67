\* One handler, one epoll thread, and two sessions with their media threads, so
\* that one session is created while the other is deleted.  If SIGINT comes, at
\* any time and at any thread, there is one session object and one entry.
SPECIFICATION FairSpec
CONSTANTS
  h1 = h1
  s1 = s1
  s2 = s2
  Handlers = {h1}
  EpollThd = EpollThd
  MainThd = MainThd
  Sessions = {s1, s2}
  FILEMAX = 1
  Few = {s1}
  Null = Null
INVARIANTS TypeOK NoCircularWait LockOrder JoinHoldsNothing
PROPERTIES HandlersFinish EpollReturns ShutdownEnds
