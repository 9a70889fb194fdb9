CONSTANTS
  MAX_SOCKET = 3
  TCP_SOCK_MAX = 2
  AF_INET = 1
  SessionMod = 3
  BufferSizes <- MCBuffers
  MaxData = 2
  MaxSessions = 3
  MaxOwed = 3
  Failing = {"send", "close"}
  AppOps = {"socket", "bind", "listen", "connect", "send", "recv", "close"}
  CallbackOps = {"socket", "recv"}
SPECIFICATION FairSpec
INVARIANT TypeOK
INVARIANT ClosedHaveNoSession
INVARIANT SessionsDistinct
INVARIANT DataOfOwnSession
INVARIANT PendingIsAsked
INVARIANT DataReleasedOnce
PROPERTY ReadingEnds
