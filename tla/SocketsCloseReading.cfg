CONSTANTS
  MAX_SOCKET = 2
  TCP_SOCK_MAX = 1
  AF_INET = 1
  SessionMod = 9
  BufferSizes <- MCBuffers
  MaxData = 3
  MaxSessions = 2
  MaxOwed = 3
  Failing = {}
  AppOps = {"socket", "recv"}
  CallbackOps = {"close"}
SPECIFICATION FairSpec
PROPERTY ReadingEnds
