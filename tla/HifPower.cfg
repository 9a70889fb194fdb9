CONSTANTS
  Kinds <- MCWellFormed
  CallbackOps = {}
  AppOps <- MCPairedOps
  MaxPackets = 3
  MaxGlitches = 2
  MaxRestarts = 0
  CountMod = 8
  EarlyOffers = FALSE
SPECIFICATION FairSpec
INVARIANT AwakeDuringService
INVARIANT MaySleepWhenIdle
PROPERTY EventuallyServed
