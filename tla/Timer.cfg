CONSTANTS
  MaxTimers = 2
  Periods <- MCPeriods
  TickMod = 4
  MsPerSecond = 2
  SecondsMod = 2
  MaxAge = 3
  AppOps <- MCAppOps
  CallbackOps = {"release", "release_self"}
SPECIFICATION FairSpec
INVARIANT TypeOK
INVARIANT HeldInUse
INVARIANT UptimeAgrees
PROPERTY NeverEarly
PROPERTY PolledTimersExpire
