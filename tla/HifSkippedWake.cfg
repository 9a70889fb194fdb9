CONSTANTS
  Kinds <- MCWellFormed
  CallbackOps = {"send"}
  AppOps = {"ps"}
  MaxPackets = 1
  MaxGlitches = 0
  MaxRestarts = 0
  CountMod = 8
  EarlyOffers = FALSE
SPECIFICATION Spec
INVARIANT SkippedWakeFindsChipAwake
