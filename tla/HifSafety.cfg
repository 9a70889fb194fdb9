CONSTANTS
  Kinds <- MCSparing
  CallbackOps <- MCPairedOps
  AppOps <- MCPairedOps
  MaxPackets = 3
  MaxGlitches = 2
  MaxRestarts = 2
  CountMod = 3
  EarlyOffers = TRUE
SPECIFICATION Spec
INVARIANT TypeOK
INVARIANT NoLostInterrupt
INVARIANT RxDoneTracksPacket
INVARIANT UnmaskedOutsideService
INVARIANT HeldOnlyByMalformed
INVARIANT SleepBalanced
PROPERTY MailboxProtocol
INVARIANT ReadsOwnPacket
