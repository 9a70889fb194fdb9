CONSTANTS
  MaxInbox = 2
  FirstDelay = 1
  SecondDelay = 1
  FinalDelay = 1
  BootRomTimeout = 1
  FirmwareTimeout = 2
  OwnAp <- MCOwnAp
  Offered <- MCOffered
  BadKey <- MCBadKey
SPECIFICATION FairSpec
INVARIANTS
  TypeOK
  OneTrueOutcome
PROPERTIES
  ServerAfterAddress
  StartUpEnds
