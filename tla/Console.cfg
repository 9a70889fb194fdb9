CONSTANTS
  Letter <- MCLetter
  Lower <- MCLower
  HelpWords <- MCHelpWords
  Clients <- MCClients
  CONSOLE_CMD_BFR_SIZE = 6
  MAX_TOKENS = 2
  MAX_CLIENTS = 2
SPECIFICATION Spec
INVARIANT TypeOK
PROPERTY LineSpec
