CONSTANTS
  a = a
  b = b
  none = none
  Char <- MCChar
  NoChar = none
  Size = 4
SPECIFICATION Spec
INVARIANT TypeOK
INVARIANT NoUnwrittenSlotRead
PROPERTY ImplementsFifo
