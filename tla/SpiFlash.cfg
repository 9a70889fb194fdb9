CONSTANTS
  PageSize = 2
  PagesPerSector = 2
  Pages = 4
  BlockSize = 3
  IntoSector = 1
  MaxSize = 5
  ErasePages <- MCErasePages
  EraseBytes <- MCEraseBytes
SPECIFICATION FairSpec
INVARIANTS
  TypeOK
  ProgramInPage
PROPERTIES
  FlatSpec
  CallsReturn
