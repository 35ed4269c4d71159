SPECIFICATION FairSpec
CONSTANTS
  Byte = {0, 1}
  MINSIZE = 3
  Widths = {1, 2}
  Uninit = Uninit
  Junk = {0, 7}
  MaxRun = 4
  MaxLen = 6
INVARIANTS
  TypeOK
  WritesFit
  TotalIsWritten
  CopiesFit
  CombinedIsWritten
  FreesEachOnce
PROPERTIES
  LoopsEnd
  ImplementsLog
