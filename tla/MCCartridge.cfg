SPECIFICATION FairSpec
CONSTANTS
  LowSize = 4
  Size = 3
  Bits <- MCBits
  Probe <- MCProbe
  EraseWait = 3
  WriteWait = 2
  EraseTicks = 2
  WriteTicks = 1
  MaxCount = 2
  StartMax = 8
  Late = 1
  None = None
INVARIANT TypeOK
PROPERTIES ImplementsNorFlash CallsReturn
CHECK_DEADLOCK FALSE
