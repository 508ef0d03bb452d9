SPECIFICATION FirmwareSpec
CONSTANTS
  h = h
  Sources <- MCSources
  Numbers <- MCNumbers
  Handlers <- MCHandlers
  None = None
INVARIANTS TypeOK NoLostInterrupt
PROPERTIES NoNullCall Served
