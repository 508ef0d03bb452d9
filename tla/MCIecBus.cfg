SPECIFICATION FairSpec
CONSTANTS
  Devices = {4, 8}
  Present = {4, 8}
  Called = {4, 8}
  Messages <- MCMessages
  Text <- MCText
  Counts = {0, 1, 2, 3}
  None = None
CHECK_DEADLOCK FALSE
INVARIANTS TypeOK TransfersWhole BusLeftFree
PROPERTIES OnlyAddressee CallsReturn
