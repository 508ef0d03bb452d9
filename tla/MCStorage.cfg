SPECIFICATION Spec
CONSTANTS
  Kinds <- MCKinds
  Blocks = 3
  MaxCount = 2
  Tries = 2
  NoCard = NoCard
INVARIANTS TypeOK AddressedRight RightBlocks NothingLeftOpen
PROPERTY Returns
