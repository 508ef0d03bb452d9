SPECIFICATION RingSpec
CONSTANTS
  MAX_BUFFER_SIZE = 5
  Words <- MCWords
INVARIANTS RingTypeOK OnlyPutWords
PROPERTY ImplementsWordQueue
