SPECIFICATION Spec
CONSTANTS
  Base = 2
  Narrow = 2
  Wide = 3
  Chunk = 4
  MemorySize = 5
  Programs <- MCPrograms
  Directories <- MCDirectories
  Destinations <- MCDestinations
  Extensions = {"PGX", "BIN"}
  MAX_LOADERS = 4
  LowSize = 2
  Timeout = 5
  StartMax = 2
  JiffiesMax = 10
  SDFiles <- MCSDFiles
  Keys <- MCKeys
  SPACE = 32
  NONE = NONE
INVARIANTS TypeOK RunsWholePrograms
PROPERTIES FirstOrChosen TimeToChoose BootEnds
CHECK_DEADLOCK FALSE
