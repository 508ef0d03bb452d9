SPECIFICATION CarefulDirSpec
CONSTANTS
  MAX_DIRECTORIES = 3
  p1 = p1
  p2 = p2
  Paths <- MCPaths
  Drives <- MCDrives
  Stale = Stale
  Closed = Closed
  None = None
INVARIANT DirTypeOK
PROPERTIES ImplementsOpenDirectories LostOnlyByFailure
SYMMETRY MCSymmetry
