SPECIFICATION Spec
CONSTANTS
  h = h
  Sources <- MCSources
  Numbers <- MCNumbers
  Handlers <- MCHandlers
  None = None
PROPERTY ClearsOnlyItsOwn
