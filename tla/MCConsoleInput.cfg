SPECIFICATION Spec
CONSTANTS
  MCKeys = {"LSHIFT", "C", "RSHIFT", "CAPS", "CTRL"}
  MatrixOrder <- MCMatrixOrder
  Modifier <- MCModifier
  Layout <- MCLayout
  AnsiKeys <- MCAnsiKeys
  KEY_BREAK = "RUNSTOP"
  KEY_C = "C"
  MaxAhead = 2
INVARIANTS TypeOK NoStuckModifier OneSequence
PROPERTIES ImplementsTypeAhead CallsReturn
