CONSTANTS
  Size = 4
  Byte <- MCByte
SPECIFICATION Spec
INVARIANT TypeOK
PROPERTIES IsFifo AvailableNeverOverstates UseNeverOverstates PeekedIsNext
