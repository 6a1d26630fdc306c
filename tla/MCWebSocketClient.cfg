CONSTANTS
  BufferSize = 1
  Lengths = {0, 1, 2}
  MaxQueue = 4
SPECIFICATION Spec
INVARIANTS ResultsTruthful FramesWellFormed
PROPERTY ReceiveReturns
