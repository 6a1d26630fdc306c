CONSTANTS
  small = small
  large = large
  Buffer <- MCBuffer
  NoBuffer = NoBuffer
  Room <- MCRoom
  MaxRoom = 2
  MaxHeard = 3
SPECIFICATION Spec
INVARIANT ChunkIsWhole
