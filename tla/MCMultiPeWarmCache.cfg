SPECIFICATION Spec
CONSTANTS
  PE = {0, 1}
  Addr = {0, 1}
  Byte = {0, 1}
  NoByte = NoByte
  Image <- MCImage
  Chunk <- PairChunk
  CacheCapacity = 2
  MaxInstructions = 4
  MaxAccesses = 2
INVARIANT PeOrderObserved
\* A run ends: "done" has no successor.
CHECK_DEADLOCK FALSE
