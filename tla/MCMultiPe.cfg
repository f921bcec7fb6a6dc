SPECIFICATION FairSpec
CONSTANTS
  PE = {0, 1}
  Addr = {0, 1}
  Byte = {0, 1}
  NoByte = NoByte
  Image <- MCImage
  Chunk <- PairChunk
  CacheCapacity = 2
  MaxInstructions = 5
  MaxAccesses = 2
INVARIANTS TypeOK CacheCoherent RecordedReadsInOrder RoundRobin StepsAccounted ResultHonest
PROPERTY RunEnds
\* A run ends: "done" has no successor.
CHECK_DEADLOCK FALSE
