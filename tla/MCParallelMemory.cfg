SPECIFICATION Spec
CONSTANTS
  PE = {0, 1, 2}
  Addr = {0, 1}
  Byte = {0, 1}
  NoByte = NoByte
  PageSize = 4
  Policy = "zero"
  Image <- MCImage
  ChunkSizes = {4}
  MaxGeneration = 1
INVARIANTS
  TypeOK
  OpenRoundIsolated
  ReadsStillCurrent
  CommitNeverFaults
  RefusedNeverApplied
PROPERTIES
  OnlyCommitMutates
  ImplementsSerialRound
