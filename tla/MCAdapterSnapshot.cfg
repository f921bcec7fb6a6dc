SPECIFICATION Spec
CONSTANTS
  Images <- MCImages
  Payloads <- MCPayloads
  Stack = {"top"}
  NoSp = NoSp
  PC = {0, 1}
  Addr = {0, 1, 2}
  NoImage = NoImage
  NoBefore = NoBefore
  MaxWrites = 2
  MaxSnapshots = 1
  MaxCount = 2
INVARIANT
  RestorePoint
\* A closed adapter takes no further step.
CHECK_DEADLOCK FALSE
