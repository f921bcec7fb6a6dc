CONSTANTS
  i1 = i1
  i2 = i2
  Instruction = {i1, i2}
  GivenSource = GivenSource
  EmptySource = EmptySource
  NoSource = NoSource
  NoCommand = NoCommand
  NoArg = NoArg
  NoAnswer = NoAnswer
  Bridge = FALSE
  MaxAsks = 1
  MaxHistory = 3
  Initial <- SessionInitial
  Outcomes <- SessionOutcomes
  Executed <- MCExecuted
  Runs <- MCRuns
  SourceAsks <- MCSourceAsks
  Asks <- MCAsks
SPECIFICATION Spec
CHECK_DEADLOCK FALSE
INVARIANTS
  VmIsHistory
  ClosedIsStopped
  PairedReply
PROPERTIES
  KeepsPromise
  OperationEnds
