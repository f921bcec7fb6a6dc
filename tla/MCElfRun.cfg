CONSTANTS
  Data <- MCData
  Base = 8
  Blank = "blank"
  Width <- MCWidth
  Fetchable <- MCFetchable
  Accepts <- MCAccepts
  Targets <- MCTargets
  Terminal <- MCTerminal
  Starts = {8, 10, 14}
  Budgets = {1, 4}
  EmptySource = EmptySource
  NoSource = NoSource
  NoCommand = NoCommand
  NoArg = NoArg
  NoAnswer = NoAnswer
  Bridge = TRUE
  MaxAsks = 1
  Initial <- ElfInitial
  Outcomes <- ElfOutcomes
  SourceAsks <- ElfSourceAsks
  Asks <- ElfAsks
SPECIFICATION Spec
CHECK_DEADLOCK FALSE
INVARIANTS
  StepsAreExecuted
  VerdictIsEarned
PROPERTIES
  RunEnds
