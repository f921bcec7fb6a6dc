SPECIFICATION Spec
CONSTANTS
  Effects <- MCEffects
  Cases <- MCCases
  CommandLines <- MCCommandLines
  Backend = "host"
  Impacts = {{}, {"A"}, {"C"}, {"D"}, {"E"}, {"F"}, {"G"}, {"H"}}
  Mandatory = {{}, {"a"}, {"z"}}
  ReferenceBytes = 5
  MaxOverrun = 1
  NoPc = NoPc
  NoStore = NoStore
  NoNote = NoNote
CHECK_DEADLOCK FALSE
INVARIANTS
  PassIsEvidence
  EnvelopeIsEarned
PROPERTIES
  ClosureEnds
