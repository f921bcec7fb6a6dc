CONSTANTS
  Process = {p1, p2, p3, p4}
  Digest = {d1, d2, d3}
  None = None
SPECIFICATION Spec
SYMMETRY Symmetry
\* All processes have started their worker or failed.
CHECK_DEADLOCK FALSE
INVARIANTS
  LaunchedIsIdentity
  ProjectionHeals
  KillsLeaveNoTornRunner
PROPERTIES
  PublishedStays
