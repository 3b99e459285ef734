SPECIFICATION Spec
CONSTANTS
  p1 = p1
  p2 = p2
  ph1 = ph1
  ph2 = ph2
  None = None
  Params <- MCParams
  Phases <- MCPhases
  Interval = 2
  MaxChunks = 2
  MaxUpdates = 2
SYMMETRY Symmetry
CHECK_DEADLOCK FALSE
INVARIANTS PenaltyHasFisher  TargetIsRecent
