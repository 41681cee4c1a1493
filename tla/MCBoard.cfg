SPECIFICATION Spec
CONSTANTS
  Top = 3
  Fixed <- FixedTypes
  MaxAsks = 1
  MaxVisits = 2
  MaxEdits = 1
  MaxFrames = 1
  MaxLosses = 1
INVARIANTS ZeroToItsInterface
PROPERTIES SetIsShown OnlyEditsChange
CHECK_DEADLOCK FALSE
