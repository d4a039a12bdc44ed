SPECIFICATION Spec
CONSTANTS
  a = a  b = b  box = box  gone = gone  None = None
  Calls = {c1, c2}
  Names = {a, b}
  Boxes = {box, gone}
  Lost = {gone}
  Ops <- SmallOps
  Starts <- SmallStarts
  MaxRules = 4
  MaxEdits = 1
SYMMETRY Symmetry
CHECK_DEADLOCK FALSE
INVARIANTS
  ConfirmedRule
  DangerNeedsYes
  ReportIsTrue
