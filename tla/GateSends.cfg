SPECIFICATION Spec
CONSTANTS
  deleteRule = deleteRule
  search = search  sendA = sendA  sendB = sendB
  Requests = {r1, r2, r3, r4}
  Ops <- SendOps
  Confirmed <- SendOps
  LooksUp = {}
  Digest <- SendDigest
  MaxCalls = 2
  Window = 2
  MaxTime = 3
  NoOp = NoOp
  Free = Free
SYMMETRY Symmetry
CHECK_DEADLOCK FALSE
INVARIANTS
  WindowBound
  AskingIsFree
  ConsentBeforeAct
