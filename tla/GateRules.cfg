SPECIFICATION FairSpec
CONSTANTS
  deleteRule = deleteRule
  search = search  sendA = sendA  sendB = sendB
  Requests = {r1, r2, r3}
  Ops <- RuleOps
  Confirmed = {deleteRule}
  LooksUp = {deleteRule}
  Digest <- RuleDigest
  MaxCalls = 2
  Window = 2
  MaxTime = 1
  NoOp = NoOp
  Free = Free
CHECK_DEADLOCK FALSE
INVARIANTS
  ConsentBeforeAct
PROPERTY RequestsEnd
