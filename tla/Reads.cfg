SPECIFICATION FairSpec
CONSTANTS
  a1 = a1  a2 = a2
  Callers = {c1, c2}
  Accounts = {a1}
  Asks <- AllReads
  Cooldown = 1
  LocalDb = TRUE
  None = None
CHECK_DEADLOCK FALSE
INVARIANT ReadsDegrade
PROPERTY BreakerCloses
