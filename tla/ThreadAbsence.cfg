SPECIFICATION Spec
CONSTANTS
  a1 = a1  a2 = a2
  Callers = {c1}
  Accounts = {a1, a2}
  Asks <- Threads
  Cooldown = 2
  LocalDb = FALSE
  None = None
CHECK_DEADLOCK FALSE
INVARIANT AbsenceEstablished
