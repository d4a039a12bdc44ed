SPECIFICATION FairSpec
CONSTANTS
  Sends = {new, reply, third}
  Replies = {reply}
  NoFile = {third}
  Recipients = {to, cc}
  Derived = {cc}
  BreakerTTL = 1
  Free = Free
CHECK_DEADLOCK FALSE
INVARIANTS
  TypeOK
  NoSecondCopy
  OneSentCopy
  ReportIsTrue
PROPERTIES
  SendsEnd
  ImplementsSendOnce
