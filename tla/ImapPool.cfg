SPECIFICATION FairSpec
CONSTANTS
  Threads = {t1, t2}
  Keys = {k1, k2}
  Conns = {c1, c2, c3}
  IdleTimeout = 0
  Free = Free
  NoConn = NoConn
  NoKey = NoKey
INVARIANTS
  TypeOK
  CachedLive
  NoLeak
  ExclusiveUse
PROPERTY CallsReturn
