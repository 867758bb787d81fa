CONSTANTS
  t1 = t1
  t2 = t2
  a = a
  b = b
  c = c
  d = d
  sa = sa
  sb = sb
  sc = sc
  sd = sd
  NoSink = nosink
  Threads = {t1, t2}
  Owner = owner
  Nullopt = nullopt
  Unlimited = 9
  Limits = {0}
  MaxCalls = 2
SPECIFICATION AllSpec
INVARIANT FlushedOnDestruction
INVARIANT ThrottleBound
INVARIANT StopFlushes
INVARIANT ZoneIsNamed
PROPERTY ImplementsLogSink
PROPERTY DestroyedUnlocked
PROPERTY QuietCallReachesInnermost
PROPERTY GuardsRelock
