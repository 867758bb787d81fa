CONSTANTS
  Threads = {t1, t2}
  Owner = owner
  Nullopt = nullopt
  Unlimited = 9
  Limits = {0, 1}
  MaxCalls = 2
SPECIFICATION Safe
INVARIANT TerminateAborts
