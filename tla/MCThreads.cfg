CONSTANTS
  Runners = {r1}
  Checkers = {c1}
  Executors = {e1, e2}
  Timeout = 1
  MaxTime = 2
  Free = free
  main = main
  w = w
  Users = {main, w}
  Main = main
  Order <- TwoSignals
  Events = {"CLOSE", "LOGOFF"}
  None = "none"
  MaxHandlers = 2
  MaxRaised = 2
SPECIFICATION AllSpec
INVARIANT NoFalseAlarm
INVARIANT ScanIsComplete
INVARIANT LinuxNoSignalLost
INVARIANT PollingHandlersRestored
PROPERTY StopEndsRunner
PROPERTY SilentIsReported
PROPERTY LinuxShielded
PROPERTY LinuxSignalEndsWait
PROPERTY PollingTakenIsReturned
