CONSTANTS
  Runners = {r1}
  Checkers = {}
  Executors = {e1}
  Timeout = 1
  MaxTime = 2
  Free = free
SPECIFICATION TimedSpec
PROPERTY RunnerEndsAfterStop
