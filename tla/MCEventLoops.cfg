CONSTANTS
  t1 = t1
  Threads = {t1}
  Owner = owner
  Sow = FALSE
  BufferSize = 2
  MaxSize = 3
  Faults <- AllFaults
  Processes = 3
  MaxWait = 3
  Events = {"C", "CLOSE"}
  Children = {c1, c2}
  Heeding = {c1, c2}
  Stops = {"TERM"}
  Codes = {0, 1, 2}
  MaxOutput = 2
  Sfd = sfd
  Chld = "CHLD"
SPECIFICATION LoopSpec
INVARIANT NoLostWakeup
INVARIANT StopDelivers
INVARIANT TerminatesOnlyOnMisuse
PROPERTY ImplementsFileTail
INVARIANT OthersDeliver
PROPERTY Win32Delivers
PROPERTY StopsReturn
INVARIANT EveryByteIsPrinted
INVARIANT NoStaleKill
PROPERTY ExitCodesAreTheCause
PROPERTY RunnersEnd
PROPERTY FailureEndsRun
PROPERTY Win32ConsoleEscalates
