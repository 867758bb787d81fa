CONSTANTS
  N = 3
  Codes = {0, 1}
  Events = {"C", "CLOSE"}
  Closed = 9
  MaxWait = 64
SPECIFICATION Spec
INVARIANT EscalationIsComplete
