CONSTANTS
  Processes = 2
  MaxWait = 64
  Events = {}
  Children = {c1, c2}
  Heeding = {}
  Stops = {"TERM"}
  Codes = {1}
  MaxOutput = 0
  Sfd = sfd
  Chld = "CHLD"
SPECIFICATION BothSpec
PROPERTY FailureEndsSomeRun
