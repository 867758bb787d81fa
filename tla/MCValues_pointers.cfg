CONSTANTS
  o1 = o1
  o2 = o2
  x = x
  y = y
  b1 = b1
  b2 = b2
  b3 = b3
  Null = Null
  Threw = Threw
  Undefined = Undefined
  NotFinite = NotFinite
  Flag = Flag
  Esc = Esc
  Coma = Coma
  Quote = Quote
  Hash = Hash
  Nl = Nl
  N = N
  letter = letter
INIT AllInit
NEXT AllNext
SYMMETRY Interchangeable
CHECK_DEADLOCK FALSE
INVARIANT PointersAreTheClients
