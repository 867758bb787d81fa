CONSTANTS
  Threads = {t1}
  Owner = owner
  BufferSize = 2
  MaxSize = 3
  Sow = FALSE
  Faults = {}
SPECIFICATION AppleSpec
PROPERTY AppendedIsDelivered
