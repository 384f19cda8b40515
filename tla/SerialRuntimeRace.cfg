\* A task, or a sketch that starts at once, writes while the client connects.
CONSTANTS
  Main = Main
  Tasks = {t1}
  Nobody = Nobody
  Limit = 2
  MaxRetries = 1
  MaxWritten = 3
  MaxSent = 2
SPECIFICATION Spec
INVARIANT EachByteOnce
CHECK_DEADLOCK FALSE
