\* A launcher, its child with the main thread and one task, and one client.
\* The output buffer holds 2 of the 3 bytes written; a client that does not
\* read is given up after one retry.
CONSTANTS
  Main = Main
  Tasks = {t1}
  Nobody = Nobody
  Limit = 2
  MaxRetries = 1
  MaxWritten = 3
  MaxSent = 2
SPECIFICATION FairSpec
INVARIANTS TypeOK ReportsOwnPort SketchNeedsClient OutputInOrder OutputComplete InputInOrder
PROPERTY EndsWithoutClient
CHECK_DEADLOCK FALSE
