\* Two requests on one object, answered in full by a server that leaves the
\* connection open.
CONSTANTS
  Codes = {"ok", "found"}
  BodyLengths = {1}
  ChunkLengths = {1}
  BufferSize = 1
  Limits = {1}
  MaxCarried = 2
SPECIFICATION HttpSpec
INVARIANT HttpFreshConnection
CHECK_DEADLOCK FALSE
