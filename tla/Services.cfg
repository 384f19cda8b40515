\* Two bytes to read and a target of two characters whose first comes once;
\* three bytes from a peer and two to it; two handles on two namespaces, two
\* types of equal code and two of their own; two File objects on two paths;
\* bodies of two bytes in one part or in two chunks, and one redirect.
CONSTANTS
  Characters = {"digit", "x", "skip"}
  Target <- TwoCharacters
  Terminator = "skip"
  ReadLength = 2
  Timeout = 2
  MaxHeld = 2
  MaxFromPeer = 3
  MaxToPeer = 2
  Backlog = 1
  PrefHandles = {h1, h2}
  Namespaces = {n1, n2}
  NoName = NoName
  Keys = {k1, k2}
  Kinds = {"Bool", "UChar", "String", "Bytes"}
  Values = {0, 2}
  Nowhere = Nowhere
  MaxWrites = 2
  Objects = {o1, o2}
  Paths = {p1, p2}
  Inodes = {i1, i2}
  Absent = Absent
  Counts = {0, 1}
  MaxLength = 2
  MaxCalls = 6
  Codes = {"ok", "found"}
  BodyLengths = {2}
  ChunkLengths = {1}
  BufferSize = 2
  Limits = {1}
  MaxCarried = 1
SPECIFICATION ServicesSpec
INVARIANTS HttpOwnAnswer PrefsLastWriteWins FileTellsItself
PROPERTIES WaitingCallsEnd TcpImplementsStream
CHECK_DEADLOCK FALSE
