\* One task beside the main thread and queues that hold one or two bytes;
\* two pins on one LEDC channel; two interrupt pins, nested three deep; two
\* I2C addresses and a buffer of two bytes; two-digit words.
CONSTANTS
  UartMain = UartMain
  UartTasks = {t1}
  UartDefault = 1
  UartSizes = {0, 2}
  MaxOffered = 2
  MaxPushed = 3
  Pins = {0, 1}
  Channels = {0}
  Nothing = Nothing
  Frequencies = {0, 1, 2}
  Resolutions = {1, 3}
  Duties = {0, 3}
  MaxResolution = 2
  ToneResolution = 2
  ToneDuty = 1
  DacResolution = 1
  DefaultBits = 1
  DefaultHz = 1
  IrqPins = {0, 1}
  Handlers = {h1, h2}
  NoHandler = NoHandler
  DepthModulus = 256
  MaxNesting = 3
  Addresses = {a1, a2}
  Idle = Idle
  BufferLength = 2
  ByteModulus = 3
  MaxAsked = 4
  MaxWireBytes = 3
  Base = 2
  Words = {0, 5, 6, 9, 19}
SPECIFICATION PortsSpec
INVARIANTS
  PortsTypeOK
  UartBytesAccounted UartTraceFaithful
  BusSharing BusToneGivesBack
  InterruptDepthTells
  WireTransactionsWhole
  SpiWordsAndTransactions
CHECK_DEADLOCK FALSE
