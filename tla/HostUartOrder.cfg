\* The main thread and one task, which write at most two bytes.
CONSTANTS
  UartMain = UartMain
  UartTasks = {t1}
  UartDefault = 2
  UartSizes = {0, 2}
  MaxOffered = 2
  MaxPushed = 1
SPECIFICATION UartSpec
INVARIANT UartTxInOrder
CHECK_DEADLOCK FALSE
