\* The default run, but with a peek that waits for an item as long as it takes.
CONSTANTS
  Threads = {t1, t2, t3}
  Items = {a}
  Capacity = 1
  NoItem = NoItem
  NoCall = NoCall
  SendTicks = {"zero"}
  ReceiveTicks = {"portMAX_DELAY"}
  PeekTicks = {"portMAX_DELAY"}
SPECIFICATION FairSpec
PROPERTY SleepersServed
