\* Queue of capacity 2, three threads making any call; a peek does not block.
CONSTANTS
  Threads = {t1, t2, t3}
  Items = {a, b}
  Capacity = 2
  NoItem = NoItem
  NoCall = NoCall
  SendTicks = {"zero", "finite", "portMAX_DELAY"}
  ReceiveTicks = {"zero", "finite", "portMAX_DELAY"}
  PeekTicks = {"zero"}
SPECIFICATION FairSpec
INVARIANTS TypeOK NoLostWakeup
PROPERTIES Linearizable SleepersServed
