\* Three threads on one semaphore of each kind; two tasks and the loop thread,
\* with a counter that wraps after three gives; one timer, four starts with
\* delays 0 to 2, stopped and deleted at any time, not started again from the
\* unlock before its callback to the lock after it.  A deleted timer stops.
CONSTANTS
  Threads = {t1, t2, t3}
  NoThread = NoThread
  Kinds = {"binary", "counting", "mutex", "recursive"}
  MaxCount = 2
  MaxDepth = 3
  Tasks = {t1, t2}
  Loop = Loop
  Modulus = 3
  MaxGives = 4
  Delays = {0, 1, 2}
  MaxStarts = 4
  LateStarts = {}
  Deletes = TRUE
SPECIFICATION KernelSpec
INVARIANTS
  KernelTypeOK
  OwnerAccurate MutualExclusion SemaphoreNoLostWakeup
  NoGiveLost TaskNoLostWakeup
  IdleMeansIdle
PROPERTIES
  SleepersServed NotifiedTaskWakes
  FiresOnlyWhenDue StoppedStaysQuiet StartFires
CHECK_DEADLOCK FALSE
