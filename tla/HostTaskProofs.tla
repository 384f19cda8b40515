---------------------------- MODULE HostTaskProofs ----------------------------
(***************************************************************************)
(* Proofs about HostTask, for any tasks and any width of the counter.      *)
(***************************************************************************)
EXTENDS HostTask, TLAPS

LEMMA ModuloOfSmall ==
  ASSUME NEW n \in Nat, n < Modulus
  PROVE  n % Modulus = n
  BY TaskAssumption

LEMMA ModuloRange ==
  ASSUME NEW n \in Nat
  PROVE  n % Modulus \in 0 .. Modulus - 1
  BY TaskAssumption

LEMMA TakeBodyTypeOK ==
  ASSUME TaskTypeOK, NEW t \in Tasks, NEW clear \in BOOLEAN, HasValue(t),
         NotifyTakeBody(t, clear)
  PROVE  TaskTypeOK'
  BY TaskAssumption DEF TaskTypeOK, HasValue, NotifyTakeBody, life, TaskThreads, Args, NoArg

(* The type invariant; the counter stays in its range. *)
THEOREM TypeCorrect == TaskSpec => []TaskTypeOK
<1>1. TaskInit => TaskTypeOK
  BY TaskAssumption DEF TaskInit, TaskTypeOK, TaskThreads, NoTask, NoArg, Args
<1>2. TaskTypeOK /\ [TaskNext]_task_vars => TaskTypeOK'
  <2> SUFFICES ASSUME TaskTypeOK, [TaskNext]_task_vars PROVE TaskTypeOK'
    OBVIOUS
  <2> USE TaskAssumption DEF TaskTypeOK, TaskThreads, NoTask, life, counters
  <2>1. ASSUME NEW c \in TaskThreads, NEW t \in Tasks, Create(c, t) PROVE TaskTypeOK'
    BY <2>1 DEF Create
  <2>2. ASSUME NEW c \in TaskThreads, NEW t \in Tasks, Delete(c, t) PROVE TaskTypeOK'
    BY <2>2 DEF Delete
  <2>3. ASSUME NEW c \in TaskThreads, NEW t \in Tasks, NotifyGive(c, t) PROVE TaskTypeOK'
    <3>1. Increment(t) \in 0 .. Modulus - 1
      BY ModuloRange DEF Increment
    <3> QED
      BY <2>3, <3>1 DEF NotifyGive
  <2>4. ASSUME NEW c \in TaskThreads, StoreHandle(c) PROVE TaskTypeOK'
    BY <2>4 DEF StoreHandle
  <2>5. ASSUME NEW c \in TaskThreads, NotifyAll(c) PROVE TaskTypeOK'
    BY <2>5 DEF NotifyAll, Signalled
  <2>6. ASSUME NEW t \in Tasks, Begin(t) \/ End(t) PROVE TaskTypeOK'
    BY <2>6 DEF Begin, End
  <2>7. ASSUME NEW t \in Tasks, NotifyTakeNow(t) \/ NotifyWakeReady(t) \/ NotifyTimeoutReady(t)
        PROVE  TaskTypeOK'
    <3>1. arg[t].clear \in BOOLEAN
      BY DEF Args
    <3> QED
      BY <2>7, <3>1, TakeBodyTypeOK DEF NotifyTakeNow, NotifyWakeReady, NotifyTimeoutReady
  <2>8. ASSUME NEW t \in Tasks, NotifyTakeBlocks(t) PROVE TaskTypeOK'
    BY <2>8 DEF NotifyTakeBlocks
  <2>9. ASSUME NEW t \in Tasks, NotifySpuriousWake(t) \/ NotifyWakeNotReady(t) PROVE TaskTypeOK'
    BY <2>9 DEF NotifySpuriousWake, NotifyWakeNotReady
  <2>10. ASSUME NEW t \in Tasks, NotifyTimeoutFails(t) PROVE TaskTypeOK'
    BY <2>10 DEF NotifyTimeoutFails, NoArg, Args
  <2>11. CASE UNCHANGED task_vars
    BY <2>11 DEF task_vars
  <2> QED
    BY <2>1, <2>2, <2>3, <2>4, <2>5, <2>6, <2>7, <2>8, <2>9, <2>10, <2>11
    DEF TaskNext, TakeStep
<1> QED
  BY <1>1, <1>2, PTL DEF TaskSpec
------------------------------------------------------------------------------
(* No give is lost while fewer than Modulus were made: the counter cannot  *)
(* have wrapped, because it never exceeds the number of gives.             *)
THEOREM GivesAreKept == TaskSpec => []NoGiveLost
<1>1. TaskInit => NoGiveLost
  BY DEF TaskInit, NoGiveLost
<1>2. TaskTypeOK /\ NoGiveLost /\ [TaskNext]_task_vars => NoGiveLost'
  <2> SUFFICES ASSUME TaskTypeOK, NoGiveLost, [TaskNext]_task_vars PROVE NoGiveLost'
    OBVIOUS
  <2>1. ASSUME NEW c \in TaskThreads, NEW t \in Tasks, NotifyGive(c, t) PROVE NoGiveLost'
    <3>1. ASSUME given[t] + 1 < Modulus PROVE Increment(t) = notify_value[t] + 1
      <4>1. given[t] \in Nat /\ taken[t] \in Nat /\ notify_value[t] \in Nat
        BY TaskAssumption DEF TaskTypeOK
      <4>2. notify_value[t] + 1 < Modulus
        BY <3>1, <4>1, TaskAssumption DEF NoGiveLost
      <4> QED
        BY <4>1, <4>2, ModuloOfSmall DEF Increment
    <3> QED
      BY <2>1, <3>1, TaskAssumption DEF NotifyGive, NoGiveLost, TaskTypeOK
  <2>2. ASSUME NEW t \in Tasks, NEW clear \in BOOLEAN, HasValue(t), NotifyTakeBody(t, clear)
        PROVE  NoGiveLost'
    BY <2>2, TaskAssumption DEF NotifyTakeBody, HasValue, NoGiveLost, TaskTypeOK
  <2>3. ASSUME NEW t \in Tasks, NotifyTakeNow(t) \/ NotifyWakeReady(t) \/ NotifyTimeoutReady(t)
        PROVE  NoGiveLost'
    <3>1. arg[t].clear \in BOOLEAN
      BY DEF TaskTypeOK, Args, TaskThreads
    <3> QED
      BY <2>2, <2>3, <3>1 DEF NotifyTakeNow, NotifyWakeReady, NotifyTimeoutReady
  <2>4. CASE UNCHANGED counters
    BY <2>4 DEF counters, NoGiveLost
  <2> QED
    BY <2>1, <2>3, <2>4
    DEF TaskNext, TakeStep, Create, Delete, StoreHandle, NotifyAll, Begin, End,
        NotifyTakeBlocks, NotifySpuriousWake, NotifyWakeNotReady, NotifyTimeoutFails, task_vars, counters
<1> QED
  BY <1>1, <1>2, TypeCorrect, PTL DEF TaskSpec

(* No notification is lost: the task sleeps beside a positive counter only *)
(* between a give's unlock and its notify_all.                             *)
THEOREM NoWakeupIsLost == TaskSpec => []TaskNoLostWakeup
<1>1. TaskInit => TaskNoLostWakeup
  BY DEF TaskInit, TaskNoLostWakeup, TaskThreads
<1>2. TaskTypeOK /\ TaskNoLostWakeup /\ [TaskNext]_task_vars => TaskNoLostWakeup'
  <2> SUFFICES ASSUME TaskTypeOK, TaskNoLostWakeup, [TaskNext]_task_vars PROVE TaskNoLostWakeup'
    OBVIOUS
  <2> USE DEF TaskNoLostWakeup, HasValue, TaskThreads, TaskTypeOK, life, counters
  <2>1. ASSUME NEW c \in TaskThreads, NEW t \in Tasks, Create(c, t) PROVE TaskNoLostWakeup'
    BY <2>1 DEF Create, Idle
  <2>2. ASSUME NEW c \in TaskThreads, NEW t \in Tasks, Delete(c, t) PROVE TaskNoLostWakeup'
    BY <2>2 DEF Delete
  <2>3. ASSUME NEW c \in TaskThreads, NEW t \in Tasks, NotifyGive(c, t) PROVE TaskNoLostWakeup'
    BY <2>3 DEF NotifyGive, Idle
  <2>4. ASSUME NEW c \in TaskThreads, StoreHandle(c) PROVE TaskNoLostWakeup'
    BY <2>4 DEF StoreHandle
  <2>5. ASSUME NEW c \in TaskThreads, NotifyAll(c) PROVE TaskNoLostWakeup'
    <3> SUFFICES ASSUME NEW t \in Tasks, task_pc'[t] = "waiting", notify_value[t] > 0
                 PROVE  \E d \in TaskThreads : task_pc'[d] = "notifying" /\ subject'[d] = t
      BY <2>5 DEF NotifyAll
    <3>1. task_pc[t] = "waiting" /\ subject[c] # t
      BY <2>5 DEF NotifyAll, Signalled
    <3>2. PICK d \in TaskThreads : task_pc[d] = "notifying" /\ subject[d] = t
      BY <3>1
    <3>3. d # c
      BY <3>1, <3>2
    <3>4. subject[c] # d \/ Signalled(d) = task_pc[d]
      BY <3>2 DEF Signalled
    <3> QED
      BY <2>5, <3>2, <3>3, <3>4 DEF NotifyAll
  <2>6. ASSUME NEW t \in Tasks, Begin(t) \/ End(t) PROVE TaskNoLostWakeup'
    BY <2>6 DEF Begin, End
  <2>7. ASSUME NEW t \in Tasks, NEW clear \in BOOLEAN, NotifyTakeBody(t, clear),
               task_pc[t] # "notifying"
        PROVE  TaskNoLostWakeup'
    BY <2>7 DEF NotifyTakeBody
  <2>8. ASSUME NEW t \in Tasks, NotifyTakeNow(t) \/ NotifyWakeReady(t) \/ NotifyTimeoutReady(t)
        PROVE  TaskNoLostWakeup'
    <3>1. arg[t].clear \in BOOLEAN
      BY DEF Args
    <3> QED
      BY <2>7, <2>8, <3>1 DEF NotifyTakeNow, NotifyWakeReady, NotifyTimeoutReady, Idle
  <2>9. ASSUME NEW t \in Tasks, NotifyTakeBlocks(t) \/ NotifyWakeNotReady(t) PROVE TaskNoLostWakeup'
    BY <2>9 DEF NotifyTakeBlocks, NotifyWakeNotReady, Idle
  <2>10. ASSUME NEW t \in Tasks, NotifySpuriousWake(t) \/ NotifyTimeoutFails(t)
         PROVE  TaskNoLostWakeup'
    BY <2>10 DEF NotifySpuriousWake, NotifyTimeoutFails
  <2>11. CASE UNCHANGED task_vars
    BY <2>11 DEF task_vars
  <2> QED
    BY <2>1, <2>2, <2>3, <2>4, <2>5, <2>6, <2>8, <2>9, <2>10, <2>11
    DEF TaskNext, TakeStep
<1> QED
  BY <1>1, <1>2, TypeCorrect, PTL DEF TaskSpec
=============================================================================
