------------------------------- MODULE HostTask -------------------------------
(***************************************************************************)
(* FreeRTOS tasks and task notifications of freertos/FreeRTOS.h.           *)
(*                                                                         *)
(* A task is a detached std::thread with a TaskControl that is never       *)
(* freed.  xTaskCreate stores *out_handle AFTER the thread was started, so *)
(* the new task and everybody else may run before the handle is there: a   *)
(* give through it meets a null handle and returns pdFAIL.                 *)
(* A notification counter belongs to one task, and only that task takes    *)
(* from it; notify_all is called after notify_mutex was released.          *)
(***************************************************************************)
EXTENDS Integers, FiniteSets

CONSTANTS
  Tasks,      (* the tasks that are created                                *)
  Loop,       (* the thread of setup() and loop(): a caller, but no task   *)
  Modulus,    (* notify_value is an unsigned integer modulo this           *)
  MaxGives    (* bound: gives to one task                                  *)

ASSUME TaskAssumption ==
  /\ Loop \notin Tasks
  /\ Modulus \in Nat \ {0}
  /\ MaxGives \in Nat

TaskThreads == Tasks \cup {Loop}
NoTask == Loop   (* the value of a handle or a slot that is null *)

VARIABLES
  stage,        (* the life of each task's thread                          *)
  handle,       (* *out_handle was stored                                  *)
  should_exit,  (* TaskControl::should_exit                                *)
  notify_value, (* TaskControl::notify_value                               *)
  task_pc,      (* where each thread is                                    *)
  subject,      (* the task it creates or notifies                         *)
  arg,          (* ulTaskNotifyTake's arguments, while it is blocked       *)
  given,        (* successful gives to each task                           *)
  taken         (* what the task's takes removed from the counter          *)

task_vars == <<stage, handle, should_exit, notify_value, task_pc, subject, arg,
               given, taken>>
life == <<stage, handle, should_exit>>
counters == <<notify_value, given, taken>>

Args == [clear : BOOLEAN, ticks : {"zero", "finite", "portMAX_DELAY"}]
NoArg == [clear |-> FALSE, ticks |-> "zero"]

Running(c) == c \in Tasks => stage[c] = "running"
Idle(c) == Running(c) /\ task_pc[c] = "idle"

TaskInit ==
  /\ stage = [t \in Tasks |-> "none"]
  /\ handle = [t \in Tasks |-> FALSE]
  /\ should_exit = [t \in Tasks |-> FALSE]
  /\ notify_value = [t \in Tasks |-> 0]
  /\ task_pc = [c \in TaskThreads |-> "idle"]
  /\ subject = [c \in TaskThreads |-> NoTask]
  /\ arg = [c \in TaskThreads |-> NoArg]
  /\ given = [t \in Tasks |-> 0]
  /\ taken = [t \in Tasks |-> 0]
------------------------------------------------------------------------------
(* xTaskCreatePinnedToCore: the thread is started and detached ...         *)
Create(c, t) ==
  /\ Idle(c)
  /\ stage[t] = "none"
  /\ stage' = [stage EXCEPT ![t] = "starting"]
  /\ task_pc' = [task_pc EXCEPT ![c] = "storing"]
  /\ subject' = [subject EXCEPT ![c] = t]
  /\ UNCHANGED <<handle, should_exit, arg, counters>>

(* ... and the handle is stored for the caller. *)
StoreHandle(c) ==
  /\ task_pc[c] = "storing"
  /\ handle' = [handle EXCEPT ![subject[c]] = TRUE]
  /\ task_pc' = [task_pc EXCEPT ![c] = "idle"]
  /\ subject' = [subject EXCEPT ![c] = NoTask]
  /\ UNCHANGED <<stage, should_exit, arg, counters>>

(* The new thread sets its task slot and enters the task function. *)
Begin(t) ==
  /\ stage[t] = "starting"
  /\ stage' = [stage EXCEPT ![t] = "running"]
  /\ UNCHANGED <<handle, should_exit, task_pc, subject, arg, counters>>

(* The task function returns. *)
End(t) ==
  /\ Idle(t)
  /\ stage' = [stage EXCEPT ![t] = "ended"]
  /\ should_exit' = [should_exit EXCEPT ![t] = TRUE]
  /\ UNCHANGED <<handle, task_pc, subject, arg, counters>>

(* vTaskDelete of another task through its handle, or of the caller itself *)
(* through NULL: the flag is set, nothing else happens.  On the loop       *)
(* thread NULL is no task and nothing happens at all.                      *)
Delete(c, t) ==
  /\ Idle(c)
  /\ handle[t] \/ c = t
  /\ should_exit' = [should_exit EXCEPT ![t] = TRUE]
  /\ UNCHANGED <<stage, handle, task_pc, subject, arg, counters>>
------------------------------------------------------------------------------
Increment(t) == (notify_value[t] + 1) % Modulus

(* xTaskNotifyGive through a stored handle or, to the caller itself,       *)
(* through xTaskGetCurrentTaskHandle; through a null one it returns pdFAIL *)
(* and changes nothing.                                                    *)
NotifyGive(c, t) ==
  /\ Idle(c)
  /\ handle[t] \/ c = t
  /\ given[t] < MaxGives
  /\ notify_value' = [notify_value EXCEPT ![t] = Increment(t)]
  /\ given' = [given EXCEPT ![t] = @ + 1]
  /\ task_pc' = [task_pc EXCEPT ![c] = "notifying"]
  /\ subject' = [subject EXCEPT ![c] = t]
  /\ UNCHANGED <<life, arg, taken>>

Signalled(t) == IF task_pc[t] = "waiting" THEN "signalled" ELSE task_pc[t]

MutantNotifyAll(c) ==
  /\ task_pc[c] = "notifying"
  /\ task_pc' = [task_pc EXCEPT ![c] = "idle"]
  /\ subject' = [subject EXCEPT ![c] = NoTask]
  /\ UNCHANGED <<life, arg, counters>>

NotifyAll(c) ==
  /\ task_pc[c] = "notifying"
  /\ task_pc' = [task_pc EXCEPT ![subject[c]] = Signalled(subject[c]),
                               ![c] = "idle"]
  /\ subject' = [subject EXCEPT ![c] = NoTask]
  /\ UNCHANGED <<life, arg, counters>>
------------------------------------------------------------------------------
HasValue(t) == notify_value[t] > 0

(* The end of ulTaskNotifyTake when the counter is positive. *)
MutantTakeClears(t, clear) ==
  /\ notify_value' = [notify_value EXCEPT ![t] = 0]
  /\ taken' = [taken EXCEPT ![t] = @ + IF clear THEN notify_value[t] ELSE 1]
  /\ task_pc' = [task_pc EXCEPT ![t] = "idle"]
  /\ arg' = [arg EXCEPT ![t] = NoArg]
  /\ UNCHANGED <<life, subject, given>>

NotifyTakeBody(t, clear) ==
  /\ notify_value' = [notify_value EXCEPT ![t] = IF clear THEN 0 ELSE @ - 1]
  /\ taken' = [taken EXCEPT ![t] = @ + IF clear THEN notify_value[t] ELSE 1]
  /\ task_pc' = [task_pc EXCEPT ![t] = "idle"]
  /\ arg' = [arg EXCEPT ![t] = NoArg]
  /\ UNCHANGED <<life, subject, given>>

(* On the loop thread the slot is null and ulTaskNotifyTake returns 0;     *)
(* with nothing to take and no ticks it returns 0 too.                     *)
NotifyTakeNow(t) ==
  /\ Idle(t)
  /\ HasValue(t)
  /\ \E clear \in BOOLEAN : NotifyTakeBody(t, clear)

NotifyTakeBlocks(t) ==
  /\ Idle(t)
  /\ ~HasValue(t)
  /\ \E a \in Args : a.ticks # "zero" /\ arg' = [arg EXCEPT ![t] = a]
  /\ task_pc' = [task_pc EXCEPT ![t] = "waiting"]
  /\ UNCHANGED <<life, counters, subject>>

NotifySpuriousWake(t) ==
  /\ task_pc[t] = "waiting"
  /\ task_pc' = [task_pc EXCEPT ![t] = "signalled"]
  /\ UNCHANGED <<life, counters, subject, arg>>

NotifyWakeReady(t) ==
  /\ task_pc[t] = "signalled"
  /\ HasValue(t)
  /\ NotifyTakeBody(t, arg[t].clear)

NotifyWakeNotReady(t) ==
  /\ task_pc[t] = "signalled"
  /\ ~HasValue(t)
  /\ task_pc' = [task_pc EXCEPT ![t] = "waiting"]
  /\ UNCHANGED <<life, counters, subject, arg>>

(* wait_for at its deadline; the counter is read once more. *)
NotifyTimeoutReady(t) ==
  /\ task_pc[t] \in {"waiting", "signalled"}
  /\ arg[t].ticks = "finite"
  /\ HasValue(t)
  /\ NotifyTakeBody(t, arg[t].clear)

NotifyTimeoutFails(t) ==
  /\ task_pc[t] \in {"waiting", "signalled"}
  /\ arg[t].ticks = "finite"
  /\ ~HasValue(t)
  /\ task_pc' = [task_pc EXCEPT ![t] = "idle"]
  /\ arg' = [arg EXCEPT ![t] = NoArg]
  /\ UNCHANGED <<life, counters, subject>>
------------------------------------------------------------------------------
TakeStep(t) ==
  \/ NotifyTakeNow(t)
  \/ NotifyTakeBlocks(t)
  \/ NotifySpuriousWake(t)
  \/ NotifyWakeReady(t)
  \/ NotifyWakeNotReady(t)
  \/ NotifyTimeoutReady(t)
  \/ NotifyTimeoutFails(t)

TaskNext ==
  \/ \E c \in TaskThreads, t \in Tasks :
       Create(c, t) \/ Delete(c, t) \/ NotifyGive(c, t)
  \/ \E c \in TaskThreads : StoreHandle(c) \/ NotifyAll(c)
  \/ \E t \in Tasks : Begin(t) \/ End(t) \/ TakeStep(t)

TaskSpec == TaskInit /\ [][TaskNext]_task_vars

(* A thread that can run finishes the call it is in. *)
TaskFairness ==
  /\ \A c \in TaskThreads : WF_task_vars(NotifyAll(c))
  /\ \A t \in Tasks : WF_task_vars(NotifyWakeReady(t) \/ NotifyWakeNotReady(t))

TaskFairSpec == TaskSpec /\ TaskFairness
------------------------------------------------------------------------------
TaskTypeOK ==
  /\ stage \in [Tasks -> {"none", "starting", "running", "ended"}]
  /\ handle \in [Tasks -> BOOLEAN]
  /\ should_exit \in [Tasks -> BOOLEAN]
  /\ notify_value \in [Tasks -> 0 .. Modulus - 1]
  /\ task_pc \in
       [TaskThreads -> {"idle", "storing", "notifying", "waiting", "signalled"}]
  /\ subject \in [TaskThreads -> TaskThreads]
  /\ arg \in [TaskThreads -> Args]
  /\ given \in [Tasks -> Nat]
  /\ taken \in [Tasks -> Nat]
  /\ \A c \in TaskThreads :
       /\ task_pc[c] \in {"storing", "notifying"} => subject[c] \in Tasks
       /\ task_pc[c] \in {"waiting", "signalled"} => c \in Tasks

(* Every give that returned pdPASS is in the counter until it is taken, as *)
(* long as the counter has not wrapped around.                             *)
NoGiveLost ==
  \A t \in Tasks : given[t] < Modulus => given[t] = taken[t] + notify_value[t]

(* A task asleep in ulTaskNotifyTake has nothing to take, or a give whose  *)
(* notify_all is still to come.                                            *)
TaskNoLostWakeup ==
  \A t \in Tasks :
    task_pc[t] = "waiting" /\ HasValue(t) =>
      \E c \in TaskThreads : task_pc[c] = "notifying" /\ subject[c] = t

(* A give wakes the task it was meant for.                                 *)
NotifiedTaskWakes ==
  \A t \in Tasks :
    (task_pc[t] = "waiting" /\ HasValue(t))
      ~> (task_pc[t] = "idle" \/ ~HasValue(t))
=============================================================================
