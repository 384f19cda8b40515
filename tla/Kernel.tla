--------------------------------- MODULE Kernel ---------------------------------
(***************************************************************************)
(* What sketches wait with, side by side: a semaphore, tasks with their    *)
(* notifications, and a timer.                                             *)
(*                                                                         *)
(* They share no variable and none of them calls another, so a behaviour   *)
(* moves one of them, the `focus', and leaves the others as they were set  *)
(* up, a binary semaphore beside the others; each has the fairness of its  *)
(* own module.                                                             *)
(***************************************************************************)
EXTENDS HostSemaphore, HostTask, EspTimer

VARIABLE focus

kernel_vars == <<focus, semaphore_vars, task_vars, timer_vars>>

KernelInit ==
  /\ focus \in {"semaphore", "task", "timer"}
  /\ SemaphoreInit /\ TaskInit /\ TimerInit
  /\ focus = "semaphore" \/ kind = "binary"

KernelNext ==
  /\ UNCHANGED focus
  /\ \/ focus = "semaphore" /\ SemaphoreNext /\ UNCHANGED <<task_vars, timer_vars>>
     \/ focus = "task" /\ TaskNext /\ UNCHANGED <<semaphore_vars, timer_vars>>
     \/ focus = "timer" /\ TimerNext /\ UNCHANGED <<semaphore_vars, task_vars>>

KernelSpec ==
  /\ KernelInit /\ [][KernelNext]_kernel_vars
  /\ SemaphoreFairness /\ TaskFairness /\ TimerFairness
------------------------------------------------------------------------------
(* Every variable of the three has its type.                               *)
KernelTypeOK == SemaphoreTypeOK /\ TaskTypeOK /\ TimerTypeOK
=================================================================================
