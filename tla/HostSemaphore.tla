---------------------------- MODULE HostSemaphore ----------------------------
(***************************************************************************)
(* The FreeRTOS semaphores and mutexes of freertos/FreeRTOS.h: one struct  *)
(* with a count under a std::mutex, a condition variable and, for the two  *)
(* mutex kinds, an owner and a recursion depth.                            *)
(*                                                                         *)
(* xSemaphoreGive asks nobody for ownership.  A program that gives a mutex *)
(* it does not hold breaks its own contract, not the code: `abused' records*)
(* that this happened, and the mutual-exclusion properties speak of        *)
(* behaviours in which it did not.  The others hold in every behaviour.    *)
(***************************************************************************)
EXTENDS Naturals, FiniteSets

CONSTANTS
  Threads,    (* the tasks and the loop thread                             *)
  NoThread,   (* std::thread::id(), the id of no thread                    *)
  Kinds,      (* the kinds of semaphore created                            *)
  MaxCount,   (* max_count of a counting semaphore                         *)
  MaxDepth    (* bound: nested takes of one recursive mutex                *)

ASSUME SemaphoreAssumption ==
  /\ IsFiniteSet(Threads)
  /\ NoThread \notin Threads
  /\ Kinds \subseteq {"binary", "counting", "mutex", "recursive"}
  /\ MaxCount \in Nat \ {0}
  /\ MaxDepth \in Nat \ {0}

VARIABLES
  kind,       (* is_mutex and is_recursive, fixed when it is created       *)
  count,      (* Semaphore::count                                          *)
  owner,      (* Semaphore::owner                                          *)
  recursion,  (* Semaphore::recursion                                      *)
  sem_pc,     (* where each thread is                                      *)
  ticks,      (* ticks_to_wait of the take a thread is blocked in          *)
  held,       (* takes a thread has not given back yet                     *)
  abused      (* a mutex was given by a thread that did not hold it        *)

semaphore_vars == <<kind, count, owner, recursion, sem_pc, ticks, held, abused>>
semaphore == <<kind, count, owner, recursion>>
client == <<held, abused>>

IsMutex == kind \in {"mutex", "recursive"}
IsRecursive == kind = "recursive"
Max_count == IF kind = "counting" THEN MaxCount ELSE 1

(* xSemaphoreCreateBinary, CreateCounting, CreateMutex, CreateRecursiveMutex *)
SemaphoreInit ==
  /\ kind \in Kinds
  /\ CASE kind = "counting" -> count \in 0 .. MaxCount
       [] kind = "binary" -> count = 0
       [] OTHER -> count = 1
  /\ owner = NoThread
  /\ recursion = 0
  /\ sem_pc = [t \in Threads |-> "idle"]
  /\ ticks = [t \in Threads |-> "zero"]
  /\ held = [t \in Threads |-> 0]
  /\ abused = FALSE
------------------------------------------------------------------------------
Available == count > 0

WaitSet == {t \in Threads : sem_pc[t] = "waiting"}

MutantReEntryAnyone(t) == IsRecursive /\ recursion > 0

(* The re-entry xSemaphoreTake tries before anything else. *)
ReEntry(t) == IsRecursive /\ owner = t /\ recursion > 0

TakeNested(t) ==
  /\ sem_pc[t] = "idle"
  /\ ReEntry(t)
  /\ held[t] < MaxDepth /\ recursion < MaxDepth
  /\ recursion' = recursion + 1
  /\ held' = [held EXCEPT ![t] = @ + 1]
  /\ UNCHANGED <<kind, count, owner, sem_pc, ticks, abused>>

(* The tail of xSemaphoreTake, once the count is positive. *)
TakeBody(t) ==
  /\ count' = count - 1
  /\ IF IsMutex THEN owner' = t /\ recursion' = 1
                ELSE UNCHANGED <<owner, recursion>>
  /\ held' = IF IsMutex THEN [held EXCEPT ![t] = @ + 1] ELSE held
  /\ sem_pc' = [sem_pc EXCEPT ![t] = "idle"]
  /\ ticks' = [ticks EXCEPT ![t] = "zero"]
  /\ UNCHANGED <<kind, abused>>

TakeNow(t) ==
  /\ sem_pc[t] = "idle"
  /\ ~ReEntry(t)
  /\ Available
  /\ held[t] < MaxDepth
  /\ TakeBody(t)

(* With a count of zero and no ticks to wait the take fails and changes    *)
(* nothing; with ticks it blocks.                                          *)
TakeBlocks(t) ==
  /\ sem_pc[t] = "idle"
  /\ ~ReEntry(t)
  /\ ~Available
  /\ held[t] < MaxDepth
  /\ sem_pc' = [sem_pc EXCEPT ![t] = "waiting"]
  /\ \E k \in {"finite", "portMAX_DELAY"} : ticks' = [ticks EXCEPT ![t] = k]
  /\ UNCHANGED <<semaphore, client>>

SpuriousWake(t) ==
  /\ sem_pc[t] = "waiting"
  /\ sem_pc' = [sem_pc EXCEPT ![t] = "signalled"]
  /\ UNCHANGED <<semaphore, ticks, client>>

WakeReady(t) ==
  /\ sem_pc[t] = "signalled"
  /\ Available
  /\ TakeBody(t)

WakeNotReady(t) ==
  /\ sem_pc[t] = "signalled"
  /\ ~Available
  /\ sem_pc' = [sem_pc EXCEPT ![t] = "waiting"]
  /\ UNCHANGED <<semaphore, ticks, client>>

(* wait_for at its deadline: the predicate decides. *)
TimeoutReady(t) ==
  /\ sem_pc[t] \in {"waiting", "signalled"}
  /\ ticks[t] = "finite"
  /\ Available
  /\ TakeBody(t)

TimeoutFails(t) ==
  /\ sem_pc[t] \in {"waiting", "signalled"}
  /\ ticks[t] = "finite"
  /\ ~Available
  /\ sem_pc' = [sem_pc EXCEPT ![t] = "idle"]
  /\ ticks' = [ticks EXCEPT ![t] = "zero"]
  /\ UNCHANGED <<semaphore, client>>
------------------------------------------------------------------------------
(* What xSemaphoreGive means to the program: the giver has one take less   *)
(* to give back, or gave a mutex it did not hold.                          *)
Settle(t) ==
  /\ held' = IF held[t] > 0 THEN [held EXCEPT ![t] = @ - 1] ELSE held
  /\ abused' = (abused \/ (IsMutex /\ held[t] = 0))

(* A recursive mutex taken more than once only counts down. *)
GiveNested(t) ==
  /\ sem_pc[t] = "idle"
  /\ IsRecursive /\ recursion > 1
  /\ recursion' = recursion - 1
  /\ Settle(t)
  /\ UNCHANGED <<kind, count, owner, sem_pc, ticks>>

(* A give at max_count fails and changes nothing; otherwise the mutex is   *)
(* unlocked and the notification is still to come.                         *)
MutantGiveForgetsNotify(t) ==
  /\ sem_pc[t] = "idle"
  /\ ~(IsRecursive /\ recursion > 1)
  /\ count < Max_count
  /\ count' = count + 1
  /\ IF IsMutex THEN owner' = NoThread /\ recursion' = 0
                ELSE UNCHANGED <<owner, recursion>>
  /\ Settle(t)
  /\ UNCHANGED <<kind, sem_pc, ticks>>

MutantGiveUnbounded(t) ==
  /\ sem_pc[t] = "idle"
  /\ ~(IsRecursive /\ recursion > 1)
  /\ count <= Max_count
  /\ count' = count + 1
  /\ IF IsMutex THEN owner' = NoThread /\ recursion' = 0
                ELSE UNCHANGED <<owner, recursion>>
  /\ Settle(t)
  /\ sem_pc' = [sem_pc EXCEPT ![t] = "notifying"]
  /\ UNCHANGED <<kind, ticks>>

MutantGiveIgnoresDepth(t) ==
  /\ sem_pc[t] = "idle"
  /\ count < Max_count
  /\ count' = count + 1
  /\ IF IsMutex THEN owner' = NoThread /\ recursion' = 0
                ELSE UNCHANGED <<owner, recursion>>
  /\ Settle(t)
  /\ sem_pc' = [sem_pc EXCEPT ![t] = "notifying"]
  /\ UNCHANGED <<kind, ticks>>

Give(t) ==
  /\ sem_pc[t] = "idle"
  /\ ~(IsRecursive /\ recursion > 1)
  /\ count < Max_count
  /\ count' = count + 1
  /\ IF IsMutex THEN owner' = NoThread /\ recursion' = 0
                ELSE UNCHANGED <<owner, recursion>>
  /\ Settle(t)
  /\ sem_pc' = [sem_pc EXCEPT ![t] = "notifying"]
  /\ UNCHANGED <<kind, ticks>>

NotifyOne(t) ==
  /\ sem_pc[t] = "notifying"
  /\ \/ /\ WaitSet = {}
        /\ sem_pc' = [sem_pc EXCEPT ![t] = "idle"]
     \/ \E w \in WaitSet :
          sem_pc' = [sem_pc EXCEPT ![t] = "idle", ![w] = "signalled"]
  /\ UNCHANGED <<semaphore, ticks, client>>
------------------------------------------------------------------------------
SemaphoreNext ==
  \E t \in Threads :
    \/ TakeNested(t)
    \/ TakeNow(t)
    \/ TakeBlocks(t)
    \/ SpuriousWake(t)
    \/ WakeReady(t)
    \/ WakeNotReady(t)
    \/ TimeoutReady(t)
    \/ TimeoutFails(t)
    \/ GiveNested(t)
    \/ Give(t)
    \/ NotifyOne(t)

SemaphoreSpec == SemaphoreInit /\ [][SemaphoreNext]_semaphore_vars

(* The scheduling of HostQueue: a thread that can run is run. *)
SemaphoreFairness ==
  \A t \in Threads :
    /\ WF_semaphore_vars(NotifyOne(t))
    /\ WF_semaphore_vars(WakeReady(t) \/ WakeNotReady(t))

SemaphoreFairSpec == SemaphoreSpec /\ SemaphoreFairness
------------------------------------------------------------------------------
(* The type invariant; the count of a semaphore stays within max_count     *)
(* whoever gives it and however often.                                     *)
SemaphoreTypeOK ==
  /\ kind \in Kinds
  /\ count \in 0 .. Max_count
  /\ owner \in Threads \cup {NoThread}
  /\ recursion \in Nat
  /\ sem_pc \in [Threads -> {"idle", "waiting", "signalled", "notifying"}]
  /\ ticks \in [Threads -> {"zero", "finite", "portMAX_DELAY"}]
  /\ held \in [Threads -> Nat]
  /\ abused \in BOOLEAN

(* While every mutex is given by its holder: owner and recursion describe  *)
(* who holds it and how deep, and the count is 0 exactly while it is held. *)
OwnerAccurate ==
  IsMutex /\ ~abused =>
    IF owner = NoThread
    THEN count = 1 /\ recursion = 0 /\ \A t \in Threads : held[t] = 0
    ELSE /\ count = 0
         /\ recursion = held[owner] /\ recursion > 0
         /\ kind = "mutex" => recursion = 1
         /\ \A t \in Threads \ {owner} : held[t] = 0

(* No two threads hold a mutex: what the freertos_mutex test counts on.    *)
MutualExclusion ==
  IsMutex /\ ~abused =>
    \A t, u \in Threads : held[t] > 0 /\ held[u] > 0 => t = u

(* No give is lost: while a thread sleeps, each unit of the count has a    *)
(* notification on its way or a signalled thread coming for it.            *)
Obliged == {t \in Threads : sem_pc[t] \in {"notifying", "signalled"}}
SemaphoreNoLostWakeup == WaitSet # {} => count <= Cardinality(Obliged)

(* With this scheduling alone, nobody sleeps for ever beside a semaphore   *)
(* that could be taken.                                                    *)
SleepersServed == (Available /\ WaitSet # {}) ~> (~Available \/ WaitSet = {})
=============================================================================
