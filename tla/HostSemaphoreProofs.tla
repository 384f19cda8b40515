------------------------- MODULE HostSemaphoreProofs -------------------------
(***************************************************************************)
(* Proofs about HostSemaphore, for any finite set of threads and every     *)
(* kind of semaphore.                                                      *)
(***************************************************************************)
EXTENDS HostSemaphore, FiniteSetTheorems, TLAPS

LEMMA MaxCountType == Max_count \in Nat
  BY SemaphoreAssumption DEF Max_count

LEMMA TakeBodyTypeOK ==
  ASSUME SemaphoreTypeOK, NEW t \in Threads, Available, TakeBody(t)
  PROVE  SemaphoreTypeOK'
  BY MaxCountType DEF SemaphoreTypeOK, Available, TakeBody, Max_count

(* The type invariant: xSemaphoreGive never lifts the count past max_count. *)
THEOREM TypeCorrect == SemaphoreSpec => []SemaphoreTypeOK
<1>1. SemaphoreInit => SemaphoreTypeOK
  <2> SUFFICES ASSUME SemaphoreInit PROVE SemaphoreTypeOK
    OBVIOUS
  <2>1. kind \in Kinds
    BY DEF SemaphoreInit
  <2>2. count \in 0 .. Max_count
    BY SemaphoreAssumption, <2>1 DEF SemaphoreInit, Max_count
  <2> QED
    BY <2>1, <2>2 DEF SemaphoreInit, SemaphoreTypeOK
<1>2. SemaphoreTypeOK /\ [SemaphoreNext]_semaphore_vars => SemaphoreTypeOK'
  <2> SUFFICES ASSUME SemaphoreTypeOK, [SemaphoreNext]_semaphore_vars PROVE SemaphoreTypeOK'
    OBVIOUS
  <2> USE DEF SemaphoreTypeOK, Max_count
  <2>1. ASSUME NEW t \in Threads, TakeNested(t) PROVE SemaphoreTypeOK'
    BY <2>1 DEF TakeNested
  <2>2. ASSUME NEW t \in Threads, TakeNow(t) \/ WakeReady(t) \/ TimeoutReady(t)
        PROVE  SemaphoreTypeOK'
    BY <2>2, TakeBodyTypeOK DEF TakeNow, WakeReady, TimeoutReady
  <2>3. ASSUME NEW t \in Threads, TakeBlocks(t) PROVE SemaphoreTypeOK'
    BY <2>3 DEF TakeBlocks, semaphore, client
  <2>4. ASSUME NEW t \in Threads, SpuriousWake(t) \/ WakeNotReady(t)
        PROVE  SemaphoreTypeOK'
    BY <2>4 DEF SpuriousWake, WakeNotReady, semaphore, client
  <2>5. ASSUME NEW t \in Threads, TimeoutFails(t) PROVE SemaphoreTypeOK'
    BY <2>5 DEF TimeoutFails, semaphore, client
  <2>6. ASSUME NEW t \in Threads, GiveNested(t) PROVE SemaphoreTypeOK'
    BY <2>6 DEF GiveNested, Settle, IsMutex
  <2>7. ASSUME NEW t \in Threads, Give(t) PROVE SemaphoreTypeOK'
    BY <2>7, MaxCountType DEF Give, Settle, IsMutex
  <2>8. ASSUME NEW t \in Threads, NotifyOne(t) PROVE SemaphoreTypeOK'
    BY <2>8 DEF NotifyOne, WaitSet, semaphore, client
  <2>9. CASE UNCHANGED semaphore_vars
    BY <2>9 DEF semaphore_vars
  <2> QED
    BY <2>1, <2>2, <2>3, <2>4, <2>5, <2>6, <2>7, <2>8, <2>9 DEF SemaphoreNext
<1> QED
  BY <1>1, <1>2, PTL DEF SemaphoreSpec
------------------------------------------------------------------------------
(* OwnerAccurate is inductive with the types: owner, recursion are written *)
(* under the same lock as the count, and a holder is never a stranger.     *)
LEMMA OwnerAccurateStep ==
  ASSUME SemaphoreTypeOK, OwnerAccurate, [SemaphoreNext]_semaphore_vars
  PROVE  OwnerAccurate'
<1> USE SemaphoreAssumption DEF SemaphoreTypeOK, OwnerAccurate, IsMutex, IsRecursive
<1>1. ASSUME NEW t \in Threads, TakeNested(t) PROVE OwnerAccurate'
  BY <1>1 DEF TakeNested, ReEntry
<1>2. ASSUME NEW t \in Threads, Available, TakeBody(t) PROVE OwnerAccurate'
  <2>1. ASSUME IsMutex, ~abused PROVE owner = NoThread /\ count = 1 /\ held[t] = 0
    BY <1>2, <2>1 DEF Available
  <2> QED
    BY <1>2, <2>1 DEF TakeBody
<1>3. ASSUME NEW t \in Threads,
             TakeBlocks(t) \/ SpuriousWake(t) \/ WakeNotReady(t) \/ TimeoutFails(t)
               \/ NotifyOne(t)
      PROVE  OwnerAccurate'
  BY <1>3
  DEF TakeBlocks, SpuriousWake, WakeNotReady, TimeoutFails, NotifyOne,
      semaphore, client
<1>4. ASSUME NEW t \in Threads, GiveNested(t) PROVE OwnerAccurate'
  <2>1. ASSUME ~abused' PROVE owner = t /\ ~abused /\ held[t] > 0
    BY <1>4, <2>1 DEF GiveNested, Settle
  <2> QED
    BY <1>4, <2>1 DEF GiveNested, Settle
<1>5. ASSUME NEW t \in Threads, Give(t) PROVE OwnerAccurate'
  <2>1. ASSUME ~abused', IsMutex
        PROVE  owner = t /\ ~abused /\ held[t] = 1 /\ recursion = 1 /\ count = 0
    <3>1. ~abused /\ held[t] > 0
      BY <1>5, <2>1 DEF Give, Settle
    <3>2. owner = t /\ recursion = held[t] /\ count = 0
      BY <2>1, <3>1
    <3>3. CASE kind = "recursive"
      BY <1>5, <3>1, <3>2, <3>3 DEF Give
    <3>4. CASE kind = "mutex"
      BY <1>5, <3>1, <3>2, <3>4 DEF Give
    <3> QED
      BY <2>1, <3>3, <3>4
  <2> QED
    BY <1>5, <2>1 DEF Give, Settle, Max_count
<1>6. CASE UNCHANGED semaphore_vars
  BY <1>6 DEF semaphore_vars
<1> QED
  BY <1>1, <1>2, <1>3, <1>4, <1>5, <1>6
  DEF SemaphoreNext, TakeNow, WakeReady, TimeoutReady

(* While every mutex is given by its holder, its owner and its depth are   *)
(* those of the one thread that has takes to give back.                    *)
THEOREM OwnerIsAccurate == SemaphoreSpec => []OwnerAccurate
<1>1. SemaphoreInit => OwnerAccurate
  BY DEF SemaphoreInit, OwnerAccurate, IsMutex
<1>2. SemaphoreTypeOK /\ OwnerAccurate /\ [SemaphoreNext]_semaphore_vars => OwnerAccurate'
  BY OwnerAccurateStep
<1> QED
  BY <1>1, <1>2, TypeCorrect, PTL DEF SemaphoreSpec

(* Mutual exclusion of both kinds of mutex, the reason freertos_mutex.ino  *)
(* expects no update to be lost.                                           *)
THEOREM MutexExcludes == SemaphoreSpec => []MutualExclusion
<1>1. SemaphoreTypeOK /\ OwnerAccurate => MutualExclusion
  BY SemaphoreAssumption DEF SemaphoreTypeOK, OwnerAccurate, MutualExclusion
<1> QED
  BY <1>1, TypeCorrect, OwnerIsAccurate, PTL
------------------------------------------------------------------------------
LEMMA ObligedFinite == IsFiniteSet(Obliged) /\ Cardinality(Obliged) \in Nat
<1>1. Obliged \in SUBSET Threads
  BY DEF Obliged
<1> QED
  BY <1>1, FS_Subset, FS_CardinalityType, SemaphoreAssumption

LEMMA ObligedFinitePrime ==
  IsFiniteSet(Obliged') /\ Cardinality(Obliged') \in Nat
<1>1. Obliged' \in SUBSET Threads
  BY DEF Obliged
<1> QED
  BY <1>1, FS_Subset, FS_CardinalityType, SemaphoreAssumption

(* A take that goes through uses up one unit of the count and at most one  *)
(* obligation.                                                             *)
LEMMA TakeBodyNoLostWakeup ==
  ASSUME SemaphoreTypeOK, SemaphoreNoLostWakeup, NEW t \in Threads, Available, TakeBody(t),
         sem_pc[t] \in {"idle", "waiting", "signalled"}
  PROVE  SemaphoreNoLostWakeup'
<1>1. WaitSet' \subseteq WaitSet /\ Obliged' = Obliged \ {t}
  BY DEF TakeBody, SemaphoreTypeOK, WaitSet, Obliged
<1>2. Cardinality(Obliged') >= Cardinality(Obliged) - 1
  BY <1>1, ObligedFinite, FS_RemoveElement
<1>3. count' = count - 1 /\ count \in Nat
  BY MaxCountType DEF TakeBody, SemaphoreTypeOK
<1> QED
  BY <1>1, <1>2, <1>3, ObligedFinite, ObligedFinitePrime DEF SemaphoreNoLostWakeup

(* No give is lost on a sleeping thread, whatever the kind and whoever     *)
(* gives.                                                                  *)
THEOREM NoWakeupIsLost == SemaphoreSpec => []SemaphoreNoLostWakeup
<1>1. SemaphoreInit => SemaphoreNoLostWakeup
  BY DEF SemaphoreInit, SemaphoreNoLostWakeup, WaitSet
<1>2. SemaphoreTypeOK /\ SemaphoreNoLostWakeup /\ [SemaphoreNext]_semaphore_vars => SemaphoreNoLostWakeup'
  <2> SUFFICES ASSUME SemaphoreTypeOK, SemaphoreNoLostWakeup, [SemaphoreNext]_semaphore_vars PROVE SemaphoreNoLostWakeup'
    OBVIOUS
  <2>0. count \in Nat
    BY MaxCountType DEF SemaphoreTypeOK
  <2>1. ASSUME NEW t \in Threads, TakeNested(t) PROVE SemaphoreNoLostWakeup'
    BY <2>1 DEF TakeNested, SemaphoreNoLostWakeup, WaitSet, Obliged
  <2>2. ASSUME NEW t \in Threads, TakeNow(t) \/ WakeReady(t) \/ TimeoutReady(t)
        PROVE  SemaphoreNoLostWakeup'
    BY <2>2, TakeBodyNoLostWakeup DEF TakeNow, WakeReady, TimeoutReady
  <2>3. ASSUME NEW t \in Threads, TakeBlocks(t) \/ WakeNotReady(t) \/ TimeoutFails(t)
        PROVE  SemaphoreNoLostWakeup'
    <3>1. count' = 0
      BY <2>0, <2>3
      DEF TakeBlocks, WakeNotReady, TimeoutFails, Available, semaphore
    <3> QED
      BY <3>1, ObligedFinitePrime DEF SemaphoreNoLostWakeup
  <2>4. ASSUME NEW t \in Threads, SpuriousWake(t) PROVE SemaphoreNoLostWakeup'
    <3>1. /\ WaitSet' \subseteq WaitSet
          /\ Obliged \in SUBSET Obliged'
          /\ count' = count
      BY <2>4 DEF SpuriousWake, SemaphoreTypeOK, WaitSet, Obliged, semaphore
    <3>2. Cardinality(Obliged) <= Cardinality(Obliged')
      BY <3>1, ObligedFinitePrime, FS_Subset
    <3> QED
      BY <2>0, <3>1, <3>2, ObligedFinite, ObligedFinitePrime DEF SemaphoreNoLostWakeup
  <2>5. ASSUME NEW t \in Threads, GiveNested(t) PROVE SemaphoreNoLostWakeup'
    BY <2>5 DEF GiveNested, SemaphoreNoLostWakeup, WaitSet, Obliged
  <2>6. ASSUME NEW t \in Threads, Give(t) PROVE SemaphoreNoLostWakeup'
    <3>1. /\ WaitSet' = WaitSet
          /\ Obliged' = Obliged \cup {t} /\ t \notin Obliged
          /\ count' = count + 1
      BY <2>6 DEF Give, SemaphoreTypeOK, WaitSet, Obliged
    <3>2. Cardinality(Obliged') = Cardinality(Obliged) + 1
      BY <3>1, ObligedFinite, FS_AddElement
    <3> QED
      BY <2>0, <3>1, <3>2, ObligedFinite DEF SemaphoreNoLostWakeup
  <2>7. ASSUME NEW t \in Threads, NotifyOne(t) PROVE SemaphoreNoLostWakeup'
    <3>1. CASE WaitSet = {} /\ sem_pc' = [sem_pc EXCEPT ![t] = "idle"]
      BY <3>1 DEF SemaphoreTypeOK, SemaphoreNoLostWakeup, WaitSet
    <3>2. ASSUME NEW w \in WaitSet,
                 sem_pc' = [sem_pc EXCEPT ![t] = "idle", ![w] = "signalled"]
          PROVE  SemaphoreNoLostWakeup'
      <4>1. /\ t \in Obliged /\ w \notin Obliged /\ w # t
            /\ Obliged' = (Obliged \ {t}) \cup {w}
        BY <2>7, <3>2 DEF NotifyOne, SemaphoreTypeOK, WaitSet, Obliged
      <4>2. /\ IsFiniteSet(Obliged \ {t})
            /\ Cardinality(Obliged \ {t}) = Cardinality(Obliged) - 1
        BY <4>1, ObligedFinite, FS_RemoveElement
      <4>3. Cardinality((Obliged \ {t}) \cup {w}) = Cardinality(Obliged \ {t}) + 1
        BY <4>1, <4>2, FS_AddElement
      <4>4. Cardinality(Obliged') = Cardinality(Obliged)
        BY <4>1, <4>2, <4>3, ObligedFinite
      <4>5. WaitSet # {} /\ count' = count
        BY <2>7, <3>2 DEF NotifyOne, semaphore
      <4> QED
        BY <4>4, <4>5 DEF SemaphoreNoLostWakeup
    <3> QED
      BY <2>7, <3>1, <3>2 DEF NotifyOne
  <2>8. CASE UNCHANGED semaphore_vars
    BY <2>8 DEF semaphore_vars, SemaphoreNoLostWakeup, WaitSet, Obliged
  <2> QED
    BY <2>1, <2>2, <2>3, <2>4, <2>5, <2>6, <2>7, <2>8 DEF SemaphoreNext
<1> QED
  BY <1>1, <1>2, TypeCorrect, PTL DEF SemaphoreSpec
=============================================================================
