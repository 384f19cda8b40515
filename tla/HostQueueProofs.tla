--------------------------- MODULE HostQueueProofs ---------------------------
(***************************************************************************)
(* Proofs about HostQueue, for any finite set of threads, any capacity and *)
(* any items.                                                              *)
(***************************************************************************)
EXTENDS HostQueue, FiniteSetTheorems, TLAPS

(* Every field of a call has the type its constructor gives it. *)
LEMMA CallFields ==
  ASSUME NEW c \in Calls
  PROVE  /\ c.op \in {"send", "receive", "peek"}
         /\ c.ticks \in Ticks
         /\ c.op = "send" => c.item \in Items
         /\ c.op = "peek" => c.ticks \in PeekTicks
  BY QueueAssumption DEF Calls, SendCalls, ReceiveCalls, PeekCalls

(* Completing a call keeps the type invariant: it pushes only where there  *)
(* was room.                                                               *)
LEMMA BodyTypeOK ==
  ASSUME TypeOK, NEW t \in Threads, NEW c \in Calls, Ready(c.op), Body(t, c)
  PROVE  TypeOK'
<1>1. CASE SendBody(t, c)
  <2>1. Push(c) \in Seq(Items) /\ Len(Push(c)) = Len(items) + 1
    BY <1>1, CallFields DEF SendBody, Push, TypeOK
  <2>2. Len(Push(c)) <= Capacity
    BY <1>1, <2>1, QueueAssumption DEF SendBody, Ready, TypeOK, MessagesWaiting
  <2> QED
    BY <1>1, <2>1, <2>2
    DEF SendBody, TypeOK, MessagesWaiting, Outcomes, States, Owing
<1>2. CASE ReceiveBody(t, c)
  <2>1. items # <<>>
    BY <1>2 DEF ReceiveBody, Ready
  <2>2. /\ Tail(items) \in Seq(Items)
        /\ Len(Tail(items)) = Len(items) - 1
        /\ Head(items) \in Items
    BY <2>1 DEF TypeOK
  <2> QED
    BY <1>2, <2>2, QueueAssumption
    DEF ReceiveBody, TypeOK, MessagesWaiting, Outcomes, States, Owing
<1>3. CASE PeekBody(t, c)
  <2>1. Head(items) \in Items
    BY <1>3 DEF PeekBody, Ready, TypeOK
  <2> QED
    BY <1>3, <2>1 DEF PeekBody, TypeOK, MessagesWaiting, Outcomes, States
<1> QED
  BY <1>1, <1>2, <1>3 DEF Body

LEMMA GiveUpTypeOK ==
  ASSUME TypeOK, NEW t \in Threads, GiveUp(t)
  PROVE  TypeOK'
  BY DEF GiveUp, TypeOK, MessagesWaiting, Outcomes, States

(* The type invariant: in particular the queue never outgrows the length   *)
(* given to xQueueCreate, so uxQueueSpacesAvailable never underflows.      *)
THEOREM TypeCorrect == Spec => []TypeOK
<1>1. Init => TypeOK
  BY QueueAssumption DEF Init, TypeOK, MessagesWaiting, Outcomes, States
<1>2. TypeOK /\ [Next]_vars => TypeOK'
  <2> SUFFICES ASSUME TypeOK, [Next]_vars PROVE TypeOK'
    OBVIOUS
  <2>1. ASSUME NEW t \in Threads, NEW c \in Calls, CallNow(t, c) PROVE TypeOK'
    BY <2>1, BodyTypeOK DEF CallNow
  <2>2. ASSUME NEW t \in Threads, NEW c \in Calls, CallFails(t, c) PROVE TypeOK'
    BY <2>2, GiveUpTypeOK DEF CallFails
  <2>3. ASSUME NEW t \in Threads, NEW c \in Calls, CallBlocks(t, c) PROVE TypeOK'
    BY <2>3 DEF CallBlocks, TypeOK, MessagesWaiting, States
  <2>4. ASSUME NEW t \in Threads, NEW cv \in ConditionVariables, NotifyOne(t, cv)
        PROVE  TypeOK'
    BY <2>4 DEF NotifyOne, WaitSet, Owing, TypeOK, MessagesWaiting, States
  <2>5. ASSUME NEW t \in Threads, SpuriousWake(t) PROVE TypeOK'
    BY <2>5 DEF SpuriousWake, TypeOK, MessagesWaiting, States
  <2>6. ASSUME NEW t \in Threads, WakeReady(t) PROVE TypeOK'
    BY <2>6, BodyTypeOK DEF WakeReady, TypeOK
  <2>7. ASSUME NEW t \in Threads, WakeNotReady(t) PROVE TypeOK'
    BY <2>7 DEF WakeNotReady, TypeOK, MessagesWaiting, States
  <2>8. ASSUME NEW t \in Threads, TimeoutReady(t) PROVE TypeOK'
    BY <2>8, BodyTypeOK DEF TimeoutReady, TypeOK
  <2>9. ASSUME NEW t \in Threads, TimeoutFails(t) PROVE TypeOK'
    BY <2>9, GiveUpTypeOK DEF TimeoutFails
  <2>10. ASSUME NEW t \in Threads, Reset(t) PROVE TypeOK'
    BY <2>10, QueueAssumption
    DEF Reset, WaitSet, TypeOK, MessagesWaiting, Outcomes, States
  <2>11. CASE UNCHANGED vars
    BY <2>11 DEF vars, TypeOK, MessagesWaiting
  <2> QED
    BY <2>1, <2>2, <2>3, <2>4, <2>5, <2>6, <2>7, <2>8, <2>9, <2>10, <2>11 DEF Next
<1> QED
  BY <1>1, <1>2, PTL DEF Spec
------------------------------------------------------------------------------
(***************************************************************************)
(* No lost wakeup, as long as no peek blocks.  NoLostWakeup is inductive   *)
(* together with TypeOK: a push adds one item and one obligation, a pop by *)
(* a woken receiver removes one of each, and notify_one hands the          *)
(* obligation of the notifier to the thread it signals.                    *)
(***************************************************************************)
LEMMA ObligedFinite ==
  ASSUME NEW cv
  PROVE  IsFiniteSet(Obliged(cv)) /\ Cardinality(Obliged(cv)) \in Nat
<1>1. Obliged(cv) \in SUBSET Threads
  BY DEF Obliged
<1> QED
  BY <1>1, FS_Subset, FS_CardinalityType, QueueAssumption

(* A thread that is neither idle nor asleep in a peek is a sender or a     *)
(* receiver: no peek ever waits.                                           *)
LEMMA BlockedCalls ==
  ASSUME TypeOK, PeekTicks \subseteq {"zero"},
         NEW t \in Threads, pc[t] \in {"waiting", "signalled"}
  PROVE  call[t] \in Calls /\ call[t].op \in {"send", "receive"}
  BY CallFields DEF TypeOK

(* What one call that takes effect does to the obligations. *)
LEMMA BodyNoLostWakeup ==
  ASSUME TypeOK, NoLostWakeup, NEW t \in Threads, NEW c \in Calls,
         Ready(c.op), Body(t, c),
         \/ pc[t] = "idle"
         \/ pc[t] \in {"waiting", "signalled"} /\ c = call[t] /\ c.op # "peek"
  PROVE  NoLostWakeup'
<1> DEFINE NE == Obliged("not_empty")
           NF == Obliged("not_full")
<1>1. /\ IsFiniteSet(NE) /\ Cardinality(NE) \in Nat
      /\ IsFiniteSet(NF) /\ Cardinality(NF) \in Nat
  BY ObligedFinite
<1>2. Len(items) \in Nat /\ Capacity \in Nat
  BY QueueAssumption DEF TypeOK
<1>3. CASE SendBody(t, c)
  <2>1. /\ t \notin NE
        /\ NE' = NE \cup {t}
        /\ NF' = NF \ {t}
        /\ WaitSet("not_empty")' = WaitSet("not_empty")
        /\ WaitSet("not_full")' \subseteq WaitSet("not_full")
    BY <1>3 DEF SendBody, TypeOK, Obliged, WaitSet, WaitsOn, Owing, States
  <2>2. Len(items') = Len(items) + 1
    BY <1>3, CallFields DEF SendBody, Push, TypeOK
  <2>3. /\ Cardinality(NE') = Cardinality(NE) + 1
        /\ Cardinality(NF') >= Cardinality(NF) - 1
        /\ Cardinality(NF') \in Nat
    BY <1>1, <2>1, FS_AddElement, FS_RemoveElement, FS_CardinalityType
  <2> QED
    BY <1>1, <1>2, <2>1, <2>2, <2>3
    DEF NoLostWakeup, ReceiversNotForgotten, SendersNotForgotten,
        MessagesWaiting, SpacesAvailable
<1>4. CASE ReceiveBody(t, c)
  <2>1. /\ t \notin NF
        /\ NF' = NF \cup {t}
        /\ NE' = NE \ {t}
        /\ WaitSet("not_full")' = WaitSet("not_full")
        /\ WaitSet("not_empty")' \subseteq WaitSet("not_empty")
    BY <1>4 DEF ReceiveBody, TypeOK, Obliged, WaitSet, WaitsOn, Owing, States
  <2>2. Len(items') = Len(items) - 1
    BY <1>4 DEF ReceiveBody, Ready, TypeOK
  <2>3. /\ Cardinality(NF') = Cardinality(NF) + 1
        /\ Cardinality(NE') >= Cardinality(NE) - 1
        /\ Cardinality(NE') \in Nat
    BY <1>1, <2>1, FS_AddElement, FS_RemoveElement, FS_CardinalityType
  <2> QED
    BY <1>1, <1>2, <2>1, <2>2, <2>3
    DEF NoLostWakeup, ReceiversNotForgotten, SendersNotForgotten,
        MessagesWaiting, SpacesAvailable
<1>5. CASE PeekBody(t, c)
  <2>1. pc[t] = "idle"
    BY <1>5 DEF PeekBody
  <2>2. pc' = pc /\ call' = call /\ items' = items
    BY <1>5, <2>1 DEF PeekBody, TypeOK
  <2> QED
    BY <2>2
    DEF NoLostWakeup, ReceiversNotForgotten, SendersNotForgotten,
        MessagesWaiting, SpacesAvailable, WaitSet, Obliged
<1> QED
  BY <1>3, <1>4, <1>5 DEF Body

(* A thread that gives up found the queue not ready: nothing of what it    *)
(* was obliged to was left to do.                                          *)
LEMMA GiveUpNoLostWakeup ==
  ASSUME TypeOK, NoLostWakeup, NEW t \in Threads, GiveUp(t),
         \/ pc[t] = "idle"
         \/ /\ pc[t] \in {"waiting", "signalled"}
            /\ call[t].op \in {"send", "receive"}
            /\ ~Ready(call[t].op)
  PROVE  NoLostWakeup'
<1>1. CASE pc[t] = "idle"
  <2>1. pc' = pc /\ call' = call /\ items' = items
    BY <1>1 DEF GiveUp, TypeOK
  <2> QED
    BY <2>1
    DEF NoLostWakeup, ReceiversNotForgotten, SendersNotForgotten,
        MessagesWaiting, SpacesAvailable, WaitSet, Obliged
<1>2. CASE pc[t] # "idle" /\ call[t].op = "send"
  <2>1. items' = items /\ ~(Len(items) < Capacity) /\ Len(items) \in Nat
    BY <1>2 DEF GiveUp, Ready, TypeOK
  <2>2. /\ Obliged("not_empty")' = Obliged("not_empty")
        /\ WaitSet("not_empty")' = WaitSet("not_empty")
    BY <1>2 DEF GiveUp, TypeOK, Obliged, WaitSet, WaitsOn, Owing
  <2>3. Cardinality(Obliged("not_full")') \in Nat
    <3>1. Obliged("not_full")' \in SUBSET Threads
      BY DEF Obliged
    <3> QED
      BY <3>1, FS_Subset, FS_CardinalityType, QueueAssumption
  <2> QED
    BY <2>1, <2>2, <2>3, QueueAssumption
    DEF NoLostWakeup, ReceiversNotForgotten, SendersNotForgotten,
        MessagesWaiting, SpacesAvailable
<1>3. CASE pc[t] # "idle" /\ call[t].op = "receive"
  <2>1. items' = items /\ Len(items) = 0
    BY <1>3 DEF GiveUp, Ready, TypeOK
  <2>2. /\ Obliged("not_full")' = Obliged("not_full")
        /\ WaitSet("not_full")' = WaitSet("not_full")
    BY <1>3 DEF GiveUp, TypeOK, Obliged, WaitSet, WaitsOn, Owing
  <2>3. Cardinality(Obliged("not_empty")') \in Nat
    <3>1. Obliged("not_empty")' \in SUBSET Threads
      BY DEF Obliged
    <3> QED
      BY <3>1, FS_Subset, FS_CardinalityType, QueueAssumption
  <2> QED
    BY <2>1, <2>2, <2>3
    DEF NoLostWakeup, ReceiversNotForgotten, SendersNotForgotten,
        MessagesWaiting, SpacesAvailable
<1> QED
  BY <1>1, <1>2, <1>3

(* notify_one on cv: its obligation goes to the signalled thread, or there *)
(* is nobody left asleep on cv.                                            *)
LEMMA NotifyNoLostWakeup ==
  ASSUME TypeOK, NoLostWakeup, NEW t \in Threads, NEW cv \in ConditionVariables,
         NotifyOne(t, cv)
  PROVE  NoLostWakeup'
<1> DEFINE other == IF cv = "not_full" THEN "not_empty" ELSE "not_full"
<1>1. /\ Obliged(other)' = Obliged(other)
      /\ WaitSet(other)' = WaitSet(other)
      /\ items' = items
  BY DEF NotifyOne, TypeOK, Obliged, WaitSet, WaitsOn, Owing, ConditionVariables
<1>2. \/ WaitSet(cv)' = {}
      \/ /\ WaitSet(cv) # {}
         /\ Cardinality(Obliged(cv)') = Cardinality(Obliged(cv))
  <2>1. CASE WaitSet(cv) = {} /\ pc' = [pc EXCEPT ![t] = "idle"]
    <3>1. WaitSet(cv)' = {}
      BY <2>1 DEF NotifyOne, TypeOK, WaitSet
    <3> QED
      BY <3>1
  <2>2. ASSUME NEW w \in WaitSet(cv),
               pc' = [pc EXCEPT ![t] = "idle", ![w] = "signalled"]
        PROVE  Cardinality(Obliged(cv)') = Cardinality(Obliged(cv))
    <3> DEFINE O == Obliged(cv)
    <3>1. /\ t \in O /\ w \notin O /\ w # t
          /\ O' = (O \ {t}) \cup {w}
      BY <2>2 DEF NotifyOne, TypeOK, Obliged, WaitSet, Owing, WaitsOn, ConditionVariables
    <3>2. IsFiniteSet(O) /\ Cardinality(O) \in Nat
      BY ObligedFinite
    <3>3. IsFiniteSet(O \ {t}) /\ Cardinality(O \ {t}) = Cardinality(O) - 1
      BY <3>1, <3>2, FS_RemoveElement
    <3>4. Cardinality((O \ {t}) \cup {w}) = Cardinality(O \ {t}) + 1
      BY <3>1, <3>3, FS_AddElement
    <3> QED
      BY <3>1, <3>2, <3>3, <3>4
  <2> QED
    BY <2>1, <2>2 DEF NotifyOne
<1> QED
  BY <1>1, <1>2
  DEF NoLostWakeup, ReceiversNotForgotten, SendersNotForgotten,
      MessagesWaiting, SpacesAvailable, ConditionVariables

(* xQueueReset empties the queue: no receiver has anything to come for,    *)
(* and no sender is left asleep.                                           *)
LEMMA ResetNoLostWakeup ==
  ASSUME TypeOK, NEW t \in Threads, Reset(t)
  PROVE  NoLostWakeup'
<1>1. WaitSet("not_full")' = {} /\ Len(items') = 0
  BY DEF Reset, WaitSet, TypeOK
<1>2. Cardinality(Obliged("not_empty")') \in Nat
  <2>1. Obliged("not_empty")' \in SUBSET Threads
    BY DEF Obliged
  <2> QED
    BY <2>1, FS_Subset, FS_CardinalityType, QueueAssumption
<1> QED
  BY <1>1, <1>2
  DEF NoLostWakeup, ReceiversNotForgotten, SendersNotForgotten, MessagesWaiting

(* If no peek blocks, no thread sleeps beside an item or a free place that *)
(* nobody is coming for: the wakeups of xQueueSend and xQueueReceive are   *)
(* enough, whatever barges in between unlock and notify_one.               *)
THEOREM NoWakeupIsLost ==
  ASSUME PeekTicks \subseteq {"zero"}
  PROVE  Spec => []NoLostWakeup
<1>1. Init => NoLostWakeup
  BY DEF Init, NoLostWakeup, ReceiversNotForgotten, SendersNotForgotten, WaitSet
<1>2. TypeOK /\ NoLostWakeup /\ [Next]_vars => NoLostWakeup'
  <2> SUFFICES ASSUME TypeOK, NoLostWakeup, [Next]_vars PROVE NoLostWakeup'
    OBVIOUS
  <2>1. ASSUME NEW t \in Threads, NEW c \in Calls, CallNow(t, c)
        PROVE  NoLostWakeup'
    BY <2>1, BodyNoLostWakeup DEF CallNow
  <2>2. ASSUME NEW t \in Threads, NEW c \in Calls, CallFails(t, c)
        PROVE  NoLostWakeup'
    BY <2>2, GiveUpNoLostWakeup DEF CallFails
  <2>3. ASSUME NEW t \in Threads, NEW c \in Calls, CallBlocks(t, c)
        PROVE  NoLostWakeup'
    <3>1. c.op \in {"send", "receive"} /\ items' = items /\ Len(items) \in Nat
      <4>1. c.ticks # "zero" /\ items' = items
        BY <2>3 DEF CallBlocks
      <4>2. c.op # "peek"
        BY <4>1, CallFields
      <4> QED
        BY <4>1, <4>2, CallFields DEF TypeOK
    <3>2. \A cv : Obliged(cv)' = Obliged(cv)
      BY <2>3 DEF CallBlocks, TypeOK, Obliged, Owing
    <3>3. \A cv : Cardinality(Obliged(cv)) \in Nat
      BY ObligedFinite
    <3>4. CASE c.op = "send"
      <4>1. ~(Len(items) < Capacity)
        BY <2>3, <3>4 DEF CallBlocks, Ready
      <4>2. WaitSet("not_empty")' = WaitSet("not_empty")
        BY <2>3, <3>4 DEF CallBlocks, TypeOK, WaitSet, WaitsOn
      <4> QED
        BY <3>1, <3>2, <3>3, <4>1, <4>2, QueueAssumption
        DEF NoLostWakeup, ReceiversNotForgotten, SendersNotForgotten,
            MessagesWaiting, SpacesAvailable
    <3>5. CASE c.op = "receive"
      <4>1. Len(items) = 0
        BY <2>3, <3>5 DEF CallBlocks, Ready
      <4>2. WaitSet("not_full")' = WaitSet("not_full")
        BY <2>3, <3>5 DEF CallBlocks, TypeOK, WaitSet, WaitsOn
      <4> QED
        BY <3>1, <3>2, <3>3, <4>1, <4>2
        DEF NoLostWakeup, ReceiversNotForgotten, SendersNotForgotten,
            MessagesWaiting, SpacesAvailable
    <3> QED
      BY <3>1, <3>4, <3>5
  <2>4. ASSUME NEW t \in Threads, NEW cv \in ConditionVariables, NotifyOne(t, cv)
        PROVE  NoLostWakeup'
    BY <2>4, NotifyNoLostWakeup
  <2>5. ASSUME NEW t \in Threads, SpuriousWake(t) PROVE NoLostWakeup'
    <3>1. \A cv : /\ Obliged(cv) \subseteq Obliged(cv)'
                  /\ WaitSet(cv)' \subseteq WaitSet(cv)
      BY <2>5 DEF SpuriousWake, TypeOK, Obliged, WaitSet, Owing
    <3>2. \A cv : /\ Cardinality(Obliged(cv)) <= Cardinality(Obliged(cv)')
                  /\ Cardinality(Obliged(cv)) \in Nat
                  /\ Cardinality(Obliged(cv)') \in Nat
      <4> TAKE cv
      <4>1. Obliged(cv)' \in SUBSET Threads
        BY DEF Obliged
      <4>2. IsFiniteSet(Obliged(cv)')
        BY <4>1, FS_Subset, QueueAssumption
      <4> QED
        BY <3>1, <4>2, ObligedFinite, FS_Subset, FS_CardinalityType
    <3>3. items' = items /\ Len(items) \in Nat
      BY <2>5 DEF SpuriousWake, TypeOK
    <3> QED
      BY <3>1, <3>2, <3>3, QueueAssumption
      DEF NoLostWakeup, ReceiversNotForgotten, SendersNotForgotten,
          MessagesWaiting, SpacesAvailable
  <2>6. ASSUME NEW t \in Threads, WakeReady(t) PROVE NoLostWakeup'
    BY <2>6, BlockedCalls, BodyNoLostWakeup DEF WakeReady
  <2>7. ASSUME NEW t \in Threads, WakeNotReady(t) PROVE NoLostWakeup'
    <3>1. call[t].op \in {"send", "receive"} /\ items' = items /\ Len(items) \in Nat
      BY <2>7, BlockedCalls DEF WakeNotReady, TypeOK
    <3>2. \A cv : Cardinality(Obliged(cv)') \in Nat
      <4> TAKE cv
      <4>1. Obliged(cv)' \in SUBSET Threads
        BY DEF Obliged
      <4> QED
        BY <4>1, FS_Subset, FS_CardinalityType, QueueAssumption
    <3>3. CASE call[t].op = "send"
      <4>1. ~(Len(items) < Capacity)
        BY <2>7, <3>3 DEF WakeNotReady, Ready
      <4>2. /\ WaitSet("not_empty")' = WaitSet("not_empty")
            /\ Obliged("not_empty")' = Obliged("not_empty")
        BY <2>7, <3>3 DEF WakeNotReady, TypeOK, WaitSet, Obliged, WaitsOn, Owing
      <4> QED
        BY <3>1, <3>2, <4>1, <4>2, QueueAssumption
        DEF NoLostWakeup, ReceiversNotForgotten, SendersNotForgotten,
            MessagesWaiting, SpacesAvailable
    <3>4. CASE call[t].op = "receive"
      <4>1. Len(items) = 0
        BY <2>7, <3>4 DEF WakeNotReady, Ready
      <4>2. /\ WaitSet("not_full")' = WaitSet("not_full")
            /\ Obliged("not_full")' = Obliged("not_full")
        BY <2>7, <3>4 DEF WakeNotReady, TypeOK, WaitSet, Obliged, WaitsOn, Owing
      <4> QED
        BY <3>1, <3>2, <4>1, <4>2
        DEF NoLostWakeup, ReceiversNotForgotten, SendersNotForgotten,
            MessagesWaiting, SpacesAvailable
    <3> QED
      BY <3>1, <3>3, <3>4
  <2>8. ASSUME NEW t \in Threads, TimeoutReady(t) PROVE NoLostWakeup'
    BY <2>8, BlockedCalls, BodyNoLostWakeup DEF TimeoutReady
  <2>9. ASSUME NEW t \in Threads, TimeoutFails(t) PROVE NoLostWakeup'
    BY <2>9, BlockedCalls, GiveUpNoLostWakeup DEF TimeoutFails
  <2>10. ASSUME NEW t \in Threads, Reset(t) PROVE NoLostWakeup'
    BY <2>10, ResetNoLostWakeup
  <2>11. CASE UNCHANGED vars
    BY <2>11
    DEF vars, NoLostWakeup, ReceiversNotForgotten, SendersNotForgotten,
        MessagesWaiting, SpacesAvailable, WaitSet, Obliged
  <2> QED
    BY <2>1, <2>2, <2>3, <2>4, <2>5, <2>6, <2>7, <2>8, <2>9, <2>10, <2>11 DEF Next
<1> QED
  BY <1>1, <1>2, TypeCorrect, PTL DEF Spec
------------------------------------------------------------------------------
(***************************************************************************)
(* HostQueue implements BoundedQueue.  Every call takes effect in the step *)
(* that ends its critical section; blocking keeps the call pending; the    *)
(* notifications and the wakeups are stuttering steps.                     *)
(***************************************************************************)
LEMMA BodySucceeds ==
  ASSUME TypeOK, NEW t \in Threads, NEW c \in Calls, Ready(c.op), Body(t, c),
         call[t] \in {NoCall, c}
  PROVE  Abstract!Succeed(t, c)
<1>1. CASE SendBody(t, c)
  BY <1>1 DEF SendBody, Push, Ready, Abstract!Succeed, Abstract!Enabled
<1>2. CASE ReceiveBody(t, c)
  BY <1>2 DEF ReceiveBody, Ready, Abstract!Succeed, Abstract!Enabled
<1>3. CASE PeekBody(t, c)
  BY <1>3 DEF PeekBody, Ready, Abstract!Succeed, Abstract!Enabled
<1> QED
  BY <1>1, <1>2, <1>3 DEF Body

(* The safety half of Linearizable, which the run checks: BoundedQueue     *)
(* states no fairness, so this is all of it.                               *)
THEOREM Refinement == Spec => Linearizable
<1>1. Init => Abstract!SpecInit
  BY DEF Init, Abstract!SpecInit
<1>2. TypeOK /\ [Next]_vars => [Abstract!SpecNext]_(Abstract!specVars)
  <2> SUFFICES ASSUME TypeOK, [Next]_vars
               PROVE  Abstract!SpecNext \/ UNCHANGED Abstract!specVars
    BY DEF Abstract!specVars
  <2>1. ASSUME NEW t \in Threads, NEW c \in Calls, CallNow(t, c)
        PROVE  Abstract!SpecNext
    <3>1. Abstract!Succeed(t, c)
      BY <2>1, BodySucceeds DEF CallNow, TypeOK
    <3> QED
      BY <3>1 DEF Abstract!SpecNext
  <2>2. ASSUME NEW t \in Threads, NEW c \in Calls, CallFails(t, c)
        PROVE  Abstract!SpecNext
    <3>1. Abstract!Fail(t, c)
      BY <2>2 DEF CallFails, GiveUp, Ready, TypeOK, Abstract!Fail, Abstract!Enabled
    <3> QED
      BY <3>1 DEF Abstract!SpecNext
  <2>3. ASSUME NEW t \in Threads, NEW c \in Calls, CallBlocks(t, c)
        PROVE  Abstract!SpecNext
    <3>1. Abstract!Block(t, c)
      BY <2>3 DEF CallBlocks, Ready, TypeOK, Abstract!Block, Abstract!Enabled
    <3> QED
      BY <3>1 DEF Abstract!SpecNext
  <2>4. ASSUME NEW t \in Threads, NEW cv \in ConditionVariables, NotifyOne(t, cv)
        PROVE  UNCHANGED Abstract!specVars
    BY <2>4 DEF NotifyOne, Abstract!specVars
  <2>5. ASSUME NEW t \in Threads, SpuriousWake(t) \/ WakeNotReady(t)
        PROVE  UNCHANGED Abstract!specVars
    BY <2>5 DEF SpuriousWake, WakeNotReady, Abstract!specVars
  <2>6. ASSUME NEW t \in Threads, WakeReady(t) \/ TimeoutReady(t)
        PROVE  Abstract!SpecNext
    <3>1. call[t] \in Calls
      BY <2>6 DEF WakeReady, TimeoutReady, TypeOK
    <3>2. Abstract!Succeed(t, call[t])
      BY <2>6, <3>1, BodySucceeds DEF WakeReady, TimeoutReady
    <3> QED
      BY <3>1, <3>2 DEF Abstract!SpecNext
  <2>7. ASSUME NEW t \in Threads, TimeoutFails(t) PROVE Abstract!SpecNext
    <3>1. call[t] \in Calls /\ call[t] # NoCall
      BY <2>7, QueueAssumption DEF TimeoutFails, TypeOK
    <3>2. Abstract!Fail(t, call[t])
      BY <2>7, <3>1
      DEF TimeoutFails, GiveUp, Ready, Abstract!Fail, Abstract!Enabled
    <3> QED
      BY <3>1, <3>2 DEF Abstract!SpecNext
  <2>8. ASSUME NEW t \in Threads, Reset(t) PROVE Abstract!SpecNext
    <3>1. Abstract!Reset(t)
      BY <2>8 DEF Reset, TypeOK, Abstract!Reset
    <3> QED
      BY <3>1 DEF Abstract!SpecNext
  <2>9. CASE UNCHANGED vars
    BY <2>9 DEF vars, Abstract!specVars
  <2> QED
    BY <2>1, <2>2, <2>3, <2>4, <2>5, <2>6, <2>7, <2>8, <2>9 DEF Next
<1> QED
  BY <1>1, <1>2, TypeCorrect, PTL DEF Spec, Linearizable, Abstract!Spec
=============================================================================
