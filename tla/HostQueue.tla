------------------------------ MODULE HostQueue ------------------------------
(***************************************************************************)
(* The FreeRTOS queue of freertos/FreeRTOS.h: a deque under one std::mutex *)
(* with two condition variables, not_full and not_empty.                   *)
(*                                                                         *)
(* Each critical section is one step.  A send or a receive unlocks the     *)
(* mutex BEFORE it calls notify_one, so the notification is a step of its  *)
(* own and other threads run in between: a thread that finds the queue     *)
(* ready never waits its turn behind the threads already blocked.          *)
(***************************************************************************)
EXTENDS Naturals, Sequences, FiniteSets

CONSTANTS
  Threads,       (* the tasks and the loop thread sharing the queue        *)
  Items,         (* the items that are sent                                *)
  Capacity,      (* the length given to xQueueCreate                       *)
  NoItem,        (* no item                                                *)
  NoCall,        (* a thread that is inside no call                        *)
  SendTicks,     (* the ticks_to_wait that xQueueSend* is called with      *)
  ReceiveTicks,  (* the ticks_to_wait that xQueueReceive is called with    *)
  PeekTicks      (* the ticks_to_wait that xQueuePeek is called with       *)

(* ticks_to_wait, as the code tells its values apart. *)
Ticks == {"zero", "finite", "portMAX_DELAY"}

SendCalls ==
  [op : {"send"}, item : Items, front : BOOLEAN, ticks : SendTicks]
ReceiveCalls ==
  [op : {"receive"}, item : {NoItem}, front : {FALSE}, ticks : ReceiveTicks]
PeekCalls ==
  [op : {"peek"}, item : {NoItem}, front : {FALSE}, ticks : PeekTicks]
Calls == SendCalls \cup ReceiveCalls \cup PeekCalls

ASSUME QueueAssumption ==
  /\ IsFiniteSet(Threads)
  /\ Capacity \in Nat
  /\ NoItem \notin Items
  /\ NoCall \notin Calls
  /\ SendTicks \subseteq Ticks
  /\ ReceiveTicks \subseteq Ticks
  /\ PeekTicks \subseteq Ticks

VARIABLES
  items,    (* Queue::items                                                *)
  pc,       (* where each thread is                                        *)
  call,     (* the call each thread is inside                              *)
  outcome   (* what the call that took effect last returned                *)

vars == <<items, pc, call, outcome>>

(* A thread is outside every call, blocked, woken but without the mutex    *)
(* yet, or about to call notify_one on one of the condition variables.     *)
States ==
  {"idle", "waiting", "signalled", "notify_not_full", "notify_not_empty"}

Outcomes == [ok : BOOLEAN, item : Items \cup {NoItem}]
------------------------------------------------------------------------------
MutantReadyOffByOne(op) ==
  IF op = "send" THEN Len(items) <= Capacity ELSE items # <<>>

(* has_room of a send, has_item of a receive or a peek.                    *)
Ready(op) == IF op = "send" THEN Len(items) < Capacity ELSE items # <<>>

(* The condition variable a call blocks on; the state that owes cv a        *)
(* notification.                                                           *)
WaitsOn(op) == IF op = "send" THEN "not_full" ELSE "not_empty"
ConditionVariables == {"not_full", "not_empty"}
Owing(cv) == IF cv = "not_full" THEN "notify_not_full" ELSE "notify_not_empty"

(* The threads blocked on a condition variable, not signalled yet.         *)
WaitSet(cv) == {t \in Threads : pc[t] = "waiting" /\ WaitsOn(call[t].op) = cv}

(* uxQueueMessagesWaiting and uxQueueSpacesAvailable. *)
MessagesWaiting == Len(items)
SpacesAvailable == Capacity - Len(items)

Init ==
  /\ items = <<>>
  /\ pc = [t \in Threads |-> "idle"]
  /\ call = [t \in Threads |-> NoCall]
  /\ outcome = [ok |-> FALSE, item |-> NoItem]
------------------------------------------------------------------------------
(* The end of the critical section once the predicate holds: the item is   *)
(* pushed or popped and the mutex released.  A send and a receive still    *)
(* have their notify_one to call; a peek returns.                          *)
Push(c) == IF c.front THEN <<c.item>> \o items ELSE Append(items, c.item)

SendBody(t, c) ==
  /\ c.op = "send"
  /\ items' = Push(c)
  /\ pc' = [pc EXCEPT ![t] = Owing("not_empty")]
  /\ call' = [call EXCEPT ![t] = NoCall]
  /\ outcome' = [ok |-> TRUE, item |-> NoItem]

ReceiveBody(t, c) ==
  /\ c.op = "receive"
  /\ items' = Tail(items)
  /\ pc' = [pc EXCEPT ![t] = Owing("not_full")]
  /\ call' = [call EXCEPT ![t] = NoCall]
  /\ outcome' = [ok |-> TRUE, item |-> Head(items)]

PeekBody(t, c) ==
  /\ c.op = "peek"
  /\ items' = items
  /\ pc' = [pc EXCEPT ![t] = "idle"]
  /\ call' = [call EXCEPT ![t] = NoCall]
  /\ outcome' = [ok |-> TRUE, item |-> Head(items)]

Body(t, c) == SendBody(t, c) \/ ReceiveBody(t, c) \/ PeekBody(t, c)

GiveUp(t) ==
  /\ pc' = [pc EXCEPT ![t] = "idle"]
  /\ call' = [call EXCEPT ![t] = NoCall]
  /\ outcome' = [ok |-> FALSE, item |-> NoItem]
  /\ UNCHANGED items
------------------------------------------------------------------------------
(* xQueueSend*, xQueueReceive or xQueuePeek finds the queue ready. *)
CallNow(t, c) ==
  /\ pc[t] = "idle"
  /\ Ready(c.op)
  /\ Body(t, c)

(* ... or not ready, and ticks_to_wait is 0. *)
CallFails(t, c) ==
  /\ pc[t] = "idle"
  /\ ~Ready(c.op)
  /\ c.ticks = "zero"
  /\ GiveUp(t)

(* ... or not ready, and it blocks on its condition variable. *)
CallBlocks(t, c) ==
  /\ pc[t] = "idle"
  /\ ~Ready(c.op)
  /\ c.ticks # "zero"
  /\ pc' = [pc EXCEPT ![t] = "waiting"]
  /\ call' = [call EXCEPT ![t] = c]
  /\ UNCHANGED <<items, outcome>>

(* notify_one, after the mutex was released: one thread of the wait set is *)
(* signalled, if there is one, and the call returns.                       *)
MutantNoNotify(t, cv) ==
  /\ pc[t] = Owing(cv)
  /\ pc' = [pc EXCEPT ![t] = "idle"]
  /\ UNCHANGED <<items, call, outcome>>

NotifyOne(t, cv) ==
  /\ pc[t] = Owing(cv)
  /\ \/ /\ WaitSet(cv) = {}
        /\ pc' = [pc EXCEPT ![t] = "idle"]
     \/ \E w \in WaitSet(cv) :
          pc' = [pc EXCEPT ![t] = "idle", ![w] = "signalled"]
  /\ UNCHANGED <<items, call, outcome>>

(* wait() and wait_for() may return with no notification. *)
SpuriousWake(t) ==
  /\ pc[t] = "waiting"
  /\ pc' = [pc EXCEPT ![t] = "signalled"]
  /\ UNCHANGED <<items, call, outcome>>

(* A signalled thread holds the mutex again: the predicate is true and the *)
(* call goes on, or it is false (another thread came first) and it waits.  *)
WakeReady(t) ==
  /\ pc[t] = "signalled"
  /\ Ready(call[t].op)
  /\ Body(t, call[t])

WakeNotReady(t) ==
  /\ pc[t] = "signalled"
  /\ ~Ready(call[t].op)
  /\ pc' = [pc EXCEPT ![t] = "waiting"]
  /\ UNCHANGED <<items, call, outcome>>

(* wait_for reaches its deadline, with or without a notification under     *)
(* way; its result is the predicate, evaluated once more under the mutex.  *)
TimeoutReady(t) ==
  /\ pc[t] \in {"waiting", "signalled"}
  /\ call[t].ticks = "finite"
  /\ Ready(call[t].op)
  /\ Body(t, call[t])

MutantTimeoutUnchecked(t) ==
  /\ pc[t] \in {"waiting", "signalled"}
  /\ call[t].ticks = "finite"
  /\ GiveUp(t)

TimeoutFails(t) ==
  /\ pc[t] \in {"waiting", "signalled"}
  /\ call[t].ticks = "finite"
  /\ ~Ready(call[t].op)
  /\ GiveUp(t)

(* xQueueReset: clear and not_full.notify_all, all under the mutex. *)
MutantResetNotifiesOne(t) ==
  /\ pc[t] = "idle"
  /\ items' = <<>>
  /\ LET W == WaitSet("not_full") IN
       \/ W = {} /\ pc' = pc
       \/ \E w \in W : pc' = [pc EXCEPT ![w] = "signalled"]
  /\ outcome' = [ok |-> TRUE, item |-> NoItem]
  /\ UNCHANGED call

Reset(t) ==
  /\ pc[t] = "idle"
  /\ items' = <<>>
  /\ pc' = [u \in Threads |-> IF u \in WaitSet("not_full") THEN "signalled" ELSE pc[u]]
  /\ outcome' = [ok |-> TRUE, item |-> NoItem]
  /\ UNCHANGED call
------------------------------------------------------------------------------
Next ==
  \E t \in Threads :
    \/ \E c \in Calls : CallNow(t, c) \/ CallFails(t, c) \/ CallBlocks(t, c)
    \/ \E cv \in ConditionVariables : NotifyOne(t, cv)
    \/ SpuriousWake(t)
    \/ WakeReady(t)
    \/ WakeNotReady(t)
    \/ TimeoutReady(t)
    \/ TimeoutFails(t)
    \/ Reset(t)

Spec == Init /\ [][Next]_vars

(* A thread that can run is scheduled: it finishes the notify_one it owes, *)
(* and a signalled thread gets the mutex back.  Nobody has to make calls.  *)
Fairness ==
  \A t \in Threads :
    /\ WF_vars(\E cv \in ConditionVariables : NotifyOne(t, cv))
    /\ WF_vars(WakeReady(t) \/ WakeNotReady(t))

FairSpec == Spec /\ Fairness
------------------------------------------------------------------------------
(* The type invariant, with the queue never longer than it was created:    *)
(* uxQueueSpacesAvailable subtracts two unsigned numbers.                   *)
TypeOK ==
  /\ items \in Seq(Items)
  /\ MessagesWaiting <= Capacity
  /\ pc \in [Threads -> States]
  /\ call \in [Threads -> Calls \cup {NoCall}]
  /\ \A t \in Threads :
       IF pc[t] \in {"waiting", "signalled"}
       THEN call[t] \in Calls /\ call[t].ticks # "zero"
       ELSE call[t] = NoCall
  /\ outcome \in Outcomes

(* The threads about to act for those blocked on cv: a notify_one still to *)
(* be called, or a signalled thread that will re-evaluate its predicate.   *)
Obliged(cv) ==
  {t \in Threads :
     \/ pc[t] = Owing(cv)
     \/ pc[t] = "signalled" /\ WaitsOn(call[t].op) = cv}

(* No wakeup is lost: while a thread sleeps on a condition variable, every *)
(* item it could take (every free place it could fill) has a thread that   *)
(* still owes a notification, or was signalled and will come for it.       *)
ReceiversNotForgotten ==
  WaitSet("not_empty") # {} =>
    MessagesWaiting <= Cardinality(Obliged("not_empty"))
SendersNotForgotten ==
  WaitSet("not_full") # {} =>
    SpacesAvailable <= Cardinality(Obliged("not_full"))
NoLostWakeup == ReceiversNotForgotten /\ SendersNotForgotten

(* With the scheduling of Fairness alone, a receiver or a sender never     *)
(* sleeps for ever beside a queue it could use.                            *)
SleepersServed ==
  /\ (items # <<>> /\ WaitSet("not_empty") # {})
       ~> (items = <<>> \/ WaitSet("not_empty") = {})
  /\ (MessagesWaiting < Capacity /\ WaitSet("not_full") # {})
       ~> (MessagesWaiting = Capacity \/ WaitSet("not_full") = {})

(* Every call is atomic and in FIFO order (a send to the front aside), and *)
(* fails only when the queue was full or empty at its deadline.            *)
Abstract == INSTANCE BoundedQueue WITH
  queue <- items,
  pending <- call

Linearizable == Abstract!Spec
=============================================================================
