---------------------------- MODULE BoundedQueue ----------------------------
(***************************************************************************)
(* What a FreeRTOS queue promises the tasks that share it, with no lock,   *)
(* no condition variable and no thread scheduling: every call takes effect *)
(* at one instant between its invocation and its return, and reports what  *)
(* the queue held at that instant.                                         *)
(***************************************************************************)
EXTENDS Naturals, Sequences

CONSTANTS
  Threads,   (* the tasks that call the queue                              *)
  Items,     (* the items that are sent                                    *)
  Capacity,  (* the length given to xQueueCreate                           *)
  NoItem,    (* no item: the result of a call that delivers none           *)
  NoCall,    (* a thread that is inside no call                            *)
  Calls      (* the calls that threads make, with their arguments          *)

VARIABLES
  queue,     (* the items held, the next one to be received first          *)
  pending,   (* thread -> the call it is blocked in, NoCall if none        *)
  outcome    (* what the call that took effect last returned               *)

specVars == <<queue, pending, outcome>>

Enabled(op) == IF op = "send" THEN Len(queue) < Capacity ELSE queue # <<>>

(* A call blocks only when it cannot take effect and may wait. *)
Block(t, c) ==
  /\ pending[t] = NoCall
  /\ ~Enabled(c.op)
  /\ c.ticks # "zero"
  /\ pending' = [pending EXCEPT ![t] = c]
  /\ UNCHANGED <<queue, outcome>>

Succeed(t, c) ==
  /\ pending[t] \in {NoCall, c}
  /\ Enabled(c.op)
  /\ \/ /\ c.op = "send"
        /\ queue' = IF c.front THEN <<c.item>> \o queue ELSE Append(queue, c.item)
        /\ outcome' = [ok |-> TRUE, item |-> NoItem]
     \/ /\ c.op = "receive"
        /\ queue' = Tail(queue)
        /\ outcome' = [ok |-> TRUE, item |-> Head(queue)]
     \/ /\ c.op = "peek"
        /\ queue' = queue
        /\ outcome' = [ok |-> TRUE, item |-> Head(queue)]
  /\ pending' = [pending EXCEPT ![t] = NoCall]

(* A call fails only while it cannot take effect, and never under         *)
(* portMAX_DELAY; a thread that was blocked had a finite time to wait.     *)
Fail(t, c) ==
  /\ pending[t] \in {NoCall, c}
  /\ ~Enabled(c.op)
  /\ c.ticks = IF pending[t] = NoCall THEN "zero" ELSE "finite"
  /\ outcome' = [ok |-> FALSE, item |-> NoItem]
  /\ pending' = [pending EXCEPT ![t] = NoCall]
  /\ UNCHANGED queue

Reset(t) ==
  /\ pending[t] = NoCall
  /\ queue' = <<>>
  /\ outcome' = [ok |-> TRUE, item |-> NoItem]
  /\ UNCHANGED pending

SpecInit ==
  /\ queue = <<>>
  /\ pending = [t \in Threads |-> NoCall]
  /\ outcome = [ok |-> FALSE, item |-> NoItem]

SpecNext ==
  \E t \in Threads :
    \/ \E c \in Calls : Block(t, c) \/ Succeed(t, c) \/ Fail(t, c)
    \/ Reset(t)

Spec == SpecInit /\ [][SpecNext]_specVars
=============================================================================
