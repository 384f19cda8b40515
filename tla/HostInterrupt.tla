----------------------------- MODULE HostInterrupt -----------------------------
(***************************************************************************)
(* attachInterrupt, detachInterrupt and triggerInterrupt of HostInterrupt. *)
(*                                                                         *)
(* A trigger runs the pin's handler on the spot, between an enter and an   *)
(* exit notification of the hook.  The hook and the handler may call all   *)
(* of the port again, triggerInterrupt and resetInterrupts included, so    *)
(* the calls in progress form a stack, and every call is made either by    *)
(* the code on its top or, when it is empty, by the sketch.  One thread    *)
(* runs them all.  The fire counts and the modes are left out.             *)
(***************************************************************************)
EXTENDS Integers, Sequences, FiniteSets

CONSTANTS
  IrqPins,         (* the pins                                             *)
  Handlers,        (* the handlers a sketch attaches                       *)
  NoHandler,       (* what a slot holds when nothing is attached           *)
  DepthModulus,    (* depth is a uint8_t: 256                              *)
  MaxNesting       (* bound: triggers within one another                   *)

ASSUME InterruptAssumption ==
  /\ NoHandler \notin Handlers
  /\ DepthModulus \in Nat /\ MaxNesting \in Nat /\ MaxNesting < DepthModulus

VARIABLES
  handler,         (* slot.handler (or handler_arg and arg) of each pin    *)
  depth,           (* slot.depth of each pin                               *)
  stack,           (* the triggers in progress, innermost last             *)
  traced           (* the nesting as the hook's enter and exit tell it     *)

irq_vars == <<handler, depth, stack, traced>>

(* A frame: its pin, the handler taken, where it is, and whether it was    *)
(* counted in a depth that has not been reset since.                       *)
Frames == [pin : IrqPins, runs : Handlers, at : {"enter", "handler", "exit"},
           counted : BOOLEAN]

Top == stack[Len(stack)]
Moves(at) == stack' = [stack EXCEPT ![Len(stack)].at = at]

InterruptInit ==
  /\ handler = [p \in IrqPins |-> NoHandler]
  /\ depth = [p \in IrqPins |-> 0]
  /\ stack = <<>>
  /\ traced = [p \in IrqPins |-> 0]
------------------------------------------------------------------------------
AttachInterrupt(p, h) ==
  /\ handler' = [handler EXCEPT ![p] = h]
  /\ UNCHANGED <<depth, stack, traced>>

DetachInterrupt(p) ==
  /\ handler[p] # NoHandler
  /\ handler' = [handler EXCEPT ![p] = NoHandler]
  /\ UNCHANGED <<depth, stack, traced>>

(* The handler is taken before the call.  The enter notification tells the *)
(* depth with this trigger in it.                                          *)
TriggerInterrupt(p) ==
  /\ Len(stack) < MaxNesting
  /\ handler[p] # NoHandler
  /\ depth' = [depth EXCEPT ![p] = (@ + 1) % DepthModulus]
  /\ stack' = Append(stack, [pin |-> p, runs |-> handler[p], at |-> "enter", counted |-> TRUE])
  /\ traced' = [traced EXCEPT ![p] = @ + 1]
  /\ UNCHANGED handler

(* The hook returns and the handler runs, whatever the hook has done.      *)
RunHandler ==
  /\ stack # <<>> /\ Top.at = "enter"
  /\ Moves("handler")
  /\ UNCHANGED <<handler, depth, traced>>

MutantHandlerReturns ==
  /\ stack # <<>> /\ Top.at = "handler"
  /\ depth' = [depth EXCEPT ![Top.pin] = (@ - 1) % DepthModulus]
  /\ Moves("exit")
  /\ traced' = [traced EXCEPT ![Top.pin] = @ - 1]
  /\ UNCHANGED handler

(* The depth is unwound, unless a reset has done so already.               *)
HandlerReturns ==
  /\ stack # <<>> /\ Top.at = "handler"
  /\ depth' = [depth EXCEPT ![Top.pin] = IF @ > 0 THEN @ - 1 ELSE @]
  /\ Moves("exit")
  /\ traced' = [traced EXCEPT ![Top.pin] = @ - 1]
  /\ UNCHANGED handler

TriggerReturns ==
  /\ stack # <<>> /\ Top.at = "exit"
  /\ stack' = SubSeq(stack, 1, Len(stack) - 1)
  /\ UNCHANGED <<handler, depth, traced>>

(* Detaches every pin and zeroes the depths, also below running handlers.  *)
ResetInterrupts ==
  /\ handler' = [p \in IrqPins |-> NoHandler]
  /\ depth' = [p \in IrqPins |-> 0]
  /\ stack' = [i \in 1..Len(stack) |-> [stack[i] EXCEPT !.counted = FALSE]]
  /\ UNCHANGED traced

InterruptNext ==
  \/ \E p \in IrqPins :
       \/ \E h \in Handlers : AttachInterrupt(p, h)
       \/ DetachInterrupt(p)
       \/ TriggerInterrupt(p)
  \/ RunHandler
  \/ HandlerReturns
  \/ TriggerReturns
  \/ ResetInterrupts

InterruptSpec == InterruptInit /\ [][InterruptNext]_irq_vars
------------------------------------------------------------------------------
(* Every variable of the interrupt port has its type.                      *)
InterruptTypeOK ==
  /\ handler \in [IrqPins -> Handlers \cup {NoHandler}]
  /\ depth \in [IrqPins -> 0..MaxNesting]
  /\ stack \in Seq(Frames) /\ Len(stack) <= MaxNesting
  /\ traced \in [IrqPins -> 0..MaxNesting]

(* The triggers of a pin whose handler has not returned, and those of them *)
(* that were counted since the last reset.                                 *)
Running(p) == {i \in 1..Len(stack) : stack[i].pin = p /\ stack[i].at # "exit"}
Counted(p) == {i \in Running(p) : stack[i].counted}

(* slot.depth is the nesting of a pin's handler right now, as far as the   *)
(* last reset can see: whatever handlers and hooks detach, attach, trigger *)
(* and reset, it neither wraps below 0 nor stays above it when they have   *)
(* returned; and enter and exit notifications are balanced                 *)
(* (HostInterrupt.h:70-76, 89-91; HostInterrupt.cpp:166-170).              *)
InterruptDepthTells ==
  \A p \in IrqPins :
    /\ depth[p] = Cardinality(Counted(p))
    /\ traced[p] = Cardinality(Running(p))
================================================================================
