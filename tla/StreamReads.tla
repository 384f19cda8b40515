------------------------------- MODULE StreamReads -------------------------------
(***************************************************************************)
(* The calls of Stream that wait: readBytes, readBytesUntil, readString,   *)
(* readStringUntil, find, findUntil and parseInt, on one thread, and       *)
(* delay(), which waits the same way.  Each looks at the stream and waits  *)
(* in the clock port by turns, until its deadline.                         *)
(*                                                                         *)
(* The stream itself (a UART, a TCP client) is only what it holds: at any  *)
(* moment characters may arrive, and another thread may discard them.      *)
(***************************************************************************)
EXTENDS Integers, Sequences

CONSTANTS
  Characters,    (* "digit", and others                                    *)
  Target,        (* what find and findUntil look for                       *)
  Terminator,    (* of findUntil, readBytesUntil and readStringUntil       *)
  ReadLength,    (* of readBytes and readBytesUntil                        *)
  Timeout,       (* timeout_, in waits of one millisecond                  *)
  MaxHeld        (* bound: characters the stream holds at a time           *)

ASSUME StreamAssumption ==
  /\ Target \in Seq(Characters) /\ Target # <<>> /\ Terminator \in Characters
  /\ ReadLength \in Nat \ {0} /\ Timeout \in Nat /\ MaxHeld \in Nat

VARIABLES
  inbox,         (* what the stream holds                                  *)
  call,          (* the call the thread is in, or "none"                   *)
  step,          (* where it is in it: look, peeked or wait                *)
  left,          (* the waits left before its deadline                     *)
  peeked,        (* c of readToken                                         *)
  count,         (* of readBytes and readBytesUntil                        *)
  targetIndex,   (* of findUntil                                           *)
  started        (* of readToken                                           *)

locals == <<count, targetIndex, started>>
stream_vars == <<inbox, call, step, left, peeked, locals>>

Reads == {"readBytes", "readBytesUntil", "readString", "readStringUntil",
          "find", "findUntil", "parseInt", "parseIntSkipping"}
Peeks(op) == op \in {"parseInt", "parseIntSkipping"}
Valid(c) == c = "digit"

StreamInit ==
  /\ inbox = <<>>
  /\ call = "none" /\ step = "look" /\ left = 0
  /\ peeked = "none" /\ count = 0 /\ targetIndex = 0 /\ started = FALSE

(* targetIndex of findUntil after one more character: on a mismatch the    *)
(* search starts again, with this one if it is the first of the target.    *)
Matched(index, c) ==
  IF c = Target[index + 1] THEN index + 1 ELSE IF c = Target[1] THEN 1 ELSE 0

(* What a call that takes c keeps of it, and whether it has enough then.   *)
Keeps(op, c) ==
  /\ count' = IF op \in {"readBytes", "readBytesUntil"} THEN count + 1 ELSE count
  /\ targetIndex' = IF op \in {"find", "findUntil"} THEN Matched(targetIndex, c) ELSE targetIndex
  /\ started' = (started \/ (Peeks(op) /\ Valid(c)))

HasEnough(op, c) ==
  \/ op \in {"readBytesUntil", "readStringUntil", "findUntil"} /\ c = Terminator
  \/ op \in {"readBytes", "readBytesUntil"} /\ count + 1 = ReadLength
  \/ op \in {"find", "findUntil"} /\ Matched(targetIndex, c) = Len(Target)
  \/ Peeks(op) /\ started /\ ~Valid(c) /\ ~(op = "parseIntSkipping" /\ c = "skip")

Returns ==
  /\ call' = "none" /\ step' = "look" /\ left' = 0 /\ peeked' = "none"
  /\ count' = 0 /\ targetIndex' = 0 /\ started' = FALSE

(* timedRead and timedPeek take a new deadline for each character.         *)
Takes(c) ==
  /\ inbox' = IF inbox = <<>> THEN <<>> ELSE Tail(inbox)
  /\ IF HasEnough(call, c) THEN Returns
     ELSE /\ step' = "look" /\ left' = Timeout /\ peeked' = "none"
          /\ Keeps(call, c)
          /\ UNCHANGED call
------------------------------------------------------------------------------
StartRead(op) ==
  /\ call = "none"
  /\ call' = op /\ left' = Timeout
  /\ UNCHANGED <<inbox, step, peeked, locals>>

(* timedRead finds a character; parseInt's timedPeek leaves it there.      *)
LookAndRead ==
  /\ call \in Reads /\ step = "look" /\ inbox # <<>> /\ ~Peeks(call)
  /\ Takes(Head(inbox))

LookAndPeek ==
  /\ call \in Reads /\ step = "look" /\ inbox # <<>> /\ Peeks(call)
  /\ step' = "peeked" /\ peeked' = Head(inbox)
  /\ UNCHANGED <<inbox, call, left, locals>>

(* readToken then reads what it has peeked, or whatever is there by now:   *)
(* read() answers -1 if the stream has been emptied in between.            *)
ReadPeeked ==
  /\ step = "peeked"
  /\ Takes(peeked)

LookInVain ==
  /\ call \in Reads /\ step = "look" /\ inbox = <<>>
  /\ step' = "wait"
  /\ UNCHANGED <<inbox, call, left, peeked, locals>>

(* delay() looks at the clock before it waits, and at runtimeShouldStop.   *)
StartDelay ==
  /\ call = "none" /\ Timeout > 0
  /\ call' = "delay" /\ step' = "wait" /\ left' = Timeout
  /\ UNCHANGED <<inbox, peeked, locals>>

MutantClockWait ==
  /\ step = "wait"
  /\ left' = Timeout
  /\ step' = IF call = "delay" THEN "wait" ELSE "look"
  /\ UNCHANGED <<inbox, call, peeked, locals>>

(* The wait returns a slice later, or more; a read looks at the deadline   *)
(* after the wait, and not once more at the stream.                        *)
ClockWait ==
  /\ step = "wait"
  /\ \E later \in 0..(left - 1) \cup {0} :
       IF later > 0
       THEN /\ left' = later
            /\ step' = IF call = "delay" THEN "wait" ELSE "look"
            /\ UNCHANGED <<call, peeked, locals>>
       ELSE Returns
  /\ UNCHANGED inbox

RuntimeStops ==
  /\ call = "delay"
  /\ Returns
  /\ UNCHANGED inbox
------------------------------------------------------------------------------
Arrive(c) ==
  /\ Len(inbox) < MaxHeld
  /\ inbox' = Append(inbox, c)
  /\ UNCHANGED <<call, step, left, peeked, locals>>

(* clearRx, begin or end on another thread.                                *)
Discard ==
  /\ inbox # <<>>
  /\ inbox' = <<>>
  /\ UNCHANGED <<call, step, left, peeked, locals>>

StreamSteps == LookAndRead \/ LookAndPeek \/ ReadPeeked \/ LookInVain \/ ClockWait

StreamNext ==
  \/ \E op \in Reads : StartRead(op)
  \/ StartDelay
  \/ StreamSteps
  \/ RuntimeStops
  \/ \E c \in Characters : Arrive(c)
  \/ Discard

(* The thread runs, and the clock port's wait returns.                     *)
StreamSpec == StreamInit /\ [][StreamNext]_stream_vars /\ WF_stream_vars(StreamSteps)
------------------------------------------------------------------------------
(* Every variable of the stream has its type.                              *)
StreamTypeOK ==
  /\ inbox \in Seq(Characters)
  /\ call \in Reads \cup {"none", "delay"} /\ step \in {"look", "peeked", "wait"}
  /\ left \in 0..Timeout /\ peeked \in Characters \cup {"none"}
  /\ count \in 0..ReadLength /\ targetIndex \in 0..Len(Target) /\ started \in BOOLEAN

(* A call that has a number of characters or a time to its end has one,    *)
(* however much arrives or is discarded meanwhile; and the others, which   *)
(* take a new deadline with each character, end as well, unless they are   *)
(* fed for ever (Stream.h:28-86, HostRuntime.h:106-113).                   *)
StreamCallEnds ==
  /\ (call \in {"delay", "readBytes", "readBytesUntil"}) ~> (call = "none")
  /\ []<><<LookAndRead \/ ReadPeeked>>_stream_vars \/ ((call # "none") ~> (call = "none"))
================================================================================
