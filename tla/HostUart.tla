-------------------------------- MODULE HostUart --------------------------------
(***************************************************************************)
(* A HostUart (Serial1, Serial2) and the lifecycle points of main.         *)
(*                                                                         *)
(* The sketch's threads write; UartMain, the thread of setup() and loop(), *)
(* also reads.  The driver, the test's side of the wire, has no thread: it *)
(* runs in the lifecycle hook, in the clock port's wait and in the activity*)
(* hook, which every call notifies after it has unlocked.                  *)
(*                                                                         *)
(* Bytes are numbered from 1 in the order in which they are offered to     *)
(* either queue.                                                           *)
(* The scalars begin() records (baud rate, pins) are left out.             *)
(***************************************************************************)
EXTENDS Integers, Sequences, FiniteSets

CONSTANTS
  UartMain,      (* the thread of setup() and loop()                       *)
  UartTasks,     (* the sketch's other threads, which write                *)
  UartDefault,   (* kDefaultBufferSize                                     *)
  UartSizes,     (* the sizes given to setTxBufferSize and setRxBufferSize *)
  MaxOffered,    (* bound: bytes the sketch writes                         *)
  MaxPushed      (* bound: bytes the device sends                          *)

UartThreads == UartTasks \cup {UartMain}

ASSUME UartAssumption ==
  /\ UartMain \notin UartTasks
  /\ UartSizes \subseteq Nat /\ UartDefault \in Nat \ {0}
  /\ MaxOffered \in Nat /\ MaxPushed \in Nat

VARIABLES
  phase,         (* the lifecycle: a hook point, setup, loop or poll       *)
  uart_pc,       (* where each thread is in a call on the UART             *)
  event,         (* what it is about to report: a kind and bytes           *)
  tx, tx_limit, tx_over, tx_total,  (* _tx, _txLimit, _txOverflow, _txTotal *)
  rx, rx_limit, rx_over,
  offered,       (* number of bytes the sketch has offered to write        *)
  writer,        (* the thread that offered each of them                   *)
  wire,          (* those the driver has taken with readTx                 *)
  tx_excused,    (* those cleared on purpose, or whose loss was cleared    *)
  tx_reported,   (* those reported to the activity hook                    *)
  pushed,        (* number of bytes the driver has offered to push         *)
  taken,         (* the bytes the sketch has read or flushed               *)
  rx_excused,    (* as tx_excused                                          *)
  rx_reported    (* those reported, as read or as discarded                *)

uart_threads == <<uart_pc, event>>
tx_queue == <<tx, tx_limit, tx_over, tx_total>>
rx_queue == <<rx, rx_limit, rx_over>>
tx_history == <<offered, writer, wire, tx_excused, tx_reported>>
rx_history == <<pushed, taken, rx_excused, rx_reported>>
uart_vars == <<phase, uart_threads, tx_queue, rx_queue, tx_history, rx_history>>

NoEvent == [kind |-> "none", bytes |-> <<>>]
Phases == {"hook", "sketch", "stopped"}

Least(a, b) == IF a <= b THEN a ELSE b
Elements(s) == {s[i] : i \in 1..Len(s)}

(* What one reads of a limit, and how many of size bytes a queue takes.    *)
LimitOf(size) == IF size = 0 THEN 1 ELSE size
Space(q, limit) == IF Len(q) >= limit THEN 0 ELSE limit - Len(q)
Fits(q, limit, size) == Least(size, Space(q, limit))
Numbered(n, from) == [i \in 1..n |-> from + i]

UartInit ==
  /\ phase = "hook"
  /\ uart_pc = [t \in UartThreads |-> "idle"]
  /\ event = [t \in UartThreads |-> NoEvent]
  /\ tx = <<>> /\ tx_limit = UartDefault /\ tx_over = FALSE /\ tx_total = 0
  /\ rx = <<>> /\ rx_limit = UartDefault /\ rx_over = FALSE
  /\ offered = 0 /\ writer = <<>> /\ wire = <<>> /\ tx_excused = {} /\ tx_reported = <<>>
  /\ pushed = 0 /\ taken = <<>> /\ rx_excused = {} /\ rx_reported = <<>>

(* The bytes offered, or pushed, that are neither queued nor passed on.    *)
TxMissing == (1..offered) \ Elements(wire \o tx)
RxMissing == (1..pushed) \ Elements(taken \o rx)

(* The bytes that a call is about to report, its lock released.            *)
Pending(t) == IF uart_pc[t] = "report" THEN event[t].bytes ELSE <<>>
------------------------------------------------------------------------------
(* main announces a lifecycle point before and after setup() and each      *)
(* loop(), and stops at one of them.                                       *)
MainLoops ==
  /\ phase # "stopped" /\ uart_pc[UartMain] = "idle"
  /\ phase' \in IF phase = "hook" THEN {"sketch", "stopped"} ELSE {"hook"}
  /\ UNCHANGED <<uart_threads, tx_queue, rx_queue, tx_history, rx_history>>
------------------------------------------------------------------------------
(* The sketch's calls: a change under the lock, then, unless it has        *)
(* nothing to say, the activity hook with the lock released.               *)
Sketch(t) == uart_pc[t] = "idle" /\ (t = UartMain => phase = "sketch")

Reports(t, kind, bytes) ==
  /\ uart_pc' = [uart_pc EXCEPT ![t] = "report"]
  /\ event' = [event EXCEPT ![t] = [kind |-> kind, bytes |-> bytes]]

(* begin() and end(): a new session, with nothing in flight.               *)
UartBegin ==
  /\ Sketch(UartMain)
  /\ tx' = <<>> /\ rx' = <<>>
  /\ tx_excused' = tx_excused \cup Elements(tx)
  /\ rx_excused' = rx_excused \cup Elements(rx)
  /\ Reports(UartMain, "control", <<>>)
  /\ UNCHANGED <<phase, tx_limit, tx_over, tx_total, rx_limit, rx_over,
                 offered, writer, wire, tx_reported, pushed, taken, rx_reported>>

UartConfig ==
  /\ Sketch(UartMain)
  /\ Reports(UartMain, "control", <<>>)
  /\ UNCHANGED <<phase, tx_queue, rx_queue, tx_history, rx_history>>

(* A lower limit drops the newest bytes.                                   *)
SetTxBufferSize(size) ==
  /\ Sketch(UartMain)
  /\ tx_limit' = LimitOf(size)
  /\ tx' = SubSeq(tx, 1, Least(Len(tx), LimitOf(size)))
  /\ tx_over' = (tx_over \/ Len(tx) > LimitOf(size))
  /\ Reports(UartMain, "control", <<>>)
  /\ UNCHANGED <<phase, tx_total, rx_queue, tx_history, rx_history>>

SetRxBufferSize(size) ==
  /\ Sketch(UartMain)
  /\ rx_limit' = LimitOf(size)
  /\ rx' = SubSeq(rx, 1, Least(Len(rx), LimitOf(size)))
  /\ rx_over' = (rx_over \/ Len(rx) > LimitOf(size))
  /\ Reports(UartMain, "control", <<>>)
  /\ UNCHANGED <<phase, tx_queue, tx_history, rx_history>>

MutantWrite(t, size) ==
  LET n == Fits(tx, tx_limit, size) IN
  /\ Sketch(t) /\ offered + size <= MaxOffered
  /\ offered' = offered + size
  /\ writer' = writer \o [i \in 1..size |-> t]
  /\ tx' = tx \o Numbered(n, offered)
  /\ tx_over' = (tx_over \/ n < size)
  /\ tx_total' = tx_total + n
  /\ Reports(t, "tx", Numbered(size, offered))
  /\ UNCHANGED <<phase, tx_limit, rx_queue, wire, tx_excused, tx_reported,
                 rx_history>>

(* The prefix that fits is queued and reported; the rest is dropped.       *)
UartWrite(t, size) ==
  LET n == Fits(tx, tx_limit, size) IN
  /\ Sketch(t) /\ offered + size <= MaxOffered
  /\ offered' = offered + size
  /\ writer' = writer \o [i \in 1..size |-> t]
  /\ tx' = tx \o Numbered(n, offered)
  /\ tx_over' = (tx_over \/ n < size)
  /\ tx_total' = tx_total + n
  /\ IF n > 0 THEN Reports(t, "tx", Numbered(n, offered)) ELSE UNCHANGED <<uart_pc, event>>
  /\ UNCHANGED <<phase, tx_limit, rx_queue, wire, tx_excused, tx_reported,
                 rx_history>>

UartFlush ==
  /\ Sketch(UartMain)
  /\ rx' = <<>>
  /\ taken' = taken \o rx
  /\ IF rx # <<>> THEN Reports(UartMain, "rx_discard", rx) ELSE UNCHANGED <<uart_pc, event>>
  /\ UNCHANGED <<phase, tx_queue, rx_limit, rx_over,
                 tx_history, pushed, rx_excused, rx_reported>>
------------------------------------------------------------------------------
(* read(): one byte, reported by itself; nothing happens when there is     *)
(* none.                                                                   *)
UartRead ==
  /\ Sketch(UartMain) /\ rx # <<>>
  /\ rx' = Tail(rx)
  /\ taken' = Append(taken, Head(rx))
  /\ Reports(UartMain, "rx", <<Head(rx)>>)
  /\ UNCHANGED <<phase, tx_queue, rx_limit, rx_over, tx_history, pushed, rx_excused,
                 rx_reported>>

(* A delay(), or a Stream read that finds nothing, is in the clock port's  *)
(* wait.                                                                   *)
ClockWait ==
  /\ \/ Sketch(UartMain) /\ uart_pc' = [uart_pc EXCEPT ![UartMain] = "wait"]
     \/ uart_pc[UartMain] = "wait" /\ uart_pc' = [uart_pc EXCEPT ![UartMain] = "idle"]
  /\ UNCHANGED <<phase, event, tx_queue, rx_queue, tx_history, rx_history>>
------------------------------------------------------------------------------
(* The activity hook: it gets the bytes, and the driver runs until it      *)
(* returns.                                                                *)
CallHook(t) ==
  /\ uart_pc[t] = "report"
  /\ uart_pc' = [uart_pc EXCEPT ![t] = "hook"]
  /\ tx_reported' = IF event[t].kind = "tx" THEN tx_reported \o event[t].bytes ELSE tx_reported
  /\ rx_reported' = IF event[t].kind \in {"rx", "rx_discard"}
                    THEN rx_reported \o event[t].bytes ELSE rx_reported
  /\ event' = [event EXCEPT ![t] = NoEvent]
  /\ UNCHANGED <<phase, tx_queue, rx_queue,
                 offered, writer, wire, tx_excused, pushed, taken, rx_excused>>

HookReturns(t) ==
  /\ uart_pc[t] = "hook"
  /\ uart_pc' = [uart_pc EXCEPT ![t] = "idle"]
  /\ UNCHANGED <<phase, event, tx_queue, rx_queue, tx_history, rx_history>>
------------------------------------------------------------------------------
(* The driver. *)
DriverRuns ==
  \/ phase = "hook"
  \/ uart_pc[UartMain] = "wait"
  \/ \E t \in UartThreads : uart_pc[t] = "hook"

ReadTx(size) ==
  LET n == Least(size, Len(tx)) IN
  /\ DriverRuns /\ tx # <<>>
  /\ wire' = wire \o SubSeq(tx, 1, n)
  /\ tx' = SubSeq(tx, n + 1, Len(tx))
  /\ UNCHANGED <<phase, uart_threads, tx_limit, tx_over, tx_total, rx_queue,
                 offered, writer, tx_excused, tx_reported, rx_history>>

ClearTx ==
  /\ DriverRuns /\ tx # <<>>
  /\ tx' = <<>>
  /\ tx_excused' = tx_excused \cup Elements(tx)
  /\ UNCHANGED <<phase, uart_threads, tx_limit, tx_over, tx_total, rx_queue,
                 offered, writer, wire, tx_reported, rx_history>>

MutantPushRx(size) ==
  LET n == Fits(rx, rx_limit, size) IN
  /\ DriverRuns /\ pushed + size <= MaxPushed
  /\ pushed' = pushed + size
  /\ rx' = rx \o Numbered(n, pushed)
  /\ rx_over' = (n < size)
  /\ UNCHANGED <<phase, uart_threads, tx_queue, rx_limit, tx_history,
                 taken, rx_excused, rx_reported>>

PushRx(size) ==
  LET n == Fits(rx, rx_limit, size) IN
  /\ DriverRuns /\ pushed + size <= MaxPushed
  /\ pushed' = pushed + size
  /\ rx' = rx \o Numbered(n, pushed)
  /\ rx_over' = (rx_over \/ n < size)
  /\ UNCHANGED <<phase, uart_threads, tx_queue, rx_limit, tx_history,
                 taken, rx_excused, rx_reported>>

ClearRx ==
  /\ DriverRuns /\ rx # <<>>
  /\ rx' = <<>>
  /\ rx_excused' = rx_excused \cup Elements(rx)
  /\ UNCHANGED <<phase, uart_threads, tx_queue, rx_limit, rx_over,
                 tx_history, pushed, taken, rx_reported>>

ClearOverflow ==
  /\ DriverRuns /\ (tx_over \/ rx_over)
  /\ tx_over' = FALSE /\ rx_over' = FALSE
  /\ tx_excused' = tx_excused \cup TxMissing
  /\ rx_excused' = rx_excused \cup RxMissing
  /\ UNCHANGED <<phase, uart_threads, tx, tx_limit, tx_total, rx, rx_limit,
                 offered, writer, wire, tx_reported, pushed, taken, rx_reported>>

(* Reported, or about to be: the bytes _txTotal counts.                    *)
Announced == Elements(tx_reported) \cup
             UNION {Elements(Pending(t)) : t \in {u \in UartThreads : event[u].kind = "tx"}}
------------------------------------------------------------------------------
Driver ==
  \/ \E size \in 1..MaxOffered : ReadTx(size)
  \/ ClearTx
  \/ \E size \in 1..MaxPushed : PushRx(size)
  \/ ClearRx
  \/ ClearOverflow

UartNext ==
  \/ MainLoops
  \/ UartBegin
  \/ UartConfig
  \/ \E size \in UartSizes : SetTxBufferSize(size)
  \/ \E size \in UartSizes : SetRxBufferSize(size)
  \/ UartFlush
  \/ UartRead
  \/ ClockWait
  \/ \E t \in UartThreads, size \in 1..MaxOffered : UartWrite(t, size)
  \/ \E t \in UartThreads : CallHook(t) \/ HookReturns(t)
  \/ Driver

UartSpec == UartInit /\ [][UartNext]_uart_vars

------------------------------------------------------------------------------
(* Every variable of the UART has its type, and no queue exceeds its limit *)
(* (the while loops of setTxBufferSize and setRxBufferSize).               *)
UartTypeOK ==
  /\ phase \in Phases
  /\ uart_pc \in [UartThreads -> {"idle", "report", "hook", "wait"}]
  /\ event \in [UartThreads -> [kind : {"none", "control", "tx", "rx", "rx_discard"},
                               bytes : Seq(Nat)]]
  /\ tx \in Seq(Nat) /\ tx_limit \in Nat \ {0} /\ Len(tx) <= tx_limit
  /\ rx \in Seq(Nat) /\ rx_limit \in Nat \ {0} /\ Len(rx) <= rx_limit
  /\ tx_over \in BOOLEAN /\ rx_over \in BOOLEAN /\ tx_total \in Nat
  /\ offered \in Nat /\ writer \in Seq(UartThreads) /\ Len(writer) = offered
  /\ wire \in Seq(Nat) /\ tx_excused \subseteq Nat
  /\ tx_reported \in Seq(Nat)
  /\ pushed \in Nat /\ taken \in Seq(Nat) /\ rx_excused \subseteq Nat
  /\ rx_reported \in Seq(Nat)

Increasing(s) == \A i, j \in 1..Len(s) : i < j => s[i] < s[j]

(* Bytes pass in the order in which they were offered, in both directions, *)
(* and none is lost in silence: a byte that is neither on its way nor      *)
(* passed on was cleared on purpose, or the sticky flag of its direction   *)
(* tells of it; and the flag tells of nothing else (HostUart.h:241-245).   *)
UartBytesAccounted ==
  /\ Increasing(wire \o tx) /\ Increasing(taken \o rx)
  /\ tx_over <=> ~(TxMissing \subseteq tx_excused)
  /\ rx_over <=> ~(RxMissing \subseteq rx_excused)

RxPending == IF event[UartMain].kind \in {"rx", "rx_discard"} THEN Pending(UartMain) ELSE <<>>
TxPending(t) == IF event[t].kind = "tx" THEN Pending(t) ELSE <<>>

(* The activity hook misses nothing and hears nothing twice: it has heard, *)
(* or a thread is about to tell it, of every byte on the wire, and of as   *)
(* many as the totals count.  It hears of what the sketch has read or      *)
(* flushed in that order, and of what one thread writes in the order in    *)
(* which that thread wrote it (HostUart.h:124-138).  Among the bytes of    *)
(* several writers no order is asked for: see UartTxInOrder.               *)
UartTraceFaithful ==
  /\ Elements(wire \o tx) \subseteq Announced
  /\ Cardinality(Announced) = tx_total
  /\ \A i, j \in 1..Len(tx_reported) :
       i < j /\ writer[tx_reported[i]] = writer[tx_reported[j]] => tx_reported[i] < tx_reported[j]
  /\ \A t \in UartThreads : \A i \in 1..Len(tx_reported), j \in 1..Len(TxPending(t)) :
       writer[tx_reported[i]] = t => tx_reported[i] < TxPending(t)[j]
  /\ rx_reported \o RxPending = taken

(* "What happened on the UART, in the order the sketch caused it"          *)
(* (HostUart.h:124): the hook hears of the bytes written in the order in   *)
(* which the queue took them.  The code breaks this when two threads       *)
(* write, as it calls the hook after it has released the lock.             *)
UartTxInOrder == Increasing(tx_reported)
================================================================================
