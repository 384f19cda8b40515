------------------------------- MODULE PortProofs -------------------------------
(***************************************************************************)
(* Proofs about the UART, the I2C and SPI buses, interrupts and the pins   *)
(* of Ports, for any threads, drivers, addresses, pins, channels, words,   *)
(* sizes and bounds.                                                       *)
(***************************************************************************)
EXTENDS Ports, NumberFacts, FiniteSetTheorems

(* A behaviour of the ports is a behaviour of each of them.                *)
LEMMA PortsStep ==
  ASSUME [PortsNext]_ports_vars
  PROVE  /\ [WireNext]_wire_vars
         /\ [InterruptNext]_irq_vars
         /\ [AnalogNext]_analog_vars
         /\ [UartNext]_uart_vars
         /\ [GpioNext]_gpio_vars
         /\ [SpiNext]_spi_vars
BY DEF PortsNext, ports_vars, beside_uart, beside_gpio, beside_analog, beside_irq, beside_wire,
       beside_spi, uart_vars, gpio_vars, analog_vars, irq_vars, wire_vars, spi_vars
------------------------------------------------------------------------------
(* Bytes numbered from a number on are a sequence of that many numbers.    *)
LEMMA FreshType ==
  ASSUME NEW n \in Nat, NEW from \in Nat
  PROVE  Fresh(n, from) \in Seq(Nat) /\ Len(Fresh(n, from)) = n
BY DEF Fresh

(* The bytes of a block that fit are no more than it has, and than there   *)
(* is room for.                                                            *)
LEMMA FewerType ==
  ASSUME NEW a \in Nat, NEW b \in Nat
  PROVE  /\ Fewer(a, b) \in 0..a /\ Fewer(a, b) <= b
         /\ Fewer(a, b) < a <=> b < a
BY DEF Fewer

(* No bytes are a sequence of none.                                        *)
LEMMA NoBytes == <<>> \in Seq(Nat) /\ Len(<<>>) = 0
OBVIOUS

(* Bytes that follow others are as many more.                              *)
LEMMA BytesFollow ==
  ASSUME NEW s \in Seq(Nat), NEW t \in Seq(Nat)
  PROVE  s \o t \in Seq(Nat) /\ Len(s \o t) = Len(s) + Len(t)
OBVIOUS

(* What is read next prolongs the prefix that was read.                    *)
LEMMA ReadNext ==
  ASSUME NEW s \in Seq(Nat), NEW i \in 0..Len(s), i < Len(s)
  PROVE  Append(SubSeq(s, 1, i), s[i + 1]) = SubSeq(s, 1, i + 1)
OBVIOUS

(* The inductive invariant of the bus, in two parts: the transmission,     *)
(* which is at the address it began with unless that was changed within    *)
(* it, and the request, whose buffer is the answer of the device.          *)
WireBytes ==
  /\ tx_buffer \in Seq(Nat) /\ Len(tx_buffer) <= BufferLength /\ tx_overflow \in BOOLEAN
  /\ meant \in Seq(Nat) /\ sent_bytes \in Nat
WireWhole ==
  /\ transmitting /\ ~flushed => (tx_overflow <=> Len(meant) > BufferLength)
  /\ transmitting /\ ~tx_overflow => tx_buffer = meant
  /\ transmitting /\ aimed # Idle => address = aimed
WireHeard ==
  /\ heard.data = heard.meant
  /\ heard.aimed # Idle => heard.address = heard.aimed
WireSends == WireBytes /\ WireWhole /\ WireHeard

WireReads ==
  /\ rx_buffer \in Seq(Nat) /\ rx_index \in 0..Len(rx_buffer) /\ supplied \in Nat
  /\ rx_buffer = answer /\ read_bytes = SubSeq(answer, 1, rx_index)

(* An answer that was not read yet.                                        *)
LEMMA NothingRead ==
  ASSUME rx_buffer' \in Seq(Nat), rx_index' = 0, supplied' \in Nat,
         answer' = rx_buffer', read_bytes' = <<>>
  PROVE  WireReads'
BY DEF WireReads

(* A request is read from its first byte on, whatever is called.           *)
LEMMA WireReadsInductive == WireReads /\ [WireNext]_wire_vars => WireReads'
<1> SUFFICES ASSUME WireReads, [WireNext]_wire_vars PROVE WireReads'
  OBVIOUS
<1>1. CASE UNCHANGED wire_rx
  BY <1>1 DEF WireReads, wire_rx
<1>2. ASSUME NEW a \in Addresses, NEW size \in Nat, RequestFrom(a, size) PROVE WireReads'
  <2>1. PICK n \in 0..Fewer(size, BufferLength) :
          /\ rx_buffer' = Fresh(n, supplied) /\ rx_index' = 0
          /\ answer' = rx_buffer' /\ supplied' = supplied + n
          /\ read_bytes' = <<>>
    BY <1>2 DEF RequestFrom
  <2>2. n \in Nat /\ supplied \in Nat
    BY WireAssumption, FewerType DEF WireReads
  <2>3. rx_buffer' \in Seq(Nat) /\ supplied' \in Nat
    BY <2>1, <2>2, FreshType
  <2> QED
    BY <2>1, <2>3, NothingRead
<1>3. ASSUME NEW a \in Addresses, NEW size \in Nat, RequestFromInt(a, size) PROVE WireReads'
  <2>1. size % ByteModulus \in Nat
    BY WireAssumption
  <2> QED
    BY <1>2, <1>3, <2>1 DEF RequestFromInt
<1>4. CASE WireEnd \/ WireFlush
  <2>1. /\ rx_buffer' = <<>> /\ rx_index' = 0 /\ answer' = <<>> /\ read_bytes' = <<>>
        /\ supplied' = supplied
    BY <1>4 DEF WireEnd, WireFlush
  <2> QED
    BY <2>1, NoBytes, NothingRead DEF WireReads
<1>5. CASE WireRead
  <2>1. /\ rx_index < Len(rx_buffer) /\ rx_index' = rx_index + 1
        /\ read_bytes' = Append(read_bytes, rx_buffer[rx_index + 1])
        /\ UNCHANGED <<rx_buffer, answer, supplied>>
    BY <1>5 DEF WireRead
  <2>2. read_bytes' = SubSeq(answer', 1, rx_index')
    BY <2>1, ReadNext DEF WireReads
  <2> QED
    BY <2>1, <2>2 DEF WireReads
<1> QED
  BY <1>1, <1>2, <1>3, <1>4, <1>5
  DEF WireNext, wire_vars, wire_rx, WireBegin, BeginTransmission, WireWrite, EndTransmission

(* A transmission is whole or overflowed, whatever is called within it.    *)
LEMMA WireSendsInductive == WireSends /\ [WireNext]_wire_vars => WireSends'
<1> SUFFICES ASSUME WireBytes, WireWhole, WireHeard, [WireNext]_wire_vars
             PROVE  WireBytes' /\ WireWhole' /\ WireHeard'
  BY DEF WireSends
<1> DEFINE Goal == WireBytes' /\ WireWhole' /\ WireHeard'
<1> USE WireAssumption
<1>1. CASE UNCHANGED <<address, wire_tx, heard>>
  BY <1>1 DEF WireBytes, WireWhole, WireHeard, wire_tx
<1>2. CASE /\ aimed' = (IF transmitting THEN Idle ELSE aimed)
           /\ UNCHANGED <<transmitting, tx_buffer, tx_overflow, meant, flushed, sent_bytes, heard>>
  <2>1. WireBytes' /\ WireHeard'
    BY <1>2 DEF WireBytes, WireHeard
  <2>2. WireWhole'
    BY <1>2 DEF WireWhole
  <2> QED
    BY <2>1, <2>2
<1>3. ASSUME NEW a \in Addresses, BeginTransmission(a) PROVE Goal
  <2>1. /\ tx_buffer' = <<>> /\ meant' = <<>> /\ tx_overflow' = FALSE
        /\ address' = a /\ aimed' = a /\ sent_bytes' = sent_bytes /\ heard' = heard
    BY <1>3 DEF BeginTransmission
  <2>2. WireBytes'
    <3>1. tx_buffer' \in Seq(Nat) /\ Len(tx_buffer') <= BufferLength
      BY <2>1, NoBytes
    <3>2. meant' \in Seq(Nat)
      BY <2>1, NoBytes
    <3> QED
      BY <2>1, <3>1, <3>2 DEF WireBytes
  <2>3. WireWhole'
    BY <2>1, NoBytes DEF WireWhole
  <2>4. WireHeard'
    BY <2>1 DEF WireHeard
  <2> QED
    BY <2>2, <2>3, <2>4
<1>4. CASE WireEnd
  <2>1. /\ tx_buffer' = <<>> /\ transmitting' = FALSE
        /\ UNCHANGED <<tx_overflow, meant, sent_bytes, heard>>
    BY <1>4 DEF WireEnd
  <2>2. WireBytes'
    BY <2>1, NoBytes DEF WireBytes
  <2>3. WireWhole' /\ WireHeard'
    BY <2>1 DEF WireWhole, WireHeard
  <2> QED
    BY <2>2, <2>3
<1>5. ASSUME NEW size \in Nat, WireWrite(size) PROVE Goal
  <2> DEFINE space == BufferLength - Len(tx_buffer)
             n == Fewer(size, space)
  <2>1. space \in Nat /\ Len(tx_buffer) \in Nat /\ Len(meant) \in Nat
    BY DEF WireBytes
  <2>2. n \in 0..size /\ n <= space /\ (n < size <=> space < size)
    BY <2>1, FewerType
  <2> DEFINE part == Fresh(n, sent_bytes)
             block == Fresh(size, sent_bytes)
  <2>3. /\ part \in Seq(Nat) /\ Len(part) = n
        /\ block \in Seq(Nat) /\ Len(block) = size
    <3>1. n \in Nat /\ sent_bytes \in Nat
      BY <2>2 DEF WireBytes
    <3> QED
      BY <3>1, FreshType
  <2>4. /\ transmitting
        /\ tx_buffer' = tx_buffer \o part /\ meant' = meant \o block
        /\ tx_overflow' = (tx_overflow \/ n < size)
        /\ sent_bytes' = sent_bytes + size
        /\ UNCHANGED <<address, transmitting, aimed, flushed, heard>>
    BY <1>5 DEF WireWrite
  <2>5. n = size => part = block
    OBVIOUS
  <2> HIDE DEF n, part, block
  <2>6. tx_buffer' \in Seq(Nat) /\ Len(tx_buffer') = Len(tx_buffer) + n
    <3>1. tx_buffer \in Seq(Nat)
      BY DEF WireBytes
    <3> QED
      BY <3>1, <2>3, <2>4, BytesFollow, Zenon
  <2>7. meant' \in Seq(Nat) /\ Len(meant') = Len(meant) + size
    BY <2>3, <2>4 DEF WireBytes
  <2>8. WireBytes'
    <3>1. sent_bytes' \in Nat /\ tx_overflow' \in BOOLEAN
      BY <2>4 DEF WireBytes
    <3>2. Len(tx_buffer') <= BufferLength
      BY <2>1, <2>2, <2>6
    <3> QED
      BY <2>6, <2>7, <3>1, <3>2 DEF WireBytes
  <2>9. ~tx_overflow' => tx_buffer' = meant'
    <3> SUFFICES ASSUME ~tx_overflow' PROVE tx_buffer' = meant'
      OBVIOUS
    <3>1. ~tx_overflow /\ ~(n < size)
      BY <2>4
    <3>2. n = size
      BY <3>1, <2>2
    <3>3. tx_buffer = meant
      BY <3>1, <2>4 DEF WireWhole
    <3> QED
      BY <3>2, <3>3, <2>4, <2>5
  <2>10. ~flushed' => (tx_overflow' <=> Len(meant') > BufferLength)
    <3> SUFFICES ASSUME ~flushed PROVE tx_overflow' <=> Len(meant) + size > BufferLength
      BY <2>4, <2>7
    <3>1. tx_overflow <=> Len(meant) > BufferLength
      BY <2>4 DEF WireWhole
    <3> tx_overflow \in BOOLEAN
      BY DEF WireBytes
    <3>2. CASE tx_overflow
      <4>1. tx_overflow'
        BY <3>2, <2>4
      <4> QED
        BY <3>1, <3>2, <4>1, <2>1
    <3>3. CASE ~tx_overflow
      <4>1. tx_buffer = meant
        BY <3>3, <2>4 DEF WireWhole
      <4>2. tx_overflow' <=> n < size
        BY <3>3, <2>4
      <4> QED
        BY <4>1, <4>2, <2>1, <2>2
    <3> QED
      BY <3>2, <3>3
  <2>11. WireWhole'
    BY <2>4, <2>9, <2>10 DEF WireWhole
  <2>12. WireHeard'
    BY <2>4 DEF WireHeard
  <2> QED
    BY <2>8, <2>11, <2>12
<1>6. CASE EndTransmission
  <2>1. /\ transmitting /\ transmitting' = FALSE /\ tx_buffer' = <<>>
        /\ UNCHANGED <<tx_overflow, meant, sent_bytes>>
        /\ heard' = IF tx_overflow THEN heard
                    ELSE [address |-> address, data |-> tx_buffer, aimed |-> aimed, meant |-> meant]
    BY <1>6 DEF EndTransmission
  <2>2. WireBytes'
    BY <2>1, NoBytes DEF WireBytes
  <2>3. WireHeard'
    BY <2>1 DEF WireWhole, WireHeard
  <2> QED
    BY <2>1, <2>2, <2>3 DEF WireWhole
<1>7. CASE WireFlush
  <2>1. /\ tx_buffer' = <<>> /\ meant' = <<>> /\ flushed' = TRUE
        /\ UNCHANGED <<address, transmitting, tx_overflow, aimed, sent_bytes, heard>>
    BY <1>7 DEF WireFlush
  <2>2. WireBytes'
    BY <2>1, NoBytes DEF WireBytes
  <2>3. WireWhole' /\ WireHeard'
    BY <2>1 DEF WireWhole, WireHeard
  <2> QED
    BY <2>2, <2>3
<1>8. ASSUME NEW a \in Addresses, WireBegin(a) PROVE Goal
  BY <1>8, <1>2 DEF WireBegin
<1>9. ASSUME NEW a \in Addresses, NEW size \in Nat, RequestFrom(a, size) PROVE Goal
  BY <1>9, <1>2 DEF RequestFrom
<1>10. ASSUME NEW a \in Addresses, NEW size \in Nat, RequestFromInt(a, size) PROVE Goal
  <2>1. size % ByteModulus \in Nat
    OBVIOUS
  <2> QED
    BY <1>9, <1>10, <2>1 DEF RequestFromInt
<1> QED
  BY <1>1, <1>3, <1>4, <1>5, <1>6, <1>7, <1>8, <1>9, <1>10
  DEF WireNext, wire_vars, wire_tx, WireRead

LEMMA WireCorrect == PortsSpec => [](WireSends /\ WireReads)
<1>1. PortsInit => WireSends /\ WireReads
  <2> SUFFICES ASSUME PortsInit PROVE WireSends /\ WireReads
    OBVIOUS
  <2>1. /\ tx_buffer = <<>> /\ meant = <<>> /\ rx_buffer = <<>> /\ answer = <<>>
        /\ read_bytes = <<>> /\ rx_index = 0 /\ supplied = 0 /\ sent_bytes = 0
        /\ tx_overflow = FALSE /\ transmitting = FALSE
    BY DEF PortsInit, WireInit
  <2>2. heard.data = heard.meant /\ heard.aimed = Idle
    BY DEF PortsInit, WireInit, Silence
  <2>3. WireSends
    <3>1. tx_buffer \in Seq(Nat) /\ Len(tx_buffer) <= BufferLength
      BY <2>1, NoBytes, WireAssumption
    <3>2. meant \in Seq(Nat)
      BY <2>1, NoBytes
    <3>3. WireBytes
      BY <2>1, <3>1, <3>2 DEF WireBytes
    <3>4. WireWhole /\ WireHeard
      BY <2>1, <2>2 DEF WireWhole, WireHeard
    <3> QED
      BY <3>3, <3>4 DEF WireSends
  <2>4. WireReads
    BY <2>1, NoBytes DEF WireReads
  <2> QED
    BY <2>3, <2>4
<1>2. WireSends /\ WireReads /\ [PortsNext]_ports_vars => (WireSends /\ WireReads)'
  BY PortsStep, WireSendsInductive, WireReadsInductive
<1> QED
  BY <1>1, <1>2, PTL DEF PortsSpec

(* A device hears whole transmissions at the address they began with, none *)
(* in part, and a request is read from its first byte on, for any buffer   *)
(* and any sizes (Wire.cpp:74-102).                                        *)
THEOREM WireTransactions == PortsSpec => []WireTransactionsWhole
<1>1. WireSends /\ WireReads => WireTransactionsWhole
  BY DEF WireSends, WireWhole, WireHeard, WireReads, WireTransactionsWhole
<1> QED
  BY <1>1, WireCorrect, PTL
------------------------------------------------------------------------------
(* The inductive invariant of interrupts.  A reset leaves its mark on      *)
(* every trigger in progress, so one that is counted has only counted ones *)
(* within it: when the innermost one returns uncounted, no other of its    *)
(* pin is counted and the depth is 0.                                      *)
IrqShape ==
  /\ handler \in [IrqPins -> Handlers \cup {NoHandler}]
  /\ depth \in [IrqPins -> Nat] /\ traced \in [IrqPins -> Int]
  /\ stack \in Seq(Frames) /\ Len(stack) <= MaxNesting

CountedInnermost ==
  \A i, j \in 1..Len(stack) : i < j /\ stack[i].counted => stack[j].counted

IrqInv == IrqShape /\ CountedInnermost /\ InterruptDepthTells

(* A frame that has moved is a frame.                                      *)
LEMMA FrameMoves ==
  ASSUME NEW f \in Frames, NEW at \in {"enter", "handler", "exit"}
  PROVE  /\ [f EXCEPT !.at = at] \in Frames
         /\ [f EXCEPT !.at = at].at = at
         /\ [f EXCEPT !.at = at].pin = f.pin /\ [f EXCEPT !.at = at].counted = f.counted
BY DEF Frames

(* And so is one that a reset has marked.                                  *)
LEMMA FrameMarked ==
  ASSUME NEW f \in Frames
  PROVE  /\ [f EXCEPT !.counted = FALSE] \in Frames
         /\ [f EXCEPT !.counted = FALSE].counted = FALSE
         /\ [f EXCEPT !.counted = FALSE].pin = f.pin /\ [f EXCEPT !.counted = FALSE].at = f.at
BY DEF Frames

(* A stack has frames only.                                                *)
LEMMA StackType ==
  ASSUME IrqShape
  PROVE  Len(stack) \in Nat /\ \A i \in 1..Len(stack) : stack[i] \in Frames
BY DEF IrqShape

(* A sequence with one element replaced, and one without its last.         *)
LEMMA ReplaceOne ==
  ASSUME NEW S, NEW s \in Seq(S), NEW n \in 1..Len(s), NEW x \in S
  PROVE  LET t == [s EXCEPT ![n] = x] IN
         /\ t \in Seq(S) /\ Len(t) = Len(s)
         /\ \A i \in 1..Len(s) : t[i] = IF i = n THEN x ELSE s[i]
OBVIOUS

LEMMA DropLast ==
  ASSUME NEW S, NEW s \in Seq(S), Len(s) > 0
  PROVE  LET t == SubSeq(s, 1, Len(s) - 1) IN
         /\ t \in Seq(S) /\ Len(t) = Len(s) - 1
         /\ \A i \in 1..Len(s) - 1 : t[i] = s[i]
<1> DEFINE n == Len(s) - 1
<1>1. n \in Nat /\ n <= Len(s)
  OBVIOUS
<1>2. SubSeq(s, 1, n) = [i \in 1..n |-> s[i]]
  BY <1>1
<1>3. \A i \in 1..n : s[i] \in S
  BY <1>1
<1>4. [i \in 1..n |-> s[i]] \in Seq(S) /\ Len([i \in 1..n |-> s[i]]) = n
  BY <1>1, <1>3
<1> QED
  BY <1>2, <1>4, Zenon

(* The innermost frame moves, and no other does.                           *)
LEMMA TopMoves ==
  ASSUME IrqShape, stack # <<>>, NEW at \in {"enter", "handler", "exit"},
         stack' = [stack EXCEPT ![Len(stack)].at = at]
  PROVE  /\ Len(stack) \in 1..Len(stack)
         /\ stack' \in Seq(Frames) /\ Len(stack') = Len(stack) /\ stack'[Len(stack)].at = at
         /\ \A i \in 1..Len(stack) : /\ stack'[i].pin = stack[i].pin
                                     /\ stack'[i].counted = stack[i].counted
                                     /\ i # Len(stack) => stack'[i].at = stack[i].at
<1> DEFINE n == Len(stack)
           top == [stack[n] EXCEPT !.at = at]
<1>1. n \in Nat /\ n # 0
  BY DEF IrqShape
<1>2. n \in 1..n
  BY <1>1
<1>3. /\ top \in Frames /\ top.at = at /\ top.pin = stack[n].pin
      /\ top.counted = stack[n].counted
  BY <1>2, StackType, FrameMoves
<1>4. stack' = [stack EXCEPT ![n] = top]
  OBVIOUS
<1> HIDE DEF top
<1>5. /\ stack' \in Seq(Frames) /\ Len(stack') = n
      /\ \A i \in 1..n : stack'[i] = IF i = n THEN top ELSE stack[i]
  <2>1. stack \in Seq(Frames)
    BY DEF IrqShape
  <2> QED
    BY <1>2, <1>3, <1>4, <2>1, ReplaceOne
<1> QED
  BY <1>2, <1>3, <1>5

(* The triggers of a pin that are in progress are finitely many.           *)
LEMMA TriggersFinite ==
  ASSUME IrqShape, NEW p \in IrqPins
  PROVE  /\ IsFiniteSet(Running(p)) /\ IsFiniteSet(Counted(p))
         /\ Cardinality(Running(p)) \in Nat /\ Cardinality(Counted(p)) \in Nat
         /\ Cardinality(Counted(p)) <= Len(stack)
<1>1. Len(stack) \in Nat
  BY DEF IrqShape
<1>2. IsFiniteSet(1..Len(stack)) /\ Cardinality(1..Len(stack)) = Len(stack)
  <2>1. /\ IsFiniteSet(1..Len(stack))
        /\ Cardinality(1..Len(stack)) = IF 1 > Len(stack) THEN 0 ELSE Len(stack) - 1 + 1
    <3>1. 1 \in Int /\ Len(stack) \in Int
      BY <1>1
    <3> QED
      BY <3>1, FS_Interval, Zenon
  <2> QED
    BY <1>1, <2>1
<1>3. Running(p) \in SUBSET (1..Len(stack)) /\ Counted(p) \in SUBSET (1..Len(stack))
  BY DEF Running, Counted
<1>4. /\ IsFiniteSet(Running(p)) /\ IsFiniteSet(Counted(p))
      /\ Cardinality(Counted(p)) <= Len(stack)
  BY <1>2, <1>3, FS_Subset
<1> QED
  BY <1>4, FS_CardinalityType

(* Whatever handlers and hooks call, no call breaks the invariant.         *)
LEMMA IrqInvInductive == IrqInv /\ [InterruptNext]_irq_vars => IrqInv'
<1> SUFFICES ASSUME IrqInv, [InterruptNext]_irq_vars PROVE IrqInv'
  OBVIOUS
<1> USE InterruptAssumption
<1> DEFINE n == Len(stack)
<1>0. /\ IrqShape /\ CountedInnermost /\ InterruptDepthTells
      /\ n \in Nat /\ n <= MaxNesting
  BY DEF IrqInv, IrqShape
<1>1. CASE /\ UNCHANGED <<depth, stack, traced>>
           /\ handler' \in [IrqPins -> Handlers \cup {NoHandler}]
  BY <1>0, <1>1 DEF IrqInv, IrqShape, CountedInnermost, InterruptDepthTells, Running, Counted
<1>2. ASSUME NEW p \in IrqPins, TriggerInterrupt(p) PROVE IrqInv'
  <2> DEFINE frame == [pin |-> p, runs |-> handler[p], at |-> "enter", counted |-> TRUE]
  <2>1. /\ n < MaxNesting /\ handler[p] # NoHandler
        /\ depth' = [depth EXCEPT ![p] = (@ + 1) % DepthModulus]
        /\ stack' = Append(stack, frame)
        /\ traced' = [traced EXCEPT ![p] = @ + 1]
        /\ handler' = handler
    BY <1>2 DEF TriggerInterrupt
  <2>2. frame \in Frames
    BY <1>0, <2>1 DEF Frames, IrqShape
  <2> HIDE DEF frame
  <2>3. /\ stack' \in Seq(Frames) /\ Len(stack') = n + 1 /\ stack'[n + 1] = frame
        /\ \A i \in 1..n : stack'[i] = stack[i]
    BY <1>0, <2>1, <2>2 DEF IrqShape
  <2>4. frame.pin = p /\ frame.at = "enter" /\ frame.counted
    BY DEF frame
  <2>5. depth[p] = Cardinality(Counted(p)) /\ depth[p] \in Nat /\ depth[p] <= n
    BY <1>0, TriggersFinite DEF InterruptDepthTells, IrqShape
  <2>6. (depth[p] + 1) % DepthModulus = depth[p] + 1
    BY <2>1, <2>5, <1>0
  <2>7. IrqShape'
    BY <1>0, <2>1, <2>3, <2>5, <2>6 DEF IrqShape
  <2>8. CountedInnermost'
    BY <1>0, <2>3, <2>4 DEF CountedInnermost
  <2>9. ASSUME NEW q \in IrqPins
        PROVE  /\ depth'[q] = Cardinality(Counted(q)')
               /\ traced'[q] = Cardinality(Running(q)')
    <3>1. IsFiniteSet(Running(q)) /\ IsFiniteSet(Counted(q))
      BY <1>0, TriggersFinite
    <3>2. n + 1 \notin Running(q) /\ n + 1 \notin Counted(q)
      BY <1>0 DEF Running, Counted
    <3>3. /\ depth[q] = Cardinality(Counted(q)) /\ traced[q] = Cardinality(Running(q))
          /\ traced[q] \in Int
      BY <1>0 DEF InterruptDepthTells, IrqShape
    <3>4. CASE q = p
      <4>1. Running(q)' = Running(q) \cup {n + 1} /\ Counted(q)' = Counted(q) \cup {n + 1}
        BY <1>0, <2>3, <2>4, <3>4 DEF Running, Counted
      <4>2. /\ Cardinality(Running(q)') = Cardinality(Running(q)) + 1
            /\ Cardinality(Counted(q)') = Cardinality(Counted(q)) + 1
        BY <3>1, <3>2, <4>1, FS_AddElement
      <4>3. depth'[q] = depth[q] + 1 /\ traced'[q] = traced[q] + 1
        BY <1>0, <2>1, <2>6, <3>4 DEF IrqShape
      <4> QED
        BY <3>3, <4>2, <4>3
    <3>5. CASE q # p
      <4>1. Running(q)' = Running(q) /\ Counted(q)' = Counted(q)
        BY <1>0, <2>3, <2>4, <3>5 DEF Running, Counted
      <4>2. depth'[q] = depth[q] /\ traced'[q] = traced[q]
        BY <1>0, <2>1, <3>5 DEF IrqShape
      <4> QED
        BY <3>3, <4>1, <4>2
    <3> QED
      BY <3>4, <3>5
  <2> QED
    BY <2>7, <2>8, <2>9 DEF IrqInv, InterruptDepthTells
<1>3. CASE RunHandler
  <2>1. /\ stack # <<>> /\ stack[n].at = "enter"
        /\ stack' = [stack EXCEPT ![n].at = "handler"]
        /\ UNCHANGED <<handler, depth, traced>>
    BY <1>3 DEF RunHandler, Top, Moves
  <2>2. /\ stack' \in Seq(Frames) /\ Len(stack') = n
        /\ \A i \in 1..n : /\ stack'[i].pin = stack[i].pin
                           /\ stack'[i].counted = stack[i].counted
                           /\ stack'[i].at # "exit" <=> stack[i].at # "exit"
    BY <1>0, <2>1, TopMoves
  <2>3. \A p \in IrqPins : Running(p)' = Running(p) /\ Counted(p)' = Counted(p)
    BY <2>2 DEF Running, Counted
  <2>4. IrqShape' /\ CountedInnermost'
    BY <1>0, <2>1, <2>2 DEF IrqShape, CountedInnermost
  <2> QED
    BY <1>0, <2>1, <2>3, <2>4 DEF IrqInv, InterruptDepthTells
<1>4. CASE HandlerReturns
  <2> DEFINE p == stack[n].pin
  <2>1. /\ stack # <<>> /\ stack[n].at = "handler"
        /\ stack' = [stack EXCEPT ![n].at = "exit"]
        /\ depth' = [depth EXCEPT ![p] = IF @ > 0 THEN @ - 1 ELSE @]
        /\ traced' = [traced EXCEPT ![p] = @ - 1]
        /\ handler' = handler
    BY <1>4 DEF HandlerReturns, Top, Moves
  <2>2. n \in 1..n /\ stack[n] \in Frames /\ p \in IrqPins
    <3>1. n \in 1..n
      BY <1>0, <2>1, TopMoves
    <3> QED
      BY <1>0, <3>1, StackType DEF Frames
  <2>3. /\ stack' \in Seq(Frames) /\ Len(stack') = n /\ stack'[n].at = "exit"
        /\ \A i \in 1..n : /\ stack'[i].pin = stack[i].pin
                           /\ stack'[i].counted = stack[i].counted
                           /\ i # n => stack'[i].at = stack[i].at
    BY <1>0, <2>1, TopMoves
  <2> HIDE DEF p
  <2>4. IrqShape'
    BY <1>0, <2>1, <2>2, <2>3 DEF IrqShape
  <2>5. CountedInnermost'
    BY <1>0, <2>3 DEF CountedInnermost
  <2>6. ASSUME NEW q \in IrqPins
        PROVE  /\ depth'[q] = Cardinality(Counted(q)')
               /\ traced'[q] = Cardinality(Running(q)')
    <3>1. /\ IsFiniteSet(Running(q)) /\ IsFiniteSet(Counted(q))
          /\ Cardinality(Counted(q)) \in Nat /\ Cardinality(Running(q)) \in Nat
      BY <1>0, TriggersFinite
    <3>2. /\ depth[q] = Cardinality(Counted(q)) /\ traced[q] = Cardinality(Running(q))
      BY <1>0 DEF InterruptDepthTells
    <3>3. CASE q # p
      <4>1. Running(q)' = Running(q) /\ Counted(q)' = Counted(q)
        BY <2>2, <2>3, <3>3 DEF Running, Counted, p
      <4>2. depth'[q] = depth[q] /\ traced'[q] = traced[q]
        BY <1>0, <2>1, <3>3 DEF IrqShape
      <4> QED
        BY <3>2, <4>1, <4>2
    <3>4. CASE q = p
      <4>1. n \in Running(q) /\ Running(q)' = Running(q) \ {n}
        BY <2>1, <2>2, <2>3, <3>4 DEF Running, p
      <4>2. Cardinality(Running(q)') = Cardinality(Running(q)) - 1
        BY <3>1, <4>1, FS_RemoveElement
      <4>3. traced'[q] = traced[q] - 1
        BY <1>0, <2>1, <3>4 DEF IrqShape
      <4>4. depth'[q] = IF depth[q] > 0 THEN depth[q] - 1 ELSE depth[q]
        BY <1>0, <2>1, <3>4 DEF IrqShape
      <4>5. CASE stack[n].counted
        <5>1. n \in Counted(q) /\ Counted(q)' = Counted(q) \ {n}
          <6>1. \A i \in Running(q) : i \in 1..n
            BY DEF Running
          <6> QED
            BY <2>2, <2>3, <4>1, <4>5, <6>1 DEF Counted
        <5>2. Cardinality(Counted(q)') = Cardinality(Counted(q)) - 1
          BY <3>1, <5>1, FS_RemoveElement
        <5>3. Cardinality(Counted(q)) # 0
          BY <3>1, <5>1, FS_EmptySet
        <5> QED
          BY <3>1, <3>2, <4>2, <4>3, <4>4, <5>2, <5>3
      <4>6. CASE ~stack[n].counted
        <5>1. Counted(q) = {} /\ Counted(q)' = {}
          BY <1>0, <2>2, <2>3, <4>1, <4>6 DEF Counted, Running, CountedInnermost
        <5> QED
          BY <3>2, <4>2, <4>3, <4>4, <5>1, FS_EmptySet
      <4> QED
        BY <4>5, <4>6
    <3> QED
      BY <3>3, <3>4
  <2> QED
    BY <2>4, <2>5, <2>6 DEF IrqInv, InterruptDepthTells
<1>5. CASE TriggerReturns
  <2>1. /\ stack # <<>> /\ stack[n].at = "exit"
        /\ stack' = SubSeq(stack, 1, n - 1)
        /\ UNCHANGED <<handler, depth, traced>>
    BY <1>5 DEF TriggerReturns, Top
  <2>2. n > 0
    BY <1>0, <2>1 DEF IrqShape
  <2>3. /\ stack' \in Seq(Frames) /\ Len(stack') = n - 1
        /\ \A i \in 1..n - 1 : stack'[i] = stack[i]
    <3>1. stack \in Seq(Frames)
      BY <1>0 DEF IrqShape
    <3> QED
      BY <2>1, <2>2, <3>1, DropLast, Zenon
  <2>4. \A p \in IrqPins : Running(p)' = Running(p) /\ Counted(p)' = Counted(p)
    BY <1>0, <2>1, <2>2, <2>3 DEF Running, Counted
  <2>5. IrqShape'
    BY <1>0, <2>1, <2>3 DEF IrqShape
  <2>6. ASSUME NEW i \in 1..n - 1, NEW j \in 1..n - 1, i < j, stack'[i].counted
        PROVE  stack'[j].counted
    <3>1. i \in 1..n /\ j \in 1..n
      BY <1>0
    <3> QED
      BY <1>0, <2>3, <2>6, <3>1 DEF CountedInnermost
  <2>7. CountedInnermost'
    BY <2>3, <2>6 DEF CountedInnermost
  <2> QED
    BY <1>0, <2>1, <2>4, <2>5, <2>7 DEF IrqInv, InterruptDepthTells
<1>6. CASE ResetInterrupts
  <2>1. /\ stack' = [i \in 1..n |-> [stack[i] EXCEPT !.counted = FALSE]]
        /\ depth' = [p \in IrqPins |-> 0] /\ traced' = traced
        /\ handler' = [p \in IrqPins |-> NoHandler]
    BY <1>6 DEF ResetInterrupts
  <2>2. \A i \in 1..n : [stack[i] EXCEPT !.counted = FALSE] \in Frames
    BY <1>0, StackType, FrameMarked
  <2>3. /\ stack' \in Seq(Frames) /\ Len(stack') = n
    BY <1>0, <2>1, <2>2
  <2>4. \A i \in 1..n : /\ stack'[i].pin = stack[i].pin /\ stack'[i].at = stack[i].at
                        /\ stack'[i].counted = FALSE
    BY <1>0, <2>1, StackType, FrameMarked
  <2>5. \A p \in IrqPins : Running(p)' = Running(p) /\ Counted(p)' = {}
    BY <2>3, <2>4 DEF Running, Counted
  <2>6. IrqShape' /\ CountedInnermost'
    BY <1>0, <2>1, <2>3, <2>4 DEF IrqShape, CountedInnermost
  <2> QED
    BY <1>0, <2>1, <2>5, <2>6, FS_EmptySet DEF IrqInv, InterruptDepthTells
<1>7. ASSUME NEW p \in IrqPins, NEW h \in Handlers, AttachInterrupt(p, h) PROVE IrqInv'
  BY <1>0, <1>1, <1>7 DEF AttachInterrupt, IrqShape
<1>8. ASSUME NEW p \in IrqPins, DetachInterrupt(p) PROVE IrqInv'
  BY <1>0, <1>1, <1>8 DEF DetachInterrupt, IrqShape
<1>9. CASE UNCHANGED irq_vars
  BY <1>0, <1>1, <1>9 DEF irq_vars, IrqShape
<1> QED
  BY <1>2, <1>3, <1>4, <1>5, <1>6, <1>7, <1>8, <1>9 DEF InterruptNext

LEMMA IrqCorrect == PortsSpec => []IrqInv
<1>1. PortsInit => IrqInv
  <2> SUFFICES ASSUME PortsInit PROVE IrqInv
    OBVIOUS
  <2>1. stack = <<>> /\ handler = [p \in IrqPins |-> NoHandler]
        /\ depth = [p \in IrqPins |-> 0] /\ traced = [p \in IrqPins |-> 0]
    BY DEF PortsInit, InterruptInit
  <2>2. stack \in Seq(Frames) /\ Len(stack) = 0
    BY <2>1
  <2>3. \A p \in IrqPins : Running(p) = {} /\ Counted(p) = {}
    BY <2>2 DEF Running, Counted
  <2>4. IrqShape /\ CountedInnermost
    BY <2>1, <2>2, InterruptAssumption DEF IrqShape, CountedInnermost
  <2> QED
    BY <2>1, <2>3, <2>4, FS_EmptySet DEF IrqInv, InterruptDepthTells
<1>2. IrqInv /\ [PortsNext]_ports_vars => IrqInv'
  BY PortsStep, IrqInvInductive
<1> QED
  BY <1>1, <1>2, PTL DEF PortsSpec

(* slot.depth tells the nesting of the handler of each pin, for any number *)
(* of pins and any nesting below 256, whatever handlers and hooks call     *)
(* (HostInterrupt.cpp:139-190).                                            *)
THEOREM InterruptDepth == PortsSpec => []InterruptDepthTells
<1>1. IrqInv => InterruptDepthTells
  BY DEF IrqInv
<1> QED
  BY <1>1, IrqCorrect, PTL
------------------------------------------------------------------------------
(* Lowest finds the least number of a set.                                 *)
LEMMA LeastElement ==
  ASSUME NEW S \in SUBSET Nat, S # {}
  PROVE  Lowest(S) \in S
<1>1. \E n \in S : \A m \in S : n <= m
  BY LeastNumber
<1> QED
  BY <1>1, Zenon DEF Lowest

(* The slots there are.                                                    *)
Slots ==
  [channel : Channels \cup {Nothing}, duty : Nat, frequency : Nat,
   resolution : Nat, attached : BOOLEAN, dac : BOOLEAN]

SameChannel(s, t) == s.channel = t.channel /\ s.attached = t.attached /\ s.dac = t.dac
SameTuning(s, t) == s.frequency = t.frequency /\ s.resolution = t.resolution

(* The inductive invariant of the analog port.                             *)
AnalogShape ==
  /\ analog \in [Pins -> Slots]
  /\ write_bits \in Nat /\ write_hz \in Nat /\ toned \in Pins \cup {Nothing}
AnalogInv == AnalogShape /\ BusSharing /\ BusToneGivesBack

(* A write of a duty changes nothing else of a slot.                       *)
LEMMA DutySlot ==
  ASSUME NEW s \in Slots, NEW d \in Nat, NEW r \in Nat
  PROVE  LET t == [s EXCEPT !.duty = ClampDuty(d, r)] IN
         t \in Slots /\ SameChannel(t, s) /\ SameTuning(t, s)
<1>1. ClampDuty(d, r) \in Nat
  <2>1. Power(2)[r] \in Nat \ {0}
    BY PowerPositive
  <2> QED
    BY <2>1 DEF ClampDuty
<1> QED
  BY <1>1 DEF Slots, SameChannel, SameTuning

(* A retuned slot stays on its channel.                                    *)
LEMMA RetunedSlot ==
  ASSUME NEW s \in Slots, NEW f \in Nat, NEW r \in Nat
  PROVE  LET t == [s EXCEPT !.frequency = f, !.resolution = r] IN
         t \in Slots /\ SameChannel(t, s)
BY DEF Slots, SameChannel

(* So does one that plays a tone; silence does not retune it.              *)
LEMMA TonedSlot ==
  ASSUME NEW s \in Slots, NEW f \in Nat
  PROVE  /\ Toned(s, f) \in Slots /\ SameChannel(Toned(s, f), s)
         /\ f = 0 => SameTuning(Toned(s, f), s)
<1>1. 0 \in Nat /\ ToneDuty \in Nat /\ ToneResolution \in Nat
  BY BusAssumption
<1>2. CASE f = 0
  BY <1>1, <1>2 DEF Toned, Slots, SameChannel, SameTuning
<1>3. CASE f # 0
  BY <1>1, <1>3 DEF Toned, Slots, SameChannel
<1> QED
  BY <1>2, <1>3

(* A detached slot is on no channel.                                       *)
LEMMA DetachedSlot ==
  ASSUME NEW s \in Slots
  PROVE  Detached(s) \in Slots /\ ~Detached(s).attached
BY DEF Detached, Slots

(* A slot is attached to the channel it is attached to.                    *)
LEMMA AttachedOn ==
  ASSUME NEW p, NEW f, NEW r, NEW c, analog[p] \in Slots
  PROVE  Attached(p, f, r, c).channel = c
BY DEF Attached, Slots

(* An attached slot is on its channel, and tuned as the lowest pin there.  *)
LEMMA AttachedSlot ==
  ASSUME AnalogShape, NEW p \in Pins, NEW f \in Nat, NEW r \in Nat, NEW c \in Channels
  PROVE  LET t == Attached(p, f, r, c) IN
         /\ t \in Slots /\ t.attached /\ ~t.dac /\ t.channel = c
         /\ OnChannel(c) # {} =>
              Lowest(OnChannel(c)) \in OnChannel(c) /\ SameTuning(t, analog[Lowest(OnChannel(c))])
<1>1. analog[p] \in Slots
  BY DEF AnalogShape
<1>2. CASE OnChannel(c) = {}
  BY <1>1, <1>2 DEF Attached, Slots
<1>3. CASE OnChannel(c) # {}
  <2> DEFINE first == analog[Lowest(OnChannel(c))]
  <2>1. Lowest(OnChannel(c)) \in OnChannel(c)
    BY <1>3, LeastElement, BusAssumption DEF OnChannel
  <2>2. first \in Slots
    BY <2>1 DEF AnalogShape, OnChannel
  <2>3. first.frequency \in Nat /\ first.resolution \in Nat
    BY <2>2 DEF Slots
  <2>4. Attached(p, f, r, c) = [analog[p] EXCEPT !.channel = c, !.frequency = first.frequency,
                                  !.resolution = first.resolution, !.attached = TRUE, !.dac = FALSE]
    BY <1>3 DEF Attached
  <2> HIDE DEF first
  <2> QED
    BY <1>1, <1>3, <2>1, <2>3, <2>4 DEF Slots, SameTuning, first
<1> QED
  BY <1>2, <1>3

(* A free channel is one.                                                  *)
LEMMA FreeChannel ==
  ASSUME FreeChannels # {}
  PROVE  Lowest(FreeChannels) \in Channels /\ OnChannel(Lowest(FreeChannels)) = {}
BY LeastElement, BusAssumption DEF FreeChannels

(* One pin changes, and the pins that share a channel with it then may.    *)
LEMMA SharingKept ==
  ASSUME AnalogInv, NEW p \in Pins, NEW slot \in Slots,
         analog' = [analog EXCEPT ![p] = slot],
         \A q \in Pins \ {p} : q \in asked => q \in asked',
         \A c \in retuned : c \in retuned' \/ OnChannel(c)' = {},
         \A c \in Channels : \A q \in OnChannel(c) \ {p} :
           slot.attached /\ ~slot.dac /\ slot.channel = c =>
             /\ p \in asked' \/ q \in asked'
             /\ c \notin retuned' => SameTuning(slot, analog[q])
  PROVE  analog' \in [Pins -> Slots] /\ BusSharing'
<1>1. analog \in [Pins -> Slots] /\ BusSharing
  BY DEF AnalogInv, AnalogShape
<1>2. /\ analog' \in [Pins -> Slots] /\ analog'[p] = slot
      /\ \A q \in Pins \ {p} : analog'[q] = analog[q]
  BY <1>1
<1>3. ASSUME NEW c \in Channels, NEW q \in OnChannel(c)' \ {p}
      PROVE  q \in OnChannel(c) /\ q \in Pins /\ analog'[q] = analog[q]
  BY <1>2, <1>3 DEF OnChannel, LedcSlot
<1>4. ASSUME NEW c \in Channels, NEW q \in Pins, p # q, p \in OnChannel(c)', q \in OnChannel(c)'
      PROVE  /\ p \in asked' \/ q \in asked'
             /\ c \notin retuned' => /\ analog'[p].frequency = analog'[q].frequency
                                     /\ analog'[p].resolution = analog'[q].resolution
  <2>1. slot.attached /\ ~slot.dac /\ slot.channel = c
    BY <1>2, <1>4 DEF OnChannel, LedcSlot
  <2>2. q \in OnChannel(c) \ {p} /\ analog'[q] = analog[q]
    BY <1>3, <1>4
  <2> QED
    BY <1>2, <2>1, <2>2 DEF SameTuning
<1>5. ASSUME NEW c \in Channels, NEW q \in Pins \ {p}, NEW u \in Pins \ {p}, u # q,
             u \in OnChannel(c)', q \in OnChannel(c)'
      PROVE  /\ u \in asked' \/ q \in asked'
             /\ c \notin retuned' => /\ analog'[u].frequency = analog'[q].frequency
                                     /\ analog'[u].resolution = analog'[q].resolution
  <2>1. u \in OnChannel(c) /\ q \in OnChannel(c) /\ analog'[u] = analog[u] /\ analog'[q] = analog[q]
    BY <1>3, <1>5
  <2>2. c \notin retuned' => c \notin retuned
    BY <1>5
  <2>3. u \in Pins /\ q \in Pins /\ u # q
    BY <1>5
  <2>4. /\ u \in asked \/ q \in asked
        /\ c \notin retuned => /\ analog[u].frequency = analog[q].frequency
                               /\ analog[u].resolution = analog[q].resolution
    BY <1>1, <2>1, <2>3, Zenon DEF BusSharing
  <2> QED
    BY <1>5, <2>1, <2>2, <2>4
<1> QED
  BY <1>2, <1>4, <1>5 DEF BusSharing

(* A channel that Retunes keeps the mark of has pins, and one that it      *)
(* marks has, too.                                                         *)
LEMMA RetunesMarks ==
  ASSUME NEW R, Retunes(R)
  PROVE  /\ \A c \in retuned : c \in retuned' \/ OnChannel(c)' = {}
         /\ \A c \in R : OnChannel(c)' # {} => c \in retuned'
BY DEF Retunes

(* A pin stays on its channel: it keeps its tuning, or the channel is      *)
(* marked.                                                                 *)
LEMMA PinStays ==
  ASSUME AnalogInv, NEW p \in Pins, NEW slot \in Slots, LedcSlot(p),
         SameChannel(slot, analog[p]), analog' = [analog EXCEPT ![p] = slot],
         \/ SameTuning(slot, analog[p]) /\ (retuned' = retuned \/ Retunes({}))
         \/ Retunes({analog[p].channel}),
         UNCHANGED <<asked, toned, tone_pin>>, write_bits' \in Nat, write_hz' \in Nat
  PROVE  AnalogInv'
<1>1. analog \in [Pins -> Slots] /\ BusSharing /\ BusToneGivesBack /\ toned \in Pins \cup {Nothing}
  BY DEF AnalogInv, AnalogShape
<1>2. analog'[p] = slot /\ \A q \in Pins \ {p} : analog'[q] = analog[q]
  BY <1>1
<1>3. /\ slot.attached /\ ~slot.dac /\ slot.channel = analog[p].channel
      /\ p \in OnChannel(slot.channel) /\ p \in OnChannel(slot.channel)'
  BY <1>2 DEF SameChannel, LedcSlot, OnChannel
<1>4. \A c \in retuned : c \in retuned' \/ OnChannel(c)' = {}
  BY RetunesMarks
<1>5. ASSUME NEW c \in Channels, NEW q \in OnChannel(c) \ {p}, slot.channel = c
      PROVE  /\ p \in asked' \/ q \in asked'
             /\ c \notin retuned' => SameTuning(slot, analog[q])
  <2>1. /\ p \in asked \/ q \in asked
        /\ c \notin retuned => SameTuning(analog[p], analog[q])
    BY <1>1, <1>3, <1>5 DEF BusSharing, SameTuning, OnChannel
  <2>2. CASE SameTuning(slot, analog[p]) /\ (retuned' = retuned \/ Retunes({}))
    <3>1. c \notin retuned' => c \notin retuned
      BY <1>3, <1>4, <1>5
    <3> QED
      BY <2>1, <2>2, <3>1 DEF SameTuning
  <2>3. CASE Retunes({analog[p].channel})
    <3>1. c \in retuned'
      BY <1>3, <1>5, <2>3, RetunesMarks
    <3> QED
      BY <2>1, <3>1
  <2> QED
    BY <2>2, <2>3
<1>6. analog' \in [Pins -> Slots] /\ BusSharing'
  BY <1>3, <1>4, <1>5, SharingKept
<1>7. BusToneGivesBack'
  BY <1>1, <1>2, <1>3 DEF BusToneGivesBack, LedcSlot
<1> QED
  BY <1>1, <1>6, <1>7 DEF AnalogInv, AnalogShape

(* A pin leaves its channel, or changes without being on one.              *)
LEMMA PinLeaves ==
  ASSUME AnalogInv, NEW p \in Pins, NEW slot \in Slots, ~(slot.attached /\ ~slot.dac),
         analog' = [analog EXCEPT ![p] = slot],
         \/ Leaves(p) /\ Retunes({})
         \/ ~LedcSlot(p) /\ UNCHANGED <<asked, toned, retuned>>,
         \/ tone_pin' = tone_pin
         \/ tone_pin = p,
         UNCHANGED defaults
  PROVE  AnalogInv'
<1>1. /\ analog \in [Pins -> Slots] /\ BusSharing /\ BusToneGivesBack
      /\ toned \in Pins \cup {Nothing} /\ write_bits \in Nat /\ write_hz \in Nat
  BY DEF AnalogInv, AnalogShape
<1>2. analog'[p] = slot /\ \A q \in Pins \ {p} : analog'[q] = analog[q]
  BY <1>1
<1>3. \A c \in retuned : c \in retuned' \/ OnChannel(c)' = {}
  BY RetunesMarks
<1>4. \A q \in Pins \ {p} : q \in asked => q \in asked'
  BY DEF Leaves
<1>5. analog' \in [Pins -> Slots] /\ BusSharing'
  BY <1>3, <1>4, SharingKept
<1>6. toned' # Nothing => toned' = toned /\ toned # p
  BY <1>1 DEF Leaves, BusToneGivesBack
<1>7. toned' \in Pins \cup {Nothing}
  BY <1>1 DEF Leaves
<1>8. BusToneGivesBack'
  <2> SUFFICES ASSUME toned' # Nothing PROVE toned' = tone_pin' /\ LedcSlot(toned)'
    BY <1>6 DEF BusToneGivesBack
  <2>1. toned' = toned /\ toned # p /\ toned \in Pins /\ toned = tone_pin /\ LedcSlot(toned)
    BY <1>1, <1>6 DEF BusToneGivesBack
  <2> QED
    BY <1>2, <2>1 DEF LedcSlot
<1> QED
  BY <1>1, <1>5, <1>7, <1>8 DEF AnalogInv, AnalogShape, defaults

(* A pin is attached to a free channel, or to one that was asked for, with *)
(* the tuning it has.                                                      *)
LEMMA PinAttaches ==
  ASSUME AnalogInv, NEW p \in Pins, NEW slot \in Slots, NEW c \in Channels, ~LedcSlot(p),
         slot.attached, ~slot.dac, slot.channel = c, analog' = [analog EXCEPT ![p] = slot],
         \/ OnChannel(c) = {} /\ asked' = asked
         \/ /\ asked' = asked \cup {p}
            /\ OnChannel(c) # {} =>
                 /\ Lowest(OnChannel(c)) \in OnChannel(c)
                 /\ SameTuning(slot, analog[Lowest(OnChannel(c))]),
         retuned' = retuned \/ \E R : Retunes(R),
         \/ UNCHANGED <<toned, tone_pin>>
         \/ toned' = p /\ tone_pin' = p,
         UNCHANGED defaults
  PROVE  AnalogInv'
<1>1. /\ analog \in [Pins -> Slots] /\ BusSharing /\ BusToneGivesBack
      /\ toned \in Pins \cup {Nothing} /\ write_bits \in Nat /\ write_hz \in Nat
  BY DEF AnalogInv, AnalogShape
<1>2. analog'[p] = slot /\ \A q \in Pins \ {p} : analog'[q] = analog[q]
  BY <1>1
<1>3. \A d \in retuned : d \in retuned' \/ OnChannel(d)' = {}
  BY RetunesMarks
<1>4. p \in OnChannel(c)'
  BY <1>2 DEF OnChannel, LedcSlot
<1>5. ASSUME NEW q \in OnChannel(c) \ {p}
      PROVE  /\ p \in asked' \/ q \in asked'
             /\ c \notin retuned' => SameTuning(slot, analog[q])
  <2> DEFINE first == Lowest(OnChannel(c))
  <2>1. p \in asked' /\ first \in OnChannel(c) /\ SameTuning(slot, analog[first])
    BY <1>5
  <2>2. c \notin retuned' => c \notin retuned
    BY <1>3, <1>4
  <2>3. first \in Pins /\ q \in Pins /\ q \in OnChannel(c)
    BY <1>5, <2>1 DEF OnChannel
  <2> HIDE DEF first
  <2>4. c \notin retuned => SameTuning(analog[first], analog[q])
    BY <1>1, <2>1, <2>3 DEF BusSharing, SameTuning
  <2> QED
    BY <2>1, <2>2, <2>4 DEF SameTuning
<1>6. analog' \in [Pins -> Slots] /\ BusSharing'
  <2>1. \A q \in Pins \ {p} : q \in asked => q \in asked'
    OBVIOUS
  <2>2. ASSUME NEW d \in Channels, NEW q \in OnChannel(d) \ {p}, slot.channel = d
        PROVE  /\ p \in asked' \/ q \in asked'
               /\ d \notin retuned' => SameTuning(slot, analog[q])
    BY <1>5, <2>2
  <2> QED
    BY <1>3, <2>1, <2>2, SharingKept
<1>7. BusToneGivesBack'
  BY <1>1, <1>2 DEF BusToneGivesBack, LedcSlot
<1> QED
  BY <1>1, <1>6, <1>7 DEF AnalogInv, AnalogShape, defaults

(* No call on the analog port breaks the invariant.                        *)
LEMMA AnalogInvInductive == AnalogInv /\ [AnalogNext]_analog_vars => AnalogInv'
<1> SUFFICES ASSUME AnalogInv, [AnalogNext]_analog_vars PROVE AnalogInv'
  OBVIOUS
<1>0. /\ AnalogShape /\ \A p \in Pins : analog[p] \in Slots
      /\ write_bits \in Nat /\ write_hz \in Nat /\ analog \in [Pins -> Slots]
  BY DEF AnalogInv, AnalogShape
<1>01. /\ Frequencies \subseteq Nat /\ Resolutions \subseteq Nat /\ Duties \subseteq Nat
       /\ DefaultBits \in Nat /\ DefaultHz \in Nat /\ ToneResolution \in Nat
       /\ DacResolution \in Nat /\ Nothing \notin Nat /\ Pins \subseteq Nat
  BY BusAssumption
<1>1. ASSUME NEW p \in Pins, NEW f \in Nat, NEW r \in Nat, NEW c \in Channels,
             LedcAttachChannel(p, f, r, c)
      PROVE  AnalogInv'
  <2>1. /\ ~LedcSlot(p) /\ analog' = [analog EXCEPT ![p] = Attached(p, f, r, c)]
        /\ asked' = asked \cup {p}
        /\ UNCHANGED <<defaults, tone_pin, toned, retuned>>
    BY <1>1 DEF LedcAttachChannel, Change
  <2> QED
    BY <1>0, <2>1, AttachedSlot, PinAttaches
<1>2. ASSUME NEW p \in Pins, NEW f \in Nat, NEW r \in Nat, LedcAttach(p, f, r)
      PROVE  AnalogInv'
  <2> DEFINE c == Lowest(FreeChannels)
  <2>1. /\ ~LedcSlot(p) /\ analog' = [analog EXCEPT ![p] = Attached(p, f, r, c)]
        /\ UNCHANGED <<defaults, tone_pin, toned, sharing>>
    BY <1>2 DEF LedcAttach, Change
  <2>2. c \in Channels /\ OnChannel(c) = {}
    BY <1>2, FreeChannel DEF LedcAttach
  <2> HIDE DEF c
  <2> QED
    BY <1>0, <2>1, <2>2, AttachedSlot, PinAttaches DEF sharing
<1>3. ASSUME NEW p \in Pins, NEW duty \in Nat, LedcWrite(p, duty)
      PROVE  AnalogInv'
  <2> DEFINE slot == [analog[p] EXCEPT !.duty = ClampDuty(duty, analog[p].resolution)]
  <2>1. /\ LedcSlot(p) /\ analog' = [analog EXCEPT ![p] = slot]
        /\ UNCHANGED <<defaults, tone_pin, toned, sharing>>
    BY <1>3 DEF LedcWrite, Change
  <2>2. slot \in Slots /\ SameChannel(slot, analog[p]) /\ SameTuning(slot, analog[p])
    <3>1. analog[p].resolution \in Nat
      BY <1>0 DEF Slots
    <3> QED
      BY <1>0, <3>1, DutySlot
  <2> HIDE DEF slot
  <2> QED
    BY <1>0, <2>1, <2>2, PinStays DEF sharing, defaults
<1>4. ASSUME NEW c \in Channels, NEW duty \in Nat, LedcWriteChannel(c, duty)
      PROVE  AnalogInv'
  <2> DEFINE written(p) == [analog[p] EXCEPT !.duty = ClampDuty(duty, analog[p].resolution)]
  <2>1. /\ analog' = [p \in Pins |-> IF p \in OnChannel(c) THEN written(p) ELSE analog[p]]
        /\ UNCHANGED <<defaults, tone_pin, toned, asked, retuned>>
    BY <1>4 DEF LedcWriteChannel, sharing
  <2>2. ASSUME NEW p \in Pins
        PROVE  /\ written(p) \in Slots /\ SameChannel(written(p), analog[p])
               /\ SameTuning(written(p), analog[p])
    <3>1. analog[p].resolution \in Nat
      BY <1>0 DEF Slots
    <3> QED
      BY <1>0, <3>1, DutySlot
  <2> HIDE DEF written
  <2>3. /\ analog' \in [Pins -> Slots]
        /\ \A p \in Pins : SameChannel(analog'[p], analog[p]) /\ SameTuning(analog'[p], analog[p])
    BY <1>0, <2>1, <2>2 DEF SameChannel, SameTuning
  <2>4. \A p \in Pins : LedcSlot(p)' = LedcSlot(p)
    BY <2>3 DEF LedcSlot, SameChannel
  <2>5. \A d \in Channels : OnChannel(d)' = OnChannel(d)
    BY <2>3, <2>4 DEF OnChannel, SameChannel
  <2>6. BusSharing'
    BY <2>1, <2>3, <2>5 DEF BusSharing, SameTuning, AnalogInv
  <2>7. BusToneGivesBack'
    BY <1>0, <2>1, <2>4 DEF BusToneGivesBack, AnalogInv, AnalogShape
  <2> QED
    BY <1>0, <2>1, <2>3, <2>6, <2>7 DEF AnalogInv, AnalogShape, defaults
<1>5. ASSUME NEW p \in Pins, NEW f \in Nat, LedcWriteTone(p, f)
      PROVE  AnalogInv'
  <2> DEFINE slot == Toned(analog[p], f)
  <2>1. /\ LedcSlot(p) /\ analog' = [analog EXCEPT ![p] = slot]
        /\ Retunes(IF f = 0 THEN {} ELSE {analog[p].channel})
        /\ UNCHANGED <<defaults, tone_pin, toned, asked>>
    BY <1>5 DEF LedcWriteTone, Change
  <2>2. slot \in Slots /\ SameChannel(slot, analog[p]) /\ (f = 0 => SameTuning(slot, analog[p]))
    BY <1>0, TonedSlot
  <2> HIDE DEF slot
  <2>3. CASE f = 0
    BY <1>0, <2>1, <2>2, <2>3, PinStays DEF defaults
  <2>4. CASE f # 0
    BY <1>0, <2>1, <2>2, <2>4, PinStays DEF defaults
  <2> QED
    BY <2>3, <2>4
<1>6. ASSUME NEW p \in Pins, LedcDetach(p)
      PROVE  AnalogInv'
  <2>1. /\ analog' = [analog EXCEPT ![p] = Detached(analog[p])]
        /\ Leaves(p) /\ Retunes({}) /\ UNCHANGED <<defaults, tone_pin>>
    BY <1>6 DEF LedcDetach, Change
  <2> QED
    BY <1>0, <2>1, DetachedSlot, PinLeaves
<1>7. ASSUME NEW p \in Pins, NEW f \in Nat, NEW r \in Nat, Retune(p, f, r),
             write_bits' \in Nat, write_hz' \in Nat
      PROVE  AnalogInv'
  <2> DEFINE slot == [analog[p] EXCEPT !.frequency = f, !.resolution = r]
  <2>1. /\ LedcSlot(p) /\ analog' = [analog EXCEPT ![p] = slot]
        /\ Retunes({analog[p].channel}) /\ UNCHANGED <<tone_pin, toned, asked>>
    BY <1>7 DEF Retune, Change
  <2>2. slot \in Slots /\ SameChannel(slot, analog[p])
    BY <1>0, RetunedSlot
  <2> HIDE DEF slot
  <2> QED
    BY <1>7, <2>1, <2>2, PinStays
<1>8. ASSUME NEW p \in Pins, NEW start \in Nat, NEW target \in Nat, LedcFade(p, start, target)
      PROVE  AnalogInv'
  <2> DEFINE begun == [analog[p] EXCEPT !.duty = ClampDuty(start, analog[p].resolution)]
             slot == [begun EXCEPT !.duty = ClampDuty(target, begun.resolution)]
  <2>1. /\ LedcSlot(p) /\ analog' = [analog EXCEPT ![p] = slot]
        /\ UNCHANGED <<defaults, tone_pin, toned, sharing>>
    BY <1>8 DEF LedcFade, Change
  <2>2. begun \in Slots /\ SameChannel(begun, analog[p]) /\ SameTuning(begun, analog[p])
    <3>1. analog[p].resolution \in Nat
      BY <1>0 DEF Slots
    <3> QED
      BY <1>0, <3>1, DutySlot
  <2>3. slot \in Slots /\ SameChannel(slot, begun) /\ SameTuning(slot, begun)
    <3> HIDE DEF begun
    <3>1. begun.resolution \in Nat
      BY <2>2 DEF Slots
    <3> QED
      BY <2>2, <3>1, DutySlot
  <2> HIDE DEF slot, begun
  <2>4. SameChannel(slot, analog[p]) /\ SameTuning(slot, analog[p])
    BY <2>2, <2>3 DEF SameChannel, SameTuning
  <2> QED
    BY <1>0, <2>1, <2>3, <2>4, PinStays DEF sharing, defaults
<1>9. ASSUME NEW p \in Pins, NEW value \in Nat, AnalogWrite(p, value)
      PROVE  AnalogInv'
  <2> DEFINE c == Lowest(FreeChannels)
             slot == IF LedcSlot(p) THEN analog[p] ELSE Attached(p, write_hz, write_bits, c)
             written == [slot EXCEPT !.duty = ClampDuty(value, slot.resolution)]
  <2>1. /\ LedcSlot(p) \/ FreeChannels # {}
        /\ analog' = [analog EXCEPT ![p] = written]
        /\ UNCHANGED <<defaults, tone_pin, toned, sharing>>
    BY <1>9 DEF AnalogWrite, Change
  <2>2. ASSUME slot \in Slots
        PROVE  written \in Slots /\ SameChannel(written, slot) /\ SameTuning(written, slot)
    <3> HIDE DEF slot
    <3>1. slot.resolution \in Nat
      BY <2>2 DEF Slots
    <3> QED
      BY <2>2, <3>1, DutySlot
  <2>3. CASE LedcSlot(p)
    <3>1. slot = analog[p] /\ slot \in Slots
      BY <1>0, <2>3
    <3> HIDE DEF written, slot
    <3> QED
      BY <1>0, <2>1, <2>2, <2>3, <3>1, PinStays DEF sharing, defaults
  <2>4. CASE ~LedcSlot(p)
    <3>1. c \in Channels /\ OnChannel(c) = {}
      BY <2>1, <2>4, FreeChannel
    <3> HIDE DEF c
    <3>2. slot \in Slots /\ slot.attached /\ ~slot.dac /\ slot.channel = c
      BY <1>0, <2>4, <3>1, AttachedSlot
    <3> HIDE DEF written, slot
    <3>3. written \in Slots /\ written.attached /\ ~written.dac /\ written.channel = c
      BY <2>2, <3>2 DEF SameChannel
    <3> QED
      BY <2>1, <2>4, <3>1, <3>3, PinAttaches DEF sharing
  <2> QED
    BY <2>3, <2>4
<1>10. CASE /\ UNCHANGED <<analog, tone_pin, toned, sharing>>
            /\ write_bits' \in Nat /\ write_hz' \in Nat
  BY <1>0, <1>10
  DEF AnalogInv, AnalogShape, BusSharing, BusToneGivesBack, OnChannel, LedcSlot, sharing
<1>11. ASSUME NEW p \in Pins, NEW value \in Nat, DacWrite(p, value)
       PROVE  AnalogInv'
  <2> DEFINE slot == [analog[p] EXCEPT !.channel = Nothing, !.frequency = 0,
                                       !.resolution = DacResolution, !.duty = value,
                                       !.attached = TRUE, !.dac = TRUE]
  <2>1. /\ analog' = [analog EXCEPT ![p] = slot]
        /\ Leaves(p) /\ Retunes({}) /\ UNCHANGED <<defaults, tone_pin>>
    BY <1>11 DEF DacWrite, Change
  <2>2. slot \in Slots /\ slot.dac
    BY <1>0, <1>01 DEF Slots
  <2> HIDE DEF slot
  <2> QED
    BY <2>1, <2>2, PinLeaves
<1>12. ASSUME NEW p \in Pins, DacDisable(p)
       PROVE  AnalogInv'
  <2> DEFINE slot == [analog[p] EXCEPT !.attached = FALSE, !.dac = FALSE, !.duty = 0]
  <2>1. /\ analog[p].dac /\ analog' = [analog EXCEPT ![p] = slot]
        /\ UNCHANGED <<defaults, tone_pin, toned, sharing>>
    BY <1>12 DEF DacDisable, Change
  <2>2. slot \in Slots /\ ~slot.attached
    BY <1>0 DEF Slots
  <2>3. ~LedcSlot(p)
    BY <2>1 DEF LedcSlot
  <2> HIDE DEF slot
  <2> QED
    BY <2>1, <2>2, <2>3, PinLeaves DEF sharing
<1>13. ASSUME NEW p \in Pins, NEW f \in Nat, NEW duration \in BOOLEAN, Tone(p, f, duration)
       PROVE  AnalogInv'
  <2> DEFINE starts == tone_pin = Nothing
             c == Lowest(FreeChannels)
             slot == IF starts THEN Attached(p, f, ToneResolution, c) ELSE analog[p]
             sounds == IF duration THEN Toned(Toned(slot, f), 0) ELSE Toned(slot, f)
  <2>1. /\ tone_pin \in {Nothing, p}
        /\ IF starts THEN ~LedcSlot(p) /\ FreeChannels # {} ELSE LedcSlot(p)
        /\ analog' = [analog EXCEPT ![p] = sounds]
        /\ tone_pin' = p
        /\ toned' = IF starts THEN p ELSE toned
        /\ Retunes(IF f = 0 THEN {} ELSE {slot.channel})
        /\ UNCHANGED <<defaults, asked>>
    BY <1>13 DEF Tone, Change
  <2>2. ASSUME slot \in Slots
        PROVE  /\ sounds \in Slots /\ SameChannel(sounds, slot)
               /\ f = 0 => SameTuning(sounds, slot)
    <3> HIDE DEF slot
    <3>1. /\ Toned(slot, f) \in Slots /\ SameChannel(Toned(slot, f), slot)
          /\ f = 0 => SameTuning(Toned(slot, f), slot)
      BY <2>2, TonedSlot
    <3> DEFINE note == Toned(slot, f)
    <3>2. /\ Toned(note, 0) \in Slots /\ SameChannel(Toned(note, 0), note)
          /\ SameTuning(Toned(note, 0), note)
      BY <3>1, TonedSlot
    <3> HIDE DEF note
    <3>3. /\ Toned(note, 0) \in Slots /\ SameChannel(Toned(note, 0), slot)
          /\ f = 0 => SameTuning(Toned(note, 0), slot)
      BY <3>1, <3>2 DEF SameChannel, SameTuning, note
    <3> QED
      BY <3>1, <3>3 DEF note
  <2>3. CASE starts
    <3>1. c \in Channels /\ OnChannel(c) = {} /\ ~LedcSlot(p)
      BY <2>1, <2>3, FreeChannel
    <3> HIDE DEF c
    <3>2. slot \in Slots /\ slot.attached /\ ~slot.dac /\ slot.channel = c
      BY <1>0, <1>01, <2>3, <3>1, AttachedSlot
    <3>3. \E R : Retunes(R)
      BY <2>1
    <3>4. toned' = p /\ tone_pin' = p
      BY <2>1, <2>3
    <3> HIDE DEF sounds, slot
    <3>5. sounds \in Slots /\ sounds.attached /\ ~sounds.dac /\ sounds.channel = c
      BY <2>2, <3>2 DEF SameChannel
    <3> QED
      BY <2>1, <3>1, <3>3, <3>4, <3>5, PinAttaches
  <2>4. CASE ~starts
    <3>1. LedcSlot(p) /\ toned' = toned /\ tone_pin' = tone_pin /\ slot = analog[p] /\ slot \in Slots
      BY <1>0, <2>1, <2>4
    <3> HIDE DEF sounds, slot
    <3>2. sounds \in Slots /\ SameChannel(sounds, analog[p])
          /\ (f = 0 => SameTuning(sounds, analog[p]))
      BY <2>2, <3>1
    <3>3. CASE f = 0
      BY <1>0, <2>1, <3>1, <3>2, <3>3, PinStays DEF defaults
    <3>4. CASE f # 0
      BY <1>0, <2>1, <3>1, <3>2, <3>4, PinStays DEF defaults
    <3> QED
      BY <3>3, <3>4
  <2> QED
    BY <2>3, <2>4
<1>14. ASSUME NEW p \in Pins, NoTone(p)
       PROVE  AnalogInv'
  <2>1. CASE LedcSlot(p)
    <3>1. /\ analog' = [analog EXCEPT ![p] = Detached(analog[p])] /\ tone_pin = p
          /\ Leaves(p) /\ Retunes({}) /\ UNCHANGED defaults
      BY <1>14, <2>1 DEF NoTone, Change
    <3> QED
      BY <1>0, <3>1, DetachedSlot, PinLeaves
  <2>2. CASE ~LedcSlot(p)
    <3>1. /\ tone_pin = p /\ UNCHANGED <<analog, toned, sharing, defaults>>
      BY <1>14, <2>2 DEF NoTone
    <3>2. toned = Nothing
      BY <2>2, <3>1 DEF AnalogInv, BusToneGivesBack
    <3> QED
      BY <1>0, <3>1, <3>2
      DEF AnalogInv, AnalogShape, BusSharing, BusToneGivesBack, OnChannel, LedcSlot, sharing, defaults
  <2> QED
    BY <2>1, <2>2
<1>15. CASE ResetAnalogState
  <2>1. /\ analog' = [p \in Pins |-> Unattached] /\ toned' = Nothing
        /\ write_bits' = DefaultBits /\ write_hz' = DefaultHz
    BY <1>15 DEF ResetAnalogState
  <2>2. Unattached \in Slots /\ ~Unattached.attached
    BY DEF Unattached, Slots
  <2>3. analog' \in [Pins -> Slots] /\ \A p \in Pins : ~LedcSlot(p)'
    BY <2>1, <2>2 DEF LedcSlot
  <2>4. BusSharing' /\ BusToneGivesBack'
    BY <2>1, <2>3 DEF BusSharing, BusToneGivesBack, OnChannel
  <2> QED
    BY <1>01, <2>1, <2>3, <2>4 DEF AnalogInv, AnalogShape
<1>16. ASSUME NEW p \in Pins, Ledc(p) PROVE AnalogInv'
  <2>1. ASSUME NEW f \in Frequencies, NEW r \in Resolutions, LedcChangeFrequency(p, f, r)
        PROVE  AnalogInv'
    BY <1>0, <1>01, <1>7, <2>1 DEF LedcChangeFrequency, defaults
  <2> QED
    BY <1>01, <1>1, <1>2, <1>3, <1>5, <1>6, <1>8, <1>16, <2>1 DEF Ledc
<1>17. ASSUME NEW p \in Pins, NEW f \in Nat, AnalogWriteFrequency(p, f) PROVE AnalogInv'
  <2>1. write_bits' \in Nat /\ write_hz' \in Nat
    BY <1>0, <1>17 DEF AnalogWriteFrequency
  <2> QED
    BY <1>0, <1>7, <1>10, <1>17, <2>1 DEF AnalogWriteFrequency
<1>18. ASSUME NEW p \in Pins, NEW r \in Nat, AnalogWriteResolution(p, r) PROVE AnalogInv'
  <2>1. write_bits' \in Nat /\ write_hz' \in Nat
    BY <1>0, <1>18 DEF AnalogWriteResolution
  <2> QED
    BY <1>0, <1>7, <1>10, <1>18, <2>1 DEF AnalogWriteResolution
<1>19. ASSUME NEW f \in Nat, NEW r \in Nat, AnalogWriteDefaults(f, r) PROVE AnalogInv'
  BY <1>0, <1>10, <1>19 DEF AnalogWriteDefaults
<1>20. CASE UNCHANGED analog_vars
  BY <1>0, <1>10, <1>20 DEF analog_vars, defaults
<1> QED
  BY <1>01, <1>4, <1>9, <1>11, <1>12, <1>13, <1>14, <1>15, <1>16, <1>17, <1>18, <1>19, <1>20
  DEF AnalogNext

(* The invariant holds in every behaviour of the ports.                    *)
LEMMA AnalogCorrect == PortsSpec => []AnalogInv
<1>1. PortsInit => AnalogInv
  <2> SUFFICES ASSUME PortsInit PROVE AnalogInv
    OBVIOUS
  <2>1. /\ analog = [p \in Pins |-> Unattached] /\ toned = Nothing
        /\ write_bits = DefaultBits /\ write_hz = DefaultHz
    BY DEF PortsInit, AnalogInit
  <2>2. Unattached \in Slots /\ ~Unattached.attached
    BY DEF Unattached, Slots
  <2>3. analog \in [Pins -> Slots] /\ \A p \in Pins : ~LedcSlot(p)
    BY <2>1, <2>2 DEF LedcSlot
  <2>4. BusSharing /\ BusToneGivesBack
    BY <2>1, <2>3 DEF BusSharing, BusToneGivesBack, OnChannel
  <2> QED
    BY <2>1, <2>3, <2>4, BusAssumption DEF AnalogInv, AnalogShape
<1>2. AnalogInv /\ [PortsNext]_ports_vars => AnalogInv'
  BY PortsStep, AnalogInvInductive
<1> QED
  BY <1>1, <1>2, PTL DEF PortsSpec

(* Pins share a channel only where the sketch has asked for it, and have   *)
(* the tuning of the pin they joined until one is retuned, for any pins,   *)
(* channels, frequencies and duties (HostBus.h:153-155).                   *)
THEOREM ChannelSharing == PortsSpec => []BusSharing
<1>1. AnalogInv => BusSharing
  BY DEF AnalogInv
<1> QED
  BY <1>1, AnalogCorrect, PTL

(* A channel that tone() has taken is on the pin it plays on, where        *)
(* noTone() finds it, whatever is called in between, for any pins and      *)
(* channels (HostBus.cpp:733-743).                                         *)
THEOREM ToneChannel == PortsSpec => []BusToneGivesBack
<1>1. AnalogInv => BusToneGivesBack
  BY DEF AnalogInv
<1> QED
  BY <1>1, AnalogCorrect, PTL

------------------------------------------------------------------------------
(* The value of bytes is reached in as many steps as there are bytes.      *)
ValueAfter(order, s, n, m) ==
  IF order = "msb" THEN m * Base + s[n + 1] ELSE m + s[n + 1] * Power(Base)[n]
ValueStep(order, s) ==
  [n \in Nat |-> [m \in Nat |-> IF n + 1 \in 1 .. Len(s) THEN ValueAfter(order, s, n, m) ELSE 0]]

LEMMA SpiBase == Base \in Nat \ {0} /\ Base \in Nat /\ \A n \in Nat : Power(Base)[n] \in Nat \ {0}
<1>1. Base \in Nat \ {0}
  BY SpiAssumption
<1> QED
  BY <1>1, PowerPositive

LEMMA ValueStepType ==
  ASSUME NEW order, NEW s \in Seq(Nat)
  PROVE  ValueStep(order, s) \in [Nat -> [Nat -> Nat]]
<1>1. ASSUME NEW n \in Nat, NEW m \in Nat, n + 1 \in 1 .. Len(s)
      PROVE  ValueAfter(order, s, n, m) \in Nat
  <2>1. s[n + 1] \in Nat /\ Base \in Nat /\ Power(Base)[n] \in Nat
    BY <1>1, SpiBase
  <2>2. m * Base + s[n + 1] \in Nat /\ m + s[n + 1] * Power(Base)[n] \in Nat
    BY <2>1, ProductType
  <2> QED
    BY <2>2 DEF ValueAfter
<1> QED
  BY <1>1 DEF ValueStep

LEMMA ValueIs ==
  ASSUME NEW order, NEW s \in Seq(Nat)
  PROVE  \E f : Recurses(f, Nat, 0, ValueStep(order, s)) /\ Value(order, s) = f[Len(s)]
<1> DEFINE V(g) == g = [n \in 0 .. Len(s) |->
                          IF n = 0 THEN 0
                          ELSE IF order = "msb" THEN g[n - 1] * Base + s[n]
                          ELSE g[n - 1] + s[n] * Power(Base)[n - 1]]
<1>0. Len(s) \in Nat /\ 0 \in Nat /\ ValueStep(order, s) \in [Nat -> [Nat -> Nat]]
  BY ValueStepType
<1>1. PICK f : Recurses(f, Nat, 0, ValueStep(order, s))
  BY <1>0, Recursion, Zenon
<1>2. f[0] = 0 /\ \A n \in 1 .. Len(s) : f[n] = ValueAfter(order, s, n - 1, f[n - 1])
  <2>1. ASSUME NEW n \in 1 .. Len(s) PROVE f[n] = ValueAfter(order, s, n - 1, f[n - 1])
    <3>1. n - 1 \in Nat /\ (n - 1) + 1 = n
      OBVIOUS
    <3>2. f[n - 1] \in Nat /\ f[n] = ValueStep(order, s)[n - 1][f[n - 1]]
      BY <1>1, <3>1 DEF Recurses
    <3> QED
      BY <3>1, <3>2 DEF ValueStep
  <2> QED
    BY <1>1, <2>1 DEF Recurses
<1> DEFINE g == [n \in 0 .. Len(s) |-> f[n]]
<1>3. V(g)
  <2>1. ASSUME NEW n \in 1 .. Len(s)
        PROVE  g[n] = IF order = "msb" THEN g[n - 1] * Base + s[n]
                      ELSE g[n - 1] + s[n] * Power(Base)[n - 1]
    <3>1. n - 1 \in 0 .. Len(s) /\ n \in 0 .. Len(s) /\ (n - 1) + 1 = n
      BY <1>0
    <3> QED
      BY <1>2, <3>1 DEF ValueAfter
  <2>2. g[0] = 0
    BY <1>0, <1>2
  <2>3. g = [n \in 0 .. Len(s) |-> g[n]]
    OBVIOUS
  <2> HIDE DEF g
  <2>4. ASSUME NEW n \in 0 .. Len(s)
        PROVE  g[n] = IF n = 0 THEN 0
                      ELSE IF order = "msb" THEN g[n - 1] * Base + s[n]
                      ELSE g[n - 1] + s[n] * Power(Base)[n - 1]
    <3>1. n = 0 \/ n \in 1 .. Len(s)
      BY <1>0
    <3> QED
      BY <2>1, <2>2, <3>1
  <2> QED
    BY <2>3, <2>4
<1>4. PICK v : v = CHOOSE h : V(h)
  OBVIOUS
<1>5. V(v)
  BY <1>3, <1>4
<1>6. Value(order, s) = v[Len(s)]
  BY <1>4 DEF Value
<1>7. v[0] = 0 /\ \A n \in 1 .. Len(s) : v[n] = ValueAfter(order, s, n - 1, v[n - 1])
  <2>1. ASSUME NEW n \in 1 .. Len(s) PROVE v[n] = ValueAfter(order, s, n - 1, v[n - 1])
    <3>1. n \in 0 .. Len(s) /\ n # 0 /\ (n - 1) + 1 = n
      BY <1>0
    <3> QED
      BY <1>5, <3>1 DEF ValueAfter
  <2>2. 0 \in 0 .. Len(s)
    BY <1>0
  <2>3. v[0] = 0
    BY <1>5, <2>2
  <2> QED
    BY <2>1, <2>3
<1> HIDE DEF V, g
<1> DEFINE S == {n \in Nat : n <= Len(s) => v[n] = f[n]}
<1>8. 0 \in S
  BY <1>2, <1>7
<1>9. ASSUME NEW n \in Nat, n \in S PROVE n + 1 \in S
  <2> SUFFICES ASSUME n + 1 <= Len(s) PROVE v[n + 1] = f[n + 1]
    OBVIOUS
  <2>1. n + 1 \in 1 .. Len(s) /\ (n + 1) - 1 = n /\ n <= Len(s)
    BY <1>0
  <2>2. v[n] = f[n]
    BY <1>9, <2>1
  <2> QED
    BY <1>2, <1>7, <2>1, <2>2
<1> HIDE DEF S
<1>10. Nat \subseteq S
  BY <1>8, <1>9, Induction
<1>11. v[Len(s)] = f[Len(s)]
  BY <1>0, <1>10 DEF S
<1> QED
  BY <1>1, <1>6, <1>11

LEMMA ValueNone ==
  ASSUME NEW order PROVE Value(order, <<>>) = 0
<1>1. <<>> \in Seq(Nat) /\ Len(<<>>) = 0
  OBVIOUS
<1>2. PICK f : Recurses(f, Nat, 0, ValueStep(order, <<>>)) /\ Value(order, <<>>) = f[0]
  BY <1>1, ValueIs
<1> QED
  BY <1>2 DEF Recurses

LEMMA ValueNext ==
  ASSUME NEW order, NEW s \in Seq(Nat), NEW d \in Nat
  PROVE  /\ Value(order, s) \in Nat
         /\ Value(order, Append(s, d)) =
              IF order = "msb" THEN Value(order, s) * Base + d
              ELSE Value(order, s) + d * Power(Base)[Len(s)]
<1> DEFINE t == Append(s, d)
<1>0. /\ t \in Seq(Nat) /\ Len(t) = Len(s) + 1 /\ Len(s) \in Nat /\ t[Len(s) + 1] = d
      /\ \A n \in 1 .. Len(s) : t[n] = s[n]
  OBVIOUS
<1> HIDE DEF t
<1>1. PICK f : Recurses(f, Nat, 0, ValueStep(order, s)) /\ Value(order, s) = f[Len(s)]
  BY ValueIs
<1>2. PICK g : Recurses(g, Nat, 0, ValueStep(order, t)) /\ Value(order, t) = g[Len(t)]
  BY <1>0, ValueIs
<1>3. Solves(f, Len(s), 0, ValueStep(order, s))
  BY <1>0, <1>1 DEF Solves, Recurses
<1>4. Solves(g, Len(s), 0, ValueStep(order, s))
  <2>1. ASSUME NEW n \in 0 .. Len(s) - 1 PROVE g[n + 1] = ValueStep(order, s)[n][g[n]]
    <3>1. n \in Nat /\ n + 1 \in 1 .. Len(s) /\ n + 1 \in 1 .. Len(t) /\ t[n + 1] = s[n + 1]
      BY <1>0
    <3>2. g[n] \in Nat /\ g[n + 1] = ValueStep(order, t)[n][g[n]]
      BY <1>2, <3>1 DEF Recurses
    <3> QED
      BY <3>1, <3>2 DEF ValueStep, ValueAfter
  <2> QED
    BY <1>2, <2>1 DEF Solves, Recurses
<1>5. f[Len(s)] = g[Len(s)]
  <2>1. Len(s) \in Nat
    BY <1>0
  <2>2. ASSUME NEW k \in Nat, NEW st, Solves(f, k, 0, st), Solves(g, k, 0, st)
        PROVE f[k] = g[k]
    BY <2>2, SolutionsAgree
  <2> QED
    BY <1>3, <1>4, <2>1, <2>2
<1>6. f[Len(s)] \in Nat
  BY <1>0, <1>1 DEF Recurses
<1>7. g[Len(s) + 1] = ValueAfter(order, t, Len(s), g[Len(s)])
  <2>1. Len(s) + 1 \in 1 .. Len(t)
    BY <1>0
  <2>2. g[Len(s) + 1] = ValueStep(order, t)[Len(s)][g[Len(s)]]
    BY <1>0, <1>2 DEF Recurses
  <2> QED
    BY <1>0, <1>5, <1>6, <2>1, <2>2 DEF ValueStep
<1> QED
  BY <1>0, <1>1, <1>2, <1>5, <1>6, <1>7 DEF ValueAfter, t

(* The bytes that have passed are those digits of the word that the order  *)
(* puts first, and the result so far is what was answered to them.         *)
Low(x, sent, heard_back) == x.order = "lsb" =>
  /\ Value("lsb", sent) = x.word % Power(Base)[Len(sent)]
  /\ x.result = Value("lsb", heard_back)
High(x, sent, heard_back) == x.order = "msb" =>
  /\ Value("msb", sent) =
       (x.word \div Power(Base)[x.count - Len(sent)]) % Power(Base)[Len(sent)]
  /\ x.result = Value("msb", heard_back) * Power(Base)[x.count - Len(sent)]
Digits(x, sent, heard_back) ==
  /\ Len(heard_back) = Len(sent) /\ Len(sent) <= x.count
  /\ Low(x, sent, heard_back) /\ High(x, sent, heard_back)
SpiDigits == Digits(xfer, mosi, miso)
SpiInv == SpiTypeOK /\ SpiDigits /\ (in_transaction <=> told = "active")

LEMMA BytesAreNumbers ==
  ASSUME NEW s \in Seq(0 .. Base - 1)
  PROVE  s \in Seq(Nat) /\ Len(s) \in Nat /\ \A d \in 0 .. Base - 1 :
           Append(s, d) \in Seq(0 .. Base - 1) /\ Len(Append(s, d)) = Len(s) + 1
BY SpiBase

LEMMA NothingSent ==
  ASSUME NEW w \in Nat, NEW p \in Nat \ {0}
  PROVE  /\ w % Power(Base)[0] = 0 /\ (w \div p) % Power(Base)[0] = 0
         /\ w \div Power(Base)[0] = w
<1>1. Power(Base)[0] = 1
  BY SpiBase, PowerDef
<1>2. w \div p \in Nat
  BY Divides
<1>3. \A n \in Nat : n % 1 = 0 /\ n \div 1 = n
  OBVIOUS
<1> QED
  BY <1>1, <1>2, <1>3

(* No byte has passed yet.                                                 *)
LEMMA BeforeFirstByte ==
  ASSUME NEW x, x.result = 0, x.word \in Nat, x.count \in 0 .. 4
  PROVE  Digits(x, <<>>, <<>>)
<1>1. Len(<<>>) = 0 /\ x.count - 0 = x.count /\ x.count \in Nat
  OBVIOUS
<1>2. Power(Base)[x.count] \in Nat \ {0}
  BY <1>1, SpiBase
<1>3. 0 * Power(Base)[x.count] = 0
  BY <1>2
<1>4. Value("lsb", <<>>) = 0 /\ Value("msb", <<>>) = 0
  BY ValueNone, Zenon
<1>5. Low(x, <<>>, <<>>)
  <2>1. x.word % Power(Base)[0] = 0
    BY <1>2, NothingSent
  <2> QED
    BY <1>1, <1>4, <2>1 DEF Low
<1>6. High(x, <<>>, <<>>)
  <2>1. (x.word \div Power(Base)[x.count]) % Power(Base)[0] = 0
    BY <1>2, NothingSent
  <2> QED
    BY <1>1, <1>3, <1>4, <2>1 DEF High
<1> QED
  BY <1>1, <1>5, <1>6 DEF Digits

LEMMA NextByteLow ==
  ASSUME NEW w \in Nat, NEW n \in Nat
  PROVE  (w % Power(Base)[n]) + ByteAt(w, n) * Power(Base)[n] = w % Power(Base)[n + 1]
<1>1. Base \in Nat \ {0} /\ Power(Base)[n] \in Nat \ {0}
  BY SpiBase
<1>2. Power(Base)[n + 1] = Base * Power(Base)[n]
  BY SpiBase, PowerDef
<1>3. w % (Base * Power(Base)[n])
        = (w % Power(Base)[n]) + ((w \div Power(Base)[n]) % Base) * Power(Base)[n]
  BY <1>1, TwoDivisions
<1> QED
  BY <1>2, <1>3, Zenon DEF ByteAt

LEMMA NextByteHigh ==
  ASSUME NEW w \in Nat, NEW n \in Nat, NEW k \in Nat
  PROVE  ((w \div Power(Base)[k + 1]) % Power(Base)[n]) * Base + ByteAt(w, k)
           = (w \div Power(Base)[k]) % Power(Base)[n + 1]
<1> DEFINE u == w \div Power(Base)[k]
<1>1. Base \in Nat \ {0} /\ Power(Base)[n] \in Nat \ {0} /\ Power(Base)[k] \in Nat \ {0}
  BY SpiBase
<1>2. Power(Base)[n + 1] = Base * Power(Base)[n] /\ Power(Base)[k + 1] = Base * Power(Base)[k]
  BY SpiBase, PowerDef
<1>3. u \in Nat
  BY <1>1, Divides
<1>4. w \div Power(Base)[k + 1] = u \div Base
  <2>1. w \div (Base * Power(Base)[k]) = (w \div Power(Base)[k]) \div Base
    BY <1>1, TwoDivisions
  <2> QED
    BY <1>2, <2>1, Zenon DEF u
<1> HIDE DEF u
<1>5. u % (Power(Base)[n] * Base) = (u % Base) + ((u \div Base) % Power(Base)[n]) * Base
  BY <1>1, <1>3, TwoDivisions
<1>6. Power(Base)[n] * Base = Power(Base)[n + 1]
  BY <1>1, <1>2
<1>7. u % Base \in Int /\ ((u \div Base) % Power(Base)[n]) * Base \in Int
  <2>1. u % Base \in 0 .. Base - 1 /\ u \div Base \in Nat
    BY <1>1, <1>3, Divides
  <2>2. (u \div Base) % Power(Base)[n] \in 0 .. Power(Base)[n] - 1
    BY <1>1, <2>1, Divides
  <2>3. (u \div Base) % Power(Base)[n] \in Nat /\ Base \in Nat
    BY <1>1, <2>2
  <2> QED
    BY <2>1, <2>3, ProductType
<1>8. ByteAt(w, k) = u % Base
  BY DEF ByteAt, u
<1>9. u % Power(Base)[n + 1] = ((u \div Base) % Power(Base)[n]) * Base + (u % Base)
  BY <1>5, <1>6, <1>7
<1> QED
  BY <1>4, <1>8, <1>9 DEF u

LEMMA TransferKeeps ==
  ASSUME SpiInv, NEW reply \in 0 .. Base - 1, TransferByte(reply)
  PROVE  SpiInv'
<1> DEFINE n == Len(mosi)
           w == xfer.word
           c == xfer.count
           place == Place(xfer.order, c, n + 1)
<1>1. /\ w \in Nat /\ c \in 0 .. 4 /\ xfer.order \in {"msb", "lsb"} /\ xfer.result \in Nat
      /\ xfer = [word |-> w, count |-> c, order |-> xfer.order, result |-> xfer.result]
      /\ mosi \in Seq(0 .. Base - 1) /\ miso \in Seq(0 .. Base - 1)
      /\ n \in Nat /\ Len(miso) = n /\ n <= c
  BY DEF SpiInv, SpiTypeOK, SpiDigits, Digits
<1>2. /\ n < c /\ mosi' = Append(mosi, ByteAt(w, place)) /\ miso' = Append(miso, reply)
      /\ xfer' = [xfer EXCEPT !.result = @ + reply * Power(Base)[place]]
      /\ UNCHANGED <<bit_order, in_transaction, told>>
  BY DEF TransferByte
<1> HIDE DEF n, w, c
<1>3. place \in Nat /\ place = IF xfer.order = "msb" THEN c - (n + 1) ELSE n
  BY <1>1, <1>2 DEF Place
<1> HIDE DEF place
<1>4. ByteAt(w, place) \in 0 .. Base - 1
  <2>1. Power(Base)[place] \in Nat \ {0} /\ Base \in Nat \ {0}
    BY <1>3, SpiBase
  <2>2. w \div Power(Base)[place] \in Nat
    BY <1>1, <2>1, Divides
  <2> QED
    BY <2>1, <2>2, Divides DEF ByteAt
<1>5. /\ mosi' \in Seq(0 .. Base - 1) /\ Len(mosi') = n + 1
      /\ miso' \in Seq(0 .. Base - 1) /\ Len(miso') = n + 1
  BY <1>1, <1>2, <1>4, BytesAreNumbers DEF n
<1>6. reply \in Nat /\ Power(Base)[place] \in Nat /\ ByteAt(w, place) \in Nat
  BY <1>3, <1>4, SpiBase
<1>7. /\ xfer'.word = w /\ xfer'.count = c /\ xfer'.order = xfer.order
      /\ xfer'.result = xfer.result + reply * Power(Base)[place]
      /\ xfer' \in [word : Nat, count : 0 .. 4, order : {"msb", "lsb"}, result : Nat]
  <2>1. xfer.result + reply * Power(Base)[place] \in Nat
    <3>1. xfer.result \in Nat
      BY <1>1
    <3> QED
      BY <1>6, <3>1, ProductType, Zenon
  <2>2. xfer' = [word |-> w, count |-> c, order |-> xfer.order,
                 result |-> xfer.result + reply * Power(Base)[place]]
    BY <1>1, <1>2
  <2> QED
    BY <1>1, <2>1, <2>2
<1>8. SpiTypeOK' /\ (in_transaction <=> told = "active")'
  BY <1>2, <1>5, <1>7 DEF SpiInv, SpiTypeOK
<1>9. mosi \in Seq(Nat) /\ miso \in Seq(Nat)
  BY <1>1, BytesAreNumbers
<1>10. Low(xfer, mosi, miso)'
  <2> SUFFICES ASSUME xfer.order = "lsb"
      PROVE  /\ Value("lsb", mosi') = w % Power(Base)[n + 1]
             /\ xfer'.result = Value("lsb", miso')
    BY <1>5, <1>7 DEF Low
  <2>1. Value("lsb", mosi) = w % Power(Base)[n] /\ xfer.result = Value("lsb", miso)
    BY DEF SpiInv, SpiDigits, Digits, Low, n, w
  <2>2. place = n
    BY <1>3
  <2>3. Value("lsb", mosi') = Value("lsb", mosi) + ByteAt(w, n) * Power(Base)[n]
    BY <1>2, <1>6, <1>9, <2>2, ValueNext DEF n
  <2>4. Value("lsb", miso') = Value("lsb", miso) + reply * Power(Base)[n]
    BY <1>1, <1>2, <1>6, <1>9, ValueNext
  <2>5. Value("lsb", mosi') = w % Power(Base)[n + 1]
    BY <1>1, <2>1, <2>3, NextByteLow
  <2> QED
    BY <1>7, <2>1, <2>2, <2>4, <2>5
<1>11. High(xfer, mosi, miso)'
  <2> SUFFICES ASSUME xfer.order = "msb"
      PROVE  /\ Value("msb", mosi')
                  = (w \div Power(Base)[c - (n + 1)]) % Power(Base)[n + 1]
             /\ xfer'.result = Value("msb", miso') * Power(Base)[c - (n + 1)]
    BY <1>5, <1>7 DEF High
  <2>1. /\ Value("msb", mosi) = (w \div Power(Base)[c - n]) % Power(Base)[n]
        /\ xfer.result = Value("msb", miso) * Power(Base)[c - n]
    BY DEF SpiInv, SpiDigits, Digits, High, n, w, c
  <2>2. place = c - (n + 1) /\ place + 1 = c - n
    BY <1>1, <1>3
  <2>3. Value("msb", mosi') = Value("msb", mosi) * Base + ByteAt(w, place)
    BY <1>2, <1>6, <1>9, ValueNext
  <2>4. Value("msb", miso') = Value("msb", miso) * Base + reply /\ Value("msb", miso) \in Nat
    BY <1>2, <1>6, <1>9, ValueNext
  <2>5. Value("msb", mosi') = (w \div Power(Base)[place]) % Power(Base)[n + 1]
    BY <1>1, <1>3, <2>1, <2>2, <2>3, NextByteHigh
  <2>6. Power(Base)[place + 1] = Base * Power(Base)[place] /\ Base \in Nat
    BY <1>3, SpiBase, PowerDef
  <2>7. ASSUME NEW v \in Nat, NEW p \in Nat
        PROVE  v * (Base * p) + reply * p = (v * Base + reply) * p
    BY <1>6, <2>6
  <2>8. xfer'.result = Value("msb", miso') * Power(Base)[place]
    BY <1>6, <1>7, <2>1, <2>2, <2>4, <2>6, <2>7
  <2> QED
    BY <2>2, <2>5, <2>8
<1> QED
  BY <1>5, <1>7, <1>8, <1>10, <1>11, <1>1, <1>2 DEF SpiInv, SpiDigits, Digits

LEMMA SpiInductive == SpiInv /\ [SpiNext]_spi_vars => SpiInv'
<1> SUFFICES ASSUME SpiInv, [SpiNext]_spi_vars PROVE SpiInv'
  OBVIOUS
<1> USE DEF SpiInv
<1>1. CASE UNCHANGED <<xfer, mosi, miso>> /\ SpiTypeOK' /\ (in_transaction <=> told = "active")'
  BY <1>1 DEF SpiDigits
<1>2. ASSUME NEW order \in {"msb", "lsb"}, SpiBeginTransaction(order) PROVE SpiInv'
  BY <1>1, <1>2 DEF SpiBeginTransaction, SpiTypeOK
<1>3. ASSUME NEW order \in {"msb", "lsb"}, SetBitOrder(order) PROVE SpiInv'
  BY <1>1, <1>3 DEF SetBitOrder, SpiTypeOK
<1>4. CASE SpiEnd
  BY <1>1, <1>4 DEF SpiEnd, SpiTypeOK
<1>5. CASE SpiEndTransaction
  BY <1>1, <1>5 DEF SpiEndTransaction, SpiTypeOK
<1>6. ASSUME NEW word \in Words, NEW count \in 1 .. 4, StartTransfer(word, count) PROVE SpiInv'
  <2>1. word \in Nat /\ count \in 0 .. 4 /\ <<>> \in Seq(0 .. Base - 1)
    BY SpiAssumption
  <2>2. SpiTypeOK'
    BY <1>6, <2>1 DEF StartTransfer, SpiTypeOK
  <2>3. SpiDigits'
    <3>1. xfer'.result = 0 /\ xfer'.word = word /\ xfer'.count = count
      BY <1>6 DEF StartTransfer
    <3>2. Digits(xfer', <<>>, <<>>)
      BY <2>1, <3>1, BeforeFirstByte
    <3> QED
      BY <1>6, <3>2 DEF StartTransfer, SpiDigits
  <2> QED
    BY <1>6, <2>2, <2>3 DEF StartTransfer
<1>7. ASSUME NEW reply \in 0 .. Base - 1, TransferByte(reply) PROVE SpiInv'
  BY <1>7, TransferKeeps
<1>8. CASE TransferReturns
  <2>1. SpiTypeOK'
    BY <1>8 DEF TransferReturns, SpiTypeOK, NoTransfer
  <2>2. SpiDigits'
    <3>1. xfer'.result = 0 /\ xfer'.word = 0 /\ xfer'.count = 0
      BY <1>8 DEF TransferReturns, NoTransfer
    <3>2. Digits(xfer', <<>>, <<>>)
      BY <3>1, BeforeFirstByte
    <3> QED
      BY <1>8, <3>2 DEF TransferReturns, SpiDigits
  <2> QED
    BY <1>8, <2>1, <2>2 DEF TransferReturns
<1>9. CASE UNCHANGED spi_vars
  BY <1>1, <1>9 DEF spi_vars, SpiTypeOK
<1> QED
  BY <1>2, <1>3, <1>4, <1>5, <1>6, <1>7, <1>8, <1>9 DEF SpiNext

LEMMA SpiTells == SpiInv => SpiWordsAndTransactions
<1> SUFFICES ASSUME SpiInv, Len(mosi) = xfer.count
    PROVE  /\ Value(xfer.order, mosi) = xfer.word % Power(Base)[xfer.count]
           /\ Value(xfer.order, miso) = xfer.result
  BY DEF SpiInv, SpiWordsAndTransactions
<1>1. /\ xfer.order \in {"msb", "lsb"} /\ xfer.count \in Nat /\ xfer.word \in Nat
      /\ miso \in Seq(0 .. Base - 1) /\ xfer.count - Len(mosi) = 0
  BY DEF SpiInv, SpiTypeOK
<1>2. CASE xfer.order = "lsb"
  BY <1>2 DEF SpiInv, SpiDigits, Digits, Low
<1>3. CASE xfer.order = "msb"
  <2>1. xfer.word \div Power(Base)[0] = xfer.word
    <3>1. 1 \in Nat \ {0}
      OBVIOUS
    <3> QED
      BY <1>1, <3>1, NothingSent
  <2>2. Power(Base)[0] = 1
    BY SpiBase, PowerDef
  <2>3. miso \in Seq(Nat)
    BY <1>1, BytesAreNumbers
  <2>4. Value("msb", miso) \in Nat
    BY <2>3, ValueNext
  <2>5. Value("msb", miso) * 1 = Value("msb", miso)
    BY <2>4
  <2> QED
    BY <1>1, <1>3, <2>1, <2>2, <2>5 DEF SpiInv, SpiDigits, Digits, High
<1> QED
  BY <1>1, <1>2, <1>3

LEMMA SpiInvInit == SpiInit => SpiInv
<1> SUFFICES ASSUME SpiInit PROVE SpiInv
  OBVIOUS
<1>1. SpiTypeOK
  <2>1. <<>> \in Seq(0 .. Base - 1)
    OBVIOUS
  <2>2. NoTransfer \in [word : Nat, count : 0 .. 4, order : {"msb", "lsb"}, result : Nat]
    BY DEF NoTransfer
  <2>3. in_transaction \in BOOLEAN
    BY DEF SpiInit
  <2> QED
    BY <2>1, <2>2, <2>3 DEF SpiInit, SpiTypeOK
<1>2. SpiDigits
  <2>1. xfer.result = 0 /\ xfer.word = 0 /\ xfer.count = 0
    BY DEF SpiInit, NoTransfer
  <2>2. Digits(xfer, <<>>, <<>>)
    BY <2>1, BeforeFirstByte
  <2> QED
    BY <2>2 DEF SpiInit, SpiDigits
<1> QED
  BY <1>1, <1>2 DEF SpiInv, SpiInit

LEMMA SpiCorrect == PortsSpec => []SpiInv
<1>1. PortsInit => SpiInv
  BY SpiInvInit DEF PortsInit
<1>2. SpiInv /\ [PortsNext]_ports_vars => SpiInv'
  BY PortsStep, SpiInductive
<1> QED
  BY <1>1, <1>2, PTL DEF PortsSpec

(* A complete transfer has sent the low bytes of its word in the order it  *)
(* began with, and reads as the number its bytes were answered with, for   *)
(* any words, any answers and any size of a byte; the transaction hook     *)
(* knows whether the bus is in one (SPI.cpp:40-55, 76-107).                *)
THEOREM SpiWords == PortsSpec => []SpiWordsAndTransactions
BY SpiCorrect, SpiTells, PTL
------------------------------------------------------------------------------
(* The types of each port.  What the invariants leave out is kept beside   *)
(* them.                                                                   *)
WireRest ==
  /\ address \in Addresses \cup {Idle} /\ aimed \in Addresses \cup {Idle}
  /\ transmitting \in BOOLEAN /\ flushed \in BOOLEAN
  /\ Len(rx_buffer) <= BufferLength
  /\ heard \in [address : Addresses \cup {Idle}, data : Seq(Nat),
                aimed : Addresses \cup {Idle}, meant : Seq(Nat)]

LEMMA WireRestKept ==
  ASSUME WireRest, WireSends, WireReads, [WireNext]_wire_vars
  PROVE  WireRest'
<1>1. CASE UNCHANGED <<address, aimed, transmitting, flushed, rx_buffer, heard>>
  BY <1>1 DEF WireRest
<1>2. ASSUME NEW a \in Addresses, NEW size \in Nat, RequestFrom(a, size) PROVE WireRest'
  <2>1. PICK n \in 0..Fewer(size, BufferLength) :
          /\ rx_buffer' = Fresh(n, supplied) /\ address' = a
          /\ aimed' = IF transmitting THEN Idle ELSE aimed
          /\ UNCHANGED <<transmitting, flushed, heard>>
    BY <1>2 DEF RequestFrom
  <2>2. n \in Nat /\ n <= BufferLength /\ supplied \in Nat
    <3>1. Fewer(size, BufferLength) \in Nat /\ Fewer(size, BufferLength) <= BufferLength
          /\ BufferLength \in Nat
      BY WireAssumption, FewerType
    <3> QED
      BY <3>1 DEF WireReads
  <2>3. Len(rx_buffer') <= BufferLength
    BY <2>1, <2>2, FreshType
  <2> QED
    BY <2>1, <2>3 DEF WireRest
<1>3. ASSUME NEW a \in Addresses, NEW size \in Nat, RequestFromInt(a, size) PROVE WireRest'
  <2>1. size % ByteModulus \in Nat
    BY WireAssumption
  <2> QED
    BY <1>2, <1>3, <2>1 DEF RequestFromInt
<1>4. CASE WireEnd \/ WireFlush
  <2>1. Len(rx_buffer') <= BufferLength
    BY <1>4, NoBytes, WireAssumption DEF WireEnd, WireFlush
  <2> QED
    BY <1>4, <2>1 DEF WireEnd, WireFlush, WireRest
<1>5. ASSUME NEW a \in Addresses, WireBegin(a) \/ BeginTransmission(a) PROVE WireRest'
  BY <1>5 DEF WireBegin, BeginTransmission, WireRest, wire_rx
<1>6. CASE EndTransmission
  <2>1. tx_buffer \in Seq(Nat) /\ meant \in Seq(Nat)
    BY DEF WireSends, WireBytes
  <2>2. heard' \in [address : Addresses \cup {Idle}, data : Seq(Nat),
                    aimed : Addresses \cup {Idle}, meant : Seq(Nat)]
    BY <1>6, <2>1 DEF EndTransmission, WireRest
  <2> QED
    BY <1>6, <2>2 DEF EndTransmission, WireRest, wire_rx
<1> QED
  BY <1>1, <1>2, <1>3, <1>4, <1>5, <1>6
  DEF WireNext, wire_vars, wire_tx, wire_rx, WireRead, WireWrite

LEMMA WireTypes == PortsSpec => []WireTypeOK
<1>1. PortsInit => WireRest
  <2>1. Silence \in [address : Addresses \cup {Idle}, data : Seq(Nat),
                     aimed : Addresses \cup {Idle}, meant : Seq(Nat)]
    BY NoBytes DEF Silence
  <2>2. Len(<<>>) <= BufferLength
    BY NoBytes, WireAssumption
  <2> QED
    BY <2>1, <2>2 DEF PortsInit, WireInit, WireRest
<1>2. WireRest /\ WireSends /\ WireReads /\ [PortsNext]_ports_vars => WireRest'
  BY PortsStep, WireRestKept
<1>3. WireRest /\ WireSends /\ WireReads => WireTypeOK
  <2> SUFFICES ASSUME WireRest, WireSends, WireReads PROVE WireTypeOK
    OBVIOUS
  <2>1. answer \in Seq(Nat) /\ rx_index \in 0..Len(answer)
    BY DEF WireReads
  <2>2. read_bytes \in Seq(Nat)
    BY <2>1 DEF WireReads
  <2> QED
    BY <2>1, <2>2 DEF WireRest, WireSends, WireBytes, WireReads, WireTypeOK
<1> QED
  BY <1>1, <1>2, <1>3, WireCorrect, PTL DEF PortsSpec

(* No more triggers are in progress than the bound, of any pin.            *)
LEMMA InterruptTypes == PortsSpec => []InterruptTypeOK
<1>1. IrqInv => InterruptTypeOK
  <2> SUFFICES ASSUME IrqInv PROVE InterruptTypeOK
    OBVIOUS
  <2>1. Len(stack) \in Nat /\ Len(stack) <= MaxNesting /\ MaxNesting \in Nat
    BY InterruptAssumption DEF IrqInv, IrqShape
  <2>2. ASSUME NEW T, T \subseteq 1..Len(stack)
        PROVE  Cardinality(T) \in 0..MaxNesting
    <3>1. IsFiniteSet(1..Len(stack)) /\ Cardinality(1..Len(stack)) = Len(stack)
      <4>1. /\ IsFiniteSet(1..Len(stack))
            /\ Cardinality(1..Len(stack)) = IF 1 > Len(stack) THEN 0 ELSE Len(stack) - 1 + 1
        <5>1. 1 \in Int /\ Len(stack) \in Int
          BY <2>1
        <5> QED
          BY <5>1, FS_Interval, Zenon
      <4> QED
        BY <2>1, <4>1
    <3>2. IsFiniteSet(T) /\ Cardinality(T) <= Len(stack)
      BY <2>2, <3>1, FS_Subset
    <3>3. Cardinality(T) \in Nat
      BY <3>2, FS_CardinalityType
    <3> QED
      BY <2>1, <3>2, <3>3
  <2>3. ASSUME NEW p \in IrqPins
        PROVE  depth[p] \in 0..MaxNesting /\ traced[p] \in 0..MaxNesting
    <3>1. Running(p) \subseteq 1..Len(stack) /\ Counted(p) \subseteq 1..Len(stack)
      BY DEF Running, Counted
    <3>2. Cardinality(Running(p)) \in 0..MaxNesting /\ Cardinality(Counted(p)) \in 0..MaxNesting
      BY <2>2, <3>1
    <3> QED
      BY <3>2 DEF IrqInv, InterruptDepthTells
  <2> QED
    BY <2>3 DEF IrqInv, IrqShape, InterruptTypeOK
<1> QED
  BY <1>1, IrqCorrect, PTL

(* The pins: what the GPIO calls keep, and what the analog calls keep.  A  *)
(* pin that has an LEDC slot is on a channel, so that only channels are    *)
(* ever retuned.                                                           *)
GpioShape == pin_value \in [Pins -> 0..1] /\ pin_mode \in [Pins -> Modes]

AnalogRest ==
  /\ tone_pin \in Pins \cup {Nothing} /\ asked \subseteq Pins /\ retuned \subseteq Channels
  /\ \A p \in Pins : LedcSlot(p) => analog[p].channel \in Channels

LEMMA GpioShapeKept ==
  ASSUME GpioShape, [GpioNext]_gpio_vars
  PROVE  GpioShape'
<1>1. ASSUME NEW p \in Pins, NEW mode \in Modes, PinMode(p, mode) PROVE GpioShape'
  <2>1. Pulled(mode, pin_value[p]) \in 0..1
    BY DEF GpioShape, Pulled
  <2> QED
    BY <1>1, <2>1 DEF PinMode, GpioShape
<1>2. ASSUME NEW p \in Pins, NEW level \in 0..1, DigitalWrite(p, level) PROVE GpioShape'
  BY <1>2 DEF DigitalWrite, GpioShape
<1>3. CASE ResetPinState
  BY <1>3 DEF ResetPinState, GpioShape, Modes
<1>4. CASE UNCHANGED gpio_vars
  BY <1>4 DEF gpio_vars, GpioShape
<1> QED
  BY <1>1, <1>2, <1>3, <1>4 DEF GpioNext

(* A slot that changes is on a channel or not an LEDC slot.                *)
LEMMA RestChanges ==
  ASSUME AnalogShape, AnalogRest, NEW p \in Pins, NEW slot,
         Change(p, slot), slot.attached /\ ~slot.dac => slot.channel \in Channels,
         tone_pin' \in Pins \cup {Nothing}, asked' \subseteq Pins,
         retuned' = retuned \/ \E R \in SUBSET Channels : Retunes(R)
  PROVE  AnalogRest'
<1>1. analog \in [Pins -> Slots] /\ analog' = [analog EXCEPT ![p] = slot]
  BY DEF AnalogShape, Change
<1>2. analog'[p] = slot /\ \A q \in Pins : q # p => analog'[q] = analog[q]
  BY <1>1
<1>3. \A q \in Pins : LedcSlot(q)' => analog'[q].channel \in Channels
  BY <1>2 DEF AnalogRest, LedcSlot
<1>4. retuned' \subseteq Channels
  BY DEF AnalogRest, Retunes
<1> QED
  BY <1>3, <1>4 DEF AnalogRest

LEMMA AnalogRestKept ==
  ASSUME AnalogShape, AnalogRest, [AnalogNext]_analog_vars
  PROVE  AnalogRest'
<1>0. \A p \in Pins : analog[p] \in Slots
  BY DEF AnalogShape
<1>1. /\ tone_pin \in Pins \cup {Nothing} /\ asked \subseteq Pins
      /\ \A p \in Pins : LedcSlot(p) => analog[p].channel \in Channels
  BY DEF AnalogRest
<1>2. ASSUME NEW p \in Pins, NEW slot, Change(p, slot), LedcSlot(p),
             slot.channel = analog[p].channel,
             UNCHANGED <<tone_pin, asked>>,
             retuned' = retuned \/ \E R \in SUBSET {analog[p].channel} : Retunes(R)
      PROVE  AnalogRest'
  BY <1>1, <1>2, RestChanges
<1>3. ASSUME NEW p \in Pins, NEW slot, Change(p, slot), ~slot.attached \/ slot.dac,
             tone_pin' \in {tone_pin, Nothing}, asked' \subseteq asked,
             retuned' = retuned \/ Retunes({})
      PROVE  AnalogRest'
  BY <1>1, <1>3, RestChanges
<1>4. ASSUME NEW p \in Pins, NEW f \in Nat, NEW r \in Nat, Retune(p, f, r) PROVE AnalogRest'
  <2> DEFINE slot == [analog[p] EXCEPT !.frequency = f, !.resolution = r]
  <2>1. slot.channel = analog[p].channel
    BY <1>0, <1>4, RetunedSlot DEF SameChannel
  <2>2. /\ LedcSlot(p) /\ Change(p, slot) /\ Retunes({analog[p].channel})
        /\ UNCHANGED <<tone_pin, asked>>
    BY <1>4 DEF Retune
  <2> HIDE DEF slot
  <2> QED
    BY <1>2, <2>1, <2>2
<1>5. ASSUME NEW p \in Pins, Ledc(p) PROVE AnalogRest'
  <2>1. ASSUME NEW f \in Frequencies, NEW r \in Resolutions, NEW c \in Channels,
               LedcAttachChannel(p, f, r, c)
        PROVE  AnalogRest'
    <3> DEFINE slot == Attached(p, f, r, c)
    <3>1. slot.channel = c
      BY <1>0, AttachedOn
    <3>2. /\ Change(p, slot) /\ asked' = asked \cup {p}
          /\ UNCHANGED <<tone_pin, retuned>>
      BY <2>1 DEF LedcAttachChannel
    <3> HIDE DEF slot
    <3> QED
      BY <1>1, <3>1, <3>2, RestChanges
  <2>2. ASSUME NEW f \in Frequencies, NEW r \in Resolutions, LedcAttach(p, f, r)
        PROVE  AnalogRest'
    <3> DEFINE slot == Attached(p, f, r, Lowest(FreeChannels))
    <3>1. Lowest(FreeChannels) \in Channels
      BY <2>2, FreeChannel DEF LedcAttach
    <3>2. slot.channel = Lowest(FreeChannels)
      BY <1>0, AttachedOn
    <3>3. Change(p, slot) /\ UNCHANGED <<tone_pin, asked, retuned>>
      BY <2>2 DEF LedcAttach, sharing
    <3> HIDE DEF slot
    <3> QED
      BY <1>1, <3>1, <3>2, <3>3, RestChanges
  <2>3. ASSUME NEW f \in Frequencies, NEW r \in Resolutions, LedcChangeFrequency(p, f, r)
        PROVE  AnalogRest'
    BY <1>4, <2>3, BusAssumption DEF LedcChangeFrequency
  <2>4. ASSUME NEW duty \in Duties, LedcWrite(p, duty) PROVE AnalogRest'
    <3> DEFINE slot == [analog[p] EXCEPT !.duty = ClampDuty(duty, analog[p].resolution)]
    <3>1. slot.channel = analog[p].channel
      BY <1>0 DEF Slots
    <3>2. LedcSlot(p) /\ Change(p, slot) /\ UNCHANGED <<tone_pin, asked, retuned>>
      BY <2>4 DEF LedcWrite, sharing
    <3> HIDE DEF slot
    <3> QED
      BY <1>2, <3>1, <3>2
  <2>5. ASSUME NEW f \in Frequencies, LedcWriteTone(p, f) PROVE AnalogRest'
    <3> DEFINE slot == Toned(analog[p], f)
    <3>1. slot.channel = analog[p].channel
      BY <1>0 DEF Slots, Toned
    <3>2. /\ LedcSlot(p) /\ Change(p, slot) /\ UNCHANGED <<tone_pin, asked>>
          /\ \E R \in SUBSET {analog[p].channel} : Retunes(R)
      BY <2>5 DEF LedcWriteTone
    <3> HIDE DEF slot
    <3> QED
      BY <1>2, <3>1, <3>2
  <2>6. CASE LedcDetach(p)
    <3> DEFINE slot == Detached(analog[p])
    <3>1. ~slot.attached
      BY <1>0, DetachedSlot
    <3>2. Change(p, slot) /\ asked' \subseteq asked /\ Retunes({}) /\ tone_pin' = tone_pin
      BY <2>6 DEF LedcDetach, Leaves
    <3> HIDE DEF slot
    <3> QED
      BY <1>3, <3>1, <3>2
  <2>7. ASSUME NEW start \in Duties, NEW target \in Duties, LedcFade(p, start, target)
        PROVE  AnalogRest'
    <3> DEFINE begun == [analog[p] EXCEPT !.duty = ClampDuty(start, analog[p].resolution)]
               slot == [begun EXCEPT !.duty = ClampDuty(target, begun.resolution)]
    <3>1. slot.channel = analog[p].channel
      BY <1>0 DEF Slots
    <3>2. LedcSlot(p) /\ Change(p, slot) /\ UNCHANGED <<tone_pin, asked, retuned>>
      BY <2>7 DEF LedcFade, sharing
    <3> HIDE DEF slot
    <3> QED
      BY <1>2, <3>1, <3>2
  <2> QED
    BY <1>5, <2>1, <2>2, <2>3, <2>4, <2>5, <2>6, <2>7 DEF Ledc
<1>6. ASSUME NEW c \in Channels, NEW duty \in Duties, LedcWriteChannel(c, duty)
      PROVE  AnalogRest'
  <2> DEFINE written(p) == [analog[p] EXCEPT !.duty = ClampDuty(duty, analog[p].resolution)]
  <2>1. /\ analog' = [p \in Pins |-> IF p \in OnChannel(c) THEN written(p) ELSE analog[p]]
        /\ UNCHANGED <<tone_pin, asked, retuned>>
    BY <1>6 DEF LedcWriteChannel, sharing
  <2>2. \A p \in Pins : /\ written(p).channel = analog[p].channel
                         /\ written(p).attached = analog[p].attached
                         /\ written(p).dac = analog[p].dac
    BY <1>0 DEF Slots
  <2> HIDE DEF written
  <2>3. \A p \in Pins : LedcSlot(p)' => LedcSlot(p) /\ analog'[p].channel = analog[p].channel
    BY <2>1, <2>2 DEF LedcSlot
  <2> QED
    BY <2>1, <2>3 DEF AnalogRest
<1>7. ASSUME NEW p \in Pins, NEW value \in Duties, AnalogWrite(p, value) PROVE AnalogRest'
  <2> DEFINE slot == IF LedcSlot(p) THEN analog[p]
                     ELSE Attached(p, write_hz, write_bits, Lowest(FreeChannels))
             written == [slot EXCEPT !.duty = ClampDuty(value, slot.resolution)]
  <2>1. slot.channel \in Channels
    <3>1. CASE LedcSlot(p)
      BY <1>1, <3>1
    <3>2. CASE ~LedcSlot(p)
      <4>1. Lowest(FreeChannels) \in Channels
        BY <1>7, <3>2, FreeChannel DEF AnalogWrite
      <4> QED
        BY <1>0, <3>2, <4>1, AttachedOn
    <3> QED
      BY <3>1, <3>2
  <2>2. Change(p, written) /\ UNCHANGED <<tone_pin, asked, retuned>>
    BY <1>7 DEF AnalogWrite, sharing
  <2> HIDE DEF slot
  <2>3. written.channel = slot.channel
    OBVIOUS
  <2> HIDE DEF written
  <2> QED
    BY <1>1, <2>1, <2>2, <2>3, RestChanges
<1>8. ASSUME NEW p \in Pins, NEW value \in Duties, DacWrite(p, value) PROVE AnalogRest'
  <2> DEFINE slot == [analog[p] EXCEPT !.channel = Nothing, !.frequency = 0,
                                       !.resolution = DacResolution, !.duty = value,
                                       !.attached = TRUE, !.dac = TRUE]
  <2>1. slot.dac
    BY <1>0 DEF Slots
  <2>2. Change(p, slot) /\ asked' \subseteq asked /\ Retunes({}) /\ tone_pin' = tone_pin
    BY <1>8 DEF DacWrite, Leaves
  <2> HIDE DEF slot
  <2> QED
    BY <1>3, <2>1, <2>2
<1>9. ASSUME NEW p \in Pins, NEW f \in Frequencies, AnalogWriteFrequency(p, f) PROVE AnalogRest'
  <2>1. CASE LedcSlot(p)
    BY <1>4, <1>9, <2>1, BusAssumption DEF AnalogWriteFrequency, AnalogShape
  <2>2. CASE ~LedcSlot(p)
    BY <1>9, <2>2 DEF AnalogWriteFrequency, AnalogRest, LedcSlot, sharing
  <2> QED
    BY <2>1, <2>2
<1>10. ASSUME NEW p \in Pins, NEW r \in Resolutions, AnalogWriteResolution(p, r)
       PROVE  AnalogRest'
  <2>1. CASE LedcSlot(p)
    BY <1>4, <1>10, <2>1, BusAssumption DEF AnalogWriteResolution, AnalogShape
  <2>2. CASE ~LedcSlot(p)
    BY <1>10, <2>2 DEF AnalogWriteResolution, AnalogRest, LedcSlot, sharing
  <2> QED
    BY <2>1, <2>2
<1>11. ASSUME NEW f, NEW r, AnalogWriteDefaults(f, r) PROVE AnalogRest'
  BY <1>11 DEF AnalogWriteDefaults, AnalogRest, LedcSlot, sharing
<1>12. ASSUME NEW p \in Pins, DacDisable(p) PROVE AnalogRest'
  <2> DEFINE slot == [analog[p] EXCEPT !.attached = FALSE, !.dac = FALSE, !.duty = 0]
  <2>1. ~slot.attached
    BY <1>0 DEF Slots
  <2>2. Change(p, slot) /\ UNCHANGED <<tone_pin, asked, retuned>>
    BY <1>12 DEF DacDisable, sharing
  <2> HIDE DEF slot
  <2> QED
    BY <1>3, <2>1, <2>2
<1>13. ASSUME NEW p \in Pins, NoTone(p) PROVE AnalogRest'
  <2>1. CASE LedcSlot(p)
    <3> DEFINE slot == Detached(analog[p])
    <3>1. ~slot.attached
      BY <1>0, DetachedSlot
    <3>2. Change(p, slot) /\ asked' \subseteq asked /\ Retunes({}) /\ tone_pin' = Nothing
      BY <1>13, <2>1 DEF NoTone, Leaves
    <3> HIDE DEF slot
    <3> QED
      BY <1>3, <3>1, <3>2
  <2>2. CASE ~LedcSlot(p)
    BY <1>13, <2>2 DEF NoTone, AnalogRest, LedcSlot, sharing
  <2> QED
    BY <2>1, <2>2
<1>14. ASSUME NEW p \in Pins, NEW f \in Frequencies, NEW duration \in BOOLEAN,
              Tone(p, f, duration)
       PROVE  AnalogRest'
  <2> DEFINE starts == tone_pin = Nothing
             slot == IF starts THEN Attached(p, f, ToneResolution, Lowest(FreeChannels))
                     ELSE analog[p]
             sounds == IF duration THEN Toned(Toned(slot, f), 0) ELSE Toned(slot, f)
  <2>1. slot.channel \in Channels
    <3>1. CASE ~starts
      BY <1>1, <1>14, <3>1 DEF Tone
    <3>2. CASE starts
      <4>1. Lowest(FreeChannels) \in Channels
        BY <1>14, <3>2, FreeChannel DEF Tone
      <4> QED
        BY <1>0, <3>2, <4>1, AttachedOn
    <3> QED
      BY <3>1, <3>2
  <2>2. /\ Change(p, sounds) /\ tone_pin' = p /\ asked' = asked
        /\ Retunes(IF f = 0 THEN {} ELSE {slot.channel})
    BY <1>14 DEF Tone
  <2> HIDE DEF slot
  <2>3. sounds.channel = slot.channel
    BY DEF Toned
  <2> HIDE DEF sounds
  <2>4. \E R \in SUBSET Channels : Retunes(R)
    BY <2>1, <2>2
  <2> QED
    BY <1>1, <2>1, <2>2, <2>3, <2>4, RestChanges
<1>15. CASE ResetAnalogState
  BY <1>15 DEF ResetAnalogState, AnalogRest, LedcSlot, Unattached
<1>16. CASE UNCHANGED analog_vars
  BY <1>16 DEF analog_vars, sharing, AnalogRest, LedcSlot
<1> QED
  BY <1>5, <1>6, <1>7, <1>8, <1>9, <1>10, <1>11, <1>12, <1>13, <1>14, <1>15, <1>16 DEF AnalogNext

LEMMA BusTypes == PortsSpec => []BusTypeOK
<1>1. PortsInit => GpioShape /\ AnalogRest
  BY DEF PortsInit, GpioInit, AnalogInit, GpioShape, AnalogRest, LedcSlot, Unattached, Modes
<1>2. GpioShape /\ AnalogRest /\ AnalogInv /\ [PortsNext]_ports_vars => GpioShape' /\ AnalogRest'
  BY PortsStep, GpioShapeKept, AnalogRestKept DEF AnalogInv
<1>3. GpioShape /\ AnalogRest /\ AnalogInv => BusTypeOK
  BY DEF GpioShape, AnalogRest, AnalogInv, AnalogShape, BusTypeOK, Slots
<1> QED
  BY <1>1, <1>2, <1>3, AnalogCorrect, PTL DEF PortsSpec

LEMMA SpiTypes == PortsSpec => []SpiTypeOK
<1>1. SpiInv => SpiTypeOK
  BY DEF SpiInv
<1> QED
  BY <1>1, SpiCorrect, PTL
------------------------------------------------------------------------------
(* What Increasing and the sticky flags say of one direction: s, the bytes *)
(* passed on and queued, of n that were offered, the flag and the excused. *)
Told(s, n, over, excused) ==
  /\ s \in Seq(Nat) /\ n \in Nat /\ over \in BOOLEAN /\ excused \subseteq 1..n
  /\ Increasing(s)
  /\ \A i \in 1..Len(s) : s[i] \in 1..n /\ s[i] \notin excused
  /\ over <=> ~((1..n) \ Elements(s) \subseteq excused)

LEMMA NumberedType ==
  ASSUME NEW n \in Nat, NEW from \in Nat
  PROVE  /\ Numbered(n, from) \in Seq(Nat) /\ Len(Numbered(n, from)) = n
         /\ \A i \in 1..n : Numbered(n, from)[i] = from + i
BY DEF Numbered

LEMMA ElementOf ==
  ASSUME NEW s \in Seq(Nat), NEW x
  PROVE  x \in Elements(s) <=> \E i \in 1..Len(s) : x = s[i]
BY DEF Elements

LEMMA JoinedAt ==
  ASSUME NEW s \in Seq(Nat), NEW t \in Seq(Nat)
  PROVE  /\ s \o t \in Seq(Nat) /\ Len(s \o t) = Len(s) + Len(t)
         /\ \A i \in 1..Len(s) : (s \o t)[i] = s[i]
         /\ \A i \in 1..Len(t) : (s \o t)[Len(s) + i] = t[i]
OBVIOUS

LEMMA CutAt ==
  ASSUME NEW s \in Seq(Nat), NEW k \in 0..Len(s)
  PROVE  /\ SubSeq(s, 1, k) \in Seq(Nat) /\ Len(SubSeq(s, 1, k)) = k
         /\ \A i \in 1..k : SubSeq(s, 1, k)[i] = s[i]
         /\ SubSeq(s, k + 1, Len(s)) \in Seq(Nat)
         /\ Len(SubSeq(s, k + 1, Len(s))) = Len(s) - k
         /\ \A i \in 1..Len(s) - k : SubSeq(s, k + 1, Len(s))[i] = s[k + i]
<1>1. /\ SubSeq(s, 1, k) \in Seq(Nat) /\ Len(SubSeq(s, 1, k)) = k
      /\ \A i \in 1..k : SubSeq(s, 1, k)[i] = s[i]
  OBVIOUS
<1>2. /\ SubSeq(s, k + 1, Len(s)) \in Seq(Nat)
      /\ Len(SubSeq(s, k + 1, Len(s))) = Len(s) - k
  OBVIOUS
<1>3. \A i \in 1..Len(s) - k : SubSeq(s, k + 1, Len(s))[i] = s[k + i]
  OBVIOUS
<1> QED
  BY <1>1, <1>2, <1>3

(* Equal lengths and equal elements.                                       *)
LEMMA SameBytes ==
  ASSUME NEW s \in Seq(Nat), NEW t \in Seq(Nat), Len(s) = Len(t),
         \A i \in 1..Len(s) : s[i] = t[i]
  PROVE  s = t
OBVIOUS

LEMMA InTwo ==
  ASSUME NEW s \in Seq(Nat), NEW t \in Seq(Nat), NEW i \in 1..Len(s \o t)
  PROVE  i \in 1..Len(s) \/ \E j \in 1..Len(t) : i = Len(s) + j
<1>1. Len(s) \in Nat /\ Len(t) \in Nat /\ Len(s \o t) = Len(s) + Len(t)
  BY JoinedAt
<1>2. CASE i > Len(s)
  <2>1. i - Len(s) \in 1..Len(t) /\ i = Len(s) + (i - Len(s))
    BY <1>1, <1>2
  <2> QED
    BY <2>1
<1>3. CASE ~(i > Len(s))
  BY <1>1, <1>3
<1> QED
  BY <1>2, <1>3

(* The driver takes, or the sketch reads, from the front.                  *)
LEMMA MovesOn ==
  ASSUME NEW d \in Seq(Nat), NEW q \in Seq(Nat), NEW k \in 0..Len(q)
  PROVE  (d \o SubSeq(q, 1, k)) \o SubSeq(q, k + 1, Len(q)) = d \o q
<1> DEFINE a == SubSeq(q, 1, k)
           b == SubSeq(q, k + 1, Len(q))
<1>1. /\ a \in Seq(Nat) /\ Len(a) = k /\ \A i \in 1..k : a[i] = q[i]
      /\ b \in Seq(Nat) /\ Len(b) = Len(q) - k /\ \A i \in 1..Len(q) - k : b[i] = q[k + i]
  BY CutAt
<1>2. k \in Nat /\ Len(q) \in Nat /\ k <= Len(q)
  OBVIOUS
<1> HIDE DEF a, b
<1>3. a \o b = q
  <2>1. /\ a \o b \in Seq(Nat) /\ Len(a \o b) = Len(q)
        /\ \A i \in 1..k : (a \o b)[i] = q[i]
        /\ \A i \in 1..Len(q) - k : (a \o b)[k + i] = q[k + i]
    <3>1. /\ a \o b \in Seq(Nat) /\ Len(a \o b) = Len(a) + Len(b)
          /\ \A i \in 1..Len(a) : (a \o b)[i] = a[i]
          /\ \A i \in 1..Len(b) : (a \o b)[Len(a) + i] = b[i]
      BY <1>1, JoinedAt
    <3>2. Len(a) = k /\ Len(b) = Len(q) - k /\ Len(a) + Len(b) = Len(q)
      BY <1>1, <1>2
    <3> QED
      BY <1>1, <3>1, <3>2
  <2>2. ASSUME NEW i \in 1..Len(q) PROVE (a \o b)[i] = q[i]
    <3>1. CASE i <= k
      BY <1>2, <2>1, <3>1
    <3>2. CASE i > k
      <4>1. i - k \in 1..Len(q) - k /\ k + (i - k) = i
        BY <1>2, <3>2
      <4> QED
        BY <2>1, <4>1
    <3>3. i <= k \/ i > k
      BY <1>2
    <3> QED
      BY <3>1, <3>2, <3>3
  <2> QED
    BY <2>1, <2>2, SameBytes
<1>4. (d \o a) \o b = d \o (a \o b)
  BY <1>1
<1> QED
  BY <1>3, <1>4 DEF a, b

LEMMA JoinAgain ==
  ASSUME NEW s \in Seq(Nat), NEW t \in Seq(Nat), NEW u \in Seq(Nat)
  PROVE  t \o u \in Seq(Nat) /\ s \o (t \o u) = (s \o t) \o u
OBVIOUS

LEMMA HeadMoves ==
  ASSUME NEW d \in Seq(Nat), NEW q \in Seq(Nat), q # <<>>
  PROVE  Append(d, Head(q)) \o Tail(q) = d \o q
OBVIOUS

LEMMA CutBehind ==
  ASSUME NEW d \in Seq(Nat), NEW q \in Seq(Nat), NEW k \in 0..Len(q)
  PROVE  d \o SubSeq(q, 1, k) = SubSeq(d \o q, 1, Len(d) + k)
<1> DEFINE cut == SubSeq(q, 1, k)
           all == d \o q
<1>1. /\ cut \in Seq(Nat) /\ Len(cut) = k /\ k \in Nat
      /\ \A i \in 1..k : cut[i] = q[i]
  BY CutAt
<1>2. /\ d \o cut \in Seq(Nat) /\ Len(d \o cut) = Len(d) + k
      /\ \A i \in 1..Len(d) : (d \o cut)[i] = d[i]
      /\ \A i \in 1..k : (d \o cut)[Len(d) + i] = cut[i]
  BY <1>1, JoinedAt
<1>3. /\ all \in Seq(Nat) /\ Len(all) = Len(d) + Len(q)
      /\ \A i \in 1..Len(d) : all[i] = d[i]
      /\ \A i \in 1..Len(q) : all[Len(d) + i] = q[i]
  BY JoinedAt
<1>4. Len(d) + k \in 0..Len(all)
  BY <1>3
<1>5. /\ SubSeq(all, 1, Len(d) + k) \in Seq(Nat) /\ Len(SubSeq(all, 1, Len(d) + k)) = Len(d) + k
      /\ \A i \in 1..Len(d) + k : SubSeq(all, 1, Len(d) + k)[i] = all[i]
  BY <1>3, <1>4, CutAt
<1>6. ASSUME NEW i \in 1..Len(d) + k
      PROVE  (d \o cut)[i] = all[i]
  <2>1. CASE i \in 1..Len(d)
    BY <2>1, <1>2, <1>3
  <2>2. CASE i \notin 1..Len(d)
    <3>1. /\ i - Len(d) \in 1..k /\ i - Len(d) \in 1..Len(q)
          /\ i = Len(d) + (i - Len(d))
      BY <2>2, <1>1
    <3> QED
      BY <3>1, <1>1, <1>2, <1>3
  <2> QED
    BY <2>1, <2>2
<1> HIDE DEF cut, all
<1>7. d \o cut = SubSeq(all, 1, Len(d) + k)
  BY <1>2, <1>5, <1>6, SameBytes
<1> QED
  BY <1>7 DEF cut, all

LEMMA ElementsJoin ==
  ASSUME NEW s \in Seq(Nat), NEW t \in Seq(Nat)
  PROVE  Elements(s \o t) = Elements(s) \cup Elements(t)
<1>1. ASSUME NEW x \in Elements(s \o t) PROVE x \in Elements(s) \cup Elements(t)
  <2>1. PICK i \in 1..Len(s \o t) : x = (s \o t)[i]
    BY DEF Elements
  <2>2. CASE i \in 1..Len(s)
    <3>1. x = s[i]
      BY <2>1, <2>2, JoinedAt
    <3> QED
      BY <2>2, <3>1 DEF Elements
  <2>3. ASSUME NEW j \in 1..Len(t), i = Len(s) + j PROVE x \in Elements(t)
    <3>1. x = t[j]
      BY <2>1, <2>3, JoinedAt
    <3> QED
      BY <3>1 DEF Elements
  <2> QED
    BY <2>2, <2>3, InTwo
<1>2. ASSUME NEW x \in Elements(s) PROVE x \in Elements(s \o t)
  <2>1. PICK i \in 1..Len(s) : x = s[i]
    BY ElementOf
  <2>2. i \in 1..Len(s \o t) /\ (s \o t)[i] = s[i]
    BY JoinedAt
  <2> QED
    BY <2>1, <2>2, JoinedAt, ElementOf
<1>3. ASSUME NEW x \in Elements(t) PROVE x \in Elements(s \o t)
  <2>1. PICK i \in 1..Len(t) : x = t[i]
    BY ElementOf
  <2>2. Len(s) + i \in 1..Len(s \o t) /\ (s \o t)[Len(s) + i] = t[i]
    BY JoinedAt
  <2> QED
    BY <2>1, <2>2, JoinedAt, ElementOf
<1> QED
  BY <1>1, <1>2, <1>3

(* A queue grows by the first k of size bytes.                             *)
LEMMA ToldGrows ==
  ASSUME NEW s, NEW n, NEW over, NEW ex, Told(s, n, over, ex),
         NEW size \in Nat, NEW k \in 0..size
  PROVE  Told(s \o Numbered(k, n), n + size, over \/ k < size, ex)
<1> DEFINE t == Numbered(k, n)
           u == s \o t
<1>1. s \in Seq(Nat) /\ n \in Nat /\ k \in Nat /\ over \in BOOLEAN /\ ex \subseteq 1..n
  BY DEF Told
<1>2. t \in Seq(Nat) /\ Len(t) = k /\ \A i \in 1..k : t[i] = n + i
  BY <1>1, NumberedType
<1> HIDE DEF t
<1>3. /\ u \in Seq(Nat) /\ Len(u) = Len(s) + k
      /\ \A i \in 1..Len(s) : u[i] = s[i]
      /\ \A i \in 1..k : u[Len(s) + i] = n + i
  BY <1>1, <1>2, JoinedAt
<1>4. \A i \in 1..Len(u) : i \in 1..Len(s) \/ \E j \in 1..k : i = Len(s) + j
  BY <1>1, <1>2, InTwo
<1> HIDE DEF u
<1>5. Increasing(u)
  <2> SUFFICES ASSUME NEW i \in 1..Len(u), NEW j \in 1..Len(u), i < j PROVE u[i] < u[j]
    BY DEF Increasing
  <2>1. Len(s) \in Nat
    BY <1>1
  <2>2. CASE j \in 1..Len(s)
    <3>1. i \in 1..Len(s)
      BY <2>1, <2>2
    <3> QED
      BY <1>3, <2>2, <3>1 DEF Told, Increasing
  <2>3. ASSUME NEW b \in 1..k, j = Len(s) + b PROVE u[i] < u[j]
    <3>1. u[j] = n + b
      BY <1>3, <2>3
    <3>2. CASE i \in 1..Len(s)
      <4>1. u[i] \in 1..n
        BY <1>3, <3>2 DEF Told
      <4> QED
        BY <1>1, <3>1, <4>1
    <3>3. ASSUME NEW a \in 1..k, i = Len(s) + a PROVE u[i] < u[j]
      <4>1. u[i] = n + a
        BY <1>3, <3>3
      <4>2. a < b
        BY <1>1, <2>1, <2>3, <3>3
      <4> QED
        BY <1>1, <3>1, <4>1, <4>2
    <3> QED
      BY <1>4, <3>2, <3>3
  <2> QED
    BY <1>4, <2>2, <2>3
<1>6. \A i \in 1..Len(u) : u[i] \in 1..(n + size) /\ u[i] \notin ex
  <2> TAKE i \in 1..Len(u)
  <2>1. CASE i \in 1..Len(s)
    <3>1. u[i] \in 1..n /\ u[i] \notin ex
      BY <1>3, <2>1 DEF Told
    <3> QED
      BY <1>1, <3>1
  <2>2. ASSUME NEW b \in 1..k, i = Len(s) + b PROVE u[i] \in 1..(n + size) /\ u[i] \notin ex
    <3>1. u[i] = n + b
      BY <1>3, <2>2
    <3> QED
      BY <1>1, <3>1
  <2> QED
    BY <1>4, <2>1, <2>2
<1>7. Elements(u) = Elements(s) \cup {n + i : i \in 1..k}
  <2>1. Elements(t) = {n + i : i \in 1..k}
    BY <1>2 DEF Elements
  <2> QED
    BY <1>1, <1>2, <2>1, ElementsJoin DEF u
<1>8. (over \/ k < size) <=> ~((1..(n + size)) \ Elements(u) \subseteq ex)
  <2>1. over <=> ~((1..n) \ Elements(s) \subseteq ex)
    BY DEF Told
  <2>2. Elements(s) \subseteq 1..n
    BY <1>1, ElementOf DEF Told
  <2>3. CASE k < size
    <3>1. n + size \in 1..(n + size) /\ n + size \notin 1..n
      BY <1>1, <2>3
    <3>2. \A i \in 1..k : n + i # n + size
      BY <1>1, <2>3
    <3> QED
      BY <1>1, <1>7, <2>2, <2>3, <3>1, <3>2
  <2>4. CASE k = size
    <3>1. (1..(n + size)) \ Elements(u) = (1..n) \ Elements(s)
      <4>1. 1..(n + size) = (1..n) \cup {n + i : i \in 1..k}
        <5>1. ASSUME NEW x \in 1..(n + size), x \notin 1..n PROVE x - n \in 1..k /\ x = n + (x - n)
          BY <1>1, <2>4, <5>1
        <5>2. \A i \in 1..k : n + i \in 1..(n + size)
          BY <1>1, <2>4
        <5>3. \A x \in 1..n : x \in 1..(n + size)
          BY <1>1
        <5> QED
          BY <5>1, <5>2, <5>3
      <4>2. (1..n) \cap {n + i : i \in 1..k} = {}
        BY <1>1
      <4> QED
        BY <1>7, <2>2, <4>1, <4>2
    <3>2. ~(k < size)
      BY <1>1, <2>4
    <3> QED
      BY <2>1, <3>1, <3>2
  <2> QED
    BY <2>3, <2>4
<1>9. ex \subseteq 1..(n + size) /\ n + size \in Nat /\ (over \/ k < size) \in BOOLEAN
  BY <1>1
<1> QED
  BY <1>3, <1>5, <1>6, <1>8, <1>9 DEF Told, u, t

(* A lower limit drops the bytes from place k on.                          *)
LEMMA ToldShrinks ==
  ASSUME NEW s, NEW n, NEW over, NEW ex, Told(s, n, over, ex), NEW k \in 0..Len(s)
  PROVE  Told(SubSeq(s, 1, k), n, over \/ k < Len(s), ex)
<1> DEFINE u == SubSeq(s, 1, k)
<1>1. /\ s \in Seq(Nat) /\ n \in Nat /\ over \in BOOLEAN /\ ex \subseteq 1..n
      /\ Len(s) \in Nat /\ k \in Nat /\ k <= Len(s)
  BY DEF Told
<1>2. u \in Seq(Nat) /\ Len(u) = k /\ \A i \in 1..k : u[i] = s[i]
  BY <1>1, CutAt
<1> HIDE DEF u
<1>3. \A i \in 1..k : i \in 1..Len(s)
  BY <1>1
<1>4. Increasing(u)
  BY <1>2, <1>3 DEF Told, Increasing
<1>5. \A i \in 1..Len(u) : u[i] \in 1..n /\ u[i] \notin ex
  BY <1>2, <1>3 DEF Told
<1>6. (over \/ k < Len(s)) <=> ~((1..n) \ Elements(u) \subseteq ex)
  <2>1. over <=> ~((1..n) \ Elements(s) \subseteq ex)
    BY DEF Told
  <2>2. CASE k = Len(s)
    <3>1. u = s
      BY <1>1, <1>2, <2>2, SameBytes
    <3> QED
      BY <1>1, <2>1, <2>2, <3>1
  <2>3. CASE k < Len(s)
    <3> DEFINE x == s[Len(s)]
    <3>1. Len(s) \in 1..Len(s)
      BY <1>1, <2>3
    <3>2. x \in 1..n /\ x \notin ex
      BY <3>1 DEF Told
    <3>3. \A i \in 1..k : u[i] # x
      <4> TAKE i \in 1..k
      <4>1. s[i] < x
        BY <1>1, <1>3, <2>3, <3>1 DEF Told, Increasing
      <4>2. s[i] \in Nat
        BY <1>1, <1>3
      <4> QED
        BY <1>1, <1>2, <3>2, <4>1, <4>2
    <3> HIDE DEF x
    <3>4. x \notin Elements(u)
      BY <1>2, <3>3 DEF Elements
    <3> QED
      BY <2>3, <3>2, <3>4
  <2> QED
    BY <1>1, <2>2, <2>3
<1> QED
  BY <1>1, <1>2, <1>4, <1>5, <1>6 DEF Told, u

(* A cleared queue: its bytes are excused.                                 *)
LEMMA ToldCleared ==
  ASSUME NEW d \in Seq(Nat), NEW q \in Seq(Nat), NEW n, NEW over, NEW ex,
         Told(d \o q, n, over, ex)
  PROVE  Told(d, n, over, ex \cup Elements(q))
<1>1. /\ n \in Nat /\ over \in BOOLEAN /\ ex \subseteq 1..n /\ Increasing(d \o q)
      /\ \A i \in 1..Len(d \o q) : (d \o q)[i] \in 1..n /\ (d \o q)[i] \notin ex
      /\ over <=> ~((1..n) \ Elements(d \o q) \subseteq ex)
  BY DEF Told
<1>2. /\ Len(d) \in Nat /\ Len(q) \in Nat
      /\ d \o q \in Seq(Nat) /\ Len(d \o q) = Len(d) + Len(q)
      /\ \A i \in 1..Len(d) : (d \o q)[i] = d[i]
      /\ \A i \in 1..Len(q) : (d \o q)[Len(d) + i] = q[i]
  BY JoinedAt
<1>3. /\ \A i \in 1..Len(d) : i \in 1..Len(d \o q)
      /\ \A i \in 1..Len(q) : Len(d) + i \in 1..Len(d \o q)
  BY <1>2
<1>4. Increasing(d)
  <2> SUFFICES ASSUME NEW i \in 1..Len(d), NEW j \in 1..Len(d), i < j PROVE d[i] < d[j]
    BY DEF Increasing
  <2>1. (d \o q)[i] < (d \o q)[j]
    BY <1>1, <1>3 DEF Increasing
  <2> QED
    BY <1>2, <2>1
<1>5. Elements(q) \subseteq 1..n
  <2> SUFFICES ASSUME NEW i \in 1..Len(q) PROVE q[i] \in 1..n
    BY DEF Elements
  <2>1. (d \o q)[Len(d) + i] \in 1..n
    BY <1>1, <1>3
  <2> QED
    BY <1>2, <2>1
<1>6. ASSUME NEW i \in 1..Len(d) PROVE d[i] \in 1..n /\ d[i] \notin ex /\ d[i] \notin Elements(q)
  <2>1. d[i] \in 1..n /\ d[i] \notin ex
    <3>1. (d \o q)[i] \in 1..n /\ (d \o q)[i] \notin ex
      BY <1>1, <1>3
    <3> QED
      BY <1>2, <3>1
  <2>2. ASSUME NEW j \in 1..Len(q) PROVE d[i] # q[j]
    <3>1. i < Len(d) + j
      BY <1>2
    <3>2. (d \o q)[i] < (d \o q)[Len(d) + j]
      BY <1>1, <1>3, <3>1 DEF Increasing
    <3>3. d[i] < q[j] /\ d[i] \in Nat /\ q[j] \in Nat
      BY <1>2, <3>2
    <3> QED
      BY <3>3
  <2> QED
    BY <2>1, <2>2 DEF Elements
<1>7. Elements(d) \cap Elements(q) = {}
  BY <1>6 DEF Elements
<1>8. Elements(q) \cap ex = {}
  <2> SUFFICES ASSUME NEW i \in 1..Len(q) PROVE q[i] \notin ex
    BY DEF Elements
  <2>1. (d \o q)[Len(d) + i] \notin ex
    BY <1>1, <1>3
  <2> QED
    BY <1>2, <2>1
<1>9. Elements(d \o q) = Elements(d) \cup Elements(q)
  BY ElementsJoin
<1>10. over <=> ~((1..n) \ Elements(d) \subseteq ex \cup Elements(q))
  BY <1>1, <1>5, <1>7, <1>9
<1> QED
  BY <1>1, <1>4, <1>5, <1>6, <1>10 DEF Told

(* The driver has seen the flag and clears it.                             *)
LEMMA ToldForgiven ==
  ASSUME NEW s, NEW n, NEW over, NEW ex, Told(s, n, over, ex)
  PROVE  Told(s, n, FALSE, ex \cup ((1..n) \ Elements(s)))
<1>1. \A i \in 1..Len(s) : s[i] \in Elements(s)
  BY DEF Elements
<1> QED
  BY <1>1 DEF Told

------------------------------------------------------------------------------
UartQueues ==
  /\ tx \in Seq(Nat) /\ wire \in Seq(Nat) /\ tx_limit \in Nat \ {0}
  /\ rx \in Seq(Nat) /\ taken \in Seq(Nat) /\ rx_limit \in Nat \ {0}
  /\ writer \in Seq(UartThreads) /\ Len(writer) = offered

UartInv ==
  /\ UartQueues
  /\ Told(wire \o tx, offered, tx_over, tx_excused)
  /\ Told(taken \o rx, pushed, rx_over, rx_excused)

LEMMA LeastIs ==
  ASSUME NEW a \in Nat, NEW b \in Nat
  PROVE  Least(a, b) \in 0..a /\ (a > b <=> Least(a, b) < a)
BY DEF Least

LEMMA LimitType ==
  ASSUME NEW size \in Nat
  PROVE  LimitOf(size) \in Nat \ {0}
BY DEF LimitOf

LEMMA SpaceType ==
  ASSUME NEW q \in Seq(Nat), NEW limit \in Nat, NEW size \in Nat
  PROVE  /\ Space(q, limit) \in Nat /\ Fits(q, limit, size) \in 0..size
         /\ Len(q) <= limit => Space(q, limit) = limit - Len(q)
BY DEF Space, Fits, Least

(* A write adds the thread once for each byte it offers.                   *)
LEMMA WriterGrows ==
  ASSUME UartQueues, NEW t \in UartThreads, NEW size \in Nat
  PROVE  LET w == writer \o [i \in 1..size |-> t] IN
         /\ w \in Seq(UartThreads) /\ Len(w) = offered + size
         /\ \A b \in 1..offered : w[b] = writer[b]
         /\ \A b \in 1..size : w[offered + b] = t
<1> DEFINE new == [i \in 1..size |-> t]
<1>1. new \in Seq(UartThreads) /\ Len(new) = size /\ \A b \in 1..size : new[b] = t
  OBVIOUS
<1>2. writer \in Seq(UartThreads) /\ Len(writer) = offered
  BY DEF UartQueues
<1> HIDE DEF new
<1>3. /\ writer \o new \in Seq(UartThreads) /\ Len(writer \o new) = offered + size
      /\ \A b \in 1..offered : (writer \o new)[b] = writer[b]
      /\ \A b \in 1..size : (writer \o new)[offered + b] = new[b]
  BY <1>1, <1>2
<1> QED
  BY <1>1, <1>3 DEF new

(* The calls on the bytes to send: a write, a lower limit, a clear (also   *)
(* begin and end), and the driver's taking.                                *)
LEMMA TxOffered ==
  ASSUME UartInv, NEW t \in UartThreads, NEW size \in 1..MaxOffered, UartWrite(t, size)
  PROVE  UartInv'
<1> DEFINE n == Fits(tx, tx_limit, size)
<1>1. size \in Nat /\ tx \in Seq(Nat) /\ wire \in Seq(Nat) /\ offered \in Nat /\ tx_limit \in Nat
  BY UartAssumption DEF UartInv, UartQueues, Told
<1>2. n \in 0..size /\ n \in Nat
  <2>1. n \in 0..size
    BY <1>1, SpaceType
  <2> QED
    BY <1>1, <2>1
<1> HIDE DEF n
<1>3. /\ tx' = tx \o Numbered(n, offered) /\ offered' = offered + size
      /\ tx_over' = (tx_over \/ n < size)
      /\ writer' = writer \o [i \in 1..size |-> t]
      /\ UNCHANGED <<tx_limit, rx, rx_limit, rx_over, wire, tx_excused, pushed, taken, rx_excused>>
  BY DEF UartWrite, n, rx_queue, rx_history
<1>4. Numbered(n, offered) \in Seq(Nat)
  BY <1>1, <1>2, NumberedType
<1>5. wire \o tx' = (wire \o tx) \o Numbered(n, offered) /\ tx' \in Seq(Nat)
  BY <1>1, <1>3, <1>4, JoinAgain
<1>6. Told((wire \o tx) \o Numbered(n, offered), offered + size, tx_over \/ n < size, tx_excused)
  BY <1>1, <1>2, ToldGrows DEF UartInv
<1>7. Told((wire \o tx)', offered', tx_over', tx_excused')
  BY <1>3, <1>5, <1>6
<1>8. writer' \in Seq(UartThreads) /\ Len(writer') = offered'
  BY <1>1, <1>3, WriterGrows DEF UartInv
<1> QED
  BY <1>3, <1>5, <1>7, <1>8 DEF UartInv, UartQueues

LEMMA TxLimited ==
  ASSUME UartInv, NEW size \in UartSizes, SetTxBufferSize(size)
  PROVE  UartInv'
<1> DEFINE k == Least(Len(tx), LimitOf(size))
<1>1. size \in Nat /\ tx \in Seq(Nat) /\ wire \in Seq(Nat) /\ Len(tx) \in Nat /\ Len(wire) \in Nat
  BY UartAssumption DEF UartInv, UartQueues
<1>2. LimitOf(size) \in Nat \ {0} /\ k \in 0..Len(tx) /\ (Len(tx) > LimitOf(size) <=> k < Len(tx))
  <2>1. LimitOf(size) \in Nat \ {0}
    BY <1>1, LimitType
  <2> QED
    BY <1>1, <2>1, LeastIs
<1> HIDE DEF k
<1>3. /\ tx' = SubSeq(tx, 1, k) /\ tx_limit' = LimitOf(size)
      /\ tx_over' = (tx_over \/ Len(tx) > LimitOf(size))
      /\ UNCHANGED <<offered, writer, rx, rx_limit, rx_over, wire, tx_excused, pushed, taken, rx_excused>>
  BY DEF SetTxBufferSize, k, rx_queue, rx_history, tx_history
<1>4. tx' \in Seq(Nat) /\ wire \o tx' = SubSeq(wire \o tx, 1, Len(wire) + k)
  BY <1>1, <1>2, <1>3, CutAt, CutBehind
<1>5. Len(wire) + k \in 0..Len(wire \o tx) /\ (Len(wire) + k < Len(wire \o tx) <=> k < Len(tx))
  BY <1>1, <1>2, JoinedAt
<1>6. Told(SubSeq(wire \o tx, 1, Len(wire) + k), offered,
           tx_over \/ Len(wire) + k < Len(wire \o tx), tx_excused)
  BY <1>5, ToldShrinks DEF UartInv
<1>7. tx_over' = (tx_over \/ Len(wire) + k < Len(wire \o tx))
  <2>1. (Len(tx) > LimitOf(size)) = (Len(wire) + k < Len(wire \o tx))
    BY <1>2, <1>5
  <2> QED
    BY <1>3, <2>1, Zenon
<1>8. Told((wire \o tx)', offered', tx_over', tx_excused')
  BY <1>3, <1>4, <1>6, <1>7
<1> QED
  BY <1>2, <1>3, <1>4, <1>8 DEF UartInv, UartQueues

LEMMA RxLimited ==
  ASSUME UartInv, NEW size \in UartSizes, SetRxBufferSize(size)
  PROVE  UartInv'
<1> DEFINE k == Least(Len(rx), LimitOf(size))
<1>1. size \in Nat /\ rx \in Seq(Nat) /\ taken \in Seq(Nat) /\ Len(rx) \in Nat /\ Len(taken) \in Nat
  BY UartAssumption DEF UartInv, UartQueues
<1>2. LimitOf(size) \in Nat \ {0} /\ k \in 0..Len(rx) /\ (Len(rx) > LimitOf(size) <=> k < Len(rx))
  <2>1. LimitOf(size) \in Nat \ {0}
    BY <1>1, LimitType
  <2> QED
    BY <1>1, <2>1, LeastIs
<1> HIDE DEF k
<1>3. /\ rx' = SubSeq(rx, 1, k) /\ rx_limit' = LimitOf(size)
      /\ rx_over' = (rx_over \/ Len(rx) > LimitOf(size))
      /\ UNCHANGED <<writer, offered, tx, tx_limit, tx_over, wire, tx_excused, pushed, taken,
                     rx_excused>>
  BY DEF SetRxBufferSize, k, tx_queue, tx_history, rx_history
<1>4. rx' \in Seq(Nat) /\ taken \o rx' = SubSeq(taken \o rx, 1, Len(taken) + k)
  BY <1>1, <1>2, <1>3, CutAt, CutBehind
<1>5. Len(taken) + k \in 0..Len(taken \o rx) /\ (Len(taken) + k < Len(taken \o rx) <=> k < Len(rx))
  BY <1>1, <1>2, JoinedAt
<1>6. Told(SubSeq(taken \o rx, 1, Len(taken) + k), pushed,
           rx_over \/ Len(taken) + k < Len(taken \o rx), rx_excused)
  BY <1>5, ToldShrinks DEF UartInv
<1>7. rx_over' = (rx_over \/ Len(taken) + k < Len(taken \o rx))
  <2>1. (Len(rx) > LimitOf(size)) = (Len(taken) + k < Len(taken \o rx))
    BY <1>2, <1>5
  <2> QED
    BY <1>3, <2>1, Zenon
<1>8. Told((taken \o rx)', pushed', rx_over', rx_excused')
  BY <1>3, <1>4, <1>6, <1>7
<1> QED
  BY <1>2, <1>3, <1>4, <1>8 DEF UartInv, UartQueues

LEMMA RxPushed ==
  ASSUME UartInv, NEW size \in 1..MaxPushed, PushRx(size)
  PROVE  UartInv'
<1> DEFINE n == Fits(rx, rx_limit, size)
<1>1. size \in Nat /\ rx \in Seq(Nat) /\ taken \in Seq(Nat) /\ pushed \in Nat /\ rx_limit \in Nat
  BY UartAssumption DEF UartInv, UartQueues, Told
<1>2. n \in 0..size /\ n \in Nat
  <2>1. n \in 0..size
    BY <1>1, SpaceType
  <2> QED
    BY <1>1, <2>1
<1> HIDE DEF n
<1>3. /\ rx' = rx \o Numbered(n, pushed) /\ pushed' = pushed + size
      /\ rx_over' = (rx_over \/ n < size)
      /\ UNCHANGED <<writer, tx, tx_limit, tx_over, rx_limit, wire, tx_excused, offered, taken,
                     rx_excused>>
  BY DEF PushRx, n, tx_queue, tx_history, uart_threads
<1>4. Numbered(n, pushed) \in Seq(Nat)
  BY <1>1, <1>2, NumberedType
<1>5. taken \o rx' = (taken \o rx) \o Numbered(n, pushed) /\ rx' \in Seq(Nat)
  BY <1>1, <1>3, <1>4, JoinAgain
<1>6. Told((taken \o rx) \o Numbered(n, pushed), pushed + size, rx_over \/ n < size, rx_excused)
  BY <1>1, <1>2, ToldGrows DEF UartInv
<1>7. Told((taken \o rx)', pushed', rx_over', rx_excused')
  BY <1>3, <1>5, <1>6
<1> QED
  BY <1>3, <1>5, <1>7 DEF UartInv, UartQueues

LEMMA TxTaken ==
  ASSUME UartInv, NEW size \in 1..MaxOffered, ReadTx(size)
  PROVE  UartInv'
<1> DEFINE n == Least(size, Len(tx))
<1>1. size \in Nat /\ tx \in Seq(Nat) /\ wire \in Seq(Nat) /\ Len(tx) \in Nat
  BY UartAssumption DEF UartInv, UartQueues
<1>2. n \in 0..Len(tx)
  BY <1>1 DEF Least
<1> HIDE DEF n
<1>3. /\ wire' = wire \o SubSeq(tx, 1, n) /\ tx' = SubSeq(tx, n + 1, Len(tx))
      /\ UNCHANGED <<writer, tx_limit, tx_over, rx, rx_limit, rx_over, offered, tx_excused,
                     pushed, taken, rx_excused>>
  BY DEF ReadTx, n, rx_queue, rx_history, uart_threads
<1>4. /\ SubSeq(tx, 1, n) \in Seq(Nat) /\ tx' \in Seq(Nat) /\ Len(tx') = Len(tx) - n
  BY <1>1, <1>2, <1>3, CutAt
<1>5. wire' \in Seq(Nat) /\ Len(tx') <= Len(tx) /\ wire' \o tx' = wire \o tx
  <2>1. wire' \in Seq(Nat)
    BY <1>1, <1>3, <1>4, JoinedAt
  <2>2. Len(tx') <= Len(tx)
    BY <1>1, <1>2, <1>4
  <2>3. wire' \o tx' = wire \o tx
    BY <1>1, <1>2, <1>3, MovesOn
  <2> QED
    BY <2>1, <2>2, <2>3
<1>6. Told((wire \o tx)', offered', tx_over', tx_excused')
  BY <1>3, <1>5 DEF UartInv
<1> QED
  BY <1>3, <1>4, <1>5, <1>6 DEF UartInv, UartQueues

(* What a clear leaves of both queues, and of one.                         *)
LEMMA Cleared ==
  ASSUME UartInv,
         \/ tx' = tx /\ tx_excused' = tx_excused
         \/ tx' = <<>> /\ tx_excused' = tx_excused \cup Elements(tx),
         \/ rx' = rx /\ rx_excused' = rx_excused
         \/ rx' = <<>> /\ rx_excused' = rx_excused \cup Elements(rx),
         UNCHANGED <<writer, tx_limit, tx_over, rx_limit, rx_over, offered, wire, pushed, taken>>
  PROVE  UartInv'
<1>1. tx \in Seq(Nat) /\ wire \in Seq(Nat) /\ rx \in Seq(Nat) /\ taken \in Seq(Nat)
  BY DEF UartInv, UartQueues
<1>2. wire \o <<>> = wire /\ taken \o <<>> = taken
  BY <1>1
<1>3. <<>> \in Seq(Nat) /\ Len(<<>>) = 0 /\ Len(tx) >= 0
  BY <1>1
<1>4. tx' \in Seq(Nat) /\ rx' \in Seq(Nat) /\ Len(tx') <= Len(tx)
  <2>1. tx' = tx \/ tx' = <<>>
    OBVIOUS
  <2>2. rx' = rx \/ rx' = <<>>
    OBVIOUS
  <2>3. Len(tx) \in Nat
    BY <1>1
  <2>4. Len(tx') <= Len(tx)
    BY <1>3, <2>1, <2>3
  <2> QED
    BY <1>1, <1>3, <2>1, <2>2, <2>4
<1>5. Told((wire \o tx)', offered', tx_over', tx_excused')
  <2>1. CASE tx' = tx /\ tx_excused' = tx_excused
    BY <2>1 DEF UartInv
  <2>2. CASE tx' = <<>> /\ tx_excused' = tx_excused \cup Elements(tx)
    BY <1>1, <1>2, <2>2, ToldCleared DEF UartInv
  <2> QED
    BY <2>1, <2>2
<1>6. Told((taken \o rx)', pushed', rx_over', rx_excused')
  <2>1. CASE rx' = rx /\ rx_excused' = rx_excused
    BY <2>1 DEF UartInv
  <2>2. CASE rx' = <<>> /\ rx_excused' = rx_excused \cup Elements(rx)
    BY <1>1, <1>2, <2>2, ToldCleared DEF UartInv
  <2> QED
    BY <2>1, <2>2
<1> QED
  BY <1>4, <1>5, <1>6 DEF UartInv, UartQueues

(* What the sketch reads or flushes has left the queue for it.             *)
LEMMA RxTaken ==
  ASSUME UartInv, UartRead \/ UartFlush
  PROVE  UartInv'
<1>1. rx \in Seq(Nat) /\ taken \in Seq(Nat)
  BY DEF UartInv, UartQueues
<1>2. /\ UNCHANGED <<writer, tx, tx_limit, tx_over, rx_limit, rx_over, wire, tx_excused, offered,
                     pushed, rx_excused>>
  BY DEF UartRead, UartFlush, tx_queue, tx_history
<1>3. taken' \in Seq(Nat) /\ rx' \in Seq(Nat) /\ taken' \o rx' = taken \o rx
  <2>1. CASE UartRead
    <3>1. rx # <<>> /\ taken' = Append(taken, Head(rx)) /\ rx' = Tail(rx)
      BY <2>1 DEF UartRead
    <3>2. /\ Head(rx) \in Nat /\ Tail(rx) \in Seq(Nat) /\ Append(taken, Head(rx)) \in Seq(Nat)
      BY <1>1, <3>1
    <3>3. Append(taken, Head(rx)) \o Tail(rx) = taken \o rx
      BY <1>1, <3>1, HeadMoves
    <3> QED
      BY <3>1, <3>2, <3>3
  <2>2. CASE UartFlush
    <3>1. taken' = taken \o rx /\ rx' = <<>>
      BY <2>2 DEF UartFlush
    <3>2. taken \o rx \in Seq(Nat) /\ (taken \o rx) \o <<>> = taken \o rx /\ <<>> \in Seq(Nat)
      BY <1>1
    <3> QED
      BY <3>1, <3>2
  <2> QED
    BY <2>1, <2>2
<1>4. Told((taken \o rx)', pushed', rx_over', rx_excused')
  BY <1>2, <1>3 DEF UartInv
<1> QED
  BY <1>2, <1>3, <1>4 DEF UartInv, UartQueues

LEMMA UartInvInductive ==
  ASSUME UartInv, [UartNext]_uart_vars
  PROVE  UartInv'
<1>1. CASE UNCHANGED <<writer, tx, tx_limit, tx_over, rx, rx_limit, rx_over, offered, wire, tx_excused,
                     pushed, taken, rx_excused>>
  BY <1>1, Cleared
<1>2. CASE UNCHANGED uart_vars
  BY <1>1, <1>2 DEF uart_vars, uart_threads, tx_queue, rx_queue, tx_history, rx_history
<1>3. CASE MainLoops \/ UartConfig \/ ClockWait \/ \E t \in UartThreads : CallHook(t) \/ HookReturns(t)
  BY <1>1, <1>3 DEF MainLoops, UartConfig, ClockWait, CallHook, HookReturns, uart_threads,
                    tx_queue, rx_queue, tx_history, rx_history
<1>4. CASE UartBegin
  BY <1>4, Cleared DEF UartBegin
<1>5. CASE ClearTx \/ ClearRx
  BY <1>5, Cleared DEF ClearTx, ClearRx, uart_threads, tx_queue, rx_queue, tx_history, rx_history
<1>6. CASE ClearOverflow
  <2>1. /\ UNCHANGED <<writer, tx, tx_limit, rx, rx_limit, offered, wire, pushed, taken>>
        /\ tx_over' = FALSE /\ tx_excused' = tx_excused \cup ((1..offered) \ Elements(wire \o tx))
        /\ rx_over' = FALSE /\ rx_excused' = rx_excused \cup ((1..pushed) \ Elements(taken \o rx))
    BY <1>6 DEF ClearOverflow, uart_threads, TxMissing, RxMissing
  <2>2. /\ Told(wire \o tx, offered, FALSE, tx_excused \cup ((1..offered) \ Elements(wire \o tx)))
        /\ Told(taken \o rx, pushed, FALSE, rx_excused \cup ((1..pushed) \ Elements(taken \o rx)))
    BY ToldForgiven DEF UartInv
  <2>3. Told((wire \o tx)', offered', tx_over', tx_excused')
        /\ Told((taken \o rx)', pushed', rx_over', rx_excused')
    BY <2>1, <2>2
  <2> QED
    BY <2>1, <2>3 DEF UartInv, UartQueues
<1>7. CASE UartNext
  BY <1>3, <1>4, <1>5, <1>6, <1>7, TxOffered, TxLimited, TxTaken, RxLimited, RxPushed, RxTaken
  DEF UartNext, Driver
<1> QED
  BY <1>2, <1>7

LEMMA UartCorrect == PortsSpec => []UartInv
<1>1. PortsInit => UartInv
  <2> SUFFICES ASSUME PortsInit PROVE UartInv
    OBVIOUS
  <2>1. UartInit
    BY DEF PortsInit
  <2>2. /\ <<>> \in Seq(Nat) /\ <<>> \o <<>> = <<>> /\ Len(<<>>) = 0
    OBVIOUS
  <2>3. Told(<<>>, 0, FALSE, {})
    BY <2>2 DEF Told, Increasing
  <2>4. UartQueues
    BY <2>1, <2>2, UartAssumption DEF UartInit, UartQueues
  <2> QED
    BY <2>1, <2>2, <2>3, <2>4 DEF UartInit, UartInv
<1>2. UartInv /\ [PortsNext]_ports_vars => UartInv'
  BY PortsStep, UartInvInductive
<1> QED
  BY <1>1, <1>2, PTL DEF PortsSpec

(* Bytes pass in order, and the sticky flags tell of every byte lost and   *)
(* of no other, for any threads, buffer sizes and driver                   *)
(* (HostUart.h:241-245).                                                   *)
THEOREM BytesAccounted == PortsSpec => []UartBytesAccounted
<1>1. UartInv => UartBytesAccounted
  BY DEF UartInv, Told, UartBytesAccounted, TxMissing, RxMissing
<1> QED
  BY <1>1, UartCorrect, PTL

------------------------------------------------------------------------------
(* What the activity hook hears.  A thread has an event exactly while it   *)
(* is about to report it; bytes read are reported by the main thread only. *)
TraceShape ==
  /\ uart_pc \in [UartThreads -> {"idle", "report", "hook", "wait"}]
  /\ event \in [UartThreads -> [kind : {"none", "control", "tx", "rx", "rx_discard"},
                                bytes : Seq(Nat)]]
  /\ \A t \in UartThreads : uart_pc[t] # "report" => event[t] = NoEvent
  /\ \A t \in UartThreads : event[t].kind \in {"rx", "rx_discard"} => t = UartMain

Distinct(s) == \A i, j \in 1..Len(s) : i # j => s[i] # s[j]
Saying(e) == IF e.kind = "tx" THEN Elements(e.bytes) ELSE {}
Said == Elements(tx_reported) \cup UNION {Saying(event[t]) : t \in UartThreads}

(* The bytes written: each announced once, by one thread.                  *)
TraceTx ==
  /\ tx_reported \in Seq(Nat) /\ tx_total \in Nat
  /\ Said \subseteq 1..offered /\ Cardinality(Said) = tx_total
  /\ Elements(wire \o tx) \subseteq Said
  /\ Distinct(tx_reported)
  /\ \A t \in UartThreads : event[t].kind = "tx" =>
       Distinct(event[t].bytes) /\ Saying(event[t]) \cap Elements(tx_reported) = {}
  /\ \A t, u \in UartThreads : t # u => Saying(event[t]) \cap Saying(event[u]) = {}

(* The bytes read, in order.                                               *)
Reading == IF event[UartMain].kind \in {"rx", "rx_discard"} THEN event[UartMain].bytes ELSE <<>>
TraceRx == rx_reported \in Seq(Nat) /\ rx_reported \o Reading = taken

TraceInv == TraceShape /\ TraceTx /\ TraceRx

(* The bytes of one thread: reported in order, and those it is about to    *)
(* report come last.                                                       *)
OneWriter(t, s) == \A i \in 1..Len(s) : writer[s[i]] = t
Behind(t, s) ==
  \A i \in 1..Len(tx_reported), j \in 1..Len(s) : writer[tx_reported[i]] = t => tx_reported[i] < s[j]
TraceOrder ==
  /\ \A i, j \in 1..Len(tx_reported) :
       i < j /\ writer[tx_reported[i]] = writer[tx_reported[j]] => tx_reported[i] < tx_reported[j]
  /\ \A t \in UartThreads : event[t].kind = "tx" =>
       Increasing(event[t].bytes) /\ OneWriter(t, event[t].bytes) /\ Behind(t, event[t].bytes)

LEMMA MainIsThread == UartMain \in UartThreads
BY DEF UartThreads

LEMMA TraceTells ==
  ASSUME TraceInv, TraceOrder
  PROVE  UartTraceFaithful
<1>1. \A t \in UartThreads : event[t].kind # "none" => uart_pc[t] = "report"
  BY DEF TraceInv, TraceShape, NoEvent
<1>2. Announced = Said
  <2>1. \A t \in UartThreads : event[t].kind = "tx" => Elements(Pending(t)) = Saying(event[t])
    BY <1>1 DEF Pending, Saying
  <2>2. UNION {Elements(Pending(t)) : t \in {u \in UartThreads : event[u].kind = "tx"}}
          = UNION {Saying(event[t]) : t \in UartThreads}
    BY <2>1 DEF Saying
  <2> QED
    BY <2>2 DEF Announced, Said
<1>3. RxPending = Reading
  BY <1>1, MainIsThread DEF RxPending, Reading, Pending
<1>4. \A t \in UartThreads : Behind(t, TxPending(t))
  <2> TAKE t \in UartThreads
  <2>1. CASE event[t].kind = "tx"
    BY <1>1, <2>1 DEF TxPending, Pending, TraceOrder
  <2>2. CASE event[t].kind # "tx"
    <3>1. TxPending(t) = <<>> /\ 1..Len(<<>>) = {}
      BY <2>2 DEF TxPending
    <3> QED
      BY <3>1 DEF Behind
  <2> QED
    BY <2>1, <2>2
<1>5. \A i, j \in 1..Len(tx_reported) :
        i < j /\ writer[tx_reported[i]] = writer[tx_reported[j]] => tx_reported[i] < tx_reported[j]
  BY DEF TraceOrder
<1>6. Elements(wire \o tx) \subseteq Announced /\ Cardinality(Announced) = tx_total
  BY <1>2 DEF TraceInv, TraceTx
<1>7. rx_reported \o RxPending = taken
  BY <1>3 DEF TraceInv, TraceRx
<1> QED
  BY <1>4, <1>5, <1>6, <1>7 DEF UartTraceFaithful, Behind

(* A call that neither writes nor reports a write.                         *)
LEMMA TxUntouched ==
  ASSUME TraceTx, UNCHANGED <<tx_reported, tx_total, offered>>,
         \A t \in UartThreads :
           \/ event'[t] = event[t]
           \/ event'[t].kind # "tx" /\ event[t].kind # "tx",
         Elements((wire \o tx)') \subseteq Elements(wire \o tx)
  PROVE  TraceTx'
<1>1. \A t \in UartThreads : Saying(event'[t]) = Saying(event[t])
  BY DEF Saying
<1>2. Said' = Said
  BY <1>1 DEF Said
<1>3. /\ tx_reported' \in Seq(Nat) /\ tx_total' \in Nat
      /\ Said' \subseteq 1..offered' /\ Cardinality(Said') = tx_total'
      /\ Elements((wire \o tx)') \subseteq Said'
      /\ Distinct(tx_reported)'
  BY <1>2 DEF TraceTx, Distinct
<1>4. \A t \in UartThreads : event'[t].kind = "tx" =>
        Distinct(event'[t].bytes) /\ Saying(event'[t]) \cap Elements(tx_reported') = {}
  BY <1>1 DEF TraceTx
<1>5. \A t, u \in UartThreads : t # u => Saying(event'[t]) \cap Saying(event'[u]) = {}
  BY <1>1 DEF TraceTx
<1> QED
  BY <1>3, <1>4, <1>5 DEF TraceTx

LEMMA ElementsCut ==
  ASSUME NEW s \in Seq(Nat), NEW k \in 0..Len(s)
  PROVE  Elements(SubSeq(s, 1, k)) \subseteq Elements(s)
<1>1. Len(SubSeq(s, 1, k)) = k /\ \A i \in 1..k : SubSeq(s, 1, k)[i] = s[i] /\ i \in 1..Len(s)
  BY CutAt
<1> QED
  BY <1>1 DEF Elements

(* A call of a thread that is idle: it has no event yet.                   *)
LEMMA Announces ==
  ASSUME TraceShape, NEW t \in UartThreads, uart_pc[t] = "idle",
         NEW kind \in {"control", "tx", "rx", "rx_discard"}, NEW bytes \in Seq(Nat),
         Reports(t, kind, bytes), kind \in {"rx", "rx_discard"} => t = UartMain
  PROVE  /\ TraceShape'
         /\ event[t] = NoEvent /\ event'[t] = [kind |-> kind, bytes |-> bytes]
         /\ \A u \in UartThreads \ {t} : event'[u] = event[u]
<1>1. /\ event[t] = NoEvent /\ event'[t] = [kind |-> kind, bytes |-> bytes]
      /\ \A u \in UartThreads \ {t} : event'[u] = event[u] /\ uart_pc'[u] = uart_pc[u]
      /\ uart_pc'[t] = "report"
  BY DEF Reports, TraceShape
<1>2. /\ uart_pc' \in [UartThreads -> {"idle", "report", "hook", "wait"}]
      /\ event' \in [UartThreads -> [kind : {"none", "control", "tx", "rx", "rx_discard"},
                                     bytes : Seq(Nat)]]
  BY DEF Reports, TraceShape
<1>3. \A u \in UartThreads : uart_pc'[u] # "report" => event'[u] = NoEvent
  <2> TAKE u \in UartThreads
  <2>1. CASE u = t
    BY <1>1, <2>1
  <2>2. CASE u # t
    BY <1>1, <2>2 DEF TraceShape
  <2> QED
    BY <2>1, <2>2
<1>4. \A u \in UartThreads : event'[u].kind \in {"rx", "rx_discard"} => u = UartMain
  <2> TAKE u \in UartThreads
  <2>1. CASE u = t
    <3>1. event'[u].kind = kind
      BY <1>1, <2>1
    <3> QED
      BY <2>1, <3>1
  <2>2. CASE u # t
    BY <1>1, <2>2 DEF TraceShape
  <2> QED
    BY <2>1, <2>2
<1> QED
  BY <1>1, <1>2, <1>3, <1>4 DEF TraceShape, NoEvent

LEMMA NumberedRange ==
  ASSUME NEW n \in Nat, NEW from \in Nat
  PROVE  Elements(Numbered(n, from)) = (from + 1)..(from + n) /\ Distinct(Numbered(n, from))
<1> DEFINE s == Numbered(n, from)
<1>1. s \in Seq(Nat) /\ Len(s) = n /\ \A i \in 1..n : s[i] = from + i
  BY NumberedType
<1> HIDE DEF s
<1>2. Elements(s) \subseteq (from + 1)..(from + n)
  BY <1>1 DEF Elements
<1>3. ASSUME NEW x \in (from + 1)..(from + n) PROVE x \in Elements(s)
  <2>1. x - from \in 1..n /\ x = from + (x - from)
    OBVIOUS
  <2> QED
    BY <1>1, <2>1, ElementOf
<1>4. Distinct(s)
  BY <1>1 DEF Distinct
<1> QED
  BY <1>2, <1>3, <1>4 DEF s

(* A call that writes n bytes, of size offered.                            *)
LEMMA WrittenTold ==
  ASSUME TraceTx, UartInv, NEW t \in UartThreads, NEW n \in Nat, NEW size \in Nat, n <= size,
         event[t] = NoEvent, event'[t] = [kind |-> "tx", bytes |-> Numbered(n, offered)],
         \A u \in UartThreads \ {t} : event'[u] = event[u],
         UNCHANGED <<tx_reported, wire>>, tx' = tx \o Numbered(n, offered),
         offered' = offered + size, tx_total' = tx_total + n
  PROVE  TraceTx'
<1> DEFINE new == (offered + 1)..(offered + n)
<1>1. /\ offered \in Nat /\ tx \in Seq(Nat) /\ wire \in Seq(Nat) /\ tx_total \in Nat
      /\ tx_reported \in Seq(Nat)
  BY DEF UartInv, UartQueues, Told, TraceTx
<1>2. /\ Elements(Numbered(n, offered)) = new /\ Distinct(Numbered(n, offered))
      /\ Numbered(n, offered) \in Seq(Nat)
  BY <1>1, NumberedRange, NumberedType
<1>3. new \cap Said = {} /\ new \subseteq 1..offered' /\ 1..offered \subseteq 1..offered'
  BY <1>1 DEF TraceTx
<1>4. IsFiniteSet(new) /\ Cardinality(new) = n
  <2>1. offered + 1 \in Int /\ offered + n \in Int
    BY <1>1
  <2>2. IsFiniteSet(new) /\ Cardinality(new) = IF offered + 1 > offered + n THEN 0
                                               ELSE (offered + n) - (offered + 1) + 1
    BY <2>1, FS_Interval
  <2>3. (IF offered + 1 > offered + n THEN 0 ELSE (offered + n) - (offered + 1) + 1) = n
    BY <1>1
  <2> HIDE DEF new
  <2> QED
    BY <2>2, <2>3
<1> HIDE DEF new
<1>5. /\ Saying(event[t]) = {} /\ Saying(event'[t]) = new
      /\ \A u \in UartThreads \ {t} : Saying(event'[u]) = Saying(event[u])
      /\ \A u \in UartThreads : u = t => Saying(event'[u]) = new
  <2>1. event'[t].kind = "tx" /\ event'[t].bytes = Numbered(n, offered) /\ event[t].kind = "none"
    BY DEF NoEvent
  <2>2. Saying(event[t]) = {} /\ Saying(event'[t]) = new
    BY <1>2, <2>1 DEF Saying
  <2>3. \A u \in UartThreads \ {t} : Saying(event'[u]) = Saying(event[u])
    BY DEF Saying
  <2> QED
    BY <2>1, <2>2, <2>3 DEF Saying
<1>6. Said' = Said \cup new
  <2>1. ASSUME NEW x \in Said' PROVE x \in Said \cup new
    <3>1. CASE x \in Elements(tx_reported)
      BY <3>1 DEF Said
    <3>2. ASSUME NEW u \in UartThreads, x \in Saying(event'[u]) PROVE x \in Said \cup new
      <4>1. u = t => x \in new
        BY <1>5, <3>2, Zenon
      <4>2. u # t => x \in Saying(event[u])
        BY <3>2
      <4> QED
        BY <4>1, <4>2 DEF Said
    <3> QED
      BY <3>1, <3>2 DEF Said
  <2>2. ASSUME NEW x \in Said PROVE x \in Said'
    <3>1. CASE x \in Elements(tx_reported)
      BY <3>1 DEF Said
    <3>2. ASSUME NEW u \in UartThreads, x \in Saying(event[u]) PROVE x \in Said'
      <4>1. u # t
        BY <1>5, <3>2
      <4> QED
        BY <3>2, <4>1 DEF Said
    <3> QED
      BY <3>1, <3>2 DEF Said
  <2>3. new \subseteq Said'
    BY <1>5 DEF Said
  <2> QED
    BY <2>1, <2>2, <2>3
<1>7. Said' \subseteq 1..offered' /\ Cardinality(Said') = tx_total'
  <2>1. Said' \subseteq 1..offered'
    BY <1>3, <1>6 DEF TraceTx
  <2>2. IsFiniteSet(Said)
    <3>1. IsFiniteSet(1..offered)
      BY <1>1, FS_Interval
    <3> QED
      BY <3>1, FS_Subset DEF TraceTx
  <2>3. Cardinality(Said \cup new) = Cardinality(Said) + Cardinality(new) - Cardinality(Said \cap new)
    BY <1>4, <2>2, FS_Union
  <2>4. Said \cap new = {} /\ Cardinality({}) = 0
    BY <1>3, FS_EmptySet
  <2>5. Cardinality(Said) = tx_total
    BY DEF TraceTx
  <2>6. Cardinality(Said \cup new) = tx_total + n - 0
    BY <1>4, <2>3, <2>4, <2>5, Zenon
  <2>7. tx_total + n - 0 = tx_total + n
    BY <1>1
  <2> QED
    BY <1>6, <2>1, <2>6, <2>7
<1>8. Elements((wire \o tx)') \subseteq Said'
  <2>1. (wire \o tx)' = (wire \o tx) \o Numbered(n, offered)
    BY <1>1, <1>2, JoinAgain
  <2>2. wire \o tx \in Seq(Nat)
    BY <1>1
  <2>3. Elements((wire \o tx) \o Numbered(n, offered)) = Elements(wire \o tx) \cup new
    BY <1>2, <2>2, ElementsJoin
  <2> QED
    BY <1>6, <2>1, <2>3 DEF TraceTx
<1>9. Elements(tx_reported) \subseteq Said /\ \A u \in UartThreads : Saying(event[u]) \subseteq Said
  BY DEF Said
<1>10. \A u \in UartThreads : event'[u].kind = "tx" =>
         Distinct(event'[u].bytes) /\ Saying(event'[u]) \cap Elements(tx_reported) = {}
  <2> SUFFICES ASSUME NEW u \in UartThreads, event'[u].kind = "tx"
               PROVE  Distinct(event'[u].bytes) /\ Saying(event'[u]) \cap Elements(tx_reported) = {}
    OBVIOUS
  <2>1. CASE u = t
    <3>1. Distinct(event'[u].bytes)
      BY <1>2, <2>1
    <3>2. Saying(event'[u]) = new
      BY <1>5, <2>1
    <3> QED
      BY <1>3, <1>9, <3>1, <3>2
  <2>2. CASE u # t
    BY <1>5, <2>2 DEF TraceTx
  <2> QED
    BY <2>1, <2>2
<1>11. \A u, v \in UartThreads : u # v => Saying(event'[u]) \cap Saying(event'[v]) = {}
  <2> SUFFICES ASSUME NEW u \in UartThreads, NEW v \in UartThreads, u # v
               PROVE  Saying(event'[u]) \cap Saying(event'[v]) = {}
    OBVIOUS
  <2>1. CASE u = t
    BY <1>3, <1>5, <1>9, <2>1
  <2>2. CASE v = t
    BY <1>3, <1>5, <1>9, <2>2
  <2>3. CASE u # t /\ v # t
    BY <1>5, <2>3 DEF TraceTx
  <2> QED
    BY <2>1, <2>2, <2>3
<1>12. tx_reported' \in Seq(Nat) /\ tx_total' \in Nat /\ Distinct(tx_reported)'
  BY <1>1 DEF TraceTx, Distinct
<1>13. \A u \in UartThreads : event'[u].kind = "tx" =>
         Distinct(event'[u].bytes) /\ Saying(event'[u]) \cap Elements(tx_reported') = {}
  BY <1>10
<1> QED
  BY <1>7, <1>8, <1>11, <1>12, <1>13 DEF TraceTx

LEMMA DistinctJoin ==
  ASSUME NEW s \in Seq(Nat), NEW u \in Seq(Nat), Distinct(s), Distinct(u),
         Elements(u) \cap Elements(s) = {}
  PROVE  Distinct(s \o u)
<1>1. \A i \in 1..Len(s \o u) : i \in 1..Len(s) \/ \E j \in 1..Len(u) : i = Len(s) + j
  BY InTwo
<1>2. /\ \A i \in 1..Len(s) : (s \o u)[i] = s[i]
      /\ \A i \in 1..Len(u) : (s \o u)[Len(s) + i] = u[i]
  BY JoinedAt
<1>3. \A i \in 1..Len(s), j \in 1..Len(u) : s[i] # u[j]
  BY DEF Elements
<1> SUFFICES ASSUME NEW i \in 1..Len(s \o u), NEW j \in 1..Len(s \o u), i # j
             PROVE  (s \o u)[i] # (s \o u)[j]
  BY DEF Distinct
<1>4. CASE i \in 1..Len(s) /\ j \in 1..Len(s)
  BY <1>2, <1>4 DEF Distinct
<1>5. ASSUME i \in 1..Len(s), NEW b \in 1..Len(u), j = Len(s) + b
      PROVE  (s \o u)[i] # (s \o u)[j]
  BY <1>2, <1>3, <1>5
<1>6. ASSUME j \in 1..Len(s), NEW a \in 1..Len(u), i = Len(s) + a
      PROVE  (s \o u)[i] # (s \o u)[j]
  BY <1>2, <1>3, <1>6
<1>7. ASSUME NEW a \in 1..Len(u), i = Len(s) + a, NEW b \in 1..Len(u), j = Len(s) + b
      PROVE  (s \o u)[i] # (s \o u)[j]
  <2>1. a # b
    BY <1>7
  <2> QED
    BY <1>2, <1>7, <2>1 DEF Distinct
<1> QED
  BY <1>1, <1>4, <1>5, <1>6, <1>7

(* The hook gets the bytes of one event.                                   *)
LEMMA HookTold ==
  ASSUME TraceInv, NEW t \in UartThreads, CallHook(t)
  PROVE  TraceInv'
<1> DEFINE e == event[t]
<1>1. /\ uart_pc[t] = "report" /\ uart_pc' = [uart_pc EXCEPT ![t] = "hook"]
      /\ event' = [event EXCEPT ![t] = NoEvent]
      /\ UNCHANGED <<tx, wire, tx_total, offered, taken>>
      /\ e.kind = "tx" => tx_reported' = tx_reported \o e.bytes
      /\ e.kind # "tx" => tx_reported' = tx_reported
      /\ e.kind \in {"rx", "rx_discard"} => rx_reported' = rx_reported \o e.bytes
      /\ e.kind \notin {"rx", "rx_discard"} => rx_reported' = rx_reported
  BY DEF CallHook, tx_queue
<1>2. /\ event'[t] = NoEvent /\ uart_pc'[t] = "hook"
      /\ \A u \in UartThreads \ {t} : event'[u] = event[u] /\ uart_pc'[u] = uart_pc[u]
      /\ e \in [kind : {"none", "control", "tx", "rx", "rx_discard"}, bytes : Seq(Nat)]
      /\ e.bytes \in Seq(Nat)
  BY <1>1 DEF TraceInv, TraceShape
<1>3. NoEvent.kind = "none" /\ NoEvent.bytes = <<>>
      /\ NoEvent \in [kind : {"none", "control", "tx", "rx", "rx_discard"}, bytes : Seq(Nat)]
  <2>1. <<>> \in Seq(Nat)
    OBVIOUS
  <2> QED
    BY <2>1 DEF NoEvent
<1> HIDE DEF e
<1>4. TraceShape'
  <2>1. /\ uart_pc' \in [UartThreads -> {"idle", "report", "hook", "wait"}]
        /\ event' \in [UartThreads -> [kind : {"none", "control", "tx", "rx", "rx_discard"},
                                       bytes : Seq(Nat)]]
    BY <1>1, <1>3 DEF TraceInv, TraceShape
  <2>2. \A u \in UartThreads : uart_pc'[u] # "report" => event'[u] = NoEvent
    BY <1>2 DEF TraceInv, TraceShape
  <2>3. \A u \in UartThreads : event'[u].kind \in {"rx", "rx_discard"} => u = UartMain
    BY <1>2, <1>3 DEF TraceInv, TraceShape
  <2> QED
    BY <2>1, <2>2, <2>3 DEF TraceShape, NoEvent
<1>5. TraceTx'
  <2>1. CASE e.kind # "tx"
    <3>1. \A u \in UartThreads :
            \/ event'[u] = event[u]
            \/ event'[u].kind # "tx" /\ event[u].kind # "tx"
      BY <1>2, <1>3, <2>1 DEF e
    <3>2. Elements((wire \o tx)') \subseteq Elements(wire \o tx)
      BY <1>1
    <3> QED
      BY <1>1, <2>1, <3>1, <3>2, TxUntouched DEF TraceInv
  <2>2. CASE e.kind = "tx"
    <3>1. /\ Saying(event[t]) = Elements(e.bytes) /\ Saying(event'[t]) = {}
          /\ Distinct(e.bytes) /\ Elements(e.bytes) \cap Elements(tx_reported) = {}
          /\ tx_reported \in Seq(Nat) /\ tx_reported' = tx_reported \o e.bytes
      BY <1>1, <1>2, <1>3, <2>2 DEF Saying, e, TraceInv, TraceTx
    <3>2. Elements(tx_reported') = Elements(tx_reported) \cup Elements(e.bytes)
      BY <1>2, <3>1, ElementsJoin
    <3>3. \A u \in UartThreads \ {t} : Saying(event'[u]) = Saying(event[u])
      BY <1>2
    <3>4. Said' = Said
      <4>1. ASSUME NEW x \in Said' PROVE x \in Said
        <5>1. CASE x \in Elements(tx_reported')
          BY <3>1, <3>2, <5>1 DEF Said
        <5>2. ASSUME NEW u \in UartThreads, x \in Saying(event'[u]) PROVE x \in Said
          <6>1. u # t
            BY <3>1, <5>2
          <6> QED
            BY <3>3, <5>2, <6>1 DEF Said
        <5> QED
          BY <5>1, <5>2 DEF Said
      <4>2. ASSUME NEW x \in Said PROVE x \in Said'
        <5>1. CASE x \in Elements(tx_reported)
          BY <3>2, <5>1 DEF Said
        <5>2. ASSUME NEW u \in UartThreads, x \in Saying(event[u]) PROVE x \in Said'
          <6>1. u = t => x \in Elements(tx_reported')
            BY <3>1, <3>2, <5>2, Zenon
          <6>2. u # t => x \in Saying(event'[u])
            BY <3>3, <5>2
          <6> QED
            BY <6>1, <6>2 DEF Said
        <5> QED
          BY <5>1, <5>2 DEF Said
      <4> QED
        BY <4>1, <4>2
    <3>5. tx_reported' \in Seq(Nat) /\ Distinct(tx_reported')
      BY <1>2, <3>1, DistinctJoin, JoinedAt DEF TraceInv, TraceTx
    <3>6. \A u \in UartThreads : event'[u].kind = "tx" =>
            Distinct(event'[u].bytes) /\ Saying(event'[u]) \cap Elements(tx_reported') = {}
      <4> SUFFICES ASSUME NEW u \in UartThreads, event'[u].kind = "tx"
                   PROVE  /\ Distinct(event'[u].bytes)
                          /\ Saying(event'[u]) \cap Elements(tx_reported') = {}
        OBVIOUS
      <4>1. u # t
        BY <1>2, <1>3
      <4>2. event'[u] = event[u] /\ event[u].kind = "tx"
        BY <1>2, <4>1
      <4>3. Saying(event[u]) \cap Saying(event[t]) = {}
        BY <4>1 DEF TraceInv, TraceTx
      <4>4. Distinct(event[u].bytes) /\ Saying(event[u]) \cap Elements(tx_reported) = {}
        BY <4>2 DEF TraceInv, TraceTx
      <4> QED
        BY <3>1, <3>2, <4>2, <4>3, <4>4
    <3>7. \A u, v \in UartThreads : u # v => Saying(event'[u]) \cap Saying(event'[v]) = {}
      <4> SUFFICES ASSUME NEW u \in UartThreads, NEW v \in UartThreads, u # v
                   PROVE  Saying(event'[u]) \cap Saying(event'[v]) = {}
        OBVIOUS
      <4>1. CASE u = t
        BY <3>1, <4>1
      <4>2. CASE v = t
        BY <3>1, <4>2
      <4>3. CASE u # t /\ v # t
        BY <3>3, <4>3 DEF TraceInv, TraceTx
      <4> QED
        BY <4>1, <4>2, <4>3
    <3> QED
      BY <1>1, <3>4, <3>5, <3>6, <3>7 DEF TraceInv, TraceTx, Distinct
  <2> QED
    BY <2>1, <2>2
<1>6. TraceRx'
  <2>1. rx_reported \in Seq(Nat) /\ rx_reported \o Reading = taken
    BY DEF TraceInv, TraceRx
  <2>2. CASE e.kind \in {"rx", "rx_discard"}
    <3>1. t = UartMain
      BY <2>2 DEF e, TraceInv, TraceShape
    <3>2. Reading = e.bytes /\ Reading' = <<>>
      BY <1>2, <1>3, <2>2, <3>1 DEF e, Reading
    <3>3. rx_reported' = taken /\ taken' = taken
      BY <1>1, <2>1, <2>2, <3>2
    <3>4. taken \in Seq(Nat) /\ taken \o <<>> = taken
      <4>1. taken \in Seq(Nat)
        BY <1>2, <2>1, <3>2, JoinedAt
      <4> QED
        BY <4>1
    <3> QED
      BY <3>2, <3>3, <3>4 DEF TraceRx
  <2>3. CASE e.kind \notin {"rx", "rx_discard"}
    <3>1. Reading' = Reading
      <4>1. CASE t = UartMain
        BY <1>2, <1>3, <2>3, <4>1 DEF Reading, e
      <4>2. CASE t # UartMain
        <5>1. event'[UartMain] = event[UartMain]
          BY <1>2, <4>2, MainIsThread
        <5> QED
          BY <5>1 DEF Reading
      <4> QED
        BY <4>1, <4>2
    <3> QED
      BY <1>1, <2>1, <2>3, <3>1 DEF TraceRx
  <2> QED
    BY <2>2, <2>3
<1> QED
  BY <1>4, <1>5, <1>6 DEF TraceInv

(* A call that reports nothing and reads nothing.                          *)
LEMMA TraceStays ==
  ASSUME TraceInv, TraceShape', UNCHANGED <<event, tx_reported, tx_total, rx_reported, taken>>,
         offered' = offered, Elements((wire \o tx)') \subseteq Elements(wire \o tx)
  PROVE  TraceInv'
<1>1. TraceTx'
  BY TxUntouched DEF TraceInv
<1>2. TraceRx'
  BY DEF TraceInv, TraceRx, Reading
<1> QED
  BY <1>1, <1>2 DEF TraceInv

LEMMA ShapeMoves ==
  ASSUME TraceShape, event' = event, NEW t \in UartThreads, uart_pc[t] # "report",
         NEW pc \in {"idle", "hook", "wait"}, uart_pc' = [uart_pc EXCEPT ![t] = pc]
  PROVE  TraceShape'
<1>1. /\ uart_pc' \in [UartThreads -> {"idle", "report", "hook", "wait"}]
      /\ \A u \in UartThreads : uart_pc'[u] # "report" => uart_pc[u] # "report"
  BY DEF TraceShape
<1> QED
  BY <1>1 DEF TraceShape, NoEvent

LEMMA ShapeStays ==
  ASSUME TraceShape, UNCHANGED <<event, uart_pc>>
  PROVE  TraceShape'
BY DEF TraceShape, NoEvent

(* begin(), end(), the settings and the buffer sizes.                      *)
LEMMA ControlTold ==
  ASSUME TraceInv, uart_pc[UartMain] = "idle", Reports(UartMain, "control", <<>>),
         UNCHANGED <<tx_reported, tx_total, rx_reported, taken, offered>>,
         Elements((wire \o tx)') \subseteq Elements(wire \o tx)
  PROVE  TraceInv'
<1>1. <<>> \in Seq(Nat)
  OBVIOUS
<1>2. /\ TraceShape'
      /\ event[UartMain] = NoEvent
      /\ event'[UartMain] = [kind |-> "control", bytes |-> <<>>]
      /\ \A u \in UartThreads \ {UartMain} : event'[u] = event[u]
  BY <1>1, MainIsThread, Announces DEF TraceInv
<1>3. \A u \in UartThreads :
        \/ event'[u] = event[u]
        \/ event'[u].kind # "tx" /\ event[u].kind # "tx"
  BY <1>2 DEF NoEvent
<1>4. TraceTx'
  BY <1>3, TxUntouched DEF TraceInv
<1>5. Reading' = <<>> /\ Reading = <<>>
  BY <1>2 DEF Reading, NoEvent
<1>6. TraceRx'
  BY <1>5 DEF TraceInv, TraceRx
<1> QED
  BY <1>2, <1>4, <1>6 DEF TraceInv

LEMMA WriteTold ==
  ASSUME TraceInv, UartInv, NEW t \in UartThreads, NEW size \in 1..MaxOffered, UartWrite(t, size)
  PROVE  TraceInv'
<1> DEFINE n == Fits(tx, tx_limit, size)
<1>1. /\ size \in Nat /\ tx \in Seq(Nat) /\ wire \in Seq(Nat) /\ offered \in Nat
      /\ tx_limit \in Nat /\ tx_total \in Nat
  BY UartAssumption DEF UartInv, UartQueues, Told, TraceInv, TraceTx
<1>2. n \in 0..size /\ n \in Nat /\ n <= size
  <2>1. n \in 0..size
    BY <1>1, SpaceType
  <2> QED
    BY <1>1, <2>1
<1> HIDE DEF n
<1>3. /\ uart_pc[t] = "idle" /\ offered' = offered + size /\ tx' = tx \o Numbered(n, offered)
      /\ tx_total' = tx_total + n
      /\ UNCHANGED <<wire, tx_reported, rx_reported, taken>>
      /\ n > 0 => Reports(t, "tx", Numbered(n, offered))
      /\ ~(n > 0) => UNCHANGED <<uart_pc, event>>
  BY DEF UartWrite, n, Sketch, rx_history
<1>4. CASE n > 0
  <2>1. Numbered(n, offered) \in Seq(Nat)
    BY <1>1, <1>2, NumberedType
  <2>2. /\ TraceShape' /\ event[t] = NoEvent
        /\ event'[t] = [kind |-> "tx", bytes |-> Numbered(n, offered)]
        /\ \A u \in UartThreads \ {t} : event'[u] = event[u]
    BY <1>3, <1>4, <2>1, Announces DEF TraceInv
  <2>3. TraceTx'
    BY <1>1, <1>2, <1>3, <2>2, WrittenTold DEF TraceInv
  <2>4. Reading' = Reading
    <3>1. CASE t = UartMain
      BY <2>2, <3>1 DEF Reading, NoEvent
    <3>2. CASE t # UartMain
      <4>1. event'[UartMain] = event[UartMain]
        BY <2>2, <3>2, MainIsThread
      <4> QED
        BY <4>1 DEF Reading
    <3> QED
      BY <3>1, <3>2
  <2>5. TraceRx'
    BY <1>3, <2>4 DEF TraceInv, TraceRx
  <2> QED
    BY <2>2, <2>3, <2>5 DEF TraceInv
<1>5. CASE ~(n > 0)
  <2>1. n = 0
    BY <1>2, <1>5
  <2>2. Numbered(n, offered) = <<>> /\ tx \o <<>> = tx
    BY <1>1, <2>1 DEF Numbered
  <2>3. tx' = tx /\ tx_total' = tx_total /\ UNCHANGED <<uart_pc, event>>
    BY <1>1, <1>3, <1>5, <2>1, <2>2
  <2>4. TraceShape'
    BY <2>3, ShapeStays DEF TraceInv
  <2>5. TraceTx'
    <3>1. Said' = Said
      BY <1>3, <2>3 DEF Said
    <3>2. 1..offered \subseteq 1..offered'
      BY <1>1, <1>3
    <3>3. /\ tx_reported' \in Seq(Nat) /\ tx_total' \in Nat
          /\ Said' \subseteq 1..offered' /\ Cardinality(Said') = tx_total'
          /\ Elements((wire \o tx)') \subseteq Said' /\ Distinct(tx_reported')
      BY <1>3, <2>3, <3>1, <3>2 DEF TraceInv, TraceTx
    <3>4. /\ \A u \in UartThreads : event'[u].kind = "tx" =>
               Distinct(event'[u].bytes) /\ Saying(event'[u]) \cap Elements(tx_reported') = {}
          /\ \A u, v \in UartThreads : u # v => Saying(event'[u]) \cap Saying(event'[v]) = {}
      BY <1>3, <2>3 DEF TraceInv, TraceTx
    <3> QED
      BY <3>3, <3>4 DEF TraceTx, Distinct
  <2>6. TraceRx'
    BY <1>3, <2>3 DEF TraceInv, TraceRx, Reading
  <2> QED
    BY <2>4, <2>5, <2>6 DEF TraceInv
<1> QED
  BY <1>4, <1>5

(* read() and flush().                                                     *)
LEMMA ReadTold ==
  ASSUME TraceInv, UartInv, UartRead \/ UartFlush
  PROVE  TraceInv'
<1>1. rx \in Seq(Nat) /\ taken \in Seq(Nat) /\ uart_pc[UartMain] = "idle"
  BY DEF UartInv, UartQueues, UartRead, UartFlush, Sketch
<1>2. UNCHANGED <<tx, wire, tx_total, offered, tx_reported, rx_reported>>
  BY DEF UartRead, UartFlush, tx_queue, tx_history
<1>3. event[UartMain] = NoEvent /\ Reading = <<>>
  BY <1>1, MainIsThread DEF TraceInv, TraceShape, Reading, NoEvent
<1>4. rx_reported = taken
  <2>1. rx_reported \in Seq(Nat) /\ rx_reported \o <<>> = taken
    BY <1>3 DEF TraceInv, TraceRx
  <2> QED
    BY <2>1
<1>5. ASSUME NEW kind \in {"rx", "rx_discard"}, NEW bytes \in Seq(Nat),
             Reports(UartMain, kind, bytes), taken' = taken \o bytes
      PROVE  TraceInv'
  <2>1. /\ TraceShape' /\ event'[UartMain] = [kind |-> kind, bytes |-> bytes]
        /\ \A u \in UartThreads \ {UartMain} : event'[u] = event[u]
    BY <1>1, <1>5, MainIsThread, Announces DEF TraceInv
  <2>2. \A u \in UartThreads :
          \/ event'[u] = event[u]
          \/ event'[u].kind # "tx" /\ event[u].kind # "tx"
    BY <1>3, <2>1 DEF NoEvent
  <2>3. TraceTx'
    BY <1>2, <2>2, TxUntouched DEF TraceInv
  <2>4. Reading' = bytes
    BY <2>1 DEF Reading
  <2>5. TraceRx'
    BY <1>1, <1>2, <1>4, <1>5, <2>4 DEF TraceRx
  <2> QED
    BY <2>1, <2>3, <2>5 DEF TraceInv
<1>6. CASE UartRead
  <2>1. rx # <<>> /\ taken' = Append(taken, Head(rx)) /\ Reports(UartMain, "rx", <<Head(rx)>>)
    BY <1>6 DEF UartRead
  <2>2. <<Head(rx)>> \in Seq(Nat) /\ Append(taken, Head(rx)) = taken \o <<Head(rx)>>
    BY <1>1, <2>1
  <2> QED
    BY <1>5, <2>1, <2>2
<1>7. CASE UartFlush /\ rx # <<>>
  BY <1>1, <1>5, <1>7 DEF UartFlush
<1>8. CASE UartFlush /\ rx = <<>>
  <2>1. taken \o <<>> = taken
    BY <1>1
  <2>2. UNCHANGED <<taken, event, uart_pc>>
    BY <1>8, <2>1 DEF UartFlush
  <2>3. TraceShape'
    BY <2>2, ShapeStays DEF TraceInv
  <2> QED
    BY <1>2, <2>2, <2>3, TraceStays
<1> QED
  BY <1>6, <1>7, <1>8

LEMMA TraceInvInductive ==
  ASSUME TraceInv, UartInv, [UartNext]_uart_vars
  PROVE  TraceInv'
<1>1. /\ TraceShape /\ tx \in Seq(Nat) /\ wire \in Seq(Nat) /\ Len(tx) \in Nat /\ Len(wire) \in Nat
  BY DEF TraceInv, UartInv, UartQueues
<1>2. ASSUME TraceShape', UNCHANGED <<event, tx, wire, tx_history, tx_total, rx_reported, taken>>
      PROVE  TraceInv'
  BY <1>2, TraceStays DEF tx_history
<1>3. CASE UNCHANGED uart_vars
  <2>1. TraceShape'
    BY <1>1, <1>3, ShapeStays DEF uart_vars, uart_threads
  <2> QED
    BY <1>2, <1>3, <2>1 DEF uart_vars, uart_threads, tx_queue, tx_history, rx_history
<1>4. CASE MainLoops
  <2>1. TraceShape'
    BY <1>1, <1>4, ShapeStays DEF MainLoops, uart_threads
  <2> QED
    BY <1>2, <1>4, <2>1 DEF MainLoops, uart_threads, tx_queue, tx_history, rx_history
<1>5. CASE UartBegin
  <2>1. /\ uart_pc[UartMain] = "idle" /\ Reports(UartMain, "control", <<>>) /\ tx' = <<>>
        /\ UNCHANGED <<tx_reported, tx_total, rx_reported, taken, offered, wire>>
    BY <1>5 DEF UartBegin, Sketch
  <2>2. Elements((wire \o tx)') \subseteq Elements(wire \o tx)
    <3>1. (wire \o tx)' = wire
      BY <1>1, <2>1
    <3>2. Elements(wire \o tx) = Elements(wire) \cup Elements(tx)
      BY <1>1, ElementsJoin
    <3> QED
      BY <3>1, <3>2
  <2> QED
    BY <2>1, <2>2, ControlTold
<1>6. CASE UartConfig
  BY <1>6, ControlTold DEF UartConfig, Sketch, tx_queue, tx_history, rx_history
<1>7. ASSUME NEW size \in UartSizes, SetTxBufferSize(size) PROVE TraceInv'
  <2> DEFINE k == Least(Len(tx), LimitOf(size))
  <2>1. k \in 0..Len(tx)
    <3>1. LimitOf(size) \in Nat \ {0}
      BY UartAssumption, LimitType
    <3> QED
      BY <1>1, <3>1, LeastIs
  <2> HIDE DEF k
  <2>2. /\ uart_pc[UartMain] = "idle" /\ Reports(UartMain, "control", <<>>)
        /\ tx' = SubSeq(tx, 1, k)
        /\ UNCHANGED <<tx_reported, tx_total, rx_reported, taken, offered, wire>>
    BY <1>7 DEF SetTxBufferSize, Sketch, tx_history, rx_history, k
  <2>3. Elements((wire \o tx)') \subseteq Elements(wire \o tx)
    <3>1. Elements(SubSeq(tx, 1, k)) \subseteq Elements(tx) /\ SubSeq(tx, 1, k) \in Seq(Nat)
      BY <1>1, <2>1, ElementsCut, CutAt
    <3>2. /\ Elements(wire \o tx) = Elements(wire) \cup Elements(tx)
          /\ Elements(wire \o SubSeq(tx, 1, k)) = Elements(wire) \cup Elements(SubSeq(tx, 1, k))
      BY <1>1, <3>1, ElementsJoin
    <3> QED
      BY <2>2, <3>1, <3>2
  <2> QED
    BY <2>2, <2>3, ControlTold
<1>8. ASSUME NEW size \in UartSizes, SetRxBufferSize(size) PROVE TraceInv'
  BY <1>8, ControlTold DEF SetRxBufferSize, Sketch, tx_queue, tx_history, rx_history
<1>9. CASE ClockWait
  <2>1. \E pc \in {"idle", "wait"} :
          uart_pc[UartMain] # "report" /\ uart_pc' = [uart_pc EXCEPT ![UartMain] = pc]
    BY <1>9 DEF ClockWait, Sketch
  <2>2. UNCHANGED <<event, tx_queue, rx_queue, tx_history, rx_history>>
    BY <1>9 DEF ClockWait
  <2>3. TraceShape'
    BY <1>1, <2>1, <2>2, MainIsThread, ShapeMoves
  <2> QED
    BY <1>2, <2>2, <2>3 DEF tx_queue, tx_history, rx_history
<1>10. ASSUME NEW t \in UartThreads, HookReturns(t) PROVE TraceInv'
  <2>1. TraceShape'
    BY <1>1, <1>10, ShapeMoves DEF HookReturns
  <2> QED
    BY <1>2, <1>10, <2>1 DEF HookReturns, tx_queue, tx_history, rx_history
<1>11. CASE Driver
  <2>1. UNCHANGED <<uart_pc, event, tx_reported, tx_total, rx_reported, taken, offered>>
    BY <1>11 DEF Driver, ReadTx, ClearTx, PushRx, ClearRx, ClearOverflow, uart_threads,
                 tx_queue, tx_history, rx_history
  <2>2. TraceShape'
    BY <1>1, <2>1, ShapeStays
  <2>3. Elements((wire \o tx)') \subseteq Elements(wire \o tx)
    <3>1. ASSUME NEW size \in 1..MaxOffered, ReadTx(size) PROVE (wire \o tx)' = wire \o tx
      <4> DEFINE n == Least(size, Len(tx))
      <4>1. size \in Nat /\ n \in 0..Len(tx)
        BY <1>1, UartAssumption DEF Least
      <4> HIDE DEF n
      <4>2. wire' = wire \o SubSeq(tx, 1, n) /\ tx' = SubSeq(tx, n + 1, Len(tx))
        BY <3>1 DEF ReadTx, n
      <4> QED
        BY <1>1, <4>1, <4>2, MovesOn
    <3>2. CASE ClearTx
      <4>1. (wire \o tx)' = wire
        BY <1>1, <3>2 DEF ClearTx, tx_history
      <4>2. Elements(wire \o tx) = Elements(wire) \cup Elements(tx)
        BY <1>1, ElementsJoin
      <4> QED
        BY <4>1, <4>2
    <3>3. CASE \/ \E size \in 1..MaxPushed : PushRx(size)
               \/ ClearRx
               \/ ClearOverflow
      BY <3>3 DEF PushRx, ClearRx, ClearOverflow, tx_queue, tx_history
    <3> QED
      BY <1>11, <3>1, <3>2, <3>3 DEF Driver
  <2> QED
    BY <2>1, <2>2, <2>3, TraceStays
<1>12. CASE UartNext
  BY <1>4, <1>5, <1>6, <1>7, <1>8, <1>9, <1>10, <1>11, <1>12, WriteTold, ReadTold, HookTold
  DEF UartNext
<1> QED
  BY <1>3, <1>12

LEMMA TraceInvInit ==
  ASSUME UartInit
  PROVE  TraceInv
<1>1. <<>> \in Seq(Nat) /\ <<>> \o <<>> = <<>> /\ Len(<<>>) = 0
  OBVIOUS
<1>2. NoEvent.kind = "none"
      /\ NoEvent \in [kind : {"none", "control", "tx", "rx", "rx_discard"}, bytes : Seq(Nat)]
  BY <1>1 DEF NoEvent
<1>3. \A t \in UartThreads : uart_pc[t] = "idle" /\ event[t] = NoEvent
  BY DEF UartInit
<1>4. TraceShape
  BY <1>2, <1>3 DEF UartInit, TraceShape
<1>5. TraceTx
  <2>1. Elements(<<>>) = {} /\ Distinct(<<>>) /\ wire \o tx = <<>>
    BY <1>1 DEF UartInit, Elements, Distinct
  <2>2. \A t \in UartThreads : Saying(event[t]) = {}
    BY <1>2, <1>3 DEF Saying
  <2>3. Said = {} /\ Cardinality({}) = 0
    BY <2>1, <2>2, FS_EmptySet DEF UartInit, Said
  <2> QED
    BY <1>1, <1>2, <1>3, <2>1, <2>2, <2>3 DEF UartInit, TraceTx
<1>6. TraceRx
  BY <1>1, <1>2, <1>3, MainIsThread DEF UartInit, TraceRx, Reading
<1> QED
  BY <1>4, <1>5, <1>6 DEF TraceInv

LEMMA TraceCorrect == PortsSpec => []TraceInv
<1>1. PortsInit => TraceInv
  BY TraceInvInit DEF PortsInit
<1>2. TraceInv /\ UartInv /\ [PortsNext]_ports_vars => TraceInv'
  BY PortsStep, TraceInvInductive
<1> QED
  BY <1>1, <1>2, UartCorrect, PTL DEF PortsSpec

(* A call that neither writes nor reports a write.                         *)
LEMMA OrderStays ==
  ASSUME TraceOrder, UNCHANGED <<tx_reported, writer>>,
         \A t \in UartThreads : event'[t] = event[t] \/ event'[t].kind # "tx"
  PROVE  TraceOrder'
BY DEF TraceOrder, OneWriter, Behind, Increasing

LEMMA ReportedOffered ==
  ASSUME TraceInv
  PROVE  /\ \A i \in 1..Len(tx_reported) : tx_reported[i] \in 1..offered
         /\ \A t \in UartThreads : event[t].kind = "tx" =>
              \A i \in 1..Len(event[t].bytes) : event[t].bytes[i] \in 1..offered
<1>1. Said \subseteq 1..offered
  BY DEF TraceInv, TraceTx
<1>2. ASSUME NEW i \in 1..Len(tx_reported) PROVE tx_reported[i] \in 1..offered
  <2>1. tx_reported[i] \in Elements(tx_reported)
    BY DEF Elements
  <2> QED
    BY <1>1, <2>1 DEF Said
<1>3. ASSUME NEW t \in UartThreads, event[t].kind = "tx", NEW i \in 1..Len(event[t].bytes)
      PROVE  event[t].bytes[i] \in 1..offered
  <2>1. event[t].bytes[i] \in Saying(event[t])
    BY <1>3 DEF Elements, Saying
  <2> QED
    BY <1>1, <2>1 DEF Said
<1> QED
  BY <1>2, <1>3

(* A write: its bytes are higher than all that was offered before.         *)
LEMMA OrderWritten ==
  ASSUME TraceOrder, TraceInv, UartInv, NEW t \in UartThreads, NEW size \in 1..MaxOffered,
         UartWrite(t, size)
  PROVE  TraceOrder'
<1> DEFINE n == Fits(tx, tx_limit, size)
           new == Numbered(n, offered)
<1>1. size \in Nat /\ tx \in Seq(Nat) /\ offered \in Nat /\ tx_limit \in Nat
  BY UartAssumption DEF UartInv, UartQueues, Told
<1>2. n \in Nat /\ n <= size
  <2>1. n \in 0..size
    BY <1>1, SpaceType
  <2> QED
    BY <1>1, <2>1
<1> HIDE DEF n
<1>3. new \in Seq(Nat) /\ Len(new) = n /\ \A i \in 1..n : new[i] = offered + i
  BY <1>1, <1>2, NumberedType
<1> HIDE DEF new
<1>4. /\ writer' = writer \o [i \in 1..size |-> t] /\ tx_reported' = tx_reported
      /\ uart_pc[t] = "idle"
      /\ (n > 0 /\ Reports(t, "tx", new)) \/ event' = event
  BY DEF UartWrite, Sketch, n, new
<1>5. /\ \A b \in 1..offered : writer'[b] = writer[b]
      /\ \A b \in 1..size : writer'[offered + b] = t
  BY <1>1, <1>4, WriterGrows DEF UartInv
<1>6. /\ \A i \in 1..Len(tx_reported) : tx_reported[i] \in 1..offered
      /\ \A u \in UartThreads : event[u].kind = "tx" =>
           \A i \in 1..Len(event[u].bytes) : event[u].bytes[i] \in 1..offered
  BY ReportedOffered
<1>7. \A i, j \in 1..Len(tx_reported') :
        i < j /\ writer'[tx_reported'[i]] = writer'[tx_reported'[j]]
          => tx_reported'[i] < tx_reported'[j]
  <2>1. \A i \in 1..Len(tx_reported) : writer'[tx_reported[i]] = writer[tx_reported[i]]
    BY <1>5, <1>6
  <2>2. \A i, j \in 1..Len(tx_reported) :
          i < j /\ writer'[tx_reported[i]] = writer'[tx_reported[j]] => tx_reported[i] < tx_reported[j]
    BY <2>1 DEF TraceOrder
  <2> QED
    BY <1>4, <2>2
<1>8. ASSUME NEW u \in UartThreads, event'[u] = event[u], event'[u].kind = "tx"
      PROVE  /\ Increasing(event'[u].bytes)
             /\ OneWriter(u, event[u].bytes)' /\ Behind(u, event[u].bytes)'
  <2>1. /\ Increasing(event[u].bytes) /\ OneWriter(u, event[u].bytes)
        /\ Behind(u, event[u].bytes)
    BY <1>8 DEF TraceOrder
  <2>2. \A i \in 1..Len(event[u].bytes) : event[u].bytes[i] \in 1..offered
    BY <1>6, <1>8
  <2>3. \A i \in 1..Len(event[u].bytes) : writer'[event[u].bytes[i]] = u
    BY <1>5, <2>1, <2>2 DEF OneWriter
  <2>4. \A i \in 1..Len(tx_reported'), j \in 1..Len(event[u].bytes) :
          writer'[tx_reported'[i]] = u => tx_reported'[i] < event[u].bytes[j]
    BY <1>4, <1>5, <1>6, <2>1 DEF Behind
  <2> QED
    BY <1>8, <2>1, <2>3, <2>4 DEF OneWriter, Behind
<1>9. ASSUME event'[t] = [kind |-> "tx", bytes |-> new]
      PROVE  /\ Increasing(event'[t].bytes)
             /\ OneWriter(t, event[t].bytes)' /\ Behind(t, event[t].bytes)'
  <2>1. event'[t].bytes = new
    BY <1>9
  <2>2. Increasing(new)
    BY <1>1, <1>2, <1>3 DEF Increasing
  <2>3. ASSUME NEW i \in 1..Len(new) PROVE writer'[new[i]] = t
    <3>1. i \in 1..n /\ i \in 1..size
      BY <1>1, <1>2, <1>3
    <3>2. new[i] = offered + i
      BY <1>3, <3>1
    <3> QED
      BY <1>5, <3>1, <3>2
  <2>4. ASSUME NEW i \in 1..Len(tx_reported), NEW j \in 1..Len(new)
        PROVE  tx_reported[i] < new[j]
    <3>1. tx_reported[i] \in 1..offered
      BY <1>6
    <3>2. j \in 1..n /\ new[j] = offered + j
      BY <1>3
    <3> QED
      BY <1>1, <1>2, <3>1, <3>2
  <2> QED
    BY <1>4, <2>1, <2>2, <2>3, <2>4 DEF OneWriter, Behind
<1>10. CASE event' = event
  BY <1>7, <1>8, <1>10 DEF TraceOrder
<1>11. CASE Reports(t, "tx", new)
  <2>1. /\ event'[t] = [kind |-> "tx", bytes |-> new]
        /\ \A u \in UartThreads \ {t} : event'[u] = event[u]
    BY <1>3, <1>4, <1>11, Announces DEF TraceInv
  <2>2. ASSUME NEW u \in UartThreads, event'[u].kind = "tx"
        PROVE  /\ Increasing(event'[u].bytes)
               /\ OneWriter(u, event[u].bytes)' /\ Behind(u, event[u].bytes)'
    <3>1. CASE u = t
      BY <1>9, <2>1, <3>1
    <3>2. CASE u # t
      BY <1>8, <2>1, <2>2, <3>2
    <3> QED
      BY <3>1, <3>2
  <2> QED
    BY <1>7, <2>2 DEF TraceOrder
<1> QED
  BY <1>4, <1>10, <1>11

(* A report of bytes written: they come behind those of their thread, and  *)
(* belong to no other.                                                     *)
LEMMA OrderTold ==
  ASSUME TraceOrder, TraceInv, NEW t \in UartThreads, CallHook(t)
  PROVE  TraceOrder'
<1> DEFINE bytes == event[t].bytes
<1>1. /\ event' = [event EXCEPT ![t] = NoEvent] /\ writer' = writer
      /\ event[t].kind = "tx" => tx_reported' = tx_reported \o bytes
      /\ event[t].kind # "tx" => tx_reported' = tx_reported
      /\ tx_reported \in Seq(Nat) /\ bytes \in Seq(Nat)
  BY DEF CallHook, TraceInv, TraceShape, TraceTx
<1>2. /\ event'[t].kind # "tx"
      /\ \A u \in UartThreads \ {t} : event'[u] = event[u]
  BY <1>1 DEF NoEvent, TraceInv, TraceShape
<1> HIDE DEF bytes
<1>3. CASE event[t].kind # "tx"
  BY <1>1, <1>2, <1>3, OrderStays
<1>4. CASE event[t].kind = "tx"
  <2> DEFINE s == tx_reported \o bytes
             k == Len(tx_reported)
  <2>1. /\ \A i \in 1..Len(s) : i \in 1..k \/ \E j \in 1..Len(bytes) : i = k + j
        /\ \A i \in 1..k : s[i] = tx_reported[i]
        /\ \A j \in 1..Len(bytes) : s[k + j] = bytes[j]
        /\ k \in Nat /\ tx_reported' = s
    BY <1>1, <1>4, InTwo, JoinedAt
  <2>2. Increasing(bytes) /\ OneWriter(t, bytes) /\ Behind(t, bytes)
    BY <1>4 DEF TraceOrder, bytes
  <2> HIDE DEF s, k
  <2>3. ASSUME NEW i \in 1..Len(s), NEW j \in 1..Len(s), i < j, writer[s[i]] = writer[s[j]]
        PROVE  s[i] < s[j]
    <3>1. CASE j \in 1..k
      <4>1. i \in 1..k
        BY <2>1, <2>3, <3>1
      <4> QED
        BY <2>1, <2>3, <3>1, <4>1 DEF TraceOrder, k
    <3>2. ASSUME NEW b \in 1..Len(bytes), j = k + b, i \in 1..k PROVE s[i] < s[j]
      <4>1. s[i] = tx_reported[i] /\ s[j] = bytes[b] /\ writer[bytes[b]] = t
        BY <2>1, <2>2, <3>2 DEF OneWriter
      <4>2. i \in 1..Len(tx_reported)
        BY <3>2 DEF k
      <4> QED
        BY <2>2, <2>3, <4>1, <4>2 DEF Behind
    <3>3. ASSUME NEW b \in 1..Len(bytes), j = k + b, NEW a \in 1..Len(bytes), i = k + a
          PROVE  s[i] < s[j]
      <4>1. a < b
        BY <2>1, <2>3, <3>3
      <4> QED
        BY <2>1, <2>2, <3>3, <4>1 DEF Increasing
    <3> QED
      BY <2>1, <3>1, <3>2, <3>3
  <2>4. ASSUME NEW u \in UartThreads, event'[u].kind = "tx"
        PROVE  /\ Increasing(event'[u].bytes)
               /\ OneWriter(u, event[u].bytes)' /\ Behind(u, event[u].bytes)'
    <3>1. u # t /\ event'[u] = event[u]
      BY <1>2, <2>4
    <3>2. /\ Increasing(event[u].bytes) /\ OneWriter(u, event[u].bytes)
          /\ Behind(u, event[u].bytes)
      BY <2>4, <3>1 DEF TraceOrder
    <3>3. ASSUME NEW i \in 1..Len(s), NEW j \in 1..Len(event[u].bytes), writer[s[i]] = u
          PROVE  s[i] < event[u].bytes[j]
      <4>1. ASSUME NEW b \in 1..Len(bytes), i = k + b PROVE FALSE
        <5>1. writer[s[i]] = t
          BY <2>1, <2>2, <4>1 DEF OneWriter
        <5> QED
          BY <3>1, <3>3, <5>1
      <4>2. i \in 1..k
        BY <2>1, <4>1
      <4> QED
        BY <2>1, <3>2, <3>3, <4>2 DEF Behind, k
    <3>4. OneWriter(u, event[u].bytes)'
      BY <1>1, <3>1, <3>2 DEF OneWriter
    <3>5. Behind(u, event[u].bytes)'
      BY <1>1, <2>1, <3>1, <3>3 DEF Behind
    <3> QED
      BY <3>1, <3>2, <3>4, <3>5
  <2> QED
    BY <1>1, <2>1, <2>3, <2>4 DEF TraceOrder
<1> QED
  BY <1>3, <1>4

LEMMA OrderInductive ==
  ASSUME TraceOrder, TraceInv, UartInv, [UartNext]_uart_vars
  PROVE  TraceOrder'
<1>1. ASSUME UNCHANGED <<tx_reported, writer>>, UNCHANGED event \/
                 \E kind \in {"control", "rx", "rx_discard"}, bytes \in Seq(Nat) :
                   Reports(UartMain, kind, bytes)
      PROVE  TraceOrder'
  <2>1. \A t \in UartThreads : event'[t] = event[t] \/ event'[t].kind # "tx"
    <3>1. ASSUME NEW kind \in {"control", "rx", "rx_discard"}, NEW bytes \in Seq(Nat),
                 Reports(UartMain, kind, bytes), NEW t \in UartThreads
          PROVE  event'[t] = event[t] \/ event'[t].kind # "tx"
      BY <3>1 DEF Reports, TraceInv, TraceShape
    <3> QED
      BY <1>1, <3>1
  <2> QED
    BY <1>1, <2>1, OrderStays
<1>2. <<>> \in Seq(Nat) /\ rx \in Seq(Nat) /\ (rx # <<>> => <<Head(rx)>> \in Seq(Nat))
  BY DEF UartInv, UartQueues
<1>3. CASE \/ UartBegin \/ UartConfig
           \/ \E size \in UartSizes : SetTxBufferSize(size) \/ SetRxBufferSize(size)
  <2>1. UNCHANGED <<tx_reported, writer>> /\ Reports(UartMain, "control", <<>>)
    BY <1>3 DEF UartBegin, UartConfig, SetTxBufferSize, SetRxBufferSize, tx_history
  <2> QED
    BY <1>1, <1>2, <2>1
<1>4. CASE UartRead \/ UartFlush
  <2>1. UNCHANGED <<tx_reported, writer>>
    BY <1>4 DEF UartRead, UartFlush, tx_history
  <2>2. \/ UNCHANGED event \/ Reports(UartMain, "rx_discard", rx)
        \/ rx # <<>> /\ Reports(UartMain, "rx", <<Head(rx)>>)
    BY <1>4 DEF UartRead, UartFlush
  <2> QED
    BY <1>1, <1>2, <2>1, <2>2
<1>5. CASE \/ MainLoops \/ ClockWait \/ Driver \/ UNCHANGED uart_vars
           \/ \E t \in UartThreads : HookReturns(t)
  <2>1. UNCHANGED <<tx_reported, writer, event>>
    BY <1>5 DEF MainLoops, ClockWait, Driver, ReadTx, ClearTx, PushRx, ClearRx, ClearOverflow,
                HookReturns, uart_threads, tx_history, uart_vars
  <2> QED
    BY <1>1, <2>1
<1> QED
  BY <1>3, <1>4, <1>5, OrderWritten, OrderTold DEF UartNext

LEMMA OrderCorrect == PortsSpec => []TraceOrder
<1>1. PortsInit => TraceOrder
  <2> SUFFICES ASSUME UartInit PROVE TraceOrder
    BY DEF PortsInit
  <2>1. tx_reported = <<>> /\ 1..Len(<<>>) = {}
    BY DEF UartInit
  <2>2. \A t \in UartThreads : event[t].kind # "tx"
    BY DEF UartInit, NoEvent
  <2> QED
    BY <2>1, <2>2 DEF TraceOrder
<1>2. TraceOrder /\ TraceInv /\ UartInv /\ [PortsNext]_ports_vars => TraceOrder'
  BY PortsStep, OrderInductive
<1> QED
  BY <1>1, <1>2, UartCorrect, TraceCorrect, PTL DEF PortsSpec

(* The activity hook misses nothing, hears nothing twice, and hears of     *)
(* what each thread writes in the order in which it wrote, whatever the    *)
(* threads and the driver do between the unlock and the report             *)
(* (HostUart.h:124-138).                                                   *)
THEOREM TraceFaithful == PortsSpec => []UartTraceFaithful
BY TraceCorrect, OrderCorrect, TraceTells, PTL
------------------------------------------------------------------------------
(* The types of the UART: what the invariants leave out is the lifecycle   *)
(* and that no queue exceeds its limit, a lowered one included.            *)
Within(q, limit) == Len(q) <= limit
UartRest == phase \in Phases /\ Within(tx, tx_limit) /\ Within(rx, rx_limit)

LEMMA WithinOffered ==
  ASSUME NEW q \in Seq(Nat), NEW limit \in Nat, NEW size \in Nat, NEW from \in Nat,
         Within(q, limit)
  PROVE  Within(q \o Numbered(Fits(q, limit, size), from), limit)
<1> DEFINE n == Fits(q, limit, size)
<1>1. n \in Nat /\ n <= limit - Len(q)
  BY DEF Fits, Least, Space, Within
<1> HIDE DEF n
<1>2. Numbered(n, from) \in Seq(Nat) /\ Len(Numbered(n, from)) = n
  BY <1>1, NumberedType
<1>3. Len(q \o Numbered(n, from)) = Len(q) + n
  BY <1>2, JoinedAt
<1>4. Len(q) \in Nat
  OBVIOUS
<1> QED
  BY <1>1, <1>3, <1>4 DEF Within, n

LEMMA WithinLimited ==
  ASSUME NEW q \in Seq(Nat), NEW size \in Nat
  PROVE  Within(SubSeq(q, 1, Least(Len(q), LimitOf(size))), LimitOf(size))
<1>1. LimitOf(size) \in Nat /\ Len(q) \in Nat
  BY LimitType
<1>2. Least(Len(q), LimitOf(size)) \in 0..Len(q) /\ Least(Len(q), LimitOf(size)) <= LimitOf(size)
  BY <1>1 DEF Least
<1> QED
  BY <1>1, <1>2, CutAt DEF Within

LEMMA UartRestKept ==
  ASSUME UartRest, UartInv, [UartNext]_uart_vars
  PROVE  UartRest'
<1> USE DEF UartRest
<1>0. /\ tx \in Seq(Nat) /\ Len(tx) \in Nat /\ tx_limit \in Nat /\ offered \in Nat
      /\ rx \in Seq(Nat) /\ Len(rx) \in Nat /\ rx_limit \in Nat /\ pushed \in Nat
      /\ UartSizes \subseteq Nat /\ 1..MaxOffered \subseteq Nat /\ 1..MaxPushed \subseteq Nat
  BY UartAssumption DEF UartInv, UartQueues, Told
<1>1. /\ Within(<<>>, tx_limit) /\ Within(<<>>, rx_limit)
      /\ rx # <<>> => Within(Tail(rx), rx_limit)
  <2>1. Len(<<>>) = 0 /\ (rx # <<>> => Len(Tail(rx)) <= Len(rx) /\ Len(Tail(rx)) \in Nat)
    BY <1>0
  <2> QED
    BY <1>0, <2>1 DEF Within
<1>2. CASE MainLoops
  BY <1>2 DEF MainLoops, Phases, tx_queue, rx_queue
<1>3. CASE UNCHANGED <<phase, tx_queue, rx_queue>>
  BY <1>3 DEF tx_queue, rx_queue
<1>4. CASE UartBegin
  BY <1>1, <1>4 DEF UartBegin
<1>5. ASSUME NEW size \in UartSizes, SetTxBufferSize(size) PROVE UartRest'
  BY <1>0, <1>5, WithinLimited DEF SetTxBufferSize, rx_queue
<1>6. ASSUME NEW size \in UartSizes, SetRxBufferSize(size) PROVE UartRest'
  BY <1>0, <1>6, WithinLimited DEF SetRxBufferSize, tx_queue
<1>7. CASE UartFlush \/ UartRead
  BY <1>1, <1>7 DEF UartFlush, UartRead, tx_queue
<1>8. ASSUME NEW t \in UartThreads, NEW size \in 1..MaxOffered, UartWrite(t, size) PROVE UartRest'
  BY <1>0, <1>8, WithinOffered DEF UartWrite, rx_queue
<1>9. ASSUME NEW size \in 1..MaxPushed, PushRx(size) PROVE UartRest'
  BY <1>0, <1>9, WithinOffered DEF PushRx, tx_queue
<1>10. ASSUME NEW size \in 1..MaxOffered, ReadTx(size) PROVE UartRest'
  <2> DEFINE n == Least(size, Len(tx))
  <2>1. n \in 0..Len(tx)
    BY <1>0 DEF Least
  <2>2. tx' = SubSeq(tx, n + 1, Len(tx)) /\ UNCHANGED <<phase, tx_limit, rx_queue>>
    BY <1>10 DEF ReadTx
  <2> HIDE DEF n
  <2>3. Len(tx') = Len(tx) - n
    BY <1>0, <2>1, <2>2, CutAt
  <2> QED
    BY <1>0, <2>1, <2>2, <2>3 DEF Within, rx_queue
<1>11. CASE ClearTx \/ ClearRx \/ ClearOverflow
  BY <1>1, <1>11 DEF ClearTx, ClearRx, ClearOverflow, tx_queue, rx_queue
<1>12. CASE UartConfig \/ ClockWait \/ \E t \in UartThreads : CallHook(t) \/ HookReturns(t)
  BY <1>3, <1>12 DEF UartConfig, ClockWait, CallHook, HookReturns
<1>13. CASE UNCHANGED uart_vars
  BY <1>3, <1>13 DEF uart_vars
<1> QED
  BY <1>2, <1>4, <1>5, <1>6, <1>7, <1>8, <1>9, <1>10, <1>11, <1>12, <1>13
  DEF UartNext, Driver

LEMMA UartTypes == PortsSpec => []UartTypeOK
<1>1. PortsInit => UartRest
  BY UartAssumption DEF PortsInit, UartInit, UartRest, Within, Phases
<1>2. UartRest /\ UartInv /\ [PortsNext]_ports_vars => UartRest'
  BY PortsStep, UartRestKept
<1>3. UartRest /\ UartInv /\ TraceInv => UartTypeOK
  BY DEF UartRest, Within, UartInv, UartQueues, Told, TraceInv, TraceShape, TraceTx, TraceRx,
         UartTypeOK
<1> QED
  BY <1>1, <1>2, <1>3, UartCorrect, TraceCorrect, PTL DEF PortsSpec

(* Every variable of every port has its type, whatever the sketch, the     *)
(* driver, handlers and devices do, for any pins, channels, threads, words *)
(* and bounds: no UART buffer stays longer than its limit, also when the   *)
(* limit is lowered (cores/host/HostUart.cpp:160-184), a read never takes  *)
(* more into the buffer of Wire than fits (libraries/Wire/src/Wire.cpp:    *)
(* 88-103), and the nesting of a pin's handler does not wrap below 0       *)
(* (HostInterrupt.cpp:168-170).                                           *)
THEOREM PortsTypes == PortsSpec => []PortsTypeOK
<1>1. UartTypeOK /\ BusTypeOK /\ InterruptTypeOK /\ WireTypeOK /\ SpiTypeOK => PortsTypeOK
  BY DEF PortsTypeOK
<1> QED
  BY <1>1, UartTypes, BusTypes, InterruptTypes, WireTypes, SpiTypes, PTL
=================================================================================
