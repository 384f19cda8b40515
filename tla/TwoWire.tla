-------------------------------- MODULE TwoWire --------------------------------
(***************************************************************************)
(* The I2C master of the Wire library: transmissions buffered and handed   *)
(* to the device at once, and requests answered from a buffer.             *)
(*                                                                         *)
(* The device is the pair of hooks, which may be absent: it answers what   *)
(* it likes.  Bytes are numbered in the order in which the sketch writes   *)
(* them, or the device supplies them.  The clock, the pins, the counts and *)
(* the lifecycle hook are left out.                                        *)
(***************************************************************************)
EXTENDS Integers, Sequences

CONSTANTS
  Addresses,       (* I2C addresses                                        *)
  Idle,            (* no address                                           *)
  BufferLength,    (* I2C_BUFFER_LENGTH, 128                               *)
  ByteModulus,     (* 256: the int overloads of requestFrom                *)
  MaxAsked,        (* bound: bytes asked of the device at once             *)
  MaxWireBytes     (* bound: bytes written by the sketch, and supplied     *)

ASSUME WireAssumption ==
  /\ Idle \notin Addresses
  /\ BufferLength \in Nat /\ ByteModulus \in Nat \ {0}
  /\ MaxAsked \in Nat /\ MaxWireBytes \in Nat

VARIABLES
  address,         (* _address                                             *)
  transmitting,    (* _transmitting                                        *)
  tx_buffer,       (* the first _txLength bytes of _txBuffer               *)
  tx_overflow,     (* _txOverflow                                          *)
  rx_buffer,       (* the first _rxLength bytes of _rxBuffer               *)
  rx_index,        (* _rxIndex                                             *)
  aimed,           (* the address of beginTransmission, until a call       *)
                   (* addresses another device within the transmission     *)
  meant,           (* the bytes written since it began, or since a flush   *)
  flushed,         (* flush() was called within the transmission           *)
  sent_bytes,      (* number of bytes written so far                       *)
  heard,           (* the transmission the device heard last, and the one  *)
                   (* that was meant                                       *)
  answer,          (* what the device supplied to the last request         *)
  read_bytes,      (* what the sketch has read of it                       *)
  supplied         (* number of bytes supplied so far                      *)

wire_tx == <<transmitting, tx_buffer, tx_overflow, aimed, meant, flushed, sent_bytes>>
wire_rx == <<rx_buffer, rx_index, answer, read_bytes, supplied>>
wire_vars == <<address, wire_tx, wire_rx, heard>>

Silence == [address |-> Idle, data |-> <<>>, aimed |-> Idle, meant |-> <<>>]

WireInit ==
  /\ address = Idle /\ transmitting = FALSE
  /\ tx_buffer = <<>> /\ tx_overflow = FALSE
  /\ aimed = Idle /\ meant = <<>> /\ flushed = FALSE /\ sent_bytes = 0 /\ heard = Silence
  /\ rx_buffer = <<>> /\ rx_index = 0 /\ answer = <<>> /\ read_bytes = <<>> /\ supplied = 0

Fewer(a, b) == IF a <= b THEN a ELSE b
Fresh(n, from) == [i \in 1..n |-> from + i]
------------------------------------------------------------------------------
(* begin() as a slave records the address it is given.                     *)
WireBegin(a) ==
  /\ address' = a
  /\ aimed' = IF transmitting THEN Idle ELSE aimed
  /\ UNCHANGED <<transmitting, tx_buffer, tx_overflow, meant, flushed, sent_bytes, wire_rx, heard>>

WireEnd ==
  /\ transmitting' = FALSE /\ tx_buffer' = <<>>
  /\ rx_buffer' = <<>> /\ rx_index' = 0 /\ answer' = <<>> /\ read_bytes' = <<>>
  /\ UNCHANGED <<address, tx_overflow, aimed, meant, flushed, sent_bytes, supplied, heard>>

MutantBeginTransmission(a) ==
  /\ address' = a /\ transmitting' = TRUE
  /\ tx_buffer' = <<>>
  /\ aimed' = a /\ meant' = <<>> /\ flushed' = FALSE
  /\ UNCHANGED <<tx_overflow, sent_bytes, wire_rx, heard>>

BeginTransmission(a) ==
  /\ address' = a /\ transmitting' = TRUE
  /\ tx_buffer' = <<>> /\ tx_overflow' = FALSE
  /\ aimed' = a /\ meant' = <<>> /\ flushed' = FALSE
  /\ UNCHANGED <<sent_bytes, wire_rx, heard>>

(* A block is written byte by byte until the buffer is full.               *)
WireWrite(size) ==
  LET n == Fewer(size, BufferLength - Len(tx_buffer)) IN
  /\ transmitting /\ sent_bytes + size <= MaxWireBytes
  /\ tx_buffer' = tx_buffer \o Fresh(n, sent_bytes)
  /\ tx_overflow' = (tx_overflow \/ n < size)
  /\ meant' = meant \o Fresh(size, sent_bytes)
  /\ sent_bytes' = sent_bytes + size
  /\ UNCHANGED <<address, transmitting, aimed, flushed, wire_rx, heard>>

(* An overflowed transmission is not handed to the device at all.          *)
EndTransmission ==
  /\ transmitting
  /\ transmitting' = FALSE /\ tx_buffer' = <<>>
  /\ heard' = IF tx_overflow THEN heard
              ELSE [address |-> address, data |-> tx_buffer, aimed |-> aimed, meant |-> meant]
  /\ UNCHANGED <<address, tx_overflow, aimed, meant, flushed, sent_bytes, wire_rx>>

MutantRequestFrom(a, size) ==
  \E n \in 0..(size + 1) :
    /\ supplied + n <= MaxWireBytes
    /\ address' = a
    /\ aimed' = IF transmitting THEN Idle ELSE aimed
    /\ rx_buffer' = Fresh(n, supplied)
    /\ answer' = rx_buffer' /\ supplied' = supplied + n
    /\ read_bytes' = <<>>
    /\ UNCHANGED <<transmitting, tx_buffer, tx_overflow, meant, flushed, sent_bytes, rx_index, heard>>

(* The device is asked for what fits the buffer, and supplies any part of  *)
(* it; what it claims beyond that is ignored.                              *)
RequestFrom(a, size) ==
  \E n \in 0..Fewer(size, BufferLength) :
    /\ supplied + n <= MaxWireBytes
    /\ address' = a
    /\ aimed' = IF transmitting THEN Idle ELSE aimed
    /\ rx_buffer' = Fresh(n, supplied) /\ rx_index' = 0
    /\ answer' = rx_buffer' /\ supplied' = supplied + n
    /\ read_bytes' = <<>>
    /\ UNCHANGED <<transmitting, tx_buffer, tx_overflow, meant, flushed, sent_bytes, heard>>

(* The overloads with a uint8_t, or an int that is cast to one.            *)
RequestFromInt(a, size) == RequestFrom(a, size % ByteModulus)

WireRead ==
  /\ rx_index < Len(rx_buffer)
  /\ rx_index' = rx_index + 1
  /\ read_bytes' = Append(read_bytes, rx_buffer[rx_index + 1])
  /\ UNCHANGED <<address, wire_tx, rx_buffer, answer, supplied, heard>>

(* flush() empties both buffers; a transmission goes on.                   *)
WireFlush ==
  /\ rx_buffer' = <<>> /\ rx_index' = 0 /\ answer' = <<>> /\ read_bytes' = <<>>
  /\ tx_buffer' = <<>> /\ meant' = <<>> /\ flushed' = TRUE
  /\ UNCHANGED <<address, transmitting, tx_overflow, aimed, sent_bytes, supplied, heard>>

WireNext ==
  \/ \E a \in Addresses :
       \/ WireBegin(a)
       \/ BeginTransmission(a)
       \/ \E size \in 0..MaxAsked : RequestFrom(a, size) \/ RequestFromInt(a, size)
  \/ WireEnd
  \/ \E size \in 1..MaxWireBytes : WireWrite(size)
  \/ EndTransmission
  \/ WireRead
  \/ WireFlush

WireSpec == WireInit /\ [][WireNext]_wire_vars
------------------------------------------------------------------------------
(* Every variable of the bus has its type, and no buffer is exceeded.      *)
WireTypeOK ==
  /\ address \in Addresses \cup {Idle} /\ transmitting \in BOOLEAN
  /\ tx_buffer \in Seq(Nat) /\ Len(tx_buffer) <= BufferLength /\ tx_overflow \in BOOLEAN
  /\ rx_buffer \in Seq(Nat) /\ Len(rx_buffer) <= BufferLength /\ rx_index \in 0..Len(rx_buffer)
  /\ aimed \in Addresses \cup {Idle} /\ meant \in Seq(Nat) /\ flushed \in BOOLEAN
  /\ sent_bytes \in Nat /\ supplied \in Nat
  /\ heard \in [address : Addresses \cup {Idle}, data : Seq(Nat),
                aimed : Addresses \cup {Idle}, meant : Seq(Nat)]
  /\ answer \in Seq(Nat) /\ read_bytes \in Seq(Nat)

(* What a device hears is a whole transmission: every byte written since   *)
(* it began (or since a flush), at the address it began with unless a      *)
(* request or a begin() within it has addressed another; one that does not *)
(* fit is never handed over in part.  And what the sketch reads is the     *)
(* last answer from its first byte on (Wire.h:25-28, Wire.cpp:74-102).     *)
WireTransactionsWhole ==
  /\ heard.data = heard.meant
  /\ heard.aimed # Idle => heard.address = heard.aimed
  /\ transmitting /\ ~flushed => (tx_overflow <=> Len(meant) > BufferLength)
  /\ transmitting /\ ~tx_overflow => tx_buffer = meant
  /\ read_bytes = SubSeq(answer, 1, rx_index)
================================================================================
