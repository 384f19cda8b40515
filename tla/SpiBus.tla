--------------------------------- MODULE SpiBus ---------------------------------
(***************************************************************************)
(* The SPI library: transfers of one to four bytes, which the device hook  *)
(* sees and answers byte by byte, and transactions.                        *)
(*                                                                         *)
(* The hook may call the bus again, so settings can change between two     *)
(* bytes of a word; the order of a word's bytes is that of its first.      *)
(* Bytes have a small base.  Pins, clock, mode and counts are left out.    *)
(***************************************************************************)
EXTENDS Integers, Sequences, Powers

CONSTANTS
  Base,            (* number of values of a byte, 256                      *)
  Words            (* the data given to a transfer                         *)

ASSUME SpiAssumption == Base \in Nat \ {0, 1} /\ Words \subseteq Nat

VARIABLES
  bit_order,       (* _settings._bitOrder: "msb" or "lsb"                  *)
  in_transaction,  (* _inTransaction                                       *)
  told,            (* what the transaction hook told the device last       *)
  xfer,            (* the transfer in progress                             *)
  mosi, miso       (* its bytes so far, as the device saw and answered     *)

spi_vars == <<bit_order, in_transaction, told, xfer, mosi, miso>>

NoTransfer == [word |-> 0, count |-> 0, order |-> "msb", result |-> 0]

SpiInit ==
  /\ bit_order = "msb" /\ in_transaction = FALSE /\ told = "inactive"
  /\ xfer = NoTransfer /\ mosi = <<>> /\ miso = <<>>

(* The place in the word of the n-th byte on the wire: the shift is 8      *)
(* times that.                                                             *)
Place(order, count, n) == IF order = "msb" THEN count - n ELSE n - 1
ByteAt(word, place) == (word \div Power(Base)[place]) % Base
------------------------------------------------------------------------------
SpiEnd ==
  /\ in_transaction' = FALSE
  /\ told' = IF told = "active" THEN "ended" ELSE told
  /\ UNCHANGED <<bit_order, xfer, mosi, miso>>

SpiBeginTransaction(order) ==
  /\ bit_order' = order /\ in_transaction' = TRUE /\ told' = "active"
  /\ UNCHANGED <<xfer, mosi, miso>>

SpiEndTransaction ==
  /\ in_transaction' = FALSE /\ told' = "inactive"
  /\ UNCHANGED <<bit_order, xfer, mosi, miso>>

SetBitOrder(order) ==
  /\ bit_order' = order
  /\ UNCHANGED <<in_transaction, told, xfer, mosi, miso>>

(* transfer, transfer16, transfer32 and transferBits, which sends whole    *)
(* bytes; the block transfers are one transfer for each byte.              *)
StartTransfer(word, count) ==
  /\ xfer = NoTransfer
  /\ xfer' = [word |-> word, count |-> count, order |-> bit_order, result |-> 0]
  /\ mosi' = <<>> /\ miso' = <<>>
  /\ UNCHANGED <<bit_order, in_transaction, told>>

MutantTransferByte(answer) ==
  LET place == Place(bit_order, xfer.count, Len(mosi) + 1) IN
  /\ Len(mosi) < xfer.count
  /\ mosi' = Append(mosi, ByteAt(xfer.word, place))
  /\ miso' = Append(miso, answer)
  /\ xfer' = [xfer EXCEPT !.result = @ + answer * Power(Base)[place]]
  /\ UNCHANGED <<bit_order, in_transaction, told>>

TransferByte(answer) ==
  LET place == Place(xfer.order, xfer.count, Len(mosi) + 1) IN
  /\ Len(mosi) < xfer.count
  /\ mosi' = Append(mosi, ByteAt(xfer.word, place))
  /\ miso' = Append(miso, answer)
  /\ xfer' = [xfer EXCEPT !.result = @ + answer * Power(Base)[place]]
  /\ UNCHANGED <<bit_order, in_transaction, told>>

TransferReturns ==
  /\ xfer # NoTransfer /\ Len(mosi) = xfer.count
  /\ xfer' = NoTransfer /\ mosi' = <<>> /\ miso' = <<>>
  /\ UNCHANGED <<bit_order, in_transaction, told>>

SpiNext ==
  \/ \E order \in {"msb", "lsb"} : SpiBeginTransaction(order) \/ SetBitOrder(order)
  \/ SpiEnd
  \/ SpiEndTransaction
  \/ \E word \in Words, count \in 1..4 : StartTransfer(word, count)
  \/ \E answer \in 0..Base - 1 : TransferByte(answer)
  \/ TransferReturns

SpiSpec == SpiInit /\ [][SpiNext]_spi_vars
------------------------------------------------------------------------------
(* Every variable of the bus has its type.                                 *)
SpiTypeOK ==
  /\ bit_order \in {"msb", "lsb"} /\ in_transaction \in BOOLEAN
  /\ told \in {"inactive", "active", "ended"}
  /\ xfer \in [word : Nat, count : 0..4, order : {"msb", "lsb"}, result : Nat]
  /\ mosi \in Seq(0..Base - 1) /\ miso \in Seq(0..Base - 1)

(* The number that bytes on the wire stand for.                            *)
Value(order, bytes) ==
  LET v[n \in 0..Len(bytes)] ==
        IF n = 0 THEN 0
        ELSE IF order = "msb" THEN v[n - 1] * Base + bytes[n]
        ELSE v[n - 1] + bytes[n] * Power(Base)[n - 1]
  IN v[Len(bytes)]

(* A complete transfer has sent the low bytes of the word, and reads as    *)
(* the number the device has answered, both in the order that was set when *)
(* it began, whatever is set between two bytes; and a device that was told *)
(* a transaction is over, and not that the bus has ended, is outside one   *)
(* (SPI.cpp:40-55, 76-107; SPI.h:107-110, 183-193).                        *)
SpiWordsAndTransactions ==
  /\ xfer # NoTransfer /\ Len(mosi) = xfer.count =>
       /\ Value(xfer.order, mosi) = xfer.word % Power(Base)[xfer.count]
       /\ Value(xfer.order, miso) = xfer.result
  /\ in_transaction <=> told = "active"
================================================================================
