------------------------------- MODULE ByteStream -------------------------------
(***************************************************************************)
(* What a connected Client promises its sketch (Client.h, Stream.h): the   *)
(* bytes of the peer arrive in order and once, each call answers from what *)
(* has arrived, and connected() says no only when nothing is left to read  *)
(* and the peer has gone.  Implemented by TcpClient.                       *)
(***************************************************************************)
EXTENDS Integers, Sequences

VARIABLES
  held,        (* the bytes of the peer that the sketch has not taken      *)
  link,        (* "down", "up", or "ending" when the peer has gone         *)
  answer,      (* what the last call has returned                          *)
  writing,     (* the write in progress: the bytes left, and those sent    *)
  delivered    (* the bytes handed to the peer                             *)

stream == <<held, link, answer, writing, delivered>>

Silent == [of |-> "nothing", is |-> <<>>]
NoWrite == [rest |-> <<>>, sent |-> <<>>]

BSInit ==
  /\ held = <<>> /\ link = "down" /\ answer = Silent
  /\ writing = NoWrite /\ delivered = <<>>

Says(op, value) == answer' = [of |-> op, is |-> value]
Prefix(s, n) == SubSeq(s, 1, n)
------------------------------------------------------------------------------
(* A new connection, or none; what was held of the last one is dropped.    *)
Opens ==
  /\ held' = <<>> /\ link' \in {"up", "ending", "down"}
  /\ UNCHANGED <<answer, writing, delivered>>

Arrives ==
  /\ link = "up"
  /\ Len(held') = Len(held) + 1 /\ Prefix(held', Len(held)) = held
  /\ UNCHANGED <<link, answer, writing, delivered>>

(* The peer closes, or resets the connection and what is held goes with it *)
(* except what the client has looked at.                                   *)
PeerGoes ==
  /\ link = "up" /\ link' = "ending"
  /\ \E n \in 0..Len(held) : held' = Prefix(held, n)
  /\ UNCHANGED <<answer, writing, delivered>>

(* A call may find that the peer has gone once there is nothing left.      *)
Notices == \/ link' = link
           \/ link = "ending" /\ held' = <<>> /\ link' = "down"

Takes ==
  \E n \in 0..Len(held) :
    /\ held # <<>> => n > 0
    /\ Says("read", Prefix(held, n))
    /\ held' = SubSeq(held, n + 1, Len(held))
    /\ Notices
    /\ UNCHANGED <<writing, delivered>>

Looks ==
  /\ Says("peek", Prefix(held, IF held = <<>> THEN 0 ELSE 1))
  /\ UNCHANGED held
  /\ Notices
  /\ UNCHANGED <<writing, delivered>>

CountsHeld ==
  /\ Says("available", Len(held))
  /\ UNCHANGED <<held, link, writing, delivered>>

(* connected(): yes while there is something to read or a peer.            *)
Asks ==
  /\ Says("connected", held # <<>> \/ link = "up")
  /\ UNCHANGED held
  /\ Notices
  /\ UNCHANGED <<writing, delivered>>

(* A write hands its bytes over in order, and answers how many.            *)
Writes ==
  /\ writing = NoWrite
  /\ writing'.rest # <<>> /\ writing'.sent = <<>>
  /\ UNCHANGED <<held, link, answer, delivered>>

Delivers ==
  \E n \in 1..Len(writing.rest) :
    /\ delivered' = delivered \o Prefix(writing.rest, n)
    /\ writing' = [rest |-> SubSeq(writing.rest, n + 1, Len(writing.rest)),
                   sent |-> writing.sent \o Prefix(writing.rest, n)]
    /\ UNCHANGED <<held, link, answer>>

WriteEnds ==
  /\ Says("write", Len(writing.sent))
  /\ writing' = NoWrite
  /\ UNCHANGED <<held, link, delivered>>

BSNext ==
  \/ Opens \/ Arrives \/ PeerGoes
  \/ Takes \/ Looks \/ CountsHeld \/ Asks
  \/ Writes \/ Delivers \/ WriteEnds

BSSpec == BSInit /\ [][BSNext]_stream
================================================================================
