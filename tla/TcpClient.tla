-------------------------------- MODULE TcpClient --------------------------------
(***************************************************************************)
(* WiFiClient, which keeps one byte of look-ahead beside a non-blocking    *)
(* socket, and the WiFiServer that hands out clients.                      *)
(*                                                                         *)
(* The copies of a client share their state, so there is one, and one      *)
(* thread that calls.  The kernel's connection is external: what it holds  *)
(* and whether the peer has closed or reset it.  Bytes are numbered in the *)
(* order in which the peer, or the sketch, sends them.  Addresses, name    *)
(* resolution and error numbers are left out.                              *)
(***************************************************************************)
EXTENDS Integers, Sequences

CONSTANTS
  MaxFromPeer,   (* bound: bytes the peer sends                            *)
  MaxToPeer,     (* bound: bytes the sketch writes                         *)
  Backlog        (* connections that wait to be accepted, listen's 4       *)

ASSUME TcpAssumption == MaxFromPeer \in Nat /\ MaxToPeer \in Nat /\ Backlog \in Nat

VARIABLES
  sock,          (* state_->sock is a socket                               *)
  peek_byte,     (* state_->peek_byte: 0 for none                          *)
  kernel,        (* what the socket holds                                  *)
  peer,          (* "open", "closed", or "reset" until a call meets it     *)
  from_peer,     (* number of bytes the peer has sent                      *)
  replied,       (* what the last call returned                            *)
  unsent, sent,  (* the write in progress: bytes left, and those sent      *)
  to_peer,       (* number of bytes the sketch has offered                 *)
  at_peer,       (* the bytes handed to the kernel                         *)
  listening,     (* listen_sock_ is a socket                               *)
  pending        (* connections not accepted yet                           *)

tcp_read == <<sock, peek_byte, kernel, peer>>
tcp_write == <<unsent, sent, to_peer, at_peer>>
tcp_server == <<listening, pending>>
tcp_vars == <<tcp_read, from_peer, replied, tcp_write, tcp_server>>

Answered(op, value) == replied' = [of |-> op, is |-> value]
LookAhead == IF peek_byte = 0 THEN <<>> ELSE <<peek_byte>>
Calls == unsent = <<>> /\ sent = <<>>

TcpInit ==
  /\ sock = FALSE /\ peek_byte = 0 /\ kernel = <<>> /\ peer = "open"
  /\ from_peer = 0 /\ replied = [of |-> "nothing", is |-> <<>>]
  /\ unsent = <<>> /\ sent = <<>> /\ to_peer = 0 /\ at_peer = <<>>
  /\ listening = FALSE /\ pending = 0
------------------------------------------------------------------------------
(* connect stops the last connection first, whether or not it succeeds.    *)
TcpConnect ==
  /\ Calls
  /\ sock' \in BOOLEAN
  /\ peek_byte' = 0 /\ kernel' = <<>> /\ peer' = "open"
  /\ UNCHANGED <<from_peer, replied, tcp_write, tcp_server>>

(* stop(), and the end of the last copy, which closes the socket too.      *)
TcpStop ==
  /\ Calls
  /\ sock' = FALSE /\ peek_byte' = 0 /\ kernel' = <<>> /\ peer' = "open"
  /\ UNCHANGED <<from_peer, replied, tcp_write, tcp_server>>

(* What recv meets: bytes, the end, an error (which a kernel tells once),  *)
(* or nothing yet.                                                         *)
Recv ==
  CASE kernel # <<>> -> "data" [] kernel = <<>> /\ peer = "closed" -> "end"
    [] kernel = <<>> /\ peer = "reset" -> "error" [] OTHER -> "wait"

CloseSocket == sock' = FALSE /\ kernel' = <<>> /\ peer' = "open"
KeepSocket == UNCHANGED <<sock, kernel, peer>>

(* read(): the byte looked at, or one from the socket.                     *)
TcpReadByte ==
  /\ Calls
  /\ peek_byte' = 0
  /\ IF peek_byte # 0 THEN Answered("read", LookAhead) /\ KeepSocket
     ELSE IF sock /\ Recv = "data"
     THEN /\ Answered("read", <<Head(kernel)>>)
          /\ kernel' = Tail(kernel) /\ UNCHANGED <<sock, peer>>
     ELSE /\ Answered("read", <<>>)
          /\ IF sock /\ Recv # "wait" THEN CloseSocket ELSE KeepSocket
  /\ UNCHANGED <<from_peer, tcp_write, tcp_server>>

(* read(buf, size): both, as far as they go.                               *)
TcpReadBlock(size) ==
  /\ Calls
  /\ peek_byte' = 0
  /\ IF sock /\ size > Len(LookAhead) /\ Recv = "data"
     THEN \E n \in 1..size - Len(LookAhead) :
            /\ n <= Len(kernel)
            /\ Answered("read", LookAhead \o SubSeq(kernel, 1, n))
            /\ kernel' = SubSeq(kernel, n + 1, Len(kernel))
            /\ UNCHANGED <<sock, peer>>
     ELSE /\ Answered("read", LookAhead)
          /\ IF sock /\ size > Len(LookAhead) /\ Recv # "wait" THEN CloseSocket ELSE KeepSocket
  /\ UNCHANGED <<from_peer, tcp_write, tcp_server>>

(* peek() keeps what it gets, and takes no notice of an error.             *)
TcpPeek ==
  /\ Calls
  /\ IF peek_byte = 0 /\ sock /\ Recv = "data"
     THEN /\ peek_byte' = Head(kernel) /\ kernel' = Tail(kernel) /\ UNCHANGED <<sock, peer>>
     ELSE /\ UNCHANGED peek_byte
          /\ IF peek_byte = 0 /\ sock /\ Recv = "end" THEN CloseSocket
             ELSE /\ peer' = IF peek_byte = 0 /\ sock /\ Recv = "error" THEN "closed" ELSE peer
                  /\ UNCHANGED <<sock, kernel>>
  /\ Answered("peek", IF peek_byte' = 0 THEN <<>> ELSE <<peek_byte'>>)
  /\ UNCHANGED <<from_peer, tcp_write, tcp_server>>

TcpAvailable ==
  /\ Calls
  /\ Answered("available", Len(LookAhead) + IF sock THEN Len(kernel) ELSE 0)
  /\ UNCHANGED <<tcp_read, from_peer, tcp_write, tcp_server>>

MutantConnected ==
  /\ Calls
  /\ UNCHANGED peek_byte
  /\ IF peek_byte = 0 /\ sock /\ Recv = "data"
     THEN kernel' = Tail(kernel) /\ UNCHANGED <<sock, peer>>
     ELSE IF peek_byte = 0 /\ sock /\ Recv # "wait" THEN CloseSocket ELSE KeepSocket
  /\ Answered("connected", peek_byte # 0 \/ sock')
  /\ UNCHANGED <<from_peer, tcp_write, tcp_server>>

(* connected() probes with a recv, and keeps what it gets.                 *)
TcpConnected ==
  /\ Calls
  /\ IF peek_byte = 0 /\ sock /\ Recv = "data"
     THEN /\ peek_byte' = Head(kernel) /\ kernel' = Tail(kernel) /\ UNCHANGED <<sock, peer>>
     ELSE /\ UNCHANGED peek_byte
          /\ IF peek_byte = 0 /\ sock /\ Recv # "wait" THEN CloseSocket ELSE KeepSocket
  /\ Answered("connected", peek_byte' # 0 \/ sock')
  /\ UNCHANGED <<from_peer, tcp_write, tcp_server>>
------------------------------------------------------------------------------
(* write: sends until all is sent, spinning while the kernel takes none.   *)
TcpWrite(size) ==
  /\ Calls /\ sock /\ to_peer + size <= MaxToPeer
  /\ unsent' = [i \in 1..size |-> to_peer + i]
  /\ to_peer' = to_peer + size
  /\ UNCHANGED <<tcp_read, from_peer, replied, sent, at_peer, tcp_server>>

SendSome ==
  /\ unsent # <<>> /\ peer # "reset"
  /\ \E n \in 1..Len(unsent) :
       /\ sent' = sent \o SubSeq(unsent, 1, n)
       /\ at_peer' = at_peer \o SubSeq(unsent, 1, n)
       /\ unsent' = SubSeq(unsent, n + 1, Len(unsent))
  /\ UNCHANGED <<tcp_read, from_peer, replied, to_peer, tcp_server>>

(* All is sent, or the peer has gone and send fails.                       *)
WriteReturns ==
  /\ ~Calls /\ (unsent = <<>> \/ peer # "open")
  /\ Answered("write", Len(sent))
  /\ peer' = IF unsent # <<>> /\ peer = "reset" THEN "closed" ELSE peer
  /\ unsent' = <<>> /\ sent' = <<>>
  /\ UNCHANGED <<sock, peek_byte, kernel, from_peer, to_peer, at_peer, tcp_server>>
------------------------------------------------------------------------------
(* The server.  begin() closes the last listening socket, then may fail.   *)
ServerBegin ==
  /\ Calls
  /\ listening' \in BOOLEAN /\ pending' = 0
  /\ UNCHANGED <<tcp_read, from_peer, replied, tcp_write>>

ServerEnd ==
  /\ Calls
  /\ listening' = FALSE /\ pending' = 0
  /\ UNCHANGED <<tcp_read, from_peer, replied, tcp_write>>

(* client = server.available(): the pending connection, or an unconnected  *)
(* client; the client assigned to loses its own.                           *)
ServerAvailable ==
  /\ Calls
  /\ sock' = (listening /\ pending > 0)
  /\ pending' = IF sock' THEN pending - 1 ELSE pending
  /\ peek_byte' = 0 /\ kernel' = <<>> /\ peer' = "open"
  /\ UNCHANGED <<from_peer, replied, tcp_write, listening>>
------------------------------------------------------------------------------
(* The peers.                                                              *)
PeerCalls ==
  /\ listening /\ pending < Backlog
  /\ pending' = pending + 1
  /\ UNCHANGED <<tcp_read, from_peer, replied, tcp_write, listening>>

PeerSends ==
  /\ sock /\ peer = "open" /\ from_peer < MaxFromPeer
  /\ from_peer' = from_peer + 1
  /\ kernel' = Append(kernel, from_peer')
  /\ UNCHANGED <<sock, peek_byte, peer, replied, tcp_write, tcp_server>>

PeerCloses ==
  /\ sock /\ peer = "open"
  /\ \/ peer' = "closed" /\ UNCHANGED kernel
     \/ peer' = "reset" /\ kernel' \in {kernel, <<>>}
  /\ UNCHANGED <<sock, peek_byte, from_peer, replied, tcp_write, tcp_server>>

TcpNext ==
  \/ TcpConnect
  \/ TcpStop
  \/ TcpReadByte
  \/ \E size \in 1..MaxFromPeer : TcpReadBlock(size)
  \/ TcpPeek
  \/ TcpAvailable
  \/ TcpConnected
  \/ \E size \in 1..MaxToPeer : TcpWrite(size)
  \/ SendSome
  \/ WriteReturns
  \/ ServerBegin
  \/ ServerEnd
  \/ ServerAvailable
  \/ PeerCalls
  \/ PeerSends
  \/ PeerCloses

TcpSpec == TcpInit /\ [][TcpNext]_tcp_vars
------------------------------------------------------------------------------
(* Every variable of the client and the server has its type; a byte looked *)
(* at is kept only beside an open socket.                                  *)
TcpTypeOK ==
  /\ sock \in BOOLEAN /\ peek_byte \in Nat /\ (peek_byte # 0 => sock)
  /\ kernel \in Seq(Nat) /\ peer \in {"open", "closed", "reset"}
  /\ ~sock => kernel = <<>> /\ peer = "open"
  /\ from_peer \in Nat
  /\ unsent \in Seq(Nat) /\ sent \in Seq(Nat) /\ to_peer \in Nat /\ at_peer \in Seq(Nat)
  /\ listening \in BOOLEAN /\ pending \in 0..Backlog

TcpStream == INSTANCE ByteStream WITH
  held <- LookAhead \o kernel,
  link <- IF ~sock THEN "down" ELSE IF peer = "open" THEN "up" ELSE "ending",
  answer <- replied,
  writing <- [rest |-> unsent, sent |-> sent],
  delivered <- at_peer

(* The look-ahead does not show: whatever mixture of read, read(buf), peek *)
(* available, connected and write a sketch calls, and whenever the peer    *)
(* sends, closes or resets, the client behaves as a ByteStream, so no byte *)
(* is lost, repeated or moved, and connected() stays true while there is   *)
(* one to read (WiFiClient.h:11-13, 237-238).                              *)
TcpImplementsStream == TcpStream!BSSpec
================================================================================
