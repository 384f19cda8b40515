----------------------------- MODULE SerialRuntime -----------------------------
(***************************************************************************)
(* The TCP Serial runtime of HostRuntime.cpp and main.cpp.                 *)
(*                                                                         *)
(* The launcher removes the info file of an earlier run, forks the child   *)
(* and polls for the child's info file.  In the child, the MAIN thread     *)
(* opens the server, publishes the port, waits for a client and runs       *)
(* setup() and loop(); the SERVER thread accepts one client, sends it what *)
(* was buffered and then receives; TASKS of the sketch, which may exist    *)
(* before main (a global constructor creates them), write and read Serial  *)
(* as well.  g_serial_mutex is held for the whole of a write: it is taken  *)
(* exactly while a writer is `sender' or the server is "flushing".         *)
(*                                                                         *)
(* Bytes are numbered, from 1, in the order in which they are written (on  *)
(* either side).  Logging and the display build, which has no server, are  *)
(* left out.                                                               *)
(***************************************************************************)
EXTENDS Integers, Sequences

CONSTANTS
  Main,          (* the thread of setup() and loop()                       *)
  Tasks,         (* the sketch's other threads                             *)
  Nobody,        (* no thread                                              *)
  Limit,         (* g_output_limit                                         *)
  MaxRetries,    (* 1000 in sendToClient                                   *)
  MaxWritten,    (* bound: bytes the sketch writes                         *)
  MaxSent        (* bound: bytes the client sends                          *)

Writers == Tasks \cup {Main}

ASSUME SerialAssumption ==
  /\ Main \notin Tasks /\ Nobody \notin Writers
  /\ Limit \in Nat /\ MaxRetries \in Nat
  /\ MaxWritten \in Nat /\ MaxSent \in Nat

VARIABLES
  launcher,       (* where the launcher is                                 *)
  info,           (* the info file: absent, stale, empty, or own           *)
  reported,       (* the info whose port the launcher printed              *)
  main,           (* where the main thread of the child is                 *)
  server,         (* where the server thread is                            *)
  client,         (* absent, connected or gone                             *)
  sock,           (* g_client_socket is a socket                           *)
  stop,           (* g_stop                                                *)
  connected_once, (* g_connected_once                                      *)
  reason,         (* g_exit_reason                                         *)
  sender,         (* the writer inside serialWrite's sendToClient          *)
  unsent,         (* what the sendToClient that runs has still to send     *)
  retries,        (* its would_block_retries                               *)
  output,         (* g_output_buffer                                       *)
  written,        (* number of bytes written so far                        *)
  received,       (* what the client received                              *)
  raced,          (* a write was sent after the accept, before the flush   *)
  input,          (* g_input_buffer                                        *)
  sent,           (* number of bytes the client sent                       *)
  kernel,         (* those the server has not received yet                 *)
  held,           (* those received and not yet in g_input_buffer          *)
  taken           (* those the sketch has read                             *)

launching == <<launcher, info, reported>>
threads == <<main, server>>
link == <<client, sock, stop, connected_once, reason>>
sending == <<sender, unsent, retries>>
out == <<output, written, received, raced>>
in == <<input, sent, kernel, held, taken>>
vars == <<launching, threads, link, sending, out, in>>

(* The child process exists. *)
Alive == main \notin {"none", "failed", "exited"}

(* g_serial_mutex can be taken. *)
LockFree == sender = Nobody /\ server # "flushing"

Reasons == {"unknown", "runtime_start_failed", "connect_timeout",
            "tcp_disconnected", "tcp_recv_error", "tcp_send_error"}

(* setExitReason: the first reason stays. *)
ExitReason(r) == IF reason = "unknown" THEN r ELSE reason

Init ==
  /\ launcher = "start"
  /\ info \in {"absent", "stale"}
  /\ reported = "absent"
  /\ main = "none"
  /\ server = "none"
  /\ client = "absent"
  /\ sock = FALSE /\ stop = FALSE /\ connected_once = FALSE
  /\ reason = "unknown"
  /\ sender = Nobody /\ unsent = <<>> /\ retries = 0
  /\ output = <<>> /\ written = 0 /\ received = <<>> /\ raced = FALSE
  /\ input = <<>> /\ sent = 0 /\ kernel = <<>> /\ held = <<>> /\ taken = <<>>
------------------------------------------------------------------------------
(* The launcher. *)
MutantRemoveInfo ==
  /\ launcher = "start"
  /\ launcher' = "fork"
  /\ UNCHANGED <<info, reported, threads, link, sending, out, in>>

RemoveInfo ==
  /\ launcher = "start"
  /\ launcher' = "fork"
  /\ info' = "absent"
  /\ UNCHANGED <<reported, threads, link, sending, out, in>>

StartDetachedChild ==
  /\ launcher = "fork"
  /\ \/ launcher' = "poll" /\ main' = "start"
     \/ launcher' = "failed" /\ main' = main
  /\ UNCHANGED <<info, reported, server, link, sending, out, in>>

(* readInfoFile and parsePort find a port; an empty file has none.         *)
ReportPort ==
  /\ launcher = "poll"
  /\ info \in {"stale", "own"}
  /\ launcher' = "ok"
  /\ reported' = info
  /\ UNCHANGED <<info, threads, link, sending, out, in>>

LauncherTimesOut ==
  /\ launcher = "poll"
  /\ launcher' = "failed"
  /\ UNCHANGED <<info, reported, threads, link, sending, out, in>>
------------------------------------------------------------------------------
(* The main thread: startServer.  The info file is opened, and so empty,   *)
(* before it is written; then the server thread starts.                    *)
StartServer ==
  /\ main = "start"
  /\ \/ main' = "publishing" /\ info' = "empty" /\ reason' = reason
     \/ main' = "failed" /\ info' = info /\ reason' = ExitReason("runtime_start_failed")
  /\ UNCHANGED <<launcher, reported, server, client, sock, stop, connected_once,
                 sending, out, in>>

PublishPort ==
  /\ main = "publishing"
  /\ info' = "own"
  /\ main' = "wait"
  /\ server' = "accept"
  /\ UNCHANGED <<launcher, reported, link, sending, out, in>>

(* waitForClient: one look at the flags, then one at the clock.  A main    *)
(* that returns with the server thread still joinable ends the process.    *)
MutantLookForClient ==
  /\ main = "wait"
  /\ main' = IF connected_once \/ stop THEN "sketch" ELSE "clock"
  /\ UNCHANGED <<launching, server, link, sending, out, in>>

LookForClient ==
  /\ main = "wait"
  /\ main' = IF connected_once THEN "sketch" ELSE IF stop THEN "giving_up" ELSE "clock"
  /\ UNCHANGED <<launching, server, link, sending, out, in>>

KeepWaiting ==
  /\ main = "clock"
  /\ main' = "wait"
  /\ UNCHANGED <<launching, server, link, sending, out, in>>

WaitTimesOut ==
  /\ main = "clock"
  /\ main' = "giving_up"
  /\ reason' = ExitReason("connect_timeout")
  /\ stop' = TRUE
  /\ UNCHANGED <<launching, server, client, sock, connected_once, sending, out, in>>

(* main returns 1; the other threads run on until it has. *)
GiveUp ==
  /\ main = "giving_up"
  /\ main' = "failed"
  /\ UNCHANGED <<launching, server, link, sending, out, in>>

(* loop() has returned and runtimeShouldStop() holds; then runtimeStop.    *)
LeaveLoop ==
  /\ main = "sketch" /\ stop
  /\ sender # Main
  /\ main' = "joining"
  /\ UNCHANGED <<launching, server, link, sending, out, in>>

RuntimeStop ==
  /\ main = "joining" /\ server = "done"
  /\ main' = "exited"
  /\ UNCHANGED <<launching, server, link, sending, out, in>>
------------------------------------------------------------------------------
(* sendToClient, inside the lock: a test of g_stop and a send are one      *)
(* step.  It is not entered without a socket.                              *)
Sending == unsent # <<>> /\ Alive

MutantSendSome ==
  /\ Sending /\ ~stop
  /\ \E n \in 1 .. Len(unsent) :
       received' = IF client = "connected"
                   THEN received \o SubSeq(unsent, 1, n) ELSE received
  /\ unsent' = <<>>
  /\ retries' = 0
  /\ UNCHANGED <<launching, threads, link, sender, output, written, raced, in>>

SendSome ==
  /\ Sending /\ ~stop
  /\ \E n \in 1 .. Len(unsent) :
       /\ received' = IF client = "connected"
                      THEN received \o SubSeq(unsent, 1, n) ELSE received
       /\ unsent' = SubSeq(unsent, n + 1, Len(unsent))
  /\ retries' = 0
  /\ UNCHANGED <<launching, threads, link, sender, output, written, raced, in>>

WouldBlock ==
  /\ Sending /\ ~stop
  /\ retries < MaxRetries
  /\ retries' = retries + 1
  /\ UNCHANGED <<launching, threads, link, sender, unsent, out, in>>

(* The client is gone, or it has not read for too long.                    *)
SendFails ==
  /\ Sending /\ ~stop
  /\ client = "gone" \/ retries = MaxRetries
  /\ reason' = ExitReason("tcp_send_error")
  /\ stop' = TRUE
  /\ unsent' = <<>> /\ retries' = 0
  /\ UNCHANGED <<launching, threads, client, sock, connected_once, sender, out, in>>

SendStops ==
  /\ Sending /\ stop
  /\ unsent' = <<>> /\ retries' = 0
  /\ UNCHANGED <<launching, threads, link, sender, out, in>>

(* sendToClient returns and the lock is released. *)
SendReturns ==
  /\ Alive /\ ~LockFree /\ unsent = <<>>
  /\ sender' = Nobody
  /\ server' = IF server = "flushing" THEN "recv" ELSE server
  /\ UNCHANGED <<launching, main, link, unsent, retries, out, in>>

SendStep == SendSome \/ WouldBlock \/ SendFails \/ SendStops \/ SendReturns
------------------------------------------------------------------------------
(* The server thread.  The accept loop waits in slices of 100 ms.          *)
Accept ==
  /\ Alive /\ server = "accept"
  /\ client # "absent"
  /\ sock' = TRUE
  /\ connected_once' = TRUE
  /\ server' = "flush"
  /\ UNCHANGED <<launching, main, client, stop, reason, sending, out, in>>

AcceptTimesOut ==
  /\ Alive /\ server = "accept"
  /\ reason' = ExitReason("connect_timeout")
  /\ stop' = TRUE
  /\ server' = "done"
  /\ UNCHANGED <<launching, main, client, sock, connected_once, sending, out, in>>

AcceptStopped ==
  /\ Alive /\ server = "accept" /\ stop
  /\ server' = "flush"
  /\ UNCHANGED <<launching, main, link, sending, out, in>>

(* What was written so far is sent; without a socket or bytes, nothing.    *)
Flush ==
  /\ Alive /\ server = "flush" /\ LockFree
  /\ server' = "flushing"
  /\ unsent' = IF sock THEN output ELSE <<>>
  /\ UNCHANGED <<launching, main, link, sender, retries, out, in>>

Receive ==
  /\ Alive /\ server = "recv" /\ sock
  /\ kernel # <<>>
  /\ \E n \in 1 .. Len(kernel) :
       /\ held' = SubSeq(kernel, 1, n)
       /\ kernel' = SubSeq(kernel, n + 1, Len(kernel))
  /\ server' = "append"
  /\ UNCHANGED <<launching, main, link, sending, out, input, sent, taken>>

MutantAppendInput ==
  /\ Alive /\ server = "append" /\ LockFree
  /\ input' = held
  /\ held' = <<>>
  /\ server' = "recv"
  /\ UNCHANGED <<launching, main, link, sending, out, sent, kernel, taken>>

AppendInput ==
  /\ Alive /\ server = "append" /\ LockFree
  /\ input' = input \o held
  /\ held' = <<>>
  /\ server' = "recv"
  /\ UNCHANGED <<launching, main, link, sending, out, sent, kernel, taken>>

(* recv returns 0 after the client's last byte; it may fail instead.       *)
MutantDisconnected ==
  /\ Alive /\ server = "recv" /\ sock
  /\ client = "gone" /\ kernel = <<>>
  /\ server' = "done"
  /\ UNCHANGED <<launching, main, link, sending, out, in>>

Disconnected ==
  /\ Alive /\ server = "recv" /\ sock
  /\ client = "gone"
  /\ \/ kernel = <<>> /\ reason' = ExitReason("tcp_disconnected")
     \/ reason' = ExitReason("tcp_recv_error")
  /\ stop' = TRUE
  /\ server' = "close"
  /\ UNCHANGED <<launching, main, client, sock, connected_once, sending, out, in>>

ReceiveStops ==
  /\ Alive /\ server = "recv" /\ (stop \/ ~sock)
  /\ server' = "close"
  /\ UNCHANGED <<launching, main, link, sending, out, in>>

Close ==
  /\ Alive /\ server = "close"
  /\ sock' = FALSE
  /\ reason' = ExitReason("tcp_disconnected")
  /\ stop' = TRUE
  /\ server' = "done"
  /\ UNCHANGED <<launching, main, client, connected_once, sending, out, in>>
------------------------------------------------------------------------------
(* The sketch: Serial.write and Serial.read.                               *)
MayUseSerial(w) == IF w = Main THEN main = "sketch" ELSE Alive

NewBytes(n) == [i \in 1 .. n |-> written + i]

(* The newest Limit elements of a sequence. *)
Newest(s) ==
  IF Len(s) > Limit THEN SubSeq(s, Len(s) - Limit + 1, Len(s)) ELSE s

MutantAppendKeepsOldest(data) ==
  IF Limit = 0 \/ Len(output) + Len(data) > Limit THEN output ELSE output \o data

MutantAppendUnbounded(data) == output \o data

AppendOutputLocked(data) ==
  IF Limit = 0 THEN output ELSE Newest(output \o data)

(* The bytes are buffered in any case, and sent if there is a client.      *)
SerialWrite(w, n) ==
  /\ MayUseSerial(w) /\ LockFree
  /\ written + n =< MaxWritten
  /\ output' = AppendOutputLocked(NewBytes(n))
  /\ written' = written + n
  /\ sender' = w
  /\ unsent' = IF sock THEN NewBytes(n) ELSE <<>>
  /\ raced' = (raced \/ (sock /\ server = "flush"))
  /\ UNCHANGED <<launching, threads, link, retries, received, in>>

SerialRead(w) ==
  /\ MayUseSerial(w) /\ LockFree
  /\ input # <<>>
  /\ taken' = Append(taken, Head(input))
  /\ input' = Tail(input)
  /\ UNCHANGED <<launching, threads, link, sending, out, sent, kernel, held>>
------------------------------------------------------------------------------
(* The client (pytest or another controller). *)
Connect ==
  /\ Alive /\ info = "own" /\ server = "accept"
  /\ client = "absent"
  /\ client' = "connected"
  /\ UNCHANGED <<launching, threads, sock, stop, connected_once, reason, sending,
                 out, in>>

ClientSends ==
  /\ client = "connected"
  /\ sent < MaxSent
  /\ sent' = sent + 1
  /\ kernel' = Append(kernel, sent + 1)
  /\ UNCHANGED <<launching, threads, link, sending, out, input, held, taken>>

Disconnect ==
  /\ client = "connected"
  /\ client' = "gone"
  /\ UNCHANGED <<launching, threads, sock, stop, connected_once, reason, sending,
                 out, in>>
------------------------------------------------------------------------------
LauncherStep == RemoveInfo \/ StartDetachedChild \/ ReportPort
MainStep ==
  StartServer \/ PublishPort \/ LookForClient \/ KeepWaiting \/ GiveUp \/ LeaveLoop
    \/ RuntimeStop
ServerStep ==
  Accept \/ AcceptStopped \/ Flush \/ Receive \/ AppendInput \/ Disconnected
    \/ ReceiveStops \/ Close

Next ==
  \/ LauncherStep \/ LauncherTimesOut
  \/ MainStep \/ WaitTimesOut
  \/ ServerStep \/ AcceptTimesOut
  \/ SendStep
  \/ \E w \in Writers : SerialRead(w) \/ \E n \in 1 .. 2 : SerialWrite(w, n)
  \/ Connect \/ ClientSends \/ Disconnect

Spec == Init /\ [][Next]_vars

(* Every thread goes on when it can; a loop that looks at its clock again  *)
(* and again finds its deadline passed.  The client does as it likes.      *)
Fairness ==
  /\ WF_vars(LauncherStep) /\ SF_vars(LauncherTimesOut)
  /\ WF_vars(MainStep) /\ SF_vars(WaitTimesOut)
  /\ WF_vars(ServerStep)
  /\ WF_vars(SendStep)

FairSpec == Spec /\ Fairness
------------------------------------------------------------------------------
ControlOK ==
  /\ launcher \in {"start", "fork", "poll", "ok", "failed"}
  /\ info \in {"absent", "stale", "empty", "own"}
  /\ reported \in {"absent", "stale", "own"}
  /\ main \in {"none", "start", "publishing", "wait", "clock", "sketch", "giving_up",
               "joining", "exited", "failed"}
  /\ server \in {"none", "accept", "flush", "flushing", "recv", "append", "close",
                 "done"}
  /\ client \in {"absent", "connected", "gone"}
  /\ sock \in BOOLEAN /\ stop \in BOOLEAN /\ connected_once \in BOOLEAN
  /\ reason \in Reasons
  /\ sender \in Writers \cup {Nobody}
  /\ unsent # <<>> => ~LockFree
  /\ launcher \in {"start", "fork"} => main = "none"
  /\ main \in {"none", "start", "publishing"} => server = "none"
  /\ raced \in BOOLEAN

BytesOK ==
  /\ unsent \in Seq(Nat) /\ retries \in 0 .. MaxRetries
  /\ output \in Seq(Nat) /\ Len(output) =< Limit
  /\ received \in Seq(Nat) /\ written \in Nat
  /\ input \in Seq(Nat) /\ kernel \in Seq(Nat)
  /\ held \in Seq(Nat) /\ taken \in Seq(Nat) /\ sent \in Nat

(* The type invariant: the buffer keeps within its limit, and only the     *)
(* holder of g_serial_mutex is sending.                                    *)
TypeOK == ControlOK /\ BytesOK

(* The launcher prints the port of the child it started, never that of an  *)
(* earlier run.                                                            *)
ReportsOwnPort == launcher = "ok" => reported = "own"

(* The sketch runs only after a client connected, and a process that gave  *)
(* up waiting for one has not run it; a stopped sketch has its reason.     *)
SketchNeedsClient ==
  /\ main \in {"sketch", "joining", "exited"} =>
       connected_once /\ reason # "connect_timeout"
  /\ stop => reason # "unknown"

Consecutive(s, first) == \A i \in 1 .. Len(s) : s[i] = first + i - 1

(* What the client received is a run of the output without gap, repetition *)
(* or reordering, though it was buffered, truncated, flushed and sent by   *)
(* several threads, as long as no write fell between accept and flush.     *)
OutputInOrder ==
  ~raced /\ received # <<>> => Consecutive(received, Head(received))

(* The same in every case.                                                 *)
EachByteOnce == received # <<>> => Consecutive(received, Head(received))

(* And nothing is missing at its end while the client is there and nobody  *)
(* is writing.                                                             *)
OutputComplete ==
  /\ server \in {"recv", "append"} /\ sock /\ ~stop /\ client = "connected"
  /\ LockFree /\ written > 0 /\ Limit > 0
  => received # <<>> /\ received[Len(received)] = written

(* The sketch reads what the client sent, in order, and no byte is lost or *)
(* read twice on its way through the socket and g_input_buffer.            *)
InputInOrder ==
  /\ Consecutive(taken \o input \o held \o kernel, 1)
  /\ Len(taken) + Len(input) + Len(held) + Len(kernel) = sent

(* A child without a client ends: none came before the deadline, or the    *)
(* one that came has left.                                                 *)
EndsWithoutClient == (Alive /\ client # "connected") ~> (~Alive \/ client = "connected")
=============================================================================
