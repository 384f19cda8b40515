-------------------------- MODULE SerialRuntimeProofs --------------------------
(***************************************************************************)
(* Proofs about SerialRuntime, for any tasks, limits and numbers of bytes. *)
(***************************************************************************)
EXTENDS SerialRuntime, TLAPS

(* Sequences of consecutive numbers.                                       *)
LEMMA ConsecutiveConcat ==
  ASSUME NEW s \in Seq(Nat), NEW t \in Seq(Nat), NEW f \in Int,
         Consecutive(s, f), Consecutive(t, f + Len(s))
  PROVE  /\ s \o t \in Seq(Nat) /\ Len(s \o t) = Len(s) + Len(t)
         /\ Consecutive(s \o t, f)
  BY DEF Consecutive

LEMMA ConsecutiveSubSeq ==
  ASSUME NEW s \in Seq(Nat), NEW f \in Int, Consecutive(s, f),
         NEW m \in 1 .. Len(s) + 1, NEW n \in m - 1 .. Len(s)
  PROVE  /\ SubSeq(s, m, n) \in Seq(Nat)
         /\ Len(SubSeq(s, m, n)) = n - m + 1
         /\ Consecutive(SubSeq(s, m, n), f + m - 1)
  BY DEF Consecutive

LEMMA ConsecutiveSplit ==
  ASSUME NEW s \in Seq(Nat), NEW f \in Int, Consecutive(s, f), NEW n \in 1 .. Len(s)
  PROVE  /\ SubSeq(s, 1, n) \in Seq(Nat) /\ SubSeq(s, n + 1, Len(s)) \in Seq(Nat)
         /\ Len(SubSeq(s, 1, n)) = n
         /\ Len(SubSeq(s, n + 1, Len(s))) = Len(s) - n
         /\ Consecutive(SubSeq(s, 1, n), f)
         /\ Consecutive(SubSeq(s, n + 1, Len(s)), f + n)
  BY DEF Consecutive

LEMMA ConsecutiveTail ==
  ASSUME NEW s \in Seq(Nat), NEW f \in Int, Consecutive(s, f), s # <<>>
  PROVE  /\ Head(s) = f
         /\ Tail(s) \in Seq(Nat) /\ Len(Tail(s)) = Len(s) - 1
         /\ Consecutive(Tail(s), f + 1)
  BY DEF Consecutive

LEMMA ConsecutiveAppend ==
  ASSUME NEW s \in Seq(Nat), NEW f \in Nat, Consecutive(s, f)
  PROVE  /\ Append(s, f + Len(s)) \in Seq(Nat)
         /\ Len(Append(s, f + Len(s))) = Len(s) + 1
         /\ Consecutive(Append(s, f + Len(s)), f)
  BY DEF Consecutive

LEMMA NewBytesConsecutive ==
  ASSUME NEW n \in 1 .. 2, written \in Nat
  PROVE  /\ NewBytes(n) \in Seq(Nat) /\ Len(NewBytes(n)) = n
         /\ Consecutive(NewBytes(n), written + 1)
  BY DEF NewBytes, Consecutive

LEMMA EmptyConsecutive ==
  ASSUME NEW f \in Int
  PROVE  <<>> \in Seq(Nat) /\ Len(<<>>) = 0 /\ Consecutive(<<>>, f)
  BY DEF Consecutive

LEMMA EmptyIsEmpty ==
  ASSUME NEW s \in Seq(Nat)
  PROVE  s = <<>> <=> Len(s) = 0
  OBVIOUS

LEMMA NewestConsecutive ==
  ASSUME NEW s \in Seq(Nat), NEW f \in Int, Consecutive(s, f)
  PROVE  /\ Newest(s) \in Seq(Nat)
         /\ Len(Newest(s)) =< Limit
         /\ Consecutive(Newest(s), f + Len(s) - Len(Newest(s)))
<1>1. CASE Len(s) > Limit
  <2> DEFINE m == Len(s) - Limit + 1
  <2>1. /\ Newest(s) = SubSeq(s, m, Len(s))
        /\ m \in 1 .. Len(s) + 1
        /\ Len(s) \in m - 1 .. Len(s)
    BY <1>1, SerialAssumption DEF Newest
  <2>2. /\ Newest(s) \in Seq(Nat)
        /\ Len(Newest(s)) = Len(s) - m + 1
        /\ Consecutive(Newest(s), f + m - 1)
    BY <2>1, ConsecutiveSubSeq
  <2>3. Len(s) - m + 1 = Limit /\ f + m - 1 = f + Len(s) - Limit
    BY SerialAssumption
  <2> QED
    BY <2>2, <2>3, SerialAssumption
<1>2. CASE ~(Len(s) > Limit)
  BY <1>2, SerialAssumption DEF Newest
<1> QED
  BY <1>1, <1>2

LEMMA NewestType ==
  ASSUME NEW s \in Seq(Nat)
  PROVE  Newest(s) \in Seq(Nat) /\ Len(Newest(s)) =< Limit
  BY SerialAssumption DEF Newest
------------------------------------------------------------------------------
LEMMA PartsType ==
  ASSUME NEW s \in Seq(Nat), NEW n \in 1 .. Len(s)
  PROVE  /\ SubSeq(s, 1, n) \in Seq(Nat)
         /\ SubSeq(s, n + 1, Len(s)) \in Seq(Nat)
  OBVIOUS

LEMMA EmptyType == <<>> \in Seq(Nat) /\ Len(<<>>) = 0
  OBVIOUS

LEMMA ExitReasonType ==
  ASSUME reason \in Reasons, NEW r \in Reasons
  PROVE  ExitReason(r) \in Reasons
  BY DEF ExitReason

LEMMA ReasonsAre ==
  /\ "runtime_start_failed" \in Reasons /\ "connect_timeout" \in Reasons
  /\ "tcp_disconnected" \in Reasons /\ "tcp_recv_error" \in Reasons
  /\ "tcp_send_error" \in Reasons
  BY DEF Reasons

(* The type invariant, for the control state and for the bytes.            *)
LEMMA ControlStep == ControlOK /\ [Next]_vars => ControlOK'
<1> SUFFICES ASSUME ControlOK, [Next]_vars PROVE ControlOK'
  OBVIOUS
<1> USE SerialAssumption
    DEF ControlOK, launching, threads, link, sending, out, in, LockFree
<1>1. CASE LauncherStep \/ LauncherTimesOut
  <2>1. CASE RemoveInfo \/ ReportPort \/ LauncherTimesOut
    BY <2>1 DEF RemoveInfo, ReportPort, LauncherTimesOut
  <2>2. CASE StartDetachedChild
    BY <2>2 DEF StartDetachedChild
  <2> QED
    BY <1>1, <2>1, <2>2 DEF LauncherStep
<1>2. CASE StartServer \/ PublishPort
  <2>1. CASE StartServer
    BY <2>1, ExitReasonType, ReasonsAre DEF StartServer
  <2>2. CASE PublishPort
    BY <2>2 DEF PublishPort
  <2> QED
    BY <1>2, <2>1, <2>2
<1>3. CASE LookForClient \/ KeepWaiting \/ WaitTimesOut
  <2>1. CASE LookForClient
    BY <2>1 DEF LookForClient
  <2>2. CASE KeepWaiting
    BY <2>2 DEF KeepWaiting
  <2>3. CASE WaitTimesOut
    BY <2>3, ExitReasonType, ReasonsAre DEF WaitTimesOut
  <2> QED
    BY <1>3, <2>1, <2>2, <2>3
<1>4. CASE GiveUp \/ LeaveLoop \/ RuntimeStop
  BY <1>4 DEF GiveUp, LeaveLoop, RuntimeStop
<1>5. CASE SendSome
  BY <1>5 DEF SendSome, Sending
<1>6. CASE WouldBlock \/ SendFails
  <2>1. CASE WouldBlock
    BY <2>1 DEF WouldBlock
  <2>2. CASE SendFails
    BY <2>2, ExitReasonType, ReasonsAre DEF SendFails
  <2> QED
    BY <1>6, <2>1, <2>2
<1>7. CASE SendStops \/ SendReturns
  BY <1>7 DEF SendStops, SendReturns
<1>8. CASE Accept \/ AcceptStopped \/ AcceptTimesOut
  <2>1. CASE Accept
    BY <2>1 DEF Accept
  <2>2. CASE AcceptStopped
    BY <2>2 DEF AcceptStopped
  <2>3. CASE AcceptTimesOut
    BY <2>3, ExitReasonType, ReasonsAre DEF AcceptTimesOut
  <2> QED
    BY <1>8, <2>1, <2>2, <2>3
<1>9. CASE Flush
  BY <1>9 DEF Flush
<1>10. CASE Receive \/ AppendInput
  BY <1>10 DEF Receive, AppendInput
<1>11. CASE Disconnected \/ ReceiveStops \/ Close
  <2>1. CASE Disconnected
    BY <2>1, ExitReasonType, ReasonsAre DEF Disconnected
  <2>2. CASE ReceiveStops
    BY <2>2 DEF ReceiveStops
  <2>3. CASE Close
    <3>1. reason' \in Reasons
      BY <2>3, ExitReasonType, ReasonsAre DEF Close
    <3>2. sock' \in BOOLEAN /\ stop' \in BOOLEAN
      BY <2>3, Zenon DEF Close
    <3>3. /\ server = "close" /\ server' = "done"
          /\ UNCHANGED <<launching, main, client, connected_once, sender, unsent, raced>>
      BY <2>3 DEF Close
    <3> QED
      BY <3>1, <3>2, <3>3
  <2> QED
    BY <1>11, <2>1, <2>2, <2>3
<1>12. ASSUME NEW w \in Writers, SerialRead(w) PROVE ControlOK'
  BY <1>12 DEF SerialRead
<1>13. ASSUME NEW w \in Writers, NEW n \in 1 .. 2, SerialWrite(w, n)
       PROVE  ControlOK'
  BY <1>13 DEF SerialWrite
<1>14. CASE Connect \/ Disconnect \/ ClientSends
  BY <1>14 DEF Connect, Disconnect, ClientSends
<1>15. CASE UNCHANGED vars
  BY <1>15 DEF vars
<1> QED
  BY <1>1, <1>2, <1>3, <1>4, <1>5, <1>6, <1>7, <1>8, <1>9, <1>10, <1>11, <1>12,
     <1>13, <1>14, <1>15
  DEF Next, MainStep, ServerStep, SendStep

LEMMA BytesStep == BytesOK /\ [Next]_vars => BytesOK'
<1> SUFFICES ASSUME BytesOK, [Next]_vars PROVE BytesOK'
  OBVIOUS
<1>1. CASE SendSome
  <2> USE <1>1 DEF SendSome, BytesOK, out, in
  <2>1. PICK n \in 1 .. Len(unsent) :
          /\ received' = IF client = "connected"
                         THEN received \o SubSeq(unsent, 1, n) ELSE received
          /\ unsent' = SubSeq(unsent, n + 1, Len(unsent))
    OBVIOUS
  <2>2. SubSeq(unsent, 1, n) \in Seq(Nat) /\ unsent' \in Seq(Nat)
    BY <2>1, PartsType
  <2>3. received' \in Seq(Nat)
    BY <2>1, <2>2
  <2> QED
    BY <2>2, <2>3, SerialAssumption
<1>2. CASE WouldBlock
  BY <1>2, SerialAssumption DEF WouldBlock, BytesOK, out, in
<1>3. CASE SendFails \/ SendStops
  <2>1. /\ unsent' = <<>> /\ retries' = 0
        /\ UNCHANGED <<out, in>>
    BY <1>3 DEF SendFails, SendStops
  <2> QED
    BY <2>1, EmptyType, SerialAssumption DEF BytesOK, out, in
<1>4. CASE Flush
  BY <1>4 DEF Flush, BytesOK, out, in
<1>5. CASE Receive
  <2> USE <1>5 DEF Receive, BytesOK, sending, out
  <2>1. PICK n \in 1 .. Len(kernel) :
          /\ held' = SubSeq(kernel, 1, n)
          /\ kernel' = SubSeq(kernel, n + 1, Len(kernel))
    OBVIOUS
  <2>2. held' \in Seq(Nat) /\ kernel' \in Seq(Nat)
    BY <2>1, PartsType
  <2> QED
    BY <2>2
<1>6. CASE AppendInput
  <2>1. input' \in Seq(Nat) /\ held' \in Seq(Nat)
    BY <1>6 DEF AppendInput, BytesOK
  <2> QED
    BY <1>6, <2>1 DEF AppendInput, BytesOK, sending, out
<1>7. ASSUME NEW w \in Writers, SerialRead(w) PROVE BytesOK'
  <2>1. taken' \in Seq(Nat) /\ input' \in Seq(Nat)
    BY <1>7 DEF SerialRead, BytesOK
  <2> QED
    BY <1>7, <2>1 DEF SerialRead, BytesOK, sending, out
<1>8. ASSUME NEW w \in Writers, NEW n \in 1 .. 2, SerialWrite(w, n) PROVE BytesOK'
  <2>1. NewBytes(n) \in Seq(Nat)
    BY NewBytesConsecutive DEF BytesOK
  <2>2. output \o NewBytes(n) \in Seq(Nat)
    BY <2>1 DEF BytesOK
  <2>3. output' \in Seq(Nat) /\ Len(output') =< Limit
    BY <1>8, <2>2, NewestType DEF SerialWrite, AppendOutputLocked, BytesOK
  <2> QED
    BY <1>8, <2>1, <2>3 DEF SerialWrite, BytesOK, in
<1>9. CASE ClientSends
  BY <1>9 DEF ClientSends, BytesOK, sending, out
<1>10. CASE UNCHANGED <<unsent, retries, out, in>>
  BY <1>10 DEF BytesOK, out, in
<1> QED
  BY <1>1, <1>2, <1>3, <1>4, <1>5, <1>6, <1>7, <1>8, <1>9, <1>10
  DEF Next, LauncherStep, MainStep, ServerStep, SendStep, vars, sending,
      RemoveInfo, StartDetachedChild, ReportPort, LauncherTimesOut, StartServer,
      PublishPort, LookForClient, KeepWaiting, WaitTimesOut, GiveUp,
      LeaveLoop, RuntimeStop,
      SendReturns, Accept, AcceptStopped, AcceptTimesOut, Disconnected, ReceiveStops,
      Close, Connect, Disconnect

(* Every variable keeps its type, g_output_buffer its limit, and a send is *)
(* under way only while g_serial_mutex is held.                            *)
THEOREM TypeCorrect == Spec => []TypeOK
<1>1. Init => ControlOK /\ BytesOK
  <2>1. Init => ControlOK
    BY DEF Init, ControlOK, Reasons
  <2>2. Init => BytesOK
    BY EmptyType, SerialAssumption DEF Init, BytesOK
  <2> QED
    BY <2>1, <2>2
<1> QED
  BY <1>1, ControlStep, BytesStep, PTL DEF Spec, TypeOK
------------------------------------------------------------------------------
(* Once the launcher has removed the file of an earlier run, no step makes *)
(* a stale file again.                                                     *)
NoStaleInfo == launcher # "start" => info # "stale"

(* The launcher prints the port of its own child.                          *)
THEOREM LauncherReportsItsChild == Spec => []ReportsOwnPort
<1>1. Init => NoStaleInfo /\ ReportsOwnPort
  BY DEF Init, NoStaleInfo, ReportsOwnPort
<1>2. NoStaleInfo /\ ReportsOwnPort /\ [Next]_vars => (NoStaleInfo /\ ReportsOwnPort)'
  <2> SUFFICES ASSUME NoStaleInfo, ReportsOwnPort, [Next]_vars
               PROVE  (NoStaleInfo /\ ReportsOwnPort)'
    OBVIOUS
  <2> USE DEF NoStaleInfo, ReportsOwnPort
  <2>1. CASE LauncherStep \/ LauncherTimesOut
    BY <2>1 DEF LauncherStep, RemoveInfo, StartDetachedChild, ReportPort,
                LauncherTimesOut
  <2>2. CASE StartServer \/ PublishPort
    BY <2>2 DEF StartServer, PublishPort
  <2>3. CASE UNCHANGED launching
    BY <2>3 DEF launching
  <2> QED
    BY <2>1, <2>2, <2>3
    DEF Next, MainStep, ServerStep, SendStep, vars, LookForClient, KeepWaiting,
        WaitTimesOut, GiveUp, LeaveLoop, RuntimeStop, SendSome, WouldBlock, SendFails,
        SendStops, SendReturns, Accept, AcceptStopped, AcceptTimesOut, Flush, Receive,
        AppendInput, Disconnected, ReceiveStops, Close, SerialRead, SerialWrite,
        Connect, ClientSends, Disconnect
<1> QED
  BY <1>1, <1>2, PTL DEF Spec
------------------------------------------------------------------------------
(* Main passes waitForClient only on g_connected_once, which the server    *)
(* sets in the same accept loop in which it could have timed out: it does  *)
(* one or the other.  After main's own deadline the process ends.          *)
TimeoutExcludesClient ==
  /\ server \in {"none", "accept"} => ~connected_once
  /\ reason = "connect_timeout" =>
       main \in {"giving_up", "failed"} \/ (server # "none" /\ server # "accept" /\ ~connected_once)

WaitInv == ControlOK /\ TimeoutExcludesClient /\ SketchNeedsClient

LEMMA WaitStep ==
  ASSUME WaitInv, [Next]_vars
  PROVE  (TimeoutExcludesClient /\ SketchNeedsClient)'
<1> USE DEF WaitInv, TimeoutExcludesClient, SketchNeedsClient, threads, link
<1>1. CASE StartServer
  BY <1>1 DEF StartServer, ExitReason, ControlOK
<1>2. CASE PublishPort
  BY <1>2 DEF PublishPort, ControlOK
<1>3. CASE StartDetachedChild
  BY <1>3 DEF StartDetachedChild, ControlOK
<1>4. CASE LookForClient
  BY <1>4 DEF LookForClient
<1>5. CASE KeepWaiting \/ WaitTimesOut \/ GiveUp
  BY <1>5 DEF KeepWaiting, WaitTimesOut, GiveUp, ExitReason
<1>6. CASE LeaveLoop \/ RuntimeStop
  BY <1>6 DEF LeaveLoop, RuntimeStop
<1>7. CASE SendFails
  BY <1>7 DEF SendFails, ExitReason
<1>8. CASE SendReturns
  BY <1>8 DEF SendReturns
<1>9. CASE Accept
  BY <1>9 DEF Accept, Alive
<1>10. CASE AcceptTimesOut
  BY <1>10 DEF AcceptTimesOut, ExitReason
<1>11. CASE AcceptStopped \/ Flush
  BY <1>11 DEF AcceptStopped, Flush
<1>12. CASE Receive \/ AppendInput \/ ReceiveStops
  BY <1>12 DEF Receive, AppendInput, ReceiveStops
<1>13. CASE Disconnected
  BY <1>13 DEF Disconnected, ExitReason
<1>14. CASE Close
  BY <1>14 DEF Close, ExitReason
<1>15. CASE UNCHANGED <<threads, stop, connected_once, reason>>
  BY <1>15
<1> QED
  BY <1>1, <1>2, <1>3, <1>4, <1>5, <1>6, <1>7, <1>8, <1>9, <1>10, <1>11, <1>12,
     <1>13, <1>14, <1>15
  DEF Next, LauncherStep, MainStep, ServerStep, SendStep, vars, RemoveInfo,
      ReportPort, LauncherTimesOut, SendSome, WouldBlock, SendStops, SerialRead,
      SerialWrite, Connect, ClientSends, Disconnect

(* setup() runs only for a client, and never after a connect timeout.      *)
THEOREM SketchWaitsForClient == Spec => []SketchNeedsClient
<1>1. Init => TimeoutExcludesClient /\ SketchNeedsClient
  BY DEF Init, TimeoutExcludesClient, SketchNeedsClient
<1> QED
  BY <1>1, WaitStep, TypeCorrect, PTL DEF Spec, WaitInv, TypeOK
------------------------------------------------------------------------------
(* Each stage of the input holds consecutive bytes and begins where the    *)
(* stage before it ends; bytes are held only between recv and the lock.    *)
InputParts ==
  /\ Consecutive(taken, 1)
  /\ Consecutive(input, Len(taken) + 1)
  /\ Consecutive(held, Len(taken) + Len(input) + 1)
  /\ Consecutive(kernel, Len(taken) + Len(input) + Len(held) + 1)
  /\ Len(taken) + Len(input) + Len(held) + Len(kernel) = sent
  /\ held # <<>> => server = "append"

LEMMA InputStep ==
  ASSUME ControlOK, BytesOK, InputParts, [Next]_vars
  PROVE  InputParts'
<1>0. /\ taken \in Seq(Nat) /\ input \in Seq(Nat) /\ held \in Seq(Nat)
      /\ kernel \in Seq(Nat) /\ sent \in Nat
      /\ Len(taken) \in Nat /\ Len(input) \in Nat /\ Len(held) \in Nat
      /\ Len(kernel) \in Nat
  BY DEF BytesOK
<1>sum. Len(taken) + Len(input) + Len(held) + Len(kernel) = sent
  BY DEF InputParts
<1>nats. /\ Len(taken) \in Nat /\ Len(input) \in Nat /\ Len(held) \in Nat
         /\ Len(kernel) \in Nat /\ sent \in Nat
  BY <1>0
<1>1. CASE Receive
  <2>1. PICK n \in 1 .. Len(kernel) :
          /\ held' = SubSeq(kernel, 1, n)
          /\ kernel' = SubSeq(kernel, n + 1, Len(kernel))
    BY <1>1 DEF Receive
  <2>2. held = <<>> /\ Len(held) = 0
    BY <1>1, EmptyType DEF Receive, InputParts
  <2> DEFINE f == Len(taken) + Len(input) + 1
  <2>3. Consecutive(kernel, f) /\ f \in Int
    BY <1>0, <2>2 DEF InputParts
  <2>4. /\ Len(held') = n /\ Consecutive(held', f)
        /\ Len(kernel') = Len(kernel) - n /\ Consecutive(kernel', f + n)
    <3> HIDE DEF f
    <3> QED
      BY <1>0, <2>1, <2>3, ConsecutiveSplit
  <2>6. UNCHANGED <<taken, input, sent>> /\ server' = "append"
    BY <1>1 DEF Receive
  <2>7. /\ f + n = Len(taken) + Len(input) + n + 1
        /\ Len(taken) + Len(input) + n + (Len(kernel) - n) = sent
    BY <1>nats, <1>sum, <2>1, <2>2
  <2>8. Consecutive(kernel', Len(taken) + Len(input) + n + 1)
    BY <2>4, <2>7
  <2>9. Consecutive(taken, 1) /\ Consecutive(input, Len(taken) + 1)
    BY DEF InputParts
  <2> QED
    BY <2>4, <2>6, <2>7, <2>8, <2>9 DEF InputParts
<1>2. CASE AppendInput
  <2>1. input' = input \o held /\ held' = <<>> /\ UNCHANGED <<taken, kernel, sent>>
    BY <1>2 DEF AppendInput
  <2>2. /\ Consecutive(input \o held, Len(taken) + 1)
        /\ Len(input \o held) = Len(input) + Len(held)
    <3>1. Len(taken) + 1 \in Int /\ Len(taken) + 1 + Len(input) = Len(taken) + Len(input) + 1
      BY <1>0
    <3>2. Consecutive(input, Len(taken) + 1) /\ Consecutive(held, Len(taken) + 1 + Len(input))
      BY <3>1 DEF InputParts
    <3>3. Consecutive(input \o held, Len(taken) + 1)
      BY <1>0, <3>1, <3>2, ConsecutiveConcat
    <3>4. Len(input \o held) = Len(input) + Len(held)
      BY <1>0
    <3> QED
      BY <3>3, <3>4
  <2>3. Consecutive(<<>>, Len(taken) + Len(input \o held) + 1)
    BY <1>0, <2>2, EmptyConsecutive
  <2>4. Len(taken) + Len(input \o held) + 0 + 1 = Len(taken) + Len(input) + Len(held) + 1
    BY <1>0, <2>2
  <2> QED
    BY <1>0, <2>1, <2>2, <2>3, <2>4, EmptyType DEF InputParts
<1>3. ASSUME NEW w \in Writers, SerialRead(w) PROVE InputParts'
  <2>1. /\ input # <<>>
        /\ taken' = Append(taken, Head(input)) /\ input' = Tail(input)
        /\ UNCHANGED <<held, kernel, sent, server>>
    BY <1>3 DEF SerialRead, threads
  <2>2. Consecutive(input, Len(taken) + 1) /\ Len(taken) + 1 \in Int
    BY <1>0 DEF InputParts
  <2>3. /\ Head(input) = Len(taken) + 1
        /\ Len(Tail(input)) = Len(input) - 1
        /\ Consecutive(Tail(input), Len(taken) + 1 + 1)
    BY <1>0, <2>1, <2>2, ConsecutiveTail
  <2>4. /\ Len(Append(taken, 1 + Len(taken))) = Len(taken) + 1
        /\ Consecutive(Append(taken, 1 + Len(taken)), 1)
    BY <1>0, ConsecutiveAppend DEF InputParts
  <2>5. Len(taken') = Len(taken) + 1 /\ Consecutive(taken', 1)
    <3>1. Head(input) = 1 + Len(taken)
      BY <1>0, <2>3
    <3> QED
      BY <2>1, <2>4, <3>1
  <2>6. Len(taken') + Len(input') = Len(taken) + Len(input)
    BY <1>0, <2>1, <2>3, <2>5
  <2>7. Consecutive(input', Len(taken') + 1)
    BY <2>1, <2>3, <2>5
  <2>8. Len(held') = Len(held) /\ Len(kernel') = Len(kernel)
    BY <2>1
  <2> QED
    BY <2>1, <2>5, <2>6, <2>7, <2>8 DEF InputParts
<1>4. CASE ClientSends
  <2>1. kernel' = Append(kernel, sent + 1) /\ sent' = sent + 1
        /\ UNCHANGED <<taken, input, held, server>>
    BY <1>4 DEF ClientSends, threads
  <2> DEFINE g == Len(taken) + Len(input) + Len(held) + 1
  <2>2. Consecutive(kernel, g) /\ g \in Nat /\ sent + 1 = g + Len(kernel)
    <3>1. Consecutive(kernel, g)
      BY DEF InputParts
    <3>2. g \in Nat /\ sent + 1 = g + Len(kernel)
      BY <1>nats, <1>sum
    <3> QED
      BY <3>1, <3>2
  <2>3. Len(kernel') = Len(kernel) + 1 /\ Consecutive(kernel', g)
    <3> HIDE DEF g
    <3> QED
      BY <1>0, <2>1, <2>2, ConsecutiveAppend
  <2>4. Len(taken) + Len(input) + Len(held) + (Len(kernel) + 1) = sent + 1
    BY <1>nats, <1>sum
  <2> QED
    BY <2>1, <2>3, <2>4 DEF InputParts
<1>5. CASE UNCHANGED in /\ (server' = server \/ server # "append")
  BY <1>5 DEF in, InputParts
<1>6. CASE PublishPort
  BY <1>5, <1>6 DEF PublishPort, ControlOK
<1> QED
  BY <1>1, <1>2, <1>3, <1>4, <1>5, <1>6
  DEF Next, LauncherStep, MainStep, ServerStep, SendStep, vars, threads, RemoveInfo,
      StartDetachedChild, ReportPort, LauncherTimesOut, StartServer,
      LookForClient, KeepWaiting, WaitTimesOut, GiveUp, LeaveLoop, RuntimeStop, SendSome,
      WouldBlock, SendFails, SendStops, SendReturns, Accept, AcceptStopped,
      AcceptTimesOut, Flush, Disconnected, ReceiveStops, Close, SerialWrite, Connect,
      Disconnect

(* What the sketch reads is what the client sent: nothing is lost, read    *)
(* twice or reordered between the socket and Serial.read.                  *)
THEOREM InputIsInOrder == Spec => []InputInOrder
<1>1. Init => InputParts
  <2> SUFFICES ASSUME Init PROVE InputParts
    OBVIOUS
  <2>1. taken = <<>> /\ input = <<>> /\ held = <<>> /\ kernel = <<>> /\ sent = 0
    BY DEF Init
  <2>2. Consecutive(<<>>, 1) /\ Consecutive(<<>>, 0 + 1)
        /\ Consecutive(<<>>, 0 + 0 + 1) /\ Consecutive(<<>>, 0 + 0 + 0 + 1)
    BY EmptyConsecutive
  <2> QED
    BY <2>1, <2>2, EmptyType DEF InputParts
<1>2. BytesOK /\ InputParts => InputInOrder
  <2> SUFFICES ASSUME BytesOK, InputParts PROVE InputInOrder
    OBVIOUS
  <2>0. /\ taken \in Seq(Nat) /\ input \in Seq(Nat) /\ held \in Seq(Nat)
        /\ kernel \in Seq(Nat)
        /\ Len(taken) \in Nat /\ Len(input) \in Nat /\ Len(held) \in Nat
    BY DEF BytesOK
  <2> DEFINE read == taken \o input
             ahead == read \o held
  <2>1. /\ read \in Seq(Nat) /\ Len(read) = Len(taken) + Len(input)
        /\ Consecutive(read, 1)
    <3>1. Consecutive(taken, 1) /\ Consecutive(input, 1 + Len(taken))
      BY <2>0 DEF InputParts
    <3> QED
      BY <2>0, <3>1, ConsecutiveConcat
  <2> HIDE DEF read
  <2>2. /\ ahead \in Seq(Nat) /\ Len(ahead) = Len(read) + Len(held)
        /\ Consecutive(ahead, 1)
    <3>1. Consecutive(held, 1 + Len(read))
      <4>1. 1 + Len(read) = Len(taken) + Len(input) + 1
        BY <2>0, <2>1
      <4> QED
        BY <4>1 DEF InputParts
    <3> QED
      BY <2>0, <2>1, <3>1, 1 \in Int, ConsecutiveConcat
  <2> HIDE DEF ahead
  <2>3. Consecutive(ahead \o kernel, 1)
    <3>1. Consecutive(kernel, 1 + Len(ahead))
      <4>1. 1 + Len(ahead) = Len(taken) + Len(input) + Len(held) + 1
        BY <2>0, <2>1, <2>2
      <4> QED
        BY <4>1 DEF InputParts
    <3> QED
      BY <2>0, <2>2, <3>1, ConsecutiveConcat
  <2> QED
    BY <2>3 DEF InputInOrder, InputParts, ahead, read
<1> QED
  BY <1>1, <1>2, InputStep, TypeCorrect, PTL DEF Spec, TypeOK
------------------------------------------------------------------------------
(* g_output_buffer and what is being sent are the newest bytes.            *)
NewestBytes ==
  /\ Consecutive(output, written - Len(output) + 1)
  /\ Consecutive(unsent, written - Len(unsent) + 1)

(* Nothing is sent before the flush, except by a write that raced with it; *)
(* after it the socket is there until g_stop.                              *)
BeforeFlush ==
  /\ server \in {"none", "accept"} => ~sock
  /\ ~raced /\ server \in {"none", "accept", "flush"} =>
       received = <<>> /\ unsent = <<>>
  /\ ~sock => stop \/ server \in {"none", "accept"}

(* What the client has is consecutive, and what is still to be sent joins  *)
(* it to the newest byte.                                                  *)
ReceivedRun ==
  ~raced /\ received # <<>> =>
    /\ Consecutive(received, Head(received))
    /\ ~stop /\ client = "connected" =>
         Head(received) + Len(received) + Len(unsent) = written + 1

OutputInv == NewestBytes /\ BeforeFlush /\ ReceivedRun

LEMMA BeforeFlushStep ==
  ASSUME ControlOK, BeforeFlush, [Next]_vars
  PROVE  BeforeFlush'
<1> USE DEF BeforeFlush, threads, link, sending, out
<1>1. CASE StartServer \/ WaitTimesOut
  BY <1>1 DEF StartServer, WaitTimesOut
<1>2. CASE PublishPort
  BY <1>2 DEF PublishPort, ControlOK
<1>3. CASE SendSome
  BY <1>3 DEF SendSome, Sending
<1>4. CASE SendFails \/ SendStops
  BY <1>4 DEF SendFails, SendStops
<1>5. CASE SendReturns
  BY <1>5 DEF SendReturns
<1>6. CASE Accept \/ AcceptTimesOut \/ AcceptStopped
  BY <1>6 DEF Accept, AcceptTimesOut, AcceptStopped
<1>7. CASE Flush
  BY <1>7 DEF Flush
<1>8. CASE Receive \/ AppendInput \/ ReceiveStops
  BY <1>8 DEF Receive, AppendInput, ReceiveStops
<1>9. CASE Disconnected
  BY <1>9 DEF Disconnected
<1>10. CASE Close
  BY <1>10 DEF Close
<1>11. ASSUME NEW w \in Writers, NEW n \in 1 .. 2, SerialWrite(w, n)
       PROVE  BeforeFlush'
  BY <1>11 DEF SerialWrite
<1>12. CASE UNCHANGED <<server, sock, stop, unsent, received, raced>>
  BY <1>12
<1> QED
  BY <1>1, <1>2, <1>3, <1>4, <1>5, <1>6, <1>7, <1>8, <1>9, <1>10, <1>11, <1>12
  DEF Next, LauncherStep, MainStep, ServerStep, SendStep, vars, RemoveInfo,
      StartDetachedChild, ReportPort, LauncherTimesOut, LookForClient, KeepWaiting, GiveUp,
      LeaveLoop, RuntimeStop, WouldBlock, SerialRead, Connect, ClientSends, Disconnect

LEMMA NewestBytesWrite ==
  ASSUME BytesOK, NewestBytes, NEW w \in Writers, NEW n \in 1 .. 2, SerialWrite(w, n)
  PROVE  /\ NewestBytes'
         /\ unsent' = NewBytes(n) => Len(unsent') = n
<1>0. /\ output \in Seq(Nat) /\ Len(output) \in Nat /\ written \in Nat
      /\ Len(output) =< Limit /\ written' = written + n
  BY DEF BytesOK, SerialWrite
<1>1. /\ NewBytes(n) \in Seq(Nat) /\ Len(NewBytes(n)) = n
      /\ Consecutive(NewBytes(n), written + 1)
  BY <1>0, NewBytesConsecutive
<1> DEFINE f == written - Len(output) + 1
           all == output \o NewBytes(n)
<1>2. /\ all \in Seq(Nat) /\ Len(all) = Len(output) + n
      /\ Consecutive(all, f)
  <2>1. f \in Int /\ f + Len(output) = written + 1
    BY <1>0
  <2>2. Consecutive(output, f)
    BY DEF NewestBytes
  <2> HIDE DEF f
  <2> QED
    BY <1>0, <1>1, <2>1, <2>2, ConsecutiveConcat
<1>3. Consecutive(output', written' - Len(output') + 1)
  <2>1. CASE Limit = 0
    <3>1. output' = output /\ output = <<>>
      BY <1>0, <2>1 DEF SerialWrite, AppendOutputLocked
    <3>2. written' - 0 + 1 \in Int
      BY <1>0
    <3> QED
      BY <3>1, <3>2, EmptyConsecutive
  <2>2. CASE Limit # 0
    <3>1. output' = Newest(all)
      BY <2>2 DEF SerialWrite, AppendOutputLocked
    <3> HIDE DEF all
    <3>2. /\ Len(Newest(all)) \in Nat
          /\ Consecutive(Newest(all), f + Len(all) - Len(Newest(all)))
      <4>1. f \in Int
        BY <1>0
      <4>2. /\ Newest(all) \in Seq(Nat)
            /\ Consecutive(Newest(all), f + Len(all) - Len(Newest(all)))
        BY <1>2, <4>1, NewestConsecutive
      <4> QED
        BY <4>2
    <3>3. f + Len(all) - Len(Newest(all)) = written + n - Len(Newest(all)) + 1
      BY <1>0, <1>2, <3>2
    <3> QED
      BY <1>0, <3>1, <3>2, <3>3
  <2> QED
    BY <2>1, <2>2
<1>4. Consecutive(unsent', written' - Len(unsent') + 1)
  <2>1. CASE unsent' = NewBytes(n)
    <3>1. written + n - n + 1 = written + 1
      BY <1>0
    <3> QED
      BY <1>0, <1>1, <2>1, <3>1
  <2>2. CASE unsent' = <<>>
    <3>1. written' - 0 + 1 \in Int
      BY <1>0
    <3> QED
      BY <2>2, <3>1, EmptyConsecutive
  <2> QED
    BY <2>1, <2>2 DEF SerialWrite
<1> QED
  BY <1>1, <1>3, <1>4 DEF NewestBytes

LEMMA OutputStep ==
  ASSUME ControlOK, BytesOK, OutputInv, [Next]_vars
  PROVE  (NewestBytes /\ ReceivedRun)'
<1>0. /\ unsent \in Seq(Nat) /\ received \in Seq(Nat) /\ output \in Seq(Nat)
      /\ Len(unsent) \in Nat /\ Len(received) \in Nat /\ Len(output) \in Nat
      /\ written \in Nat
  BY DEF BytesOK
<1>1. CASE SendSome
  <2>1. PICK n \in 1 .. Len(unsent) :
          /\ received' = IF client = "connected"
                         THEN received \o SubSeq(unsent, 1, n) ELSE received
          /\ unsent' = SubSeq(unsent, n + 1, Len(unsent))
    BY <1>1 DEF SendSome
  <2>2. ~stop /\ unsent # <<>> /\ UNCHANGED <<output, written, raced, client, stop>>
    BY <1>1 DEF SendSome, Sending, link
  <2> DEFINE f == written - Len(unsent) + 1
             part == SubSeq(unsent, 1, n)
  <2>3. f \in Int /\ f + n = written - (Len(unsent) - n) + 1
    BY <1>0, <2>1
  <2>4. Consecutive(unsent, f)
    BY DEF OutputInv, NewestBytes
  <2>5. /\ part \in Seq(Nat) /\ Len(part) = n /\ Consecutive(part, f)
        /\ Len(unsent') = Len(unsent) - n /\ Consecutive(unsent', f + n)
    <3> HIDE DEF f
    <3> QED
      BY <1>0, <2>1, <2>3, <2>4, ConsecutiveSplit
  <2>6. NewestBytes'
    <3>1. Consecutive(unsent', written - Len(unsent') + 1)
      BY <2>3, <2>5
    <3> QED
      BY <2>2, <3>1 DEF OutputInv, NewestBytes
  <2>7. CASE client # "connected"
    BY <2>1, <2>2, <2>6, <2>7 DEF OutputInv, ReceivedRun
  <2>8. CASE client = "connected" /\ received = <<>>
    <3> HIDE DEF f, part
    <3>1. received' = part
      BY <2>1, <2>5, <2>8 DEF part
    <3>2. Head(part) = f /\ part # <<>>
      BY <2>1, <2>3, <2>5 DEF Consecutive
    <3>3. f + n + (Len(unsent) - n) = written + 1
      BY <1>0, <2>1 DEF f
    <3> QED
      BY <2>2, <2>5, <2>6, <3>1, <3>2, <3>3 DEF ReceivedRun
  <2>9. CASE client = "connected" /\ received # <<>> /\ ~raced
    <3>1. /\ Consecutive(received, Head(received))
          /\ Head(received) + Len(received) + Len(unsent) = written + 1
      BY <2>2, <2>9 DEF OutputInv, ReceivedRun
    <3>2. Head(received) \in Nat
      BY <1>0, <2>9
    <3>3. f = Head(received) + Len(received)
      <4>1. Head(received) + Len(received) + Len(unsent) = written + 1
        BY <3>1
      <4>2. Len(unsent) \in Nat /\ Len(received) \in Nat /\ written \in Nat
        BY <1>0
      <4> QED
        BY <3>2, <4>1, <4>2
    <3> HIDE DEF f, part
    <3>4. /\ received' = received \o part
          /\ received' \in Seq(Nat) /\ Len(received') = Len(received) + n
          /\ Consecutive(received', Head(received))
      <4>1. received' = received \o part
        BY <2>1, <2>9 DEF part
      <4> DEFINE h == Head(received)
      <4>2. Consecutive(received, h) /\ h \in Int
        BY <3>1, <3>2
      <4>3. Consecutive(part, h + Len(received))
        BY <2>5, <3>3
      <4> HIDE DEF h
      <4>4. /\ received \o part \in Seq(Nat)
            /\ Len(received \o part) = Len(received) + Len(part)
            /\ Consecutive(received \o part, h)
        BY <1>0, <2>5, <4>2, <4>3, ConsecutiveConcat
      <4> QED
        BY <2>5, <4>1, <4>4 DEF h
    <3>5. Head(received') = Head(received) /\ received' # <<>>
      BY <1>0, <2>5, <2>9, <3>4
    <3>6. Head(received) + (Len(received) + n) + (Len(unsent) - n) = written + 1
      BY <1>0, <2>1, <3>1, <3>2
    <3> QED
      BY <2>2, <2>5, <2>6, <3>4, <3>5, <3>6 DEF ReceivedRun
  <2> QED
    BY <2>2, <2>6, <2>7, <2>8, <2>9 DEF ReceivedRun
<1>2. CASE SendFails \/ SendStops
  <2>1. unsent' = <<>> /\ stop' /\ UNCHANGED <<output, written, received, raced>>
    BY <1>2 DEF SendFails, SendStops, out, link
  <2>2. Consecutive(<<>>, written - 0 + 1)
    BY <1>0, EmptyConsecutive
  <2> QED
    BY <2>1, <2>2, EmptyType DEF OutputInv, NewestBytes, ReceivedRun
<1>3. CASE Flush
  <2>1. server = "flush" /\ UNCHANGED <<output, written, received, raced, stop, client>>
    BY <1>3 DEF Flush, out, link
  <2>2. NewestBytes'
    <3>1. Consecutive(<<>>, written - 0 + 1)
      BY <1>0, EmptyConsecutive
    <3> QED
      BY <1>3, <2>1, <3>1, EmptyType DEF Flush, OutputInv, NewestBytes
  <2>3. ReceivedRun'
    BY <2>1 DEF OutputInv, BeforeFlush, ReceivedRun
  <2> QED
    BY <2>2, <2>3
<1>4. ASSUME NEW w \in Writers, NEW n \in 1 .. 2, SerialWrite(w, n)
      PROVE  (NewestBytes /\ ReceivedRun)'
  <2>1. NewestBytes'
    BY <1>4, NewestBytesWrite DEF OutputInv
  <2>2. /\ UNCHANGED <<received, server, stop, client>> /\ written' = written + n
        /\ unsent = <<>> /\ Len(unsent) = 0 /\ (raced => raced')
    BY <1>4, EmptyType DEF SerialWrite, ControlOK, threads, link
  <2>3. CASE sock
    <3>1. Len(unsent') = n
      BY <1>4, <2>3, NewestBytesWrite DEF OutputInv, SerialWrite
    <3>2. ASSUME received # <<>>, ~raced, ~stop, client = "connected"
          PROVE  Head(received) + Len(received) + n = written + n + 1
      <4>1. Head(received) + Len(received) + 0 = written + 1
        BY <2>2, <3>2 DEF OutputInv, ReceivedRun
      <4>2. Head(received) \in Nat
        BY <1>0, <3>2
      <4> QED
        BY <1>0, <4>1, <4>2
    <3> QED
      BY <2>1, <2>2, <3>1, <3>2 DEF OutputInv, ReceivedRun
  <2>4. CASE ~sock
    <3>1. stop \/ raced \/ received = <<>>
      BY <2>4 DEF OutputInv, BeforeFlush
    <3> QED
      BY <2>1, <2>2, <3>1 DEF OutputInv, ReceivedRun
  <2> QED
    BY <2>3, <2>4
<1>5. CASE Connect
  <2>1. server = "accept" /\ UNCHANGED <<output, written, unsent, received, raced>>
    BY <1>5 DEF Connect, out, sending
  <2> QED
    BY <2>1 DEF OutputInv, BeforeFlush, NewestBytes, ReceivedRun
<1>6. CASE /\ UNCHANGED <<output, written, unsent, received, raced>>
           /\ stop => stop'
           /\ client' = client \/ client' = "gone"
  BY <1>6 DEF OutputInv, NewestBytes, ReceivedRun
<1> QED
  BY <1>1, <1>2, <1>3, <1>4, <1>5, <1>6
  DEF Next, LauncherStep, MainStep, ServerStep, SendStep, vars, link, sending, out,
      RemoveInfo, StartDetachedChild, ReportPort, LauncherTimesOut, StartServer,
      PublishPort, LookForClient, KeepWaiting, WaitTimesOut, GiveUp,
      LeaveLoop, RuntimeStop,
      WouldBlock, SendReturns, Accept, AcceptStopped, AcceptTimesOut, Receive,
      AppendInput, Disconnected, ReceiveStops, Close, SerialRead, ClientSends,
      Disconnect

(* Unless a write raced with the flush, what the client received is a run  *)
(* of the output without gap, repetition or reordering.                    *)
THEOREM OutputIsInOrder == Spec => []OutputInOrder
<1>1. Init => OutputInv
  <2> SUFFICES ASSUME Init PROVE OutputInv
    OBVIOUS
  <2>1. Consecutive(<<>>, 0 - 0 + 1)
    BY EmptyConsecutive
  <2> QED
    BY <2>1, EmptyType
    DEF Init, OutputInv, NewestBytes, BeforeFlush, ReceivedRun
<1>2. OutputInv => OutputInOrder
  BY DEF OutputInv, ReceivedRun, OutputInOrder
<1>3. ControlOK /\ BytesOK /\ OutputInv /\ [Next]_vars => OutputInv'
  BY BeforeFlushStep, OutputStep DEF OutputInv
<1> QED
  BY <1>1, <1>2, <1>3, TypeCorrect, PTL DEF Spec, TypeOK
------------------------------------------------------------------------------
(* What the client is still missing is being sent: once the flush has begun, *)
(* what it has and what is under way end with the newest byte.             *)
EndsAt(s, n) == s # <<>> /\ s[Len(s)] = n
Filled == Limit > 0 /\ written > 0 => output # <<>>
Served ==
  /\ server \in {"flushing", "recv", "append"} /\ sock /\ ~stop /\ client = "connected"
  /\ written > 0 /\ Limit > 0
  => EndsAt(received \o unsent, written)

LEMMA NewestEndsAt ==
  ASSUME NEW s \in Seq(Nat), s # <<>>, NEW n \in Nat, Consecutive(s, n - Len(s) + 1)
  PROVE  EndsAt(s, n)
BY DEF Consecutive, EndsAt

LEMMA EndsJoin ==
  ASSUME NEW s \in Seq(Nat), NEW t \in Seq(Nat), NEW n, EndsAt(t, n)
  PROVE  EndsAt(s \o t, n)
<1>1. Len(s \o t) = Len(s) + Len(t) /\ Len(s) \in Nat /\ Len(t) \in Nat \ {0}
  BY DEF EndsAt
<1>2. (s \o t)[Len(s) + Len(t)] = t[Len(t)]
  BY <1>1
<1>3. s \o t # <<>>
  BY <1>1
<1> QED
  BY <1>1, <1>2, <1>3 DEF EndsAt

(* A join's length and elements; equal elements; joins in either order.    *)
LEMMA JoinElements ==
  ASSUME NEW s \in Seq(Nat), NEW t \in Seq(Nat)
  PROVE  /\ s \o t \in Seq(Nat) /\ Len(s \o t) = Len(s) + Len(t)
         /\ \A i \in 1 .. Len(s) : (s \o t)[i] = s[i]
         /\ \A i \in 1 .. Len(t) : (s \o t)[Len(s) + i] = t[i]
OBVIOUS

LEMMA SameElements ==
  ASSUME NEW s \in Seq(Nat), NEW t \in Seq(Nat), Len(s) = Len(t),
         \A i \in 1 .. Len(s) : s[i] = t[i]
  PROVE  s = t
OBVIOUS

LEMMA JoinsAssociate ==
  ASSUME NEW s \in Seq(Nat), NEW t \in Seq(Nat), NEW u \in Seq(Nat)
  PROVE  (s \o t) \o u = s \o (t \o u)
OBVIOUS

LEMMA SplitJoins ==
  ASSUME NEW s \in Seq(Nat), NEW t \in Seq(Nat), NEW n \in 1 .. Len(t)
  PROVE  (s \o SubSeq(t, 1, n)) \o SubSeq(t, n + 1, Len(t)) = s \o t
<1> DEFINE a == SubSeq(t, 1, n)
           b == SubSeq(t, n + 1, Len(t))
<1>1. a \in Seq(Nat) /\ Len(a) = n /\ \A i \in 1 .. n : a[i] = t[i]
  OBVIOUS
<1>2. b \in Seq(Nat) /\ Len(b) = Len(t) - n /\ \A i \in 1 .. Len(t) - n : b[i] = t[n + i]
  OBVIOUS
<1>3. n \in Nat /\ Len(t) \in Nat /\ n <= Len(t)
  OBVIOUS
<1> HIDE DEF a, b
<1>4. a \o b = t
  <2>1. /\ a \o b \in Seq(Nat) /\ Len(a \o b) = Len(a) + Len(b)
        /\ \A i \in 1 .. Len(a) : (a \o b)[i] = a[i]
        /\ \A i \in 1 .. Len(b) : (a \o b)[Len(a) + i] = b[i]
    BY <1>1, <1>2, JoinElements
  <2>2. Len(a) = n /\ Len(b) = Len(t) - n /\ Len(a) + Len(b) = Len(t)
    BY <1>1, <1>2, <1>3
  <2>3. /\ Len(a \o b) = Len(t)
        /\ \A i \in 1 .. n : (a \o b)[i] = t[i]
        /\ \A i \in 1 .. Len(t) - n : (a \o b)[n + i] = t[n + i]
    BY <1>1, <1>2, <2>1, <2>2
  <2>4. ASSUME NEW i \in 1 .. Len(t) PROVE (a \o b)[i] = t[i]
    <3>1. CASE i <= n
      BY <1>3, <2>3, <3>1
    <3>2. CASE ~(i <= n)
      <4>1. i - n \in 1 .. Len(t) - n /\ n + (i - n) = i
        BY <1>3, <3>2
      <4> QED
        BY <2>3, <4>1
    <3> QED
      BY <3>1, <3>2
  <2> QED
    BY <2>1, <2>3, <2>4, SameElements
<1>5. (s \o a) \o b = s \o (a \o b)
  BY <1>1, <1>2, JoinsAssociate
<1> QED
  BY <1>4, <1>5 DEF a, b

LEMMA ServedStep ==
  ASSUME ControlOK, BytesOK, NewestBytes, Filled, Served, [Next]_vars
  PROVE  (Filled /\ Served)'
<1>0. /\ unsent \in Seq(Nat) /\ received \in Seq(Nat) /\ output \in Seq(Nat)
      /\ Len(output) \in Nat /\ written \in Nat /\ Limit \in Nat
  BY SerialAssumption DEF BytesOK
<1>1. CASE SendSome
  <2>1. PICK n \in 1 .. Len(unsent) :
          /\ received' = IF client = "connected"
                         THEN received \o SubSeq(unsent, 1, n) ELSE received
          /\ unsent' = SubSeq(unsent, n + 1, Len(unsent))
    BY <1>1 DEF SendSome
  <2>2. UNCHANGED <<output, written, client, stop, sock, server>>
    BY <1>1 DEF SendSome, link, threads
  <2>3. client = "connected" => received' \o unsent' = received \o unsent
    BY <1>0, <2>1, SplitJoins
  <2> QED
    BY <2>2, <2>3 DEF Filled, Served
<1>2. CASE SendFails \/ SendStops
  <2>1. stop' /\ UNCHANGED <<output, written>>
    BY <1>2 DEF SendFails, SendStops, out, link
  <2> QED
    BY <2>1 DEF Filled, Served
<1>3. CASE Flush
  <2>1. /\ UNCHANGED <<output, written, received, sock>>
        /\ unsent' = IF sock THEN output ELSE <<>>
    BY <1>3 DEF Flush, out, link
  <2>2. Limit > 0 /\ written > 0 => EndsAt(output, written)
    BY <1>0, NewestEndsAt DEF Filled, NewestBytes
  <2>3. sock /\ Limit > 0 /\ written > 0 => EndsAt(received' \o unsent', written)
    BY <1>0, <2>1, <2>2, EndsJoin
  <2> QED
    BY <2>1, <2>3 DEF Filled, Served
<1>4. ASSUME NEW w \in Writers, NEW n \in 1 .. 2, SerialWrite(w, n)
      PROVE  (Filled /\ Served)'
  <2>1. /\ UNCHANGED <<received, sock>> /\ written' = written + n
        /\ output' = AppendOutputLocked(NewBytes(n))
        /\ unsent' = IF sock THEN NewBytes(n) ELSE <<>>
    BY <1>4 DEF SerialWrite, link
  <2>2. /\ NewBytes(n) \in Seq(Nat) /\ Len(NewBytes(n)) = n
        /\ Consecutive(NewBytes(n), written + 1)
    BY <1>0, NewBytesConsecutive
  <2>3. EndsAt(NewBytes(n), written + n)
    <3>1. (written + n) - n + 1 = written + 1 /\ written + n \in Nat /\ NewBytes(n) # <<>>
      BY <1>0, <2>2
    <3> QED
      BY <2>2, <3>1, NewestEndsAt
  <2>4. Served'
    <3>1. sock => EndsAt(received' \o unsent', written')
      BY <1>0, <2>1, <2>2, <2>3, EndsJoin
    <3> QED
      BY <2>1, <3>1 DEF Served
  <2>5. Filled'
    <3> SUFFICES ASSUME Limit > 0 PROVE output' # <<>>
      BY DEF Filled
    <3> DEFINE all == output \o NewBytes(n)
    <3>1. all \in Seq(Nat) /\ Len(all) = Len(output) + n /\ Len(all) \in Nat \ {0}
      BY <1>0, <2>2
    <3> HIDE DEF all
    <3>2. output' = Newest(all)
      BY <1>0, <2>1 DEF AppendOutputLocked, all
    <3>3. CASE Len(all) > Limit
      <4>1. Newest(all) = SubSeq(all, Len(all) - Limit + 1, Len(all))
        BY <3>3 DEF Newest
      <4>2. Len(SubSeq(all, Len(all) - Limit + 1, Len(all))) = Limit
        BY <1>0, <3>1, <3>3
      <4>3. Len(output') # 0 /\ Len(<<>>) = 0
        BY <1>0, <3>2, <4>1, <4>2, EmptyType
      <4> QED
        BY <4>3
    <3>4. CASE ~(Len(all) > Limit)
      BY <3>1, <3>2, <3>4, EmptyType DEF Newest
    <3> QED
      BY <3>3, <3>4
  <2> QED
    BY <2>4, <2>5
<1>5. CASE Connect
  BY <1>5 DEF Connect, out, sending, threads, Filled, Served
<1>6. CASE /\ UNCHANGED <<output, written, unsent, received>>
           /\ server' \in {"flushing", "recv", "append"} =>
                server \in {"flushing", "recv", "append"}
           /\ sock' => sock
           /\ stop => stop'
           /\ client' = client \/ client' = "gone"
  BY <1>6 DEF Filled, Served
<1>7. CASE Accept
  BY <1>7 DEF Accept, out, sending, threads, Filled, Served
<1> QED
  BY <1>1, <1>2, <1>3, <1>4, <1>5, <1>6, <1>7
  DEF Next, LauncherStep, MainStep, ServerStep, SendStep, vars, link, sending, out, threads,
      RemoveInfo, StartDetachedChild, ReportPort, LauncherTimesOut, StartServer,
      PublishPort, LookForClient, KeepWaiting, WaitTimesOut, GiveUp,
      LeaveLoop, RuntimeStop,
      WouldBlock, SendReturns, AcceptStopped, AcceptTimesOut, Receive,
      AppendInput, Disconnected, ReceiveStops, Close, SerialRead, ClientSends,
      Disconnect

(* A client that is there has the newest byte of the output once nobody    *)
(* holds the lock, whatever was written before, during and after the flush *)
(* and however much of it the buffer had to drop (HostRuntime.cpp:425).    *)
THEOREM OutputIsComplete == Spec => []OutputComplete
<1>1. Init => OutputInv /\ Filled /\ Served
  <2> SUFFICES ASSUME Init PROVE OutputInv /\ Filled /\ Served
    OBVIOUS
  <2>1. Consecutive(<<>>, 0 - 0 + 1)
    BY EmptyConsecutive
  <2> QED
    BY <2>1, EmptyType
    DEF Init, OutputInv, NewestBytes, BeforeFlush, ReceivedRun, Filled, Served
<1>2. ControlOK /\ BytesOK /\ OutputInv /\ [Next]_vars => OutputInv'
  BY BeforeFlushStep, OutputStep DEF OutputInv
<1>3. ControlOK /\ BytesOK /\ OutputInv /\ Filled /\ Served /\ [Next]_vars => (Filled /\ Served)'
  BY ServedStep DEF OutputInv
<1>4. ControlOK /\ BytesOK /\ Served => OutputComplete
  <2> SUFFICES ASSUME ControlOK, BytesOK, Served,
                      server \in {"recv", "append"}, sock, ~stop, client = "connected",
                      LockFree, written > 0, Limit > 0
               PROVE  received # <<>> /\ received[Len(received)] = written
    BY DEF OutputComplete
  <2>1. unsent = <<>> /\ received \o <<>> = received
    BY DEF ControlOK, BytesOK
  <2> QED
    BY <2>1 DEF Served, EndsAt
<1> QED
  BY <1>1, <1>2, <1>3, <1>4, TypeCorrect, PTL DEF Spec, TypeOK
================================================================================
