-------------------------------- MODULE Services --------------------------------
(***************************************************************************)
(* The libraries over the core beside each other: the waiting calls of     *)
(* Stream, the TCP client and server, HTTPClient, Preferences and File.    *)
(* As in Ports, a behaviour moves one of them, the `focus': HttpClient has *)
(* a connection of its own, which is what TcpClient is shown to implement. *)
(***************************************************************************)
EXTENDS StreamReads, TcpClient, Preferences, FileHandles, HttpClient

VARIABLE focus

beside_stream == <<tcp_vars, pref_vars, file_vars, http_vars>>
beside_tcp == <<stream_vars, pref_vars, file_vars, http_vars>>
beside_prefs == <<stream_vars, tcp_vars, file_vars, http_vars>>
beside_files == <<stream_vars, tcp_vars, pref_vars, http_vars>>
beside_http == <<stream_vars, tcp_vars, pref_vars, file_vars>>
services_vars == <<focus, stream_vars, beside_stream>>

ServicesInit ==
  /\ focus \in {"stream", "tcp", "prefs", "files", "http"}
  /\ StreamInit /\ TcpInit /\ PrefInit /\ FileInit /\ HttpInit

(* The steps that a scheduled thread takes: within a call that waits, and  *)
(* within a request.                                                       *)
StreamRuns == focus = "stream" /\ StreamSteps /\ UNCHANGED <<focus, beside_stream>>
HttpRuns == focus = "http" /\ HttpSteps /\ UNCHANGED <<focus, beside_http>>

ServicesNext ==
  /\ UNCHANGED focus
  /\ \/ focus = "stream" /\ StreamNext /\ UNCHANGED beside_stream
     \/ focus = "tcp" /\ TcpNext /\ UNCHANGED beside_tcp
     \/ focus = "prefs" /\ PrefNext /\ UNCHANGED beside_prefs
     \/ focus = "files" /\ FileNext /\ UNCHANGED beside_files
     \/ focus = "http" /\ HttpNext /\ UNCHANGED beside_http

ServicesSpec ==
  /\ ServicesInit /\ [][ServicesNext]_services_vars
  /\ WF_services_vars(StreamRuns) /\ WF_services_vars(HttpRuns)
------------------------------------------------------------------------------
(* Every variable of the libraries has its type.                           *)
ServicesTypeOK == StreamTypeOK /\ TcpTypeOK /\ PrefTypeOK /\ FileTypeOK /\ HttpTypeOK

(* The calls that wait end, whenever characters arrive, are discarded or   *)
(* stay away, the server stalls or goes: those of Stream unless they are   *)
(* fed for ever (Stream.h:28-157), those of HTTPClient unless the server   *)
(* never takes the request (HTTPClient.h:177-225, WiFiClient.h:116-127).   *)
WaitingCallsEnd == StreamCallEnds /\ HttpCallEnds
================================================================================
