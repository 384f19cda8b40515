------------------------------- MODULE HttpClient -------------------------------
(***************************************************************************)
(* HTTPClient: requests, redirects, the head of a response and its body by *)
(* length, by chunks or up to the end of the connection.                   *)
(*                                                                         *)
(* The client below it is what ByteStream promises: `link' and `inflow',   *)
(* the lines and body bytes that have arrived and were not read.  A line   *)
(* arrives as a whole; bytes before one spoil it.  The server answers each *)
(* request it hears with one response, of which it may send any part       *)
(* before it stalls, closes or resets.  URLs, header texts and payloads    *)
(* are left out.                                                           *)
(***************************************************************************)
EXTENDS Integers, Sequences

CONSTANTS
  Codes,         (* of "ok", "found" (301-303) and "temporary" (307, 308)  *)
  BodyLengths,   (* lengths of bodies                                      *)
  ChunkLengths,  (* lengths of a chunk                                     *)
  BufferSize,    (* of getString's buffer, 256                             *)
  Limits,        (* redirect limits                                        *)
  MaxCarried     (* bound: requests on one connection                      *)

ASSUME HttpAssumption ==
  /\ Codes \subseteq {"ok", "found", "temporary"}
  /\ BodyLengths \subseteq Nat /\ ChunkLengths \subseteq Nat \ {0}
  /\ BufferSize \in Nat \ {0} /\ Limits \subseteq Nat /\ MaxCarried \in Nat \ {0}

VARIABLES
  link, inflow,  (* the connection, and what it holds                      *)
  script,        (* what the server has yet to send on it                  *)
  client,        (* client_: "none", "owned" by this object, "external"    *)
  headers,       (* request_headers_ is not empty                          *)
  follow, limit, (* follow_mode_, redirect_limit_                          *)
  verb, hop,     (* current_verb and hop of sendRequest                    *)
  http_pc,       (* where the thread is                                    *)
  status,        (* the code of the head being read, or the last result    *)
  content_length, chunked, location,
  remaining,     (* of the body, or of the chunk                           *)
  answered,      (* the response to the last request                       *)
  carried,       (* number of requests sent on the connection              *)
  drained,       (* what getString has returned of the response            *)
  late, cut,     (* since the request a wait has timed out; the server has *)
                 (* gone before it had sent its response                   *)
  fetched,       (* getString has come to an end since                     *)
  with_headers   (* the request had user headers                           *)

connection == <<link, inflow, script, carried>>
http_config == <<client, headers, follow, limit>>
http_head == <<content_length, chunked, location>>
request == <<verb, hop, with_headers>>
watched == <<answered, late, cut, drained, fetched>>
http_vars == <<connection, http_config, http_head, request, http_pc, status, remaining, watched>>

Responses ==
  [code : Codes, framing : {"length", "close"}, chunk : {0}, size : BodyLengths,
   location : BOOLEAN]
  \cup [code : Codes, framing : {"chunks"}, chunk : ChunkLengths, size : BodyLengths,
        location : BOOLEAN]

Line(kind, n) == [kind |-> kind, n |-> n]
Bytes(from, to) == [i \in 1..to - from + 1 |-> Line("byte", from + i - 1)]
EmptyLine == Line("blank", 0)

(* The chunks of a body, and the response on the wire.                     *)
Chunks(size, each) ==
  LET c[from \in 1..size + 1] ==
        IF from > size THEN <<Line("size", 0), EmptyLine>>
        ELSE LET to == IF from + each - 1 <= size THEN from + each - 1 ELSE size IN
             <<Line("size", to - from + 1)>> \o Bytes(from, to) \o <<EmptyLine>> \o c[to + 1]
  IN c[1]

OnTheWire(r) ==
  <<Line(r.code, 0)>>
  \o (IF r.location THEN <<Line("location", 0)>> ELSE <<>>)
  \o (CASE r.framing = "length" -> <<Line("length", r.size), EmptyLine>> \o Bytes(1, r.size)
        [] r.framing = "close" -> <<EmptyLine>> \o Bytes(1, r.size)
        [] OTHER -> <<Line("chunked", 0), EmptyLine>> \o Chunks(r.size, r.chunk))

NoResponse == [code |-> "none", framing |-> "close", chunk |-> 0, size |-> 0, location |-> FALSE]

HttpInit ==
  /\ link = "down" /\ inflow = <<>> /\ script = <<>> /\ carried = 0
  /\ client = "none" /\ headers = FALSE /\ follow = "disable" /\ limit \in Limits
  /\ content_length = -1 /\ chunked = FALSE /\ location = FALSE
  /\ verb = "GET" /\ hop = 0 /\ answered = NoResponse /\ with_headers = FALSE
  /\ http_pc = "idle" /\ status = "none" /\ remaining = 0 /\ drained = <<>>
  /\ late = FALSE /\ cut = FALSE /\ fetched = FALSE

Disconnects == link' = "down" /\ inflow' = <<>> /\ script' = <<>> /\ carried' = 0

(* sendRequest and getString return: what they kept is gone.               *)
Answers(code) ==
  /\ http_pc' = "idle" /\ status' = code
  /\ verb' = "GET" /\ hop' = 0 /\ with_headers' = FALSE
Fetched == http_pc' = "idle" /\ remaining' = 0 /\ fetched' = TRUE

Forgets ==
  /\ answered' = NoResponse /\ late' = FALSE /\ cut' = FALSE
  /\ drained' = <<>> /\ fetched' = FALSE
------------------------------------------------------------------------------
(* begin() and end(), which begin() calls; begin() fails on a URL it       *)
(* cannot use, and then there is no client.  chunked_ is left.             *)
HttpBegin(kind) ==
  /\ http_pc = "idle"
  /\ client' = kind /\ headers' = FALSE
  /\ content_length' = -1 /\ location' = FALSE
  /\ Disconnects /\ Forgets /\ status' = "none"
  /\ UNCHANGED <<follow, limit, chunked, request, http_pc, remaining>>

SetFollowRedirects(mode) ==
  /\ http_pc = "idle"
  /\ follow' = mode
  /\ UNCHANGED <<connection, client, headers, limit, http_head, request, http_pc, status,
                 remaining, watched>>

AddHeader ==
  /\ http_pc = "idle"
  /\ headers' = TRUE
  /\ UNCHANGED <<connection, client, follow, limit, http_head, request, http_pc, status,
                 remaining, watched>>

SendRequest(v) ==
  /\ http_pc = "idle" /\ client # "none" /\ carried < MaxCarried
  /\ verb' = v /\ http_pc' = "connect"
  /\ Forgets
  /\ UNCHANGED <<connection, http_config, http_head, hop, with_headers, status, remaining>>

(* sendOnce uses the connection there is, if connected() says so, or opens *)
(* a new one.                                                              *)
Connected == link = "up" \/ inflow # <<>>

SendOnce ==
  /\ http_pc = "connect"
  /\ Forgets
  /\ \/ /\ ~Connected /\ Disconnects /\ Answers("refused")
     \/ /\ http_pc' = "write"
        /\ link' = IF Connected THEN link ELSE "up"
        /\ carried' = (IF Connected THEN carried ELSE 0) + 1
        /\ UNCHANGED <<inflow, script, status, request>>
  /\ UNCHANGED <<http_config, http_head, remaining>>

(* The client's write() fails with its connection, or has taken the whole  *)
(* request: then the server has heard it, if it is there, and sendOnce     *)
(* begins to read the head.  Until then write() tries again and again, for *)
(* as long as the server takes nothing from the connection.                *)
WriteFails ==
  /\ http_pc = "write"
  /\ link' = "ending" /\ script' = <<>>
  /\ Answers("send_failed") /\ Forgets
  /\ UNCHANGED <<inflow, carried, http_config, http_head, remaining>>

WriteEnds ==
  /\ http_pc = "write"
  /\ \E r \in Responses :
       /\ script' = IF link = "up" THEN script \o OnTheWire(r) ELSE <<>>
       /\ answered' = r
  /\ http_pc' = "status" /\ status' = "none"
  /\ content_length' = -1 /\ chunked' = FALSE /\ location' = FALSE
  /\ with_headers' = headers
  /\ late' = FALSE /\ cut' = (link # "up") /\ drained' = <<>> /\ fetched' = FALSE
  /\ UNCHANGED <<link, inflow, carried, verb, hop, http_config, remaining>>
------------------------------------------------------------------------------
(* readHTTPLine: a line that has arrived, or what there is when the wait   *)
(* for more ends, with the connection or the timeout.                      *)
LineEnds == {i \in 1..Len(inflow) : inflow[i].kind # "byte"}
FirstOf(S) == CHOOSE i \in S : \A j \in S : i <= j

NextLine ==
  IF LineEnds = {} /\ inflow = <<>> THEN EmptyLine
  ELSE IF LineEnds # {} /\ FirstOf(LineEnds) = 1 THEN inflow[1]
  ELSE Line("spoilt", 0)

TakesLine ==
  /\ inflow' = IF LineEnds = {} THEN <<>> ELSE SubSeq(inflow, FirstOf(LineEnds) + 1, Len(inflow))
  /\ late' = (late \/ (LineEnds = {} /\ link = "up"))

ReadStatus ==
  /\ http_pc = "status"
  /\ TakesLine
  /\ IF NextLine.kind \in Codes
     THEN http_pc' = "headers" /\ status' = NextLine.kind /\ UNCHANGED request
     ELSE Answers("no_server")
  /\ UNCHANGED <<link, script, carried, http_config, http_head, remaining, answered, cut,
                 drained, fetched>>

ReadHeader ==
  /\ http_pc = "headers"
  /\ TakesLine
  /\ content_length' = IF NextLine.kind = "length" THEN NextLine.n ELSE content_length
  /\ chunked' = (chunked \/ NextLine.kind = "chunked")
  /\ location' = (location \/ NextLine.kind = "location")
  /\ http_pc' = IF NextLine = EmptyLine THEN "head" ELSE "headers"
  /\ UNCHANGED <<link, script, carried, http_config, request, status, remaining, answered, cut,
                 drained, fetched>>

(* What sendRequest follows: a redirect that says where to, that the mode  *)
(* follows for the verb, with a client of its own.                         *)
Follows ==
  /\ status \in {"found", "temporary"} /\ location
  /\ (follow = "strict" /\ verb = "GET") \/ follow = "force"
  /\ client = "owned"

HeadIsRead ==
  /\ http_pc = "head" /\ ~(Follows /\ hop < limit)
  /\ Answers(status)
  /\ UNCHANGED <<connection, http_config, http_head, remaining, watched>>

(* The next hop is a session of its own, without the headers; its URL may  *)
(* be unusable.                                                            *)
NextVerb == IF follow = "force" /\ status = "found" THEN "GET" ELSE verb
LeavesHop ==
  /\ Disconnects
  /\ headers' = FALSE /\ content_length' = -1 /\ chunked' = FALSE /\ location' = FALSE
  /\ UNCHANGED <<follow, limit, remaining, watched>>

Redirect ==
  /\ http_pc = "head" /\ Follows /\ hop < limit
  /\ LeavesHop
  /\ \/ /\ client' = "owned" /\ http_pc' = "connect"
        /\ verb' = NextVerb /\ hop' = hop + 1
        /\ UNCHANGED <<status, with_headers>>
     \/ client' = "none" /\ Answers("refused")
------------------------------------------------------------------------------
(* getString, by chunks, by length or to the end.                          *)
GetString ==
  /\ http_pc = "idle" /\ client # "none"
  /\ IF ~chunked /\ content_length = 0 THEN Fetched
     ELSE /\ http_pc' = IF chunked THEN "chunk_size" ELSE "body"
          /\ remaining' = content_length
          /\ UNCHANGED fetched
  /\ UNCHANGED <<connection, http_config, http_head, request, status, answered, late, cut,
                 drained>>

MutantTakesBytes(n) ==
  /\ n <= BufferSize
  /\ drained' = drained \o SubSeq(inflow, 1, n)
  /\ inflow' = SubSeq(inflow, n + 1, Len(inflow))

(* A read takes what has arrived, up to the buffer and to the rest.        *)
TakesBytes(n) ==
  /\ n <= BufferSize /\ (remaining > 0 => n <= remaining)
  /\ drained' = drained \o SubSeq(inflow, 1, n)
  /\ inflow' = SubSeq(inflow, n + 1, Len(inflow))

ReadBody ==
  /\ http_pc = "body"
  /\ \E n \in 1..Len(inflow) :
       /\ TakesBytes(n)
       /\ IF n = remaining THEN Fetched
          ELSE /\ remaining' = IF remaining > 0 THEN remaining - n ELSE remaining
               /\ UNCHANGED <<http_pc, fetched>>
  /\ UNCHANGED <<link, script, carried, http_config, http_head, request, status, answered, late,
                 cut>>

ReadChunk ==
  /\ http_pc = "chunk_data"
  /\ \E n \in 1..Len(inflow) :
       /\ TakesBytes(n)
       /\ remaining' = remaining - n
       /\ http_pc' = IF n = remaining THEN "chunk_end" ELSE "chunk_data"
  /\ UNCHANGED <<link, script, carried, http_config, http_head, request, status, answered, late,
                 cut, fetched>>

(* waitData ends without data: there will be none, or not in time.         *)
WaitFails ==
  /\ http_pc \in {"body", "chunk_data"} /\ inflow = <<>>
  /\ Fetched
  /\ late' = (late \/ link = "up")
  /\ UNCHANGED <<connection, http_config, http_head, request, status, answered, cut, drained>>

(* The size line of a chunk, the line break after its data, the trailers.  *)
ReadChunkLine ==
  LET n == IF NextLine.kind = "size" THEN NextLine.n ELSE 0 IN
  /\ http_pc \in {"chunk_size", "chunk_end", "trailers"}
  /\ TakesLine
  /\ IF http_pc # "chunk_end" /\ NextLine = EmptyLine THEN Fetched
     ELSE /\ http_pc' = CASE http_pc = "chunk_end" -> "chunk_size"
                          [] http_pc = "chunk_size" /\ n > 0 -> "chunk_data"
                          [] OTHER -> "trailers"
          /\ remaining' = n
          /\ UNCHANGED fetched
  /\ UNCHANGED <<link, script, carried, http_config, http_head, request, status, answered, cut,
                 drained>>
------------------------------------------------------------------------------
(* The server sends its response bit by bit, stalls, closes or resets.     *)
ServerSends ==
  /\ link = "up" /\ script # <<>>
  /\ inflow' = Append(inflow, Head(script))
  /\ script' = Tail(script)
  /\ UNCHANGED <<link, carried, http_config, http_head, request, http_pc, status, remaining,
                 watched>>

ServerCloses ==
  /\ link = "up"
  /\ link' = "ending" /\ script' = <<>>
  /\ inflow' \in {inflow, <<>>}
  /\ cut' = (cut \/ script # <<>> \/ inflow' # inflow)
  /\ UNCHANGED <<carried, http_config, http_head, request, http_pc, status, remaining, answered,
                 late, drained, fetched>>

HttpSteps ==
  SendOnce \/ ReadStatus \/ ReadHeader \/ HeadIsRead \/ Redirect
  \/ ReadBody \/ ReadChunk \/ WaitFails \/ ReadChunkLine

HttpNext ==
  \/ \E kind \in {"none", "owned", "external"} : HttpBegin(kind)
  \/ \E mode \in {"disable", "strict", "force"} : SetFollowRedirects(mode)
  \/ AddHeader
  \/ \E v \in {"GET", "POST"} : SendRequest(v)
  \/ GetString
  \/ HttpSteps
  \/ WriteFails
  \/ WriteEnds
  \/ ServerSends
  \/ ServerCloses

(* The thread runs, and waitData returns at its deadline; that a write     *)
(* ends is up to the server.                                               *)
HttpSpec == HttpInit /\ [][HttpNext]_http_vars /\ WF_http_vars(HttpSteps)
------------------------------------------------------------------------------
(* Every variable of the client and its connection has its type.           *)
HttpTypeOK ==
  /\ link \in {"down", "up", "ending"} /\ carried \in Nat
  /\ client \in {"none", "owned", "external"} /\ headers \in BOOLEAN
  /\ follow \in {"disable", "strict", "force"} /\ limit \in Limits
  /\ content_length \in Nat \cup {-1} /\ chunked \in BOOLEAN /\ location \in BOOLEAN
  /\ verb \in {"GET", "POST"} /\ hop \in 0..limit /\ answered \in Responses \cup {NoResponse}
  /\ http_pc \in {"idle", "connect", "write", "status", "headers", "head", "body",
                  "chunk_size", "chunk_data", "chunk_end", "trailers"}
  /\ remaining \in Nat \cup {-1}

(* A request on a connection of its own is answered by its own response,   *)
(* with its code, its location and its body: whatever getString has        *)
(* returned is the beginning of the body, and all of it once getString has *)
(* ended, unless the server went before its end or a wait timed out.       *)
(* Redirects end within the limit, repeat a POST only when told to and     *)
(* leave the user's headers behind (HTTPClient.h:13-14, 176-222, 297-298). *)
HttpOwnAnswer ==
  /\ carried = 1 /\ ~late =>
       /\ drained = Bytes(1, Len(drained)) /\ Len(drained) <= answered.size
       /\ ~cut /\ http_pc = "idle" /\ status # "send_failed" =>
            /\ status = answered.code /\ location = answered.location
            /\ fetched => Len(drained) = answered.size
  /\ http_pc \in {"status", "headers", "head"} =>
       /\ hop <= limit
       /\ hop > 0 => ~with_headers /\ (verb = "POST" => follow = "force")

(* A request or a getString ends, wherever in a response of finite length  *)
(* the server stalls, closes or resets, and over every redirect; only a    *)
(* write may last, for ever if the server takes nothing                    *)
(* (HTTPClient.h:177-225, 335-407, 569-613, WiFiClient.h:116-127).         *)
HttpCallEnds == (http_pc # "idle") ~> (http_pc = "idle" \/ [](http_pc = "write"))

(* Every request opens a fresh connection (HTTPClient.h:20-21).            *)
HttpFreshConnection == carried <= 1
================================================================================
