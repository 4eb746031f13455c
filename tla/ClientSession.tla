---------------------------- MODULE ClientSession ----------------------------
(* One client and its connection: the Rust client (maharit-client/src/lib.rs), *)
(* the Python clients (clients/python/maharit/client.py, async_client.py), and *)
(* the server's side of the same connection (handle_connection and             *)
(* execute_streaming_query of maharit-server/src/tcp_server.rs).               *)
(*                                                                             *)
(* Requests and responses carry no number: a client takes the next message to  *)
(* be the answer to its last request. In the model they do carry the call they *)
(* belong to, so that the properties can tell; no action looks at it. Message  *)
(* 0 is what the server sends unasked.                                         *)
EXTENDS Integers, Sequences
LOCAL INSTANCE Functions

CONSTANTS Clients,        \* the kinds of client: "rust", "python", "async"
          AutoReconnect,  \* ClientConfig.auto_reconnect
          ChunkSizes,     \* chunk sizes asked for
          DefaultChunk,   \* DEFAULT_CHUNK_SIZE
          MaxRows,        \* bound on the rows of a streamed result
          MaxCalls,       \* bound on the calls
          MaxFaults       \* bound on lost connections and on timeouts but the client's read timeout

ASSUME SessionAssumption ==
    /\ Clients \subseteq {"rust", "python", "async"} /\ AutoReconnect \in BOOLEAN
    /\ DefaultChunk \in Nat \ {0} /\ ChunkSizes \subseteq Nat
    /\ MaxCalls \in Nat

VARIABLES kind,      \* which client
          link,      \* the connection: open, requests up, responses to write, responses down
          call,      \* the call the client is in
          calls,     \* how many calls were made
          executed,  \* call -> how often the server executed it
          stream,    \* the stream being read: where it comes from, its rows
          clean,     \* nothing is on its way that the client does not wait for
          last,      \* how the last call ended, until the next begins
          faults     \* how many faults happened

sessionVars == <<kind, link, call, calls, executed, stream, clean, last, faults>>

(* The calls, by how they are sent. "once" stands for a query of a            *)
(* transaction, login, begin, commit, rollback and stats: one request, one    *)
(* response, never sent again.                                                *)
Ops == {"query", "once", "ping", "stream"}

(* A connection. heard and framed: the server finds the requests, and the     *)
(* client the responses, by their lengths. Half a message spoils that for all *)
(* that follows it: what is read then is no message, or never complete.       *)
NewLink == [open |-> TRUE, heard |-> TRUE, framed |-> TRUE, up |-> <<>>, out |-> <<>>, down |-> <<>>]
NoCall == [id |-> 0, op |-> "ping", pc |-> "idle", size |-> 0, tries |-> 0]
NoStream == [from |-> 0, rows |-> <<>>]
NoEnd == [id |-> 0, op |-> "ping", result |-> "none", from |-> 0, rows |-> <<>>, total |-> 0,
          clean |-> TRUE]
Message(to, type, rows, total) == [to |-> to, type |-> type, rows |-> rows, total |-> total]

(* The rows cut into chunks of the size asked for, the last one shorter.      *)
ChunksOf(rows, size) ==
    [i \in 1 .. (Len(rows) + size - 1) \div size |->
        SubSeq(rows, (i - 1) * size + 1, IF i * size < Len(rows) THEN i * size ELSE Len(rows))]

ChunkSize(size) == IF size = 0 THEN DefaultChunk ELSE size

(* What the server sends for a request: one message, or the start of a        *)
(* stream, its chunks and its end.                                            *)
Responses(request, n) ==
    LET rows == [i \in 1 .. n |-> <<request.id, i>>]
        chunks == ChunksOf(rows, ChunkSize(request.size))
    IN IF request.op = "stream"
       THEN <<Message(request.id, "start", <<>>, n)>>
            \o [i \in DOMAIN chunks |-> Message(request.id, "chunk", chunks[i], n)]
            \o <<Message(request.id, "end", <<>>, n)>>
       ELSE <<Message(request.id, IF request.op = "ping" THEN "pong" ELSE "result", <<>>, 0)>>

(* The server takes the next request, executes it and has an answer to write; *)
(* a statement that fails is answered with an error, as is what is no request.*)
Serve(n) ==
    LET request == Head(link.up)
        failed == <<Message(request.id, "error", <<>>, 0)>>
    IN /\ link.open /\ link.up # <<>> /\ link.out = <<>>
       /\ request.op = "stream" \/ n = 0
       /\ executed' = IF request.op = "garbled" THEN executed
                      ELSE [executed EXCEPT ![request.id] = @ + 1]
       /\ \E answer \in {failed} \cup IF request.op = "garbled" THEN {} ELSE {Responses(request, n)} :
            link' = [link EXCEPT !.up = Tail(@), !.out = answer]
       /\ UNCHANGED <<kind, call, calls, stream, clean, last, faults>>

(* The messages of an answer are written one by one.                          *)
SendResponse ==
    /\ link.open /\ link.out # <<>>
    /\ \E arrives \in IF link.framed THEN {<<Head(link.out)>>}
                      ELSE {<<>>, <<Message(0, "garbled", <<>>, 0)>>} :
         link' = [link EXCEPT !.out = Tail(@), !.down = @ \o arrives]
    /\ UNCHANGED <<kind, call, calls, executed, stream, clean, last, faults>>

(* A message of a stream is not written within the write timeout, nothing of  *)
(* it or half of it: the stream ends with an error and the connection goes    *)
(* on. (Any other response that is not written ends the connection.)          *)
StreamWriteTimesOut ==
    /\ link.open /\ link.out # <<>> /\ Head(link.out).type \in {"start", "chunk", "end"}
    /\ faults < MaxFaults /\ faults' = faults + 1
    /\ \E half \in BOOLEAN :
         /\ link' = [link EXCEPT !.out = <<Message(Head(link.out).to, "error", <<>>, 0)>>,
                                 !.framed = @ /\ ~half]
         /\ clean' = (clean /\ ~half)
    /\ UNCHANGED <<kind, call, calls, executed, stream, last>>

(* Nothing came within the read timeout: the server sends an error and reads  *)
(* on.                                                                        *)
ServerIdles ==
    /\ link.open /\ link.up = <<>> /\ link.out = <<>> /\ faults < MaxFaults
    /\ link' = [link EXCEPT !.out = <<Message(0, "error", <<>>, 0)>>]
    /\ clean' = FALSE /\ faults' = faults + 1
    /\ UNCHANGED <<kind, call, calls, executed, stream, last>>

(* The connection ends: after a goodbye, or with the process, which may have  *)
(* executed the request it was in. Requests that were not read are lost, and  *)
(* responses that were not written, the rest of a stream among them.          *)
ConnectionLost ==
    LET lost == [link EXCEPT !.open = FALSE, !.up = <<>>, !.out = <<>>]
    IN /\ link.open /\ faults < MaxFaults /\ faults' = faults + 1
       /\ \/ link' = lost /\ UNCHANGED <<executed, clean>>
          \/ /\ link.out = <<>> /\ link.framed
             /\ link' = [lost EXCEPT !.down = Append(@, Message(0, "goodbye", <<>>, 0))]
             /\ clean' = FALSE /\ UNCHANGED executed
          \/ /\ link.up # <<>> /\ link.out = <<>> /\ Head(link.up).op # "garbled"
             /\ executed' = [executed EXCEPT ![Head(link.up).id] = @ + 1]
             /\ link' = lost /\ UNCHANGED clean
       /\ UNCHANGED <<kind, call, calls, stream, last>>

(* A call begins. A stream that was not read to its end is abandoned.         *)
StartCall(op, size) ==
    /\ call.pc \in {"idle", "streaming"} /\ calls < MaxCalls
    /\ op = "stream" \/ size = 0
    /\ calls' = calls + 1
    /\ call' = [id |-> calls + 1, op |-> op, pc |-> "sending", size |-> size, tries |-> 0]
    /\ clean' = (clean /\ call.pc = "idle")
    /\ stream' = NoStream /\ last' = NoEnd
    /\ UNCHANGED <<kind, link, executed, faults>>

EndCall(result, m) ==
    /\ last' = [id |-> call.id, op |-> call.op, result |-> result, from |-> m.to,
                rows |-> stream.rows, total |-> m.total, clean |-> clean]
    /\ call' = NoCall

(* The request is written. A write into a connection the server has left      *)
(* fails, or is lost.                                                         *)
SendRequest ==
    /\ call.pc = "sending"
    /\ call' = [call EXCEPT !.pc = "reading"]
    /\ \E arrives \in IF ~link.open THEN {<<>>}
                      ELSE IF link.heard THEN {<<call>>}
                      ELSE {<<>>, <<[call EXCEPT !.op = "garbled"]>>} :
         link' = [link EXCEPT !.up = @ \o arrives]
    /\ UNCHANGED <<kind, calls, executed, stream, clean, last, faults>>

(* A new connection in place of the old one; what was received and not read   *)
(* is dropped with it.                                                        *)
Reconnect == link' = NewLink /\ clean' = TRUE

(* query_in_tx and ping reconnect and send once more, outside transactions.   *)
MayRetry ==
    /\ kind = "rust" /\ AutoReconnect /\ call.tries = 0
    /\ call.op \in {"query", "ping"}

RetryCall ==
    /\ Reconnect /\ call' = [call EXCEPT !.pc = "sending", !.tries = 1]
    /\ UNCHANGED <<kind, calls, executed, stream, last, faults>>

FailCall(result) ==
    /\ EndCall(result, Message(0, "none", <<>>, 0))
    /\ stream' = NoStream /\ UNCHANGED <<kind, link, calls, executed, clean, faults>>

(* The write fails. The Python client connects again and writes again.        *)
SendAgain ==
    /\ call.pc = "sending" /\ ~link.open /\ kind = "python"
    /\ Reconnect /\ UNCHANGED <<kind, call, calls, executed, stream, last, faults>>

(* The Rust client does not write the request within the write timeout,       *)
(* nothing of it or half of it. The call fails and the connection stays.      *)
SendTimesOut ==
    /\ call.pc = "sending" /\ link.open /\ kind = "rust"
    /\ faults < MaxFaults /\ faults' = faults + 1
    /\ EndCall("timeout", Message(0, "none", <<>>, 0))
    /\ \E half \in BOOLEAN : link' = [link EXCEPT !.heard = @ /\ ~half] /\ clean' = (clean /\ ~half)
    /\ stream' = NoStream /\ UNCHANGED <<kind, calls, executed>>

(* The Rust client ends the attempt; the asynchronous client ends the call,   *)
(* as does the Python client when it cannot connect.                          *)
SendFails ==
    /\ call.pc = "sending" /\ ~link.open
    /\ (MayRetry /\ RetryCall) \/ FailCall("connection")

(* A variant of ReceiveClosed: a stream that is cut off counts as ended.      *)
ReceiveClosedEndsStream ==
    /\ call.pc \in {"reading", "streaming"} /\ ~link.open /\ link.down = <<>>
    /\ \/ MayRetry /\ call.pc = "reading" /\ RetryCall
       \/ FailCall(IF call.pc = "streaming" THEN "ok" ELSE "connection")

(* The connection has ended and everything received was read.                 *)
ReceiveClosed ==
    /\ call.pc \in {"reading", "streaming"} /\ ~link.open /\ link.down = <<>>
    /\ (MayRetry /\ call.pc = "reading" /\ RetryCall) \/ FailCall("connection")

(* Nothing came within the client's read timeout. The call fails and the      *)
(* connection stays: its answer may still come. The Python client forgets     *)
(* what it has read of a message; the asynchronous one has no such timeout.   *)
ReceiveTimeout ==
    /\ call.pc \in {"reading", "streaming"} /\ link.down = <<>> /\ kind # "async"
    /\ EndCall("timeout", Message(0, "none", <<>>, 0))
    /\ \E half \in {FALSE} \cup {kind = "python" /\ link.out # <<>>} :
         link' = [link EXCEPT !.framed = @ /\ ~half]
    /\ stream' = NoStream /\ clean' = FALSE
    /\ UNCHANGED <<kind, calls, executed, faults>>

Expected(op) == CASE op = "ping" -> "pong" [] op = "stream" -> "start" [] OTHER -> "result"

(* What a call makes of a response.                                           *)
Outcome(op, m) ==
    CASE m.type = Expected(op) -> "ok" [] m.type = "error" -> "server" [] OTHER -> "protocol"

Take(m) == link.down # <<>> /\ m = Head(link.down) /\ link' = [link EXCEPT !.down = Tail(@)]

(* The next message is taken for the answer, whatever it is.                  *)
ReceiveResponse(m) ==
    /\ call.pc = "reading" /\ Take(m) /\ ~(m.type = "start" /\ call.op = "stream")
    /\ EndCall(Outcome(call.op, m), m)
    /\ stream' = NoStream /\ UNCHANGED <<kind, calls, executed, clean, faults>>

(* The next message is the start of a stream.                                 *)
StreamStarts(m) ==
    /\ call.pc = "reading" /\ Take(m) /\ m.type = "start" /\ call.op = "stream"
    /\ call' = [call EXCEPT !.pc = "streaming"]
    /\ stream' = [from |-> m.to, rows |-> <<>>]
    /\ UNCHANGED <<kind, calls, executed, clean, last, faults>>

(* A message of a stream: a chunk, its end, or what is no part of it, which   *)
(* ends the call and leaves the rest of the stream on its way.                *)
StreamMessage(m, belongs) ==
    /\ call.pc = "streaming" /\ Take(m)
    /\ IF m.type = "chunk" /\ belongs
       THEN stream' = [stream EXCEPT !.rows = @ \o m.rows] /\ UNCHANGED <<call, last, clean>>
       ELSE /\ EndCall(IF m.type = "end" /\ belongs THEN "ok"
                       ELSE IF m.type = "error" THEN "server" ELSE "protocol", m)
            /\ stream' = NoStream
            /\ clean' = (clean /\ m.type \in {"end", "error"})
    /\ UNCHANGED <<kind, calls, executed, faults>>

(* The Rust client compares the number of the stream, the Python clients do   *)
(* not.                                                                       *)
NextChunk(m) == kind = "rust" /\ StreamMessage(m, m.to = stream.from)
YieldChunk(m) == kind = "python" /\ StreamMessage(m, TRUE)
YieldChunkAsync(m) == kind = "async" /\ StreamMessage(m, TRUE)

(* The client says goodbye, takes any answer for it, and is used no more.     *)
Disconnect ==
    /\ call.pc = "idle" /\ call' = [NoCall EXCEPT !.pc = "closed"]
    /\ link' = [link EXCEPT !.open = FALSE, !.up = <<>>, !.out = <<>>, !.down = <<>>]
    /\ UNCHANGED <<kind, calls, executed, stream, clean, last, faults>>

SessionInit ==
    /\ kind \in Clients /\ link = NewLink /\ call = NoCall /\ calls = 0
    /\ executed = [i \in 1 .. MaxCalls |-> 0] /\ stream = NoStream
    /\ clean = TRUE /\ last = NoEnd /\ faults = 0

SessionNext ==
    \/ \E n \in 0 .. MaxRows : Serve(n)
    \/ SendResponse \/ StreamWriteTimesOut \/ ServerIdles \/ ConnectionLost
    \/ \E op \in Ops, size \in ChunkSizes \cup {0} : StartCall(op, size)
    \/ SendRequest \/ SendAgain \/ SendTimesOut \/ SendFails
    \/ ReceiveClosed \/ ReceiveTimeout \/ Disconnect
    \/ \E m \in Range(link.down) :
         ReceiveResponse(m) \/ StreamStarts(m) \/ NextChunk(m) \/ YieldChunk(m) \/ YieldChunkAsync(m)
-----------------------------------------------------------------------------
(* Properties.                                                                *)

SessionSpec == SessionInit /\ [][SessionNext]_sessionVars

SessionTypeOK ==
    /\ kind \in Clients /\ calls \in 0 .. MaxCalls
    /\ call.pc \in {"idle", "sending", "reading", "streaming", "closed"}
    /\ executed \in [1 .. MaxCalls -> 0 .. 2]

(* A call that succeeds is answered by the response to its own request, and   *)
(* the request was executed, as long as nobody gave up waiting on this        *)
(* connection: no read timeout, no message half written, no stream left       *)
(* unread. A connection made anew is in order again.                          *)
OwnAnswer ==
    last.result = "ok" /\ last.clean => last.from = last.id /\ executed[last.id] >= 1

(* The retry after a lost connection executes a query at most twice, and a    *)
(* query of a transaction, a stream or anything sent by the Python clients at *)
(* most once ("Only auto-reconnect if not in a transaction").                 *)
ExecutedAtMost ==
    call.id # 0 =>
        executed[call.id] <= IF kind = "rust" /\ call.op \in {"query", "ping"} THEN 2 ELSE 1

(* A stream that ends well has handed over every row of one statement, once   *)
(* and in order, whatever was on the connection before it and wherever the    *)
(* server or the connection broke off: a stream that is cut fails.            *)
StreamCoherent ==
    last.op = "stream" /\ last.result = "ok" =>
        last.rows = [i \in 1 .. last.total |-> <<last.from, i>>]

(* A call means the same to the client and to the server: it is answered by   *)
(* its own response, it is executed no more often than the retries allow, and *)
(* a stream is handed over whole.                                             *)
CallsCoherent == SessionTypeOK /\ OwnAnswer /\ ExecutedAtMost /\ StreamCoherent
=============================================================================
