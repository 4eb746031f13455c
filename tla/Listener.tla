------------------------------ MODULE Listener ------------------------------
(* The accept loop and the life of a connection (start_with_listener,         *)
(* handle_connection, read_message and shutdown of                            *)
(* maharit-server/src/tcp_server.rs). What a request does is Frontend's       *)
(* matter; here it is read, served and answered.                              *)
EXTENDS Integers, FiniteSets

CONSTANTS Peers,            \* clients that may connect
          MaxConnections    \* ServerConfig.max_connections

ASSUME ListenerAssumption == MaxConnections \in Nat \ {0}

VARIABLES loop,      \* the accept loop: "top", "accepting" or "ended"
          shutdown,  \* the flag set by shutdown()
          current,   \* ServerStats.current_connections
          peer,      \* peer -> what the client does with its socket
          handler,   \* peer -> the task that serves it
          answers    \* peer -> what it was sent last

listenerVars == <<loop, shutdown, current, peer, handler, answers>>

(* What a client was sent last; "response" stands for any answer to a request. *)
Responses == {"nothing", "response", "error", "goodbye"}

LoopTop ==
    /\ loop = "top"
    /\ loop' = CASE shutdown -> "ended"
                 [] ~shutdown /\ current >= MaxConnections -> "top"   \* sleeps, looks again
                 [] OTHER -> "accepting"
    /\ UNCHANGED <<shutdown, current, peer, handler, answers>>

(* A waiting client is accepted: counted first, then served by a new task.    *)
Accept(p) ==
    /\ loop = "accepting" /\ peer[p] = "connecting"
    /\ current' = current + 1
    /\ peer' = [peer EXCEPT ![p] = "open"]
    /\ handler' = [handler EXCEPT ![p] = "top"]
    /\ loop' = "top"
    /\ UNCHANGED <<shutdown, answers>>

(* Nobody came within a second, or the accept failed.                         *)
AcceptNothing ==
    /\ loop = "accepting" /\ loop' = "top"
    /\ UNCHANGED <<shutdown, current, peer, handler, answers>>

Shutdown == ~shutdown /\ shutdown' = TRUE /\ UNCHANGED <<loop, current, peer, handler, answers>>

(* A response is written; when the client is gone, or does not take it within *)
(* the write timeout, the handler ends with the error. (After a failed write  *)
(* of a stream the code tries to send an Error first and goes on if it can.)  *)
Send(p, response, next) ==
    \/ /\ peer[p] = "open"
       /\ answers' = [answers EXCEPT ![p] = response]
       /\ handler' = [handler EXCEPT ![p] = next]
    \/ answers' = answers /\ handler' = [handler EXCEPT ![p] = "ending"]

(* A variant of HandlerTop: the flag is not looked at.                        *)
HandlerTopBlind(p) ==
    /\ handler[p] = "top"
    /\ handler' = [handler EXCEPT ![p] = "reading"]
    /\ UNCHANGED <<loop, shutdown, current, peer, answers>>

HandlerTop(p) ==
    /\ handler[p] = "top"
    /\ IF shutdown THEN Send(p, "goodbye", "ending")
       ELSE handler' = [handler EXCEPT ![p] = "reading"] /\ UNCHANGED answers
    /\ UNCHANGED <<loop, shutdown, current, peer>>

(* A complete message arrives and is served; a message that is no request is  *)
(* answered with an error; Disconnect is answered and ends the handler.       *)
Request(p, kind) ==
    /\ handler[p] = "reading" /\ peer[p] = "open"
    /\ CASE kind = "request" -> Send(p, "response", "top")
         [] kind = "invalid" -> Send(p, "error", "top")
         [] kind = "disconnect" -> Send(p, "goodbye", "ending")
    /\ UNCHANGED <<loop, shutdown, current, peer>>

(* The read fails: nothing came within the read timeout, or the announced     *)
(* length is beyond MAX_MESSAGE_SIZE. The client is sent an error and the     *)
(* loop goes on.                                                              *)
ReadError(p) ==
    /\ handler[p] = "reading"
    /\ Send(p, "error", "top")
    /\ UNCHANGED <<loop, shutdown, current, peer>>

ConnectionClosed(p) ==
    /\ handler[p] = "reading" /\ peer[p] = "gone"
    /\ handler' = [handler EXCEPT ![p] = "ending"]
    /\ UNCHANGED <<loop, shutdown, current, peer, answers>>

(* The accept loop has ended and dropped the broadcast sender: the handlers   *)
(* that wait for a message wake up and say goodbye.                           *)
Woken(p) ==
    /\ handler[p] = "reading" /\ loop = "ended"
    /\ Send(p, "goodbye", "ending")
    /\ UNCHANGED <<loop, shutdown, current, peer>>

(* A variant of HandlerEnds: a connection that failed is not discounted.      *)
HandlerEndsUncounted(p) ==
    /\ handler[p] = "ending"
    /\ handler' = [handler EXCEPT ![p] = "none"]
    /\ current' = IF peer[p] = "gone" THEN current ELSE current - 1
    /\ peer' = [peer EXCEPT ![p] = "away"]
    /\ UNCHANGED <<loop, shutdown, answers>>

(* The task logs how it ended and is discounted; its socket closes.           *)
HandlerEnds(p) ==
    /\ handler[p] = "ending"
    /\ handler' = [handler EXCEPT ![p] = "none"]
    /\ current' = current - 1
    /\ peer' = [peer EXCEPT ![p] = "away"]
    /\ UNCHANGED <<loop, shutdown, answers>>

(* The client: it connects, and may close its end at any time.                *)
Connect(p) ==
    /\ peer[p] = "away" /\ handler[p] = "none"
    /\ peer' = [peer EXCEPT ![p] = "connecting"]
    /\ answers' = [answers EXCEPT ![p] = "nothing"]
    /\ UNCHANGED <<loop, shutdown, current, handler>>
Close(p) ==
    /\ peer[p] = "open" /\ peer' = [peer EXCEPT ![p] = "gone"]
    /\ UNCHANGED <<loop, shutdown, current, handler, answers>>

ListenerInit ==
    /\ loop = "top" /\ shutdown = FALSE /\ current = 0
    /\ peer = [p \in Peers |-> "away"]
    /\ handler = [p \in Peers |-> "none"]
    /\ answers = [p \in Peers |-> "nothing"]

Handle(p) ==
    \/ HandlerTop(p) \/ Woken(p) \/ ConnectionClosed(p) \/ HandlerEnds(p)
    \/ ReadError(p) \/ \E kind \in {"request", "invalid", "disconnect"} : Request(p, kind)

AcceptLoop == LoopTop \/ AcceptNothing \/ \E p \in Peers : Accept(p)

ListenerNext ==
    \/ AcceptLoop \/ Shutdown
    \/ \E p \in Peers : Handle(p) \/ Connect(p) \/ Close(p)

ListenerSpec == ListenerInit /\ [][ListenerNext]_listenerVars

(* The runtime keeps polling the accept loop and every task, and both sleeps  *)
(* and reads end (1 s, 30 s).                                                 *)
ListenerFairness == WF_listenerVars(AcceptLoop) /\ \A p \in Peers : WF_listenerVars(Handle(p))
-----------------------------------------------------------------------------
(* Properties.                                                                *)

ListenerTypeOK ==
    /\ loop \in {"top", "accepting", "ended"} /\ shutdown \in BOOLEAN
    /\ handler \in [Peers -> {"none", "top", "reading", "ending"}]
    /\ peer \in [Peers -> {"away", "connecting", "open", "gone"}]
    /\ answers \in [Peers -> Responses]

Serving == {p \in Peers : handler[p] # "none"}

(* The number of connections is the number of handlers, and never exceeds the *)
(* limit, however connections end: the limit is checked a step before the     *)
(* accept, and only handlers that end come between. A client that waits to be *)
(* accepted has no handler yet.                                               *)
ConnectionsCounted ==
    /\ ListenerTypeOK
    /\ current = Cardinality(Serving)
    /\ current <= MaxConnections
    /\ loop = "accepting" => current < MaxConnections
    /\ \A p \in Peers : peer[p] = "connecting" => handler[p] = "none"

(* After shutdown() every handler ends, those that wait for a message too,    *)
(* and the accept loop with them.                                             *)
ShutdownEnds ==
    shutdown ~> (loop = "ended" /\ \A p \in Peers : handler[p] = "none")
=============================================================================
