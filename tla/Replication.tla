----------------------------- MODULE Replication -----------------------------
(***************************************************************************)
(* WAL streaming between a leader and its followers, from                  *)
(* maharit-server/src/replication.rs: the handshake, the bounded queue of  *)
(* each follower handler, delivery with a timeout, the TCP connection,     *)
(* acknowledgements, heartbeats, the watchdog, shutdown, and follower      *)
(* processes that crash and start again.                                   *)
(*                                                                         *)
(* An entry is its LSN.  A session is one connection of a follower; its    *)
(* handler on the leader walks through the phases accepted, acked,         *)
(* subscribed, snapshotting, streaming, exiting, done.  The socket towards *)
(* the follower holds WireCapacity messages; a handler whose write finds   *)
(* it full stays in that write.  A write to a connection that is down      *)
(* fails: one that seems to succeed is a write before the break that lost  *)
(* it.  The socket towards the leader, and the reader task behind it,      *)
(* never fill up here.                                                     *)
(***************************************************************************)
EXTENDS Integers, Sequences, FiniteSets

CONSTANTS
    Followers,
    Authorized,     \* the followers that present the shared secret
    QueueCapacity,  \* WAL_QUEUE_CAPACITY
    WireCapacity,   \* messages the socket buffers hold
    MaxLsn,         \* bound on entries
    MaxSessions     \* bound on connections

ASSUME ReplicationBounds ==
    /\ Authorized \subseteq Followers
    /\ QueueCapacity \in Nat \ {0} /\ WireCapacity \in Nat \ {0}
    /\ MaxLsn \in Nat /\ MaxSessions \in Nat

VARIABLES
    lsn,            \* the leader's counter
    subscribers,    \* sessions whose queue the leader still feeds
    append,         \* append_wal_entry under way: whom it has yet to serve
    known,          \* the leader's map of FollowerState
    leader,         \* its shutdown flag, and whether it has a graph to send
    session,        \* the sessions, in order of connection
    follower        \* the follower processes

vars == <<lsn, subscribers, append, known, leader, session, follower>>

Sessions == 1..Len(session)
NoSession == 0

\* The subscriber lock is held from the start of an append to its end.
Idle == [busy |-> FALSE, todo |-> {}]

\* out is the message the handler is writing while the socket is full.  got and
\* from are history: the entries the follower received in the session, and the
\* leader's LSN when the handler subscribed.
NewSession(f) ==
    [follower |-> f, phase |-> "accepted", up |-> TRUE, hsLsn |-> 0,
     queue |-> <<>>, out |-> <<>>, toFollower |-> <<>>,
     toLeader |-> <<[kind |-> "Handshake", lsn |-> follower[f].lsn]>>,
     from |-> 0, got |-> <<>>]

\* data are the entries whose effect the graph of the process shows.  fresh says
\* whether that graph was empty when the process began.  joined is history: the
\* leader's LSN when the handler subscribed that the process has its entries from.
NewProcess(data, fresh) ==
    [started |-> FALSE, session |-> NoSession, ready |-> FALSE, lsn |-> 0,
     leaderAlive |-> FALSE, joined |-> 0, data |-> data, fresh |-> fresh]

TypeOK ==
    /\ lsn \in 0..MaxLsn
    /\ subscribers \subseteq Sessions /\ append.todo \subseteq subscribers
    /\ ~ append.busy => append = Idle
    /\ \A s \in Sessions :
          /\ session[s].phase \in {"accepted", "acked", "subscribed", "snapshotting",
                                   "streaming", "exiting", "done"}
          /\ Len(session[s].queue) <= QueueCapacity
          /\ Len(session[s].toFollower) <= WireCapacity
          /\ session[s].phase = "done" => ~ session[s].up
    /\ \A f \in Followers :
          /\ follower[f].lsn \in 0..lsn
          /\ follower[f].session \in {NoSession} \cup Sessions

Init ==
    /\ lsn = 0
    /\ subscribers = {}
    /\ append = Idle
    /\ known = [f \in Followers |-> [lastLsn |-> 0, alive |-> FALSE]]
    /\ leader \in [stopping : {FALSE}, graph : BOOLEAN]
    /\ session = <<>>
    /\ follower = [f \in Followers |-> NewProcess({}, TRUE)]

\* The state r is the next one of session s.
Becomes(s, r) == session' = [session EXCEPT ![s] = r]

-----------------------------------------------------------------------------
(* append_wal_entry *)

StartAppend ==
    /\ ~ append.busy
    /\ lsn < MaxLsn
    /\ lsn' = lsn + 1
    /\ append' = [busy |-> TRUE, todo |-> subscribers]
    /\ UNCHANGED <<subscribers, known, leader, session, follower>>

\* A variant of Deliver: a full queue swallows the entry.
DeliverDropsWhenFull(s) ==
    /\ s \in append.todo
    /\ session[s].phase # "done"
    /\ Becomes(s, [session[s] EXCEPT !.queue =
            IF Len(@) < QueueCapacity THEN Append(@, lsn) ELSE @])
    /\ append' = [append EXCEPT !.todo = @ \ {s}]
    /\ UNCHANGED <<lsn, subscribers, known, leader, follower>>

\* The queue has room ...
Deliver(s) ==
    /\ s \in append.todo
    /\ session[s].phase # "done"
    /\ Len(session[s].queue) < QueueCapacity
    /\ Becomes(s, [session[s] EXCEPT !.queue = Append(@, lsn)])
    /\ append' = [append EXCEPT !.todo = @ \ {s}]
    /\ UNCHANGED <<lsn, subscribers, known, leader, follower>>

\* A variant of DropSubscriber: the wait for room has no timeout.
DropSubscriberOnlyGone(s) ==
    /\ s \in append.todo
    /\ session[s].phase = "done"
    /\ subscribers' = subscribers \ {s}
    /\ append' = [append EXCEPT !.todo = @ \ {s}]
    /\ UNCHANGED <<lsn, known, leader, session, follower>>

\* ... or the handler is gone, or the queue stays full until the timeout.
DropSubscriber(s) ==
    /\ s \in append.todo
    /\ session[s].phase = "done" \/ Len(session[s].queue) >= QueueCapacity
    /\ subscribers' = subscribers \ {s}
    /\ append' = [append EXCEPT !.todo = @ \ {s}]
    /\ UNCHANGED <<lsn, known, leader, session, follower>>

FinishAppend ==
    /\ append.busy
    /\ append.todo = {}
    /\ append' = Idle
    /\ UNCHANGED <<lsn, subscribers, known, leader, session, follower>>

-----------------------------------------------------------------------------
(* handle_follower_connection *)

Message(kind, l) == [kind |-> kind, lsn |-> l]

\* The session r after its handler has written m, as far as the socket lets it.
Sent(r, m) ==
    IF Len(r.toFollower) < WireCapacity
    THEN [r EXCEPT !.toFollower = Append(@, m)]
    ELSE [r EXCEPT !.out = <<m>>]

\* The handler's loop turns only while no write is under way.
Streaming(s) == session[s].phase = "streaming" /\ session[s].out = <<>>

\* A variant of AckHandshake: the secret is not compared.
AckHandshakeOpen(s) ==
    /\ session[s].phase = "accepted"
    /\ session[s].toLeader # <<>>
    /\ session[s].up
    /\ Becomes(s, [Sent(session[s], Message("HandshakeAck", 0)) EXCEPT
                  !.phase = "acked", !.hsLsn = Head(session[s].toLeader).lsn,
                  !.toLeader = Tail(@)])
    /\ UNCHANGED <<lsn, subscribers, append, known, leader, follower>>

\* The accept loop, which stops on shutdown, has handed the session to a handler;
\* the handler answers the handshake, or ends.
AckHandshake(s) ==
    /\ session[s].phase = "accepted"
    /\ session[s].toLeader # <<>>
    /\ IF session[s].follower \in Authorized /\ session[s].up
       THEN Becomes(s, [Sent(session[s], Message("HandshakeAck", 0)) EXCEPT
                          !.phase = "acked", !.hsLsn = Head(session[s].toLeader).lsn,
                          !.toLeader = Tail(@)])
       ELSE Becomes(s, [(IF session[s].up THEN Sent(session[s], Message("Unauthorized", 0))
                         ELSE session[s])
                        EXCEPT !.phase = "done", !.up = FALSE, !.toLeader = <<>>])
    /\ UNCHANGED <<lsn, subscribers, append, known, leader, follower>>

\* The follower has nothing yet, and the leader was built with with_graph.  The
\* server is not: main.rs calls new, and its leader has no graph to send.
WantsSnapshot(s) == leader.graph /\ session[s].hsLsn = 0

\* The connection was lost before the handshake, or when the snapshot is to be
\* sent: the handler returns the error and forgets the follower as it is.
AbandonHandshake(s) ==
    /\ ~ session[s].up
    /\ \/ session[s].phase = "accepted" /\ session[s].toLeader = <<>>
       \/ session[s].phase = "subscribed" /\ WantsSnapshot(s)
    /\ Becomes(s, [session[s] EXCEPT !.phase = "done", !.queue = <<>>, !.out = <<>>,
                                     !.toLeader = <<>>])
    /\ UNCHANGED <<lsn, subscribers, append, known, leader, follower>>

\* Needs the subscriber lock.
Subscribe(s) ==
    /\ session[s].phase = "acked"
    /\ ~ append.busy
    /\ subscribers' = subscribers \cup {s}
    /\ Becomes(s, [session[s] EXCEPT !.phase = "subscribed", !.from = lsn])
    /\ UNCHANGED <<lsn, append, known, leader, follower>>

\* The snapshot holds what has been appended when it is taken: later than the
\* subscription.
SendSnapshot(s) ==
    /\ session[s].phase = "subscribed"
    /\ session[s].up
    /\ WantsSnapshot(s)
    /\ Becomes(s, [Sent(session[s], Message("Snapshot", lsn)) EXCEPT !.phase = "snapshotting"])
    /\ UNCHANGED <<lsn, subscribers, append, known, leader, follower>>

Register(s) ==
    /\ \/ session[s].phase = "snapshotting" /\ session[s].out = <<>>
       \/ session[s].phase = "subscribed" /\ ~ WantsSnapshot(s)
    /\ Becomes(s, [session[s] EXCEPT !.phase = "streaming"])
    /\ known' = [known EXCEPT ![session[s].follower] =
            [lastLsn |-> session[s].hsLsn, alive |-> TRUE]]
    /\ UNCHANGED <<lsn, subscribers, append, leader, follower>>

\* The ticker is slow: the previous heartbeat has been answered.
Quiet(s) ==
    /\ \A i \in DOMAIN session[s].toFollower : session[s].toFollower[i].kind # "Heartbeat"
    /\ \A i \in DOMAIN session[s].toLeader : session[s].toLeader[i].kind # "HeartbeatAck"

Heartbeat(s) ==
    /\ Streaming(s)
    /\ Quiet(s)
    /\ IF session[s].up THEN Becomes(s, Sent(session[s], Message("Heartbeat", lsn)))
       ELSE Becomes(s, [session[s] EXCEPT !.phase = "exiting"])
    /\ UNCHANGED <<lsn, subscribers, append, known, leader, follower>>

ForwardWal(s) ==
    /\ Streaming(s)
    /\ session[s].queue # <<>>
    /\ IF session[s].up
       THEN Becomes(s, [Sent(session[s], Message("WalEntry", Head(session[s].queue)))
                        EXCEPT !.queue = Tail(@)])
       ELSE Becomes(s, [session[s] EXCEPT !.phase = "exiting", !.queue = Tail(@)])
    /\ UNCHANGED <<lsn, subscribers, append, known, leader, follower>>

\* A write that waited goes through, or fails with the connection.  A failed
\* snapshot ends the handler at once.
FinishWrite(s) ==
    /\ session[s].out # <<>>
    /\ \/ /\ session[s].up
          /\ Len(session[s].toFollower) < WireCapacity
          /\ Becomes(s, [session[s] EXCEPT !.toFollower = @ \o session[s].out, !.out = <<>>])
       \/ /\ ~ session[s].up
          /\ IF session[s].phase = "snapshotting"
             THEN Becomes(s, [session[s] EXCEPT !.out = <<>>, !.phase = "done", !.queue = <<>>])
             ELSE Becomes(s, [session[s] EXCEPT !.out = <<>>, !.phase = "exiting"])
    /\ UNCHANGED <<lsn, subscribers, append, known, leader, follower>>

\* HeartbeatAck and WalAck.
ReceiveAck(s) ==
    /\ Streaming(s)
    /\ session[s].toLeader # <<>>
    /\ Becomes(s, [session[s] EXCEPT !.toLeader = Tail(@)])
    /\ known' = [known EXCEPT ![session[s].follower].lastLsn =
            Head(session[s].toLeader).lsn]
    /\ UNCHANGED <<lsn, subscribers, append, leader, follower>>

\* The loop ends: the queue was closed and is drained, or the connection is lost.
LeaveLoop(s) ==
    /\ Streaming(s)
    /\ \/ s \notin subscribers /\ session[s].queue = <<>>
       \/ ~ session[s].up /\ session[s].toLeader = <<>>
    /\ Becomes(s, [session[s] EXCEPT !.phase = "exiting"])
    /\ UNCHANGED <<lsn, subscribers, append, known, leader, follower>>

\* The flag is read between two turns of the loop; the model lets the handler take
\* more turns before it looks.
LeaveOnShutdown(s) ==
    /\ Streaming(s)
    /\ leader.stopping
    /\ Becomes(s, [(IF session[s].up THEN Sent(session[s], Message("Shutdown", 0)) ELSE session[s])
                   EXCEPT !.phase = "exiting"])
    /\ UNCHANGED <<lsn, subscribers, append, known, leader, follower>>

\* The follower id is marked dead, whichever session it belongs to by now; then
\* the queue and the socket are dropped.
ExitHandler(s) ==
    /\ session[s].phase = "exiting"
    /\ session[s].out = <<>>
    /\ known' = [known EXCEPT ![session[s].follower].alive = FALSE]
    /\ Becomes(s, [session[s] EXCEPT !.phase = "done", !.up = FALSE, !.queue = <<>>,
                                     !.toLeader = <<>>])
    /\ UNCHANGED <<lsn, subscribers, append, leader, follower>>

Shutdown ==
    /\ ~ leader.stopping
    /\ leader' = [leader EXCEPT !.stopping = TRUE]
    /\ UNCHANGED <<lsn, subscribers, append, known, session, follower>>

-----------------------------------------------------------------------------
(* The follower *)

\* start: main.rs calls it once in the life of the process.
Connect(f) ==
    /\ ~ follower[f].started
    /\ ~ leader.stopping
    /\ Len(session) < MaxSessions
    /\ session' = Append(session, NewSession(f))
    /\ follower' = [follower EXCEPT ![f].started = TRUE, ![f].session = Len(session) + 1]
    /\ UNCHANGED <<lsn, subscribers, append, known, leader>>

\* Follower f takes the next message of kind k off its connection s ...
Receiving(f, s, k) ==
    /\ follower[f].session = s
    /\ s # NoSession
    /\ session[s].toFollower # <<>>
    /\ Head(session[s].toFollower).kind = k

\* ... and answers with m.  The receive loop ends when the answer cannot be sent;
\* leaderAlive is then left to the watchdog.
Replied(r, m) ==
    IF r.up THEN [r EXCEPT !.toFollower = Tail(@), !.toLeader = Append(@, m)]
    ELSE [r EXCEPT !.toFollower = <<>>]
AfterReply(s) == IF session[s].up THEN s ELSE NoSession

Take(s) == Becomes(s, [session[s] EXCEPT !.toFollower = Tail(@)])

ReceiveHandshakeAck(f, s) ==
    /\ Receiving(f, s, "HandshakeAck")
    /\ Take(s)
    /\ follower' = [follower EXCEPT ![f].ready = TRUE, ![f].leaderAlive = TRUE]
    /\ UNCHANGED <<lsn, subscribers, append, known, leader>>

ReceiveHeartbeat(f, s) ==
    /\ Receiving(f, s, "Heartbeat")
    /\ Becomes(s, Replied(session[s], Message("HeartbeatAck", follower[f].lsn)))
    /\ follower' = [follower EXCEPT ![f].leaderAlive = TRUE, ![f].session = AfterReply(s)]
    /\ UNCHANGED <<lsn, subscribers, append, known, leader>>

\* What the graph of process p may show when it applies the entries in new.  A
\* graph that was loaded has other identifiers than the leader's: entries then
\* change the wrong elements, or none.
Applying(p, new) == IF p.fresh THEN {p.data \cup new} ELSE SUBSET (p.data \cup new)

ReceiveWal(f, s) ==
    LET l == Head(session[s].toFollower).lsn IN
    /\ Receiving(f, s, "WalEntry")
    /\ Becomes(s, [Replied(session[s], Message("WalAck", l)) EXCEPT !.got = Append(@, l)])
    /\ \E d \in Applying(follower[f], {l}) :
          follower' = [follower EXCEPT ![f].data = d, ![f].lsn = l,
                                       ![f].joined = session[s].from,
                                       ![f].session = AfterReply(s)]
    /\ UNCHANGED <<lsn, subscribers, append, known, leader>>

\* A variant of ReceiveSnapshot: the snapshot is discarded.
ReceiveSnapshotIgnored(f, s) ==
    /\ Receiving(f, s, "Snapshot")
    /\ Take(s)
    /\ UNCHANGED <<lsn, subscribers, append, known, leader, follower>>

\* The snapshot creates elements and sets properties, and removes nothing: in an
\* empty graph it shows every entry, in a loaded one what was removed in the
\* meantime stays.  The LSN is not advanced.
ReceiveSnapshot(f, s) ==
    /\ Receiving(f, s, "Snapshot")
    /\ Take(s)
    /\ \E d \in Applying(follower[f], 1..Head(session[s].toFollower).lsn) :
          follower' = [follower EXCEPT ![f].data = d]
    /\ UNCHANGED <<lsn, subscribers, append, known, leader>>

\* Unauthorized leaves leaderAlive as it is; Shutdown and a lost connection clear
\* it, the latter only once the handshake is over.
EndSession(f, s) ==
    /\ follower[f].session = s
    /\ s # NoSession
    /\ \/ /\ Receiving(f, s, "Unauthorized")
          /\ follower' = [follower EXCEPT ![f].session = NoSession]
       \/ /\ Receiving(f, s, "Shutdown")
          /\ follower' = [follower EXCEPT ![f].session = NoSession, ![f].leaderAlive = FALSE]
       \/ /\ ~ session[s].up /\ session[s].toFollower = <<>>
          /\ follower' = [follower EXCEPT ![f].session = NoSession,
                                          ![f].leaderAlive = @ /\ ~ follower[f].ready]
    /\ Becomes(s, [session[s] EXCEPT !.up = FALSE, !.toFollower = <<>>])
    /\ UNCHANGED <<lsn, subscribers, append, known, leader>>

\* A variant of Watchdog: the watchdog ends with the connection.
WatchdogNeedsSession(f) ==
    /\ follower[f].session # NoSession
    /\ follower[f].leaderAlive
    /\ follower' = [follower EXCEPT ![f].leaderAlive = FALSE]
    /\ UNCHANGED <<lsn, subscribers, append, known, leader, session>>

\* No heartbeat for heartbeat_timeout_secs.
Watchdog(f) ==
    /\ follower[f].started
    /\ follower[f].leaderAlive
    /\ follower' = [follower EXCEPT ![f].leaderAlive = FALSE]
    /\ UNCHANGED <<lsn, subscribers, append, known, leader, session>>

\* The process ends and starts again.  Its graph is the one it saved, or an empty
\* one if it crashed; the manager always begins at LSN 0.
Restart(f) ==
    /\ follower[f].started
    /\ \/ follower' = [follower EXCEPT ![f] = NewProcess({}, TRUE)]
       \/ follower' = [follower EXCEPT ![f] = NewProcess(@.data, @.fresh /\ @.data = {})]
    /\ LET s == follower[f].session
       IN IF s = NoSession THEN UNCHANGED session
          ELSE Becomes(s, [session[s] EXCEPT !.up = FALSE, !.toFollower = <<>>])
    /\ UNCHANGED <<lsn, subscribers, append, known, leader>>

\* The connection breaks; what was in flight is delivered or lost.
Break(s) ==
    /\ session[s].up
    /\ \/ Becomes(s, [session[s] EXCEPT !.up = FALSE])
       \/ Becomes(s, [session[s] EXCEPT !.up = FALSE, !.toFollower = <<>>, !.toLeader = <<>>])
    /\ UNCHANGED <<lsn, subscribers, append, known, leader, follower>>

-----------------------------------------------------------------------------

Appending ==
    \/ FinishAppend
    \/ \E s \in append.todo : Deliver(s) \/ DropSubscriber(s)

Handshaking(s) ==
    \/ AckHandshake(s) \/ AbandonHandshake(s) \/ Subscribe(s)
    \/ SendSnapshot(s) \/ Register(s)

Leaving(s) == LeaveLoop(s) \/ LeaveOnShutdown(s) \/ ExitHandler(s)

ReceiveStep(f) ==
    \E s \in Sessions :
        \/ ReceiveHandshakeAck(f, s) \/ ReceiveHeartbeat(f, s) \/ ReceiveWal(f, s)
        \/ ReceiveSnapshot(f, s) \/ EndSession(f, s)

Next ==
    \/ StartAppend
    \/ Appending
    \/ Shutdown
    \/ \E s \in Sessions :
          \/ Handshaking(s) \/ FinishWrite(s) \/ ForwardWal(s) \/ Heartbeat(s)
          \/ ReceiveAck(s) \/ Leaving(s) \/ Break(s)
    \/ \E f \in Followers : Connect(f) \/ ReceiveStep(f) \/ Watchdog(f) \/ Restart(f)

Spec == Init /\ [][Next]_vars

\* The leader's tasks keep running, and select! chooses among ready branches at
\* random, so that none is passed over for ever.  Clients, the network and
\* process restarts are not assumed to do anything.
FairSpec ==
    /\ Spec
    /\ WF_vars(Appending)
    /\ \A s \in 1..MaxSessions :
          /\ WF_vars(s \in Sessions /\ Handshaking(s))
          /\ WF_vars(s \in Sessions /\ FinishWrite(s))
          /\ WF_vars(s \in Sessions /\ ForwardWal(s))
          /\ WF_vars(s \in Sessions /\ Leaving(s))

\* A follower whose receive loop and watchdog keep running.
FairFollower(f) == WF_vars(ReceiveStep(f)) /\ WF_vars(Watchdog(f))

-----------------------------------------------------------------------------
(* Properties *)

\* How many of the first i messages of w are WAL entries.
IsWal(m) == m.kind = "WalEntry"
Wals(w, i) == Cardinality({j \in 1..i : IsWal(w[j])})

Subscribed == {"subscribed", "snapshotting", "streaming"}

\* Whatever the interleaving of appends, slow followers and the handshake, a
\* session that is up carries the entries after its subscription without gap,
\* repetition or reordering, those received, then those on the wire, then those
\* in the queue, and up to the newest one as long as the leader feeds it:
\* backpressure loses nothing.
StreamGapless ==
    \A s \in Sessions : session[s].up /\ session[s].phase \in Subscribed =>
        LET r == session[s]
            wire == r.toFollower \o r.out
            received == r.from + Len(r.got)
            sent == received + Wals(wire, Len(wire))
        IN /\ \A i \in DOMAIN r.got : r.got[i] = r.from + i
           /\ \A i \in DOMAIN wire : IsWal(wire[i]) => wire[i].lsn = received + Wals(wire, i)
           /\ \A i \in DOMAIN r.queue : r.queue[i] = sent + i
           /\ s \in subscribers =>
                 sent + Len(r.queue) = IF s \in append.todo THEN lsn - 1 ELSE lsn

\* A follower process that began with an empty graph and claims to have applied
\* entry l shows every entry up to l if its leader sends snapshots, and every entry
\* since its subscription if the leader, like the server's, sends none, however
\* often processes crashed and connected again.  Nothing of the kind is said of a
\* process that loaded a saved graph.
AppliedPrefix ==
    \A f \in Followers : follower[f].fresh =>
        (IF leader.graph THEN 1 ELSE follower[f].joined + 1)..follower[f].lsn
            \subseteq follower[f].data

\* The leader never believes that a follower is further than any entry sent to it
\* and applied: acknowledgements of old sessions do not leak into the future.
AcksApplied ==
    \A f \in Followers :
        \/ known[f].lastLsn = 0
        \/ \E s \in Sessions : session[s].follower = f /\
              \E i \in DOMAIN session[s].got : session[s].got[i] = known[f].lastLsn

\* A follower without the shared secret is told nothing of the graph, never slows
\* down the leader's writers and never counts as a live follower, while others
\* stream; also after it has been restarted.
UnauthorizedIsolated ==
    \A f \in Followers \ Authorized :
        /\ follower[f].data = {} /\ ~ known[f].alive
        /\ \A s \in subscribers : session[s].follower # f

\* A follower that stops reading, at any point and for good, cannot hold up the
\* leader's writers for ever.
AppendTerminates == append.busy ~> ~ append.busy

\* A follower that keeps reading, and whose session stays up and subscribed,
\* catches up with the leader (appends being bounded).
CatchesUp ==
    \A f \in Followers, s \in 1..MaxSessions :
        FairFollower(f) /\ <>[](/\ s \in subscribers /\ ~ leader.stopping
                                /\ session[s].up /\ session[s].follower = f) =>
            <>[](s \in Sessions => Len(session[s].got) = lsn - session[s].from)

\* A follower that has lost its leader for good stops reporting it as alive, also
\* when the connection fails while it answers.
DeadLeaderNoticed ==
    \A f \in Followers :
        FairFollower(f) =>
            (follower[f].started /\ follower[f].session = NoSession
                ~> ~ (follower[f].started /\ follower[f].leaderAlive))

\* What travels between leader and follower is exact in both directions: entries
\* without gaps one way, acknowledgements of what was applied the other.
StreamsExact == TypeOK /\ StreamGapless /\ AcksApplied

\* A follower is eventually right about its leader: it has every entry while the
\* connection lasts, and knows when the leader is gone.
FollowersInformed == CatchesUp /\ DeadLeaderNoticed
=============================================================================
