------------------------- MODULE ReplicationProofs -------------------------
(* Proofs about replication (Replication).                                    *)
EXTENDS Replication, FiniteSetTheorems, FunctionTheorems, SequenceTheorems, TLAPS

Kinds == {"Handshake", "HandshakeAck", "Unauthorized", "Snapshot", "Heartbeat", "HeartbeatAck",
          "WalEntry", "WalAck", "Shutdown"}
Messages == [kind : Kinds, lsn : Nat]
Phases == {"accepted", "acked", "subscribed", "snapshotting", "streaming", "exiting", "done"}
SessionType ==
    [follower : Followers, phase : Phases, up : BOOLEAN, hsLsn : Nat, queue : Seq(Nat),
     out : Seq(Messages), toFollower : Seq(Messages), toLeader : Seq(Messages),
     from : Nat, got : Seq(Nat)]

-----------------------------------------------------------------------------
(* Counting the WAL entries among messages.                                   *)

WalSet(w, i) == {j \in 1 .. i : IsWal(w[j])}

LEMMA WalsNat ==
    ASSUME NEW w, NEW i \in Nat
    PROVE  Wals(w, i) \in Nat /\ IsFiniteSet(WalSet(w, i)) /\ Wals(w, i) = Cardinality(WalSet(w, i))
<1>1. IsFiniteSet(1 .. i)
  BY FS_Interval
<1>2. WalSet(w, i) \subseteq 1 .. i
  BY DEF WalSet
<1>3. IsFiniteSet(WalSet(w, i))
  BY <1>1, <1>2, FS_Subset
<1> QED BY <1>3, FS_CardinalityType DEF Wals, WalSet

LEMMA WalsZero ==
    ASSUME NEW w
    PROVE  Wals(w, 0) = 0
<1>1. WalSet(w, 0) = {}
  BY DEF WalSet
<1> QED BY <1>1, FS_EmptySet DEF Wals, WalSet

(* The count goes up by one at an entry and not elsewhere.                    *)
LEMMA WalsStep ==
    ASSUME NEW w, NEW i \in Nat
    PROVE  Wals(w, i + 1) = IF IsWal(w[i + 1]) THEN Wals(w, i) + 1 ELSE Wals(w, i)
<1>1. CASE IsWal(w[i + 1])
  <2>1. WalSet(w, i + 1) = WalSet(w, i) \cup {i + 1} /\ i + 1 \notin WalSet(w, i)
    BY <1>1 DEF WalSet
  <2> QED BY <1>1, <2>1, WalsNat, FS_AddElement
<1>2. CASE ~IsWal(w[i + 1])
  <2>1. WalSet(w, i + 1) = WalSet(w, i)
    BY <1>2 DEF WalSet
  <2> QED BY <1>2, <2>1 DEF Wals, WalSet
<1> QED BY <1>1, <1>2

(* The count depends on the messages it counts.                               *)
LEMMA WalsSame ==
    ASSUME NEW v, NEW w, NEW i \in Nat, \A j \in 1 .. i : v[j] = w[j]
    PROVE  Wals(v, i) = Wals(w, i)
<1>1. WalSet(v, i) = WalSet(w, i)
  BY DEF WalSet
<1> QED BY <1>1 DEF Wals, WalSet

LEMMA WalsTail ==
    ASSUME NEW w \in Seq(Messages), w # <<>>, NEW i \in 0 .. Len(w) - 1
    PROVE  Wals(w, i + 1) = IF IsWal(Head(w)) THEN Wals(Tail(w), i) + 1 ELSE Wals(Tail(w), i)
<1> DEFINE A == WalSet(Tail(w), i)
           B == WalSet(w, i + 1) \ {1}
           shift == [j \in A |-> j + 1]
<1>0. i \in Nat /\ Len(w) \in Nat /\ \A j \in 1 .. i : Tail(w)[j] = w[j + 1]
  OBVIOUS
<1>1. shift \in Bijection(A, B)
  <2>1. shift \in [A -> B]
    BY <1>0 DEF WalSet
  <2>2. \A a, b \in A : shift[a] = shift[b] => a = b
    BY <1>0 DEF WalSet
  <2>3. \A b \in B : \E a \in A : shift[a] = b
    <3> SUFFICES ASSUME NEW b \in B PROVE \E a \in A : shift[a] = b
      OBVIOUS
    <3>1. b \in 2 .. i + 1 /\ IsWal(w[b])
      BY <1>0 DEF WalSet
    <3>2. b - 1 \in 1 .. i /\ (b - 1) + 1 = b
      BY <1>0, <3>1
    <3>3. b - 1 \in A
      BY <1>0, <3>1, <3>2 DEF WalSet
    <3> QED BY <3>2, <3>3
  <2> QED BY <2>1, <2>2, <2>3, Fun_IsBij
<1>2. IsFiniteSet(A) /\ Cardinality(A) = Wals(Tail(w), i) /\ Cardinality(A) \in Nat
  BY <1>0, WalsNat
<1>3. Cardinality(B) = Cardinality(A)
  BY <1>1, <1>2, FS_Bijection DEF ExistsBijection
<1>4. IsFiniteSet(WalSet(w, i + 1)) /\ Wals(w, i + 1) = Cardinality(WalSet(w, i + 1))
      /\ Wals(w, i + 1) \in Nat
  BY <1>0, WalsNat
<1>5. Head(w) = w[1]
  OBVIOUS
<1>6. CASE IsWal(Head(w))
  <2>1. 1 \in WalSet(w, i + 1)
    BY <1>0, <1>5, <1>6 DEF WalSet
  <2>2. Cardinality(B) = Cardinality(WalSet(w, i + 1)) - 1
    BY <1>4, <2>1, FS_RemoveElement
  <2> HIDE DEF A, B
  <2> QED BY <1>2, <1>3, <1>4, <1>6, <2>2
<1>7. CASE ~IsWal(Head(w))
  <2>1. B = WalSet(w, i + 1)
    BY <1>5, <1>7 DEF WalSet
  <2> HIDE DEF A, B
  <2> QED BY <1>2, <1>3, <1>4, <1>7, <2>1
<1> QED BY <1>6, <1>7

-----------------------------------------------------------------------------
(* One session.                                                               *)

AllWals(w) == Wals(w, Len(w))

(* The numbers in q follow b; the entries in w follow b.                      *)
Consecutive(q, b) == \A i \in DOMAIN q : q[i] = b + i
Positions(w, b) == \A i \in DOMAIN w : IsWal(w[i]) => w[i].lsn = b + Wals(w, i)
NoWal(w) == \A i \in DOMAIN w : ~IsWal(w[i])
UpTo(w, l) == \A i \in DOMAIN w : w[i].lsn <= l

Received(r) == r.from + Len(r.got)
SentUpTo(r) == Received(r) + AllWals(r.toFollower) + AllWals(r.out)

Early == {"accepted", "acked"}

(* What each phase of the handler has done so far, and the bounds.            *)
Sound(r, l) ==
    /\ r \in SessionType
    /\ Len(r.queue) <= QueueCapacity /\ Len(r.toFollower) <= WireCapacity /\ Len(r.out) <= 1
    /\ r.phase = "done" => ~r.up
    /\ r.phase = "accepted" => r.toFollower = <<>>
    /\ r.phase \in Early => r.queue = <<>> /\ r.got = <<>> /\ NoWal(r.toFollower)
    /\ r.phase \in Early \cup {"subscribed"} => r.out = <<>>
    /\ r.from <= l /\ UpTo(r.toFollower, l) /\ UpTo(r.out, l)
    /\ \A i \in DOMAIN r.queue : r.queue[i] <= l

(* The entries received and on the wire are consecutive, also after the       *)
(* connection is lost; while it is up, the one being written and those in the *)
(* queue follow them.                                                         *)
Gapless(r) ==
    /\ Consecutive(r.got, r.from)
    /\ Positions(r.toFollower, Received(r))
    /\ r.up => \A i \in DOMAIN r.out :
                  IsWal(r.out[i]) => r.out[i].lsn = Received(r) + AllWals(r.toFollower) + 1
    /\ r.up /\ r.phase \in Subscribed => Consecutive(r.queue, SentUpTo(r))
Good(r, l) == Sound(r, l) /\ Gapless(r)

(* The session has been given every entry up to n.                            *)
Fed(r, n) == r.up /\ r.phase \in Subscribed => SentUpTo(r) + Len(r.queue) = n
FedKept(r, t) == \A n : Fed(r, n) => Fed(t, n)

LEMMA EmptyFacts ==
    ASSUME NEW b, NEW l
    PROVE  /\ Consecutive(<<>>, b) /\ Positions(<<>>, b) /\ NoWal(<<>>) /\ UpTo(<<>>, l)
           /\ AllWals(<<>>) = 0 /\ Len(<<>>) = 0
BY WalsZero DEF Consecutive, Positions, NoWal, UpTo, AllWals

LEMMA AllWalsNat ==
    ASSUME NEW w \in Seq(Messages)
    PROVE  AllWals(w) \in Nat
BY WalsNat DEF AllWals

LEMMA SentUpToNat ==
    ASSUME NEW r \in SessionType
    PROVE  /\ SentUpTo(r) \in Nat /\ Received(r) \in Nat
           /\ AllWals(r.toFollower) \in Nat /\ AllWals(r.out) \in Nat
BY AllWalsNat DEF SentUpTo, Received, SessionType

LEMMA NoWalCount ==
    ASSUME NEW w \in Seq(Messages), NoWal(w)
    PROVE  AllWals(w) = 0
<1>1. WalSet(w, Len(w)) = {}
  BY DEF WalSet, NoWal
<1> QED BY <1>1, FS_EmptySet DEF AllWals, Wals, WalSet

LEMMA ConsecutiveAppend ==
    ASSUME NEW q \in Seq(Nat), NEW b \in Nat, Consecutive(q, b), NEW n, n = b + Len(q) + 1
    PROVE  Consecutive(Append(q, n), b)
BY DEF Consecutive

LEMMA ConsecutiveTail ==
    ASSUME NEW q \in Seq(Nat), NEW b \in Nat, Consecutive(q, b), q # <<>>
    PROVE  Head(q) = b + 1 /\ Consecutive(Tail(q), b + 1)
BY DEF Consecutive

LEMMA WalsAppend ==
    ASSUME NEW w \in Seq(Messages), NEW m \in Messages
    PROVE  /\ \A i \in 0 .. Len(w) : Wals(Append(w, m), i) = Wals(w, i)
           /\ AllWals(Append(w, m)) = IF IsWal(m) THEN AllWals(w) + 1 ELSE AllWals(w)
<1>1. ASSUME NEW i \in 0 .. Len(w) PROVE Wals(Append(w, m), i) = Wals(w, i)
  <2>1. i \in Nat /\ \A j \in 1 .. i : Append(w, m)[j] = w[j]
    BY <1>1
  <2> QED BY <2>1, WalsSame
<1>2. Len(w) \in Nat /\ Len(Append(w, m)) = Len(w) + 1 /\ Append(w, m)[Len(w) + 1] = m
  OBVIOUS
<1>3. Wals(Append(w, m), Len(w)) = Wals(w, Len(w))
  BY <1>1, <1>2
<1>4. AllWals(Append(w, m)) = IF IsWal(m) THEN AllWals(w) + 1 ELSE AllWals(w)
  BY <1>2, <1>3, WalsStep DEF AllWals
<1> QED BY <1>1, <1>4

LEMMA PositionsAppend ==
    ASSUME NEW w \in Seq(Messages), NEW m \in Messages, NEW b \in Nat, Positions(w, b),
           IsWal(m) => m.lsn = b + AllWals(w) + 1
    PROVE  Positions(Append(w, m), b)
<1> DEFINE v == Append(w, m)
<1>1. Len(w) \in Nat /\ DOMAIN v = 1 .. Len(w) + 1 /\ v[Len(w) + 1] = m /\ Len(v) = Len(w) + 1
      /\ \A i \in 1 .. Len(w) : v[i] = w[i]
  OBVIOUS
<1>2. \A i \in 0 .. Len(w) : Wals(v, i) = Wals(w, i)
  BY WalsAppend
<1>3. IsWal(m) => Wals(v, Len(w) + 1) = AllWals(w) + 1
  BY <1>1, WalsAppend DEF AllWals
<1>4. AllWals(w) \in Nat
  BY AllWalsNat
<1> HIDE DEF v
<1>5. ASSUME NEW i \in DOMAIN v, IsWal(v[i]) PROVE v[i].lsn = b + Wals(v, i)
  <2>1. CASE i \in 1 .. Len(w)
    BY <1>1, <1>2, <1>5, <2>1 DEF Positions
  <2>2. CASE i = Len(w) + 1
    BY <1>1, <1>3, <1>4, <1>5, <2>2
  <2> QED BY <1>1, <2>1, <2>2
<1> QED BY <1>5 DEF Positions, v

LEMMA PositionsTail ==
    ASSUME NEW w \in Seq(Messages), w # <<>>, NEW b \in Nat, Positions(w, b)
    PROVE  /\ IsWal(Head(w)) => /\ Head(w).lsn = b + 1 /\ Positions(Tail(w), b + 1)
                                /\ AllWals(w) = AllWals(Tail(w)) + 1
           /\ ~IsWal(Head(w)) => Positions(Tail(w), b) /\ AllWals(w) = AllWals(Tail(w))
<1> DEFINE v == Tail(w)
<1>1. /\ Len(w) \in Nat /\ Len(w) > 0 /\ v \in Seq(Messages) /\ Len(v) = Len(w) - 1
      /\ \A i \in 1 .. Len(v) : v[i] = w[i + 1] /\ i + 1 \in DOMAIN w
      /\ Head(w) = w[1] /\ 1 \in DOMAIN w /\ DOMAIN v = 1 .. Len(v)
  OBVIOUS
<1>2. \A i \in 0 .. Len(v) : Wals(w, i + 1) = IF IsWal(Head(w)) THEN Wals(v, i) + 1 ELSE Wals(v, i)
  BY <1>1, WalsTail
<1>3. \A i \in 0 .. Len(v) : Wals(v, i) \in Nat
  BY <1>1, WalsNat
<1>4. Len(v) \in 0 .. Len(v) /\ Len(v) + 1 = Len(w) /\ 0 \in 0 .. Len(v)
  BY <1>1
<1> HIDE DEF v
<1>5. AllWals(w) = IF IsWal(Head(w)) THEN AllWals(v) + 1 ELSE AllWals(v)
  BY <1>2, <1>4 DEF AllWals
<1>6. CASE IsWal(Head(w))
  <2>1. Wals(w, 1) = 1
    BY <1>2, <1>4, <1>6, WalsZero
  <2>2. Head(w).lsn = b + 1
    BY <1>1, <1>6, <2>1 DEF Positions
  <2>3. ASSUME NEW i \in DOMAIN v, IsWal(v[i]) PROVE v[i].lsn = (b + 1) + Wals(v, i)
    <3>1. i \in 0 .. Len(v) /\ Wals(w, i + 1) = Wals(v, i) + 1 /\ Wals(v, i) \in Nat
      BY <1>1, <1>2, <1>3, <1>6
    <3>2. v[i].lsn = b + Wals(w, i + 1)
      BY <1>1, <2>3 DEF Positions
    <3> QED BY <3>1, <3>2
  <2> QED BY <1>5, <1>6, <2>2, <2>3 DEF Positions, v
<1>7. CASE ~IsWal(Head(w))
  <2>3. ASSUME NEW i \in DOMAIN v, IsWal(v[i]) PROVE v[i].lsn = b + Wals(v, i)
    <3>1. i \in 0 .. Len(v) /\ Wals(w, i + 1) = Wals(v, i)
      BY <1>1, <1>2, <1>7
    <3> QED BY <1>1, <2>3, <3>1 DEF Positions
  <2> QED BY <1>5, <1>7, <2>3 DEF Positions, v
<1> QED BY <1>6, <1>7

-----------------------------------------------------------------------------
(* The inductive invariants.                                                  *)

ProcessType ==
    [started : BOOLEAN, session : Nat, ready : BOOLEAN, lsn : Nat, leaderAlive : BOOLEAN,
     joined : Nat, data : SUBSET Nat, fresh : BOOLEAN]

ContextInv ==
    /\ lsn \in 0 .. MaxLsn /\ leader \in [stopping : BOOLEAN, graph : BOOLEAN]
    /\ append \in [busy : BOOLEAN, todo : SUBSET Nat] /\ (~append.busy => append = Idle)
    /\ append.todo \subseteq subscribers /\ subscribers \subseteq Sessions
    /\ known \in [Followers -> [lastLsn : Nat, alive : BOOLEAN]]
    /\ follower \in [Followers -> ProcessType]
    /\ session \in Seq(SessionType)
    /\ \A f \in Followers :
         /\ follower[f].lsn <= lsn
         /\ follower[f].session # NoSession =>
               /\ follower[f].session \in Sessions
               /\ session[follower[f].session].follower = f
    /\ \A s \in subscribers : session[s].phase \notin Early

Newest(s) == IF s \in append.todo THEN lsn - 1 ELSE lsn
SessionsInv ==
    \A s \in Sessions :
        Good(session[s], lsn) /\ (s \in subscribers => Fed(session[s], Newest(s)))

(* Every number that a follower, or the leader for it, may take for an        *)
(* applied entry is one: 0, or an entry the follower received in a session.   *)
GotBy(f) ==
    {0} \cup {l \in Nat : \E s \in Sessions : session[s].follower = f /\
                             \E i \in DOMAIN session[s].got : session[s].got[i] = l}
AcksInv ==
    /\ \A f \in Followers : known[f].lastLsn \in GotBy(f) /\ follower[f].lsn \in GotBy(f)
    /\ \A s \in Sessions, f \in Followers : session[s].follower = f =>
         /\ session[s].hsLsn \in GotBy(f)
         /\ \A i \in DOMAIN session[s].toLeader : session[s].toLeader[i].lsn \in GotBy(f)

ReplicationInv == ContextInv /\ SessionsInv /\ AcksInv

(* The handler of an unauthorized follower ends with the handshake.           *)
Refused(r) ==
    r.follower \notin Authorized =>
        /\ r.phase \in {"accepted", "done"} /\ r.out = <<>>
        /\ \A i \in DOMAIN r.toFollower : r.toFollower[i].kind = "Unauthorized"
RefusedInv == UnauthorizedIsolated /\ \A s \in Sessions : Refused(session[s])

(* What a follower with the data D, connected through r, has applied or is    *)
(* about to receive: if the leader sends snapshots (b), before any entry      *)
(* comes a snapshot that holds all entries up to the subscription.            *)
IsBase(m, r) == m.kind = "Snapshot" /\ r.from <= m.lsn
Applied(b, r, D) == b => 1 .. r.from \subseteq D
GotIn(b, r, D) == (\A i \in DOMAIN r.got : r.got[i] \in D) /\ (r.got # <<>> => Applied(b, r, D))
WalsBased(b, r, D) ==
    \A i \in DOMAIN r.toFollower :
        IsWal(r.toFollower[i]) => Applied(b, r, D) \/ \E j \in 1 .. i - 1 : IsBase(r.toFollower[j], r)
Based(b, r, D) == Applied(b, r, D) \/ \E j \in DOMAIN r.toFollower : IsBase(r.toFollower[j], r)
HandlerBased(b, r, D) ==
    r.up /\ r.phase \in {"snapshotting", "streaming", "exiting"} =>
        Based(b, r, D) \/ (r.phase = "snapshotting" /\ r.out # <<>> /\ IsBase(r.out[1], r))
NotYet(r) == r.phase \in {"subscribed", "snapshotting"} => NoWal(r.toFollower) /\ NoWal(r.out)
Covered(b, r, D) == GotIn(b, r, D) /\ WalsBased(b, r, D) /\ HandlerBased(b, r, D) /\ NotYet(r)

(* Followers always start with nothing, so that they always ask for a         *)
(* snapshot.                                                                  *)
AsksAll(r) == /\ r.hsLsn = 0
              /\ r.phase = "accepted" => \A i \in DOMAIN r.toLeader : r.toLeader[i].lsn = 0

(* The entries that process p shows, if anything can be said of that.         *)
Shown(p) == IF p.fresh THEN p.data ELSE Nat
Prefixed(b, p) ==
    /\ (IF b THEN 1 ELSE p.joined + 1) .. p.lsn \subseteq Shown(p)
    /\ ~p.started => p.lsn = 0 /\ p.session = NoSession
CoveredInv ==
    /\ \A f \in Followers :
         /\ Prefixed(leader.graph, follower[f])
         /\ follower[f].session # NoSession =>
               Covered(leader.graph, session[follower[f].session], Shown(follower[f]))
    /\ \A s \in Sessions : AsksAll(session[s])

-----------------------------------------------------------------------------
(* Steps of one session.                                                      *)

LEMMA SessionMoves ==
    ASSUME session \in Seq(SessionType), NEW s \in Sessions, NEW r \in SessionType, Becomes(s, r)
    PROVE  /\ session' \in Seq(SessionType) /\ Len(session') = Len(session) /\ Sessions' = Sessions
           /\ session'[s] = r /\ \A t \in Sessions \ {s} : session'[t] = session[t]
BY DEF Becomes, Sessions

(* A session becomes r, and the rest of what ContextInv and SessionsInv are   *)
(* about stays, except for what followers and the leader know.                *)
SessionStep(s, r) ==
    /\ Becomes(s, r)
    /\ Good(r, lsn) /\ FedKept(session[s], r)
    /\ r.follower = session[s].follower
    /\ r.phase \in Early => session[s].phase \in Early
    /\ UNCHANGED <<lsn, subscribers, append, leader>>
KnownStep == known' \in [Followers -> [lastLsn : Nat, alive : BOOLEAN]]
FollowerStep ==
    /\ follower' \in [Followers -> ProcessType]
    /\ \A f \in Followers :
         /\ follower'[f].lsn <= lsn
         /\ follower'[f].session \in {NoSession, follower[f].session}

LEMMA StepKeeps ==
    ASSUME ContextInv, SessionsInv, NEW s \in Sessions, NEW r, SessionStep(s, r), KnownStep, FollowerStep
    PROVE  ContextInv' /\ SessionsInv'
<1>1. r \in SessionType
  BY DEF SessionStep, Good, Sound
<1>2. /\ session' \in Seq(SessionType) /\ Len(session') = Len(session) /\ Sessions' = Sessions
      /\ session'[s] = r /\ \A t \in Sessions \ {s} : session'[t] = session[t]
  BY <1>1, SessionMoves DEF SessionStep, ContextInv
<1>3. \A t \in Sessions : session'[t].follower = session[t].follower
  BY <1>2 DEF SessionStep
<1>4. \A t \in Sessions : session'[t].phase \in Early => session[t].phase \in Early
  BY <1>2 DEF SessionStep
<1>5. UNCHANGED <<lsn, subscribers, append, leader>>
  BY DEF SessionStep
<1>6. \A f \in Followers :
        /\ follower'[f].lsn <= lsn'
        /\ follower'[f].session # NoSession =>
              /\ follower'[f].session \in Sessions'
              /\ session'[follower'[f].session].follower = f
  BY <1>2, <1>3, <1>5 DEF FollowerStep, ContextInv
<1>7. \A t \in subscribers' : session'[t].phase \notin Early
  BY <1>4, <1>5 DEF ContextInv
<1>8. ContextInv'
  BY <1>2, <1>5, <1>6, <1>7 DEF ContextInv, KnownStep, FollowerStep, Idle
<1>9. ASSUME NEW t \in Sessions'
      PROVE  Good(session'[t], lsn') /\ (t \in subscribers' => Fed(session'[t], Newest(t)'))
  <2>1. Newest(t)' = Newest(t)
    BY <1>5 DEF Newest
  <2>2. t \in Sessions
    BY <1>2
  <2>3. CASE t = s
    BY <1>2, <1>5, <2>1, <2>3 DEF SessionStep, SessionsInv, FedKept
  <2>4. CASE t # s
    BY <1>2, <1>5, <2>1, <2>2, <2>4 DEF SessionsInv
  <2> QED BY <2>3, <2>4
<1>10. SessionsInv'
  BY <1>9 DEF SessionsInv
<1> QED BY <1>8, <1>10

(* The fields of a session that has written m.                                *)
Wrote(r, t, m) ==
    \/ /\ Len(r.toFollower) < WireCapacity
       /\ t.toFollower = Append(r.toFollower, m) /\ t.out = <<>>
    \/ /\ ~(Len(r.toFollower) < WireCapacity)
       /\ t.toFollower = r.toFollower /\ t.out = <<m>>

LEMMA SentFields ==
    ASSUME NEW r \in SessionType, NEW m \in Messages, r.out = <<>>
    PROVE  LET t == Sent(r, m)
           IN /\ t \in SessionType /\ Wrote(r, t, m)
              /\ t.follower = r.follower /\ t.phase = r.phase /\ t.up = r.up /\ t.hsLsn = r.hsLsn
              /\ t.queue = r.queue /\ t.toLeader = r.toLeader /\ t.from = r.from /\ t.got = r.got
<1> DEFINE t == Sent(r, m)
<1>1. CASE Len(r.toFollower) < WireCapacity
  <2> DEFINE w == Append(r.toFollower, m)
  <2>1. w \in Seq(Messages)
    BY DEF SessionType
  <2>2. t = [r EXCEPT !.toFollower = w]
    BY <1>1 DEF Sent
  <2> HIDE DEF w
  <2>3. t \in SessionType
    BY <2>1, <2>2 DEF SessionType
  <2>4. /\ t.follower = r.follower /\ t.phase = r.phase /\ t.up = r.up /\ t.hsLsn = r.hsLsn
        /\ t.queue = r.queue /\ t.toLeader = r.toLeader /\ t.from = r.from /\ t.got = r.got
        /\ t.toFollower = w /\ t.out = r.out
    BY <2>2 DEF SessionType
  <2> QED BY <1>1, <2>3, <2>4 DEF Wrote, w
<1>2. CASE ~(Len(r.toFollower) < WireCapacity)
  <2> DEFINE w == <<m>>
  <2>1. w \in Seq(Messages)
    OBVIOUS
  <2>2. t = [r EXCEPT !.out = w]
    BY <1>2 DEF Sent
  <2> HIDE DEF w
  <2>3. t \in SessionType
    BY <2>1, <2>2 DEF SessionType
  <2>4. /\ t.follower = r.follower /\ t.phase = r.phase /\ t.up = r.up /\ t.hsLsn = r.hsLsn
        /\ t.queue = r.queue /\ t.toLeader = r.toLeader /\ t.from = r.from /\ t.got = r.got
        /\ t.toFollower = r.toFollower /\ t.out = w
    BY <2>2 DEF SessionType
  <2> QED BY <1>2, <2>3, <2>4 DEF Wrote, w
<1> QED BY <1>1, <1>2

(* What a write does to the stream.                                           *)
LEMMA WroteGapless ==
    ASSUME NEW r \in SessionType, NEW t \in SessionType, NEW m \in Messages, NEW l \in Nat,
           r.out = <<>>, r.up, Sound(r, l), Gapless(r), Wrote(r, t, m),
           t.from = r.from, t.got = r.got, t.up = r.up,
           IsWal(m) => m.lsn = SentUpTo(r) + 1, m.lsn <= l
    PROVE  /\ Len(t.toFollower) <= WireCapacity /\ Len(t.out) <= 1
           /\ UpTo(t.toFollower, l) /\ UpTo(t.out, l)
           /\ Received(t) = Received(r)
           /\ SentUpTo(t) = IF IsWal(m) THEN SentUpTo(r) + 1 ELSE SentUpTo(r)
           /\ Positions(t.toFollower, Received(t))
           /\ \A i \in DOMAIN t.out :
                IsWal(t.out[i]) => t.out[i].lsn = Received(t) + AllWals(t.toFollower) + 1
<1>0. /\ r.toFollower \in Seq(Messages) /\ Len(r.toFollower) \in Nat
      /\ Len(r.toFollower) <= WireCapacity /\ UpTo(r.toFollower, l)
      /\ Positions(r.toFollower, Received(r))
  BY DEF SessionType, Sound, Gapless
<1>1. /\ SentUpTo(r) \in Nat /\ Received(r) \in Nat /\ AllWals(r.toFollower) \in Nat
      /\ SentUpTo(r) = Received(r) + AllWals(r.toFollower)
  <2>1. AllWals(r.out) = 0
    BY EmptyFacts
  <2>2. SentUpTo(r) = Received(r) + AllWals(r.toFollower) + 0
    BY <2>1 DEF SentUpTo
  <2> QED BY <2>2, SentUpToNat
<1>2. Received(t) = Received(r)
  BY DEF Received
<1>3. CASE Len(r.toFollower) < WireCapacity
  <2>1. t.toFollower = Append(r.toFollower, m) /\ t.out = <<>>
    BY <1>3 DEF Wrote
  <2>2. Len(t.toFollower) <= WireCapacity /\ Len(t.out) <= 1
    BY <1>0, <1>3, <2>1, ReplicationBounds
  <2>3. UpTo(t.toFollower, l) /\ UpTo(t.out, l)
    BY <1>0, <2>1 DEF UpTo
  <2>4. Positions(t.toFollower, Received(r))
    BY <1>0, <1>1, <2>1, PositionsAppend
  <2>5. AllWals(t.toFollower) = IF IsWal(m) THEN AllWals(r.toFollower) + 1 ELSE AllWals(r.toFollower)
    BY <1>0, <2>1, WalsAppend
  <2>6. AllWals(t.out) = 0
    BY <2>1, EmptyFacts
  <2>7. SentUpTo(t) = Received(r) + AllWals(t.toFollower) + 0
    BY <1>2, <2>6 DEF SentUpTo
  <2>8. SentUpTo(t) = IF IsWal(m) THEN SentUpTo(r) + 1 ELSE SentUpTo(r)
    BY <1>1, <2>5, <2>7
  <2> QED BY <1>2, <2>1, <2>2, <2>3, <2>4, <2>8
<1>4. CASE ~(Len(r.toFollower) < WireCapacity)
  <2>1. t.toFollower = r.toFollower /\ t.out = <<m>> /\ t.out = Append(<<>>, m)
    BY <1>4 DEF Wrote
  <2>2. Len(t.toFollower) <= WireCapacity /\ Len(t.out) <= 1
    BY <1>0, <2>1
  <2>3. UpTo(t.toFollower, l) /\ UpTo(t.out, l)
    BY <1>0, <2>1 DEF UpTo
  <2>4. AllWals(t.out) = IF IsWal(m) THEN 1 ELSE 0
    <3>1. AllWals(Append(<<>>, m)) = IF IsWal(m) THEN AllWals(<<>>) + 1 ELSE AllWals(<<>>)
      <4>1. <<>> \in Seq(Messages)
        OBVIOUS
      <4> QED BY <4>1, WalsAppend
    <3>2. AllWals(<<>>) = 0
      BY EmptyFacts
    <3> QED BY <2>1, <3>1, <3>2
  <2>5. SentUpTo(t) = Received(r) + AllWals(r.toFollower) + AllWals(t.out)
    BY <1>2, <2>1 DEF SentUpTo
  <2>6. SentUpTo(t) = IF IsWal(m) THEN SentUpTo(r) + 1 ELSE SentUpTo(r)
    BY <1>1, <2>4, <2>5
  <2>7. \A i \in DOMAIN t.out : IsWal(t.out[i]) => t.out[i].lsn = Received(r) + AllWals(r.toFollower) + 1
    BY <1>1, <2>1
  <2> QED BY <1>0, <1>2, <2>1, <2>2, <2>3, <2>6, <2>7
<1> QED BY <1>3, <1>4

(* The handler stays in its phase or leaves.                                  *)
PhaseKept(r, t) ==
    \/ t.phase = r.phase \/ t.phase = "done"
    \/ t.phase = "exiting" /\ (r.phase = "streaming" \/ (~r.up /\ r.out # <<>>))

LEMMA TailType ==
    ASSUME NEW S, NEW q \in Seq(S), q # <<>>
    PROVE  /\ Tail(q) \in Seq(S) /\ Len(Tail(q)) < Len(q) /\ Len(q) \in Nat /\ Len(Tail(q)) \in Nat
           /\ Head(q) \in S
           /\ \A i \in DOMAIN Tail(q) : i + 1 \in DOMAIN q /\ Tail(q)[i] = q[i + 1]
OBVIOUS

(* Steps that leave the stream alone.                                         *)
LEMMA PlainStep ==
    ASSUME NEW r, NEW t \in SessionType, NEW l \in Nat, Good(r, l),
           t.from = r.from, t.got = r.got, t.toFollower = r.toFollower, t.out = r.out,
           t.up = r.up, t.queue = r.queue,
           PhaseKept(r, t) \/ (t.phase = "streaming" /\ r.phase \in Subscribed),
           t.phase = "done" => ~t.up
    PROVE  Good(t, l) /\ FedKept(r, t)
<1>1. Received(t) = Received(r) /\ SentUpTo(t) = SentUpTo(r)
  BY DEF Received, SentUpTo
<1>2. t.phase \in Subscribed => r.phase \in Subscribed
  BY DEF PhaseKept, Subscribed
<1>3. Sound(t, l)
  BY DEF Good, Sound, PhaseKept, Early, Subscribed
<1>4. Gapless(t)
  BY <1>1, <1>2 DEF Good, Gapless
<1> QED BY <1>1, <1>2, <1>3, <1>4 DEF Good, FedKept, Fed

(* Steps of a session whose connection is down afterwards.                    *)
LEMMA DownStep ==
    ASSUME NEW r, NEW t \in SessionType, NEW l \in Nat, Good(r, l), ~t.up,
           t.from = r.from, t.got = r.got, t.toFollower \in {r.toFollower, <<>>},
           t.out \in {r.out, <<>>},
           t.queue \in {r.queue, <<>>} \/ (r.queue # <<>> /\ t.queue = Tail(r.queue)),
           PhaseKept(r, t)
    PROVE  Good(t, l) /\ FedKept(r, t)
<1>1. Received(t) = Received(r)
  BY DEF Received
<1>2. /\ UpTo(t.toFollower, l) /\ UpTo(t.out, l) /\ Len(t.toFollower) <= WireCapacity
      /\ Len(t.out) <= 1 /\ Positions(t.toFollower, Received(t))
      /\ r.phase \in Early => NoWal(t.toFollower)
  BY <1>1, EmptyFacts, ReplicationBounds DEF Good, Sound, Gapless
<1>3. /\ Len(t.queue) <= QueueCapacity /\ (r.queue = <<>> => t.queue = <<>>)
      /\ \A i \in DOMAIN t.queue : t.queue[i] <= l
  <2>1. r.queue \in Seq(Nat) /\ Len(r.queue) <= QueueCapacity /\ \A i \in DOMAIN r.queue : r.queue[i] <= l
    BY DEF Good, Sound, SessionType
  <2>2. CASE t.queue \in {r.queue, <<>>}
    BY <2>1, <2>2, ReplicationBounds
  <2>3. CASE r.queue # <<>> /\ t.queue = Tail(r.queue)
    BY <2>1, <2>3, TailType, ReplicationBounds
  <2> QED BY <2>2, <2>3
<1>4. Sound(t, l)
  BY <1>2, <1>3 DEF Good, Sound, PhaseKept, Early
<1>5. Gapless(t)
  BY <1>1, <1>2 DEF Good, Gapless
<1> QED BY <1>4, <1>5 DEF Good, FedKept, Fed

(* A message other than an entry is written.                                  *)
LEMMA SentStep ==
    ASSUME NEW r, NEW t \in SessionType, NEW l \in Nat, NEW m \in Messages, Good(r, l),
           r.out = <<>>, r.up, Wrote(r, t, m), ~IsWal(m), m.lsn <= l,
           t.from = r.from, t.got = r.got, t.up = r.up, t.queue = r.queue,
           \/ t.phase = "acked" /\ r.phase = "accepted"
           \/ t.phase = "snapshotting" /\ r.phase = "subscribed"
           \/ t.phase \in {"streaming", "exiting"} /\ r.phase = "streaming"
    PROVE  Good(t, l) /\ FedKept(r, t)
<1>0. r \in SessionType
  BY DEF Good, Sound
<1>1. /\ Len(t.toFollower) <= WireCapacity /\ Len(t.out) <= 1
      /\ UpTo(t.toFollower, l) /\ UpTo(t.out, l)
      /\ SentUpTo(t) = SentUpTo(r)
      /\ Positions(t.toFollower, Received(t))
      /\ \A i \in DOMAIN t.out :
           IsWal(t.out[i]) => t.out[i].lsn = Received(t) + AllWals(t.toFollower) + 1
  BY <1>0, WroteGapless DEF Good
<1>2. t.phase \in Subscribed => r.phase \in Subscribed
  BY DEF Subscribed
<1>3. t.phase = "acked" => t.out = <<>> /\ NoWal(t.toFollower)
  <2> SUFFICES ASSUME t.phase = "acked" PROVE t.out = <<>> /\ NoWal(t.toFollower)
    OBVIOUS
  <2>1. r.toFollower = <<>>
    BY DEF Good, Sound
  <2>2. Len(r.toFollower) < WireCapacity
    BY <2>1, ReplicationBounds
  <2>3. t.out = <<>> /\ t.toFollower = Append(<<>>, m)
    BY <2>1, <2>2 DEF Wrote
  <2> QED BY <2>3 DEF NoWal
<1>4. Sound(t, l)
  BY <1>1, <1>3 DEF Good, Sound, Early
<1>5. Gapless(t)
  BY <1>1, <1>2 DEF Good, Gapless, Received
<1> QED BY <1>1, <1>2, <1>4, <1>5 DEF Good, FedKept, Fed

(* A message other than an entry is taken from the wire.                      *)
LEMMA TakeStep ==
    ASSUME NEW r, NEW t \in SessionType, NEW l \in Nat, Good(r, l),
           r.toFollower # <<>>, ~IsWal(Head(r.toFollower)), t.toFollower = Tail(r.toFollower),
           t.from = r.from, t.got = r.got, t.up = r.up, t.queue = r.queue, t.out = r.out,
           t.phase = r.phase
    PROVE  Good(t, l) /\ FedKept(r, t)
<1>0. r \in SessionType /\ r.toFollower \in Seq(Messages) /\ Received(t) = Received(r)
  BY DEF Good, Sound, SessionType, Received
<1>1. Positions(t.toFollower, Received(t)) /\ AllWals(t.toFollower) = AllWals(r.toFollower)
  <2>1. Received(r) \in Nat
    BY <1>0, SentUpToNat
  <2> QED BY <1>0, <2>1, PositionsTail DEF Good, Gapless
<1>2. SentUpTo(t) = SentUpTo(r)
  BY <1>0, <1>1 DEF SentUpTo
<1>3. /\ Len(t.toFollower) <= WireCapacity /\ UpTo(t.toFollower, l)
      /\ NoWal(r.toFollower) => NoWal(t.toFollower)
  <2>1. /\ Len(t.toFollower) < Len(r.toFollower) /\ Len(t.toFollower) \in Nat /\ Len(r.toFollower) \in Nat
        /\ \A i \in DOMAIN t.toFollower :
             i + 1 \in DOMAIN r.toFollower /\ t.toFollower[i] = r.toFollower[i + 1]
    BY <1>0, TailType
  <2>2. Len(r.toFollower) <= WireCapacity /\ UpTo(r.toFollower, l)
    BY DEF Good, Sound
  <2>3. Len(t.toFollower) <= WireCapacity
    BY <2>1, <2>2, ReplicationBounds
  <2> QED BY <2>1, <2>2, <2>3 DEF UpTo, NoWal
<1>4. Sound(t, l)
  BY <1>3 DEF Good, Sound, Early
<1>5. Gapless(t)
  BY <1>0, <1>1, <1>2 DEF Good, Gapless
<1> QED BY <1>2, <1>4, <1>5 DEF Good, FedKept, Fed

(* An entry enters the queue of a session that has the entries before it.     *)
LEMMA DeliverStep ==
    ASSUME NEW r, NEW t \in SessionType, NEW l \in Nat, Good(r, l), Fed(r, l - 1),
           r.phase \notin Early, Len(r.queue) < QueueCapacity, t.queue = Append(r.queue, l),
           t.from = r.from, t.got = r.got, t.toFollower = r.toFollower, t.out = r.out,
           t.up = r.up, t.phase = r.phase
    PROVE  Good(t, l) /\ Fed(t, l)
<1>0. r \in SessionType /\ r.queue \in Seq(Nat) /\ Len(r.queue) \in Nat
  BY DEF Good, Sound, SessionType
<1>1. Received(t) = Received(r) /\ SentUpTo(t) = SentUpTo(r) /\ SentUpTo(r) \in Nat
  BY <1>0, SentUpToNat DEF Received, SentUpTo
<1>2. /\ Len(t.queue) = Len(r.queue) + 1
      /\ \A i \in DOMAIN t.queue : t.queue[i] = l \/ (i \in DOMAIN r.queue /\ t.queue[i] = r.queue[i])
  BY <1>0
<1>3. Sound(t, l)
  <2>1. Len(t.queue) <= QueueCapacity
    BY <1>0, <1>2, ReplicationBounds
  <2>2. \A i \in DOMAIN t.queue : t.queue[i] <= l
    BY <1>2 DEF Good, Sound
  <2> QED BY <2>1, <2>2 DEF Good, Sound
<1>4. ASSUME t.up, t.phase \in Subscribed
      PROVE  Consecutive(t.queue, SentUpTo(t)) /\ SentUpTo(t) + Len(t.queue) = l
  <2>1. SentUpTo(r) + Len(r.queue) = l - 1 /\ Consecutive(r.queue, SentUpTo(r))
    BY <1>4 DEF Fed, Good, Gapless
  <2>2. l = SentUpTo(r) + Len(r.queue) + 1
    BY <1>0, <1>1, <2>1
  <2>3. Consecutive(t.queue, SentUpTo(r))
    BY <1>0, <1>1, <2>1, <2>2, ConsecutiveAppend
  <2> QED BY <1>0, <1>1, <1>2, <2>2, <2>3
<1>5. Gapless(t)
  BY <1>1, <1>4 DEF Good, Gapless
<1> QED BY <1>3, <1>4, <1>5 DEF Good, Fed

(* A subscription: the stream starts after the newest entry.                  *)
LEMMA SubscribeStep ==
    ASSUME NEW r, NEW t \in SessionType, NEW l \in Nat, Good(r, l), r.phase = "acked",
           t.phase = "subscribed", t.from = l, t.got = r.got, t.toFollower = r.toFollower,
           t.out = r.out, t.up = r.up, t.queue = r.queue
    PROVE  Good(t, l) /\ Fed(t, l)
<1>1. t.queue = <<>> /\ t.got = <<>> /\ t.out = <<>> /\ NoWal(t.toFollower)
      /\ t.toFollower \in Seq(Messages)
  BY DEF Good, Sound, Early, SessionType
<1>2. AllWals(t.toFollower) = 0 /\ AllWals(t.out) = 0 /\ Len(t.got) = 0 /\ Len(t.queue) = 0
  BY <1>1, NoWalCount, EmptyFacts
<1>3. Received(t) = l /\ SentUpTo(t) = l
  BY <1>2 DEF Received, SentUpTo
<1>4. Sound(t, l)
  BY <1>1 DEF Good, Sound, Early
<1>5. Gapless(t)
  <2>1. Consecutive(t.got, t.from) /\ Consecutive(t.queue, SentUpTo(t))
    BY <1>1, EmptyFacts
  <2>2. Positions(t.toFollower, Received(t))
    BY <1>1 DEF Positions, NoWal
  <2> QED BY <1>1, <2>1, <2>2 DEF Gapless
<1> QED BY <1>2, <1>3, <1>4, <1>5 DEF Good, Fed

(* The next entry of the queue is written.                                    *)
LEMMA ForwardStep ==
    ASSUME NEW r, NEW t \in SessionType, NEW l \in Nat, NEW m \in Messages, Good(r, l),
           r.out = <<>>, r.up, r.phase = "streaming", r.queue # <<>>,
           IsWal(m), m.lsn = Head(r.queue), Wrote(r, t, m), t.queue = Tail(r.queue),
           t.from = r.from, t.got = r.got, t.up = r.up, t.phase = r.phase
    PROVE  Good(t, l) /\ FedKept(r, t)
<1>0. /\ r \in SessionType /\ r.queue \in Seq(Nat) /\ Len(r.queue) \in Nat
      /\ SentUpTo(r) \in Nat /\ Consecutive(r.queue, SentUpTo(r))
      /\ \A i \in DOMAIN r.queue : r.queue[i] <= l
  BY SentUpToNat DEF Good, Sound, SessionType, Gapless, Subscribed
<1>1. Head(r.queue) = SentUpTo(r) + 1 /\ Consecutive(Tail(r.queue), SentUpTo(r) + 1)
  BY <1>0, ConsecutiveTail
<1>2. /\ Len(Tail(r.queue)) = Len(r.queue) - 1 /\ m.lsn <= l
      /\ \A i \in DOMAIN t.queue : t.queue[i] <= l
  <2>1. Head(r.queue) = r.queue[1] /\ 1 \in DOMAIN r.queue /\ Len(Tail(r.queue)) = Len(r.queue) - 1
    BY <1>0
  <2>2. m.lsn <= l
    BY <1>0, <2>1
  <2> QED BY <1>0, <2>1, <2>2, TailType
<1>3. /\ Len(t.toFollower) <= WireCapacity /\ Len(t.out) <= 1
      /\ UpTo(t.toFollower, l) /\ UpTo(t.out, l)
      /\ SentUpTo(t) = SentUpTo(r) + 1
      /\ Positions(t.toFollower, Received(t))
      /\ \A i \in DOMAIN t.out :
           IsWal(t.out[i]) => t.out[i].lsn = Received(t) + AllWals(t.toFollower) + 1
  BY <1>0, <1>1, <1>2, WroteGapless DEF Good
<1>4. Len(t.queue) <= QueueCapacity /\ Len(t.queue) \in Nat
  <2>1. Len(r.queue) <= QueueCapacity
    BY DEF Good, Sound
  <2>2. Len(t.queue) \in Nat /\ Len(t.queue) < Len(r.queue)
    BY <1>0, TailType
  <2> QED BY <1>0, <2>1, <2>2, ReplicationBounds
<1>5. Sound(t, l)
  BY <1>2, <1>3, <1>4 DEF Good, Sound, Early
<1>6. Gapless(t)
  BY <1>1, <1>3 DEF Good, Gapless, Received
<1>7. SentUpTo(t) + Len(t.queue) = SentUpTo(r) + Len(r.queue)
  BY <1>0, <1>2, <1>3
<1> QED BY <1>5, <1>6, <1>7 DEF Good, FedKept, Fed

(* The message a handler is writing.                                          *)
LEMMA Writing ==
    ASSUME NEW r, NEW l \in Nat, Sound(r, l), r.out # <<>>
    PROVE  /\ r.out[1] \in Messages /\ r.out[1].lsn <= l /\ 1 \in DOMAIN r.out
           /\ r.toFollower \o r.out = Append(r.toFollower, r.out[1])
           /\ AllWals(r.out) = IF IsWal(r.out[1]) THEN 1 ELSE 0
<1>0. r.out \in Seq(Messages) /\ r.toFollower \in Seq(Messages) /\ Len(r.out) <= 1
  BY DEF Sound, SessionType
<1>1. r.out \in Seq(Messages) /\ r.toFollower \in Seq(Messages) /\ Len(r.out) = 1
  <2>1. Len(r.out) \in Nat /\ Len(r.out) # 0
    BY <1>0
  <2>2. Len(r.out) <= 1
    BY <1>0
  <2>3. Len(r.out) = 1
    <3>1. \A n \in Nat : n # 0 /\ n <= 1 => n = 1
      OBVIOUS
    <3> QED BY <2>1, <2>2, <3>1
  <2> QED BY <1>0, <2>3
<1> DEFINE m == r.out[1]
<1>2. m \in Messages /\ 1 \in DOMAIN r.out /\ m.lsn <= l
  BY <1>1 DEF Sound, UpTo
<1>3. r.toFollower \o r.out = Append(r.toFollower, m)
  <2>1. r.out = <<m>>
    BY <1>1
  <2>2. m \in Messages
    BY <1>2
  <2> HIDE DEF m
  <2>3. Append(r.toFollower, m) = r.toFollower \o <<m>>
    BY <1>1, <2>2, AppendIsConcat
  <2> QED BY <2>1, <2>3
<1>4. r.out = Append(<<>>, m) /\ <<>> \in Seq(Messages)
  BY <1>1
<1>5. AllWals(Append(<<>>, m)) = IF IsWal(m) THEN AllWals(<<>>) + 1 ELSE AllWals(<<>>)
  BY <1>2, <1>4, WalsAppend
<1>6. AllWals(<<>>) = 0
  BY EmptyFacts
<1>7. AllWals(r.out) = IF IsWal(m) THEN 1 ELSE 0
  BY <1>4, <1>5, <1>6
<1> QED BY <1>2, <1>3, <1>7

LEMMA FinishWriteStep ==
    ASSUME NEW r, NEW t \in SessionType, NEW l \in Nat, Good(r, l),
           r.out # <<>>, r.up, Len(r.toFollower) < WireCapacity,
           t.toFollower = r.toFollower \o r.out, t.out = <<>>,
           t.from = r.from, t.got = r.got, t.up = r.up, t.phase = r.phase, t.queue = r.queue
    PROVE  Good(t, l) /\ FedKept(r, t)
<1> DEFINE m == r.out[1]
<1>0. /\ r \in SessionType /\ r.toFollower \in Seq(Messages) /\ Sound(r, l)
      /\ Len(r.toFollower) \in Nat
  BY DEF Good, Sound, SessionType
<1>1. /\ m \in Messages /\ m.lsn <= l /\ 1 \in DOMAIN r.out
      /\ t.toFollower = Append(r.toFollower, m)
      /\ AllWals(r.out) = IF IsWal(m) THEN 1 ELSE 0
  BY <1>0, Writing
<1>2. /\ Received(t) = Received(r) /\ Received(r) \in Nat /\ AllWals(r.toFollower) \in Nat
  BY <1>0, SentUpToNat DEF Received
<1>3. IsWal(m) => m.lsn = Received(r) + AllWals(r.toFollower) + 1
  BY <1>1 DEF Good, Gapless
<1>4. AllWals(t.toFollower) = IF IsWal(m) THEN AllWals(r.toFollower) + 1 ELSE AllWals(r.toFollower)
  BY <1>0, <1>1, WalsAppend
<1>5. AllWals(t.out) = 0
  BY EmptyFacts
<1>6. SentUpTo(t) = SentUpTo(r)
  <2>1. SentUpTo(t) = Received(r) + AllWals(t.toFollower) + 0
    BY <1>2, <1>5 DEF SentUpTo
  <2>2. SentUpTo(r) = Received(r) + AllWals(r.toFollower) + (IF IsWal(m) THEN 1 ELSE 0)
    BY <1>1 DEF SentUpTo
  <2> QED BY <1>2, <1>4, <2>1, <2>2
<1>7. Positions(t.toFollower, Received(t))
  BY <1>0, <1>1, <1>2, <1>3, PositionsAppend DEF Good, Gapless
<1>8. Len(t.toFollower) <= WireCapacity /\ UpTo(t.toFollower, l)
  BY <1>0, <1>1, ReplicationBounds DEF UpTo, Sound
<1>9. Sound(t, l)
  <2>1. r.phase \notin Early \cup {"subscribed"}
    BY <1>0 DEF Sound
  <2>2. Len(t.out) <= 1 /\ UpTo(t.out, l)
    BY EmptyFacts
  <2> QED BY <1>0, <1>8, <2>1, <2>2 DEF Sound, Early
<1>10. Gapless(t)
  BY <1>2, <1>6, <1>7 DEF Good, Gapless
<1> QED BY <1>6, <1>9, <1>10 DEF Good, FedKept, Fed

(* The follower takes an entry; it is the one after those it has.             *)
LEMMA ReceiveWalStep ==
    ASSUME NEW r, NEW t \in SessionType, NEW l \in Nat, Good(r, l),
           r.toFollower # <<>>, IsWal(Head(r.toFollower)),
           t.got = Append(r.got, Head(r.toFollower).lsn),
           t.toFollower = IF r.up THEN Tail(r.toFollower) ELSE <<>>,
           t.from = r.from, t.up = r.up, t.queue = r.queue, t.out = r.out, t.phase = r.phase
    PROVE  /\ Good(t, l) /\ FedKept(r, t)
           /\ Head(r.toFollower).lsn = Received(r) + 1 /\ Head(r.toFollower).lsn <= l
<1>0. /\ r \in SessionType /\ r.toFollower \in Seq(Messages) /\ r.got \in Seq(Nat) /\ r.from \in Nat
      /\ Len(r.got) \in Nat
  BY DEF Good, Sound, SessionType
<1>1. /\ Received(r) \in Nat /\ AllWals(r.toFollower) \in Nat /\ AllWals(r.out) \in Nat
      /\ Positions(r.toFollower, Received(r))
  BY <1>0, SentUpToNat DEF Good, Gapless
<1>2. /\ Head(r.toFollower).lsn = Received(r) + 1
      /\ Positions(Tail(r.toFollower), Received(r) + 1)
      /\ AllWals(r.toFollower) = AllWals(Tail(r.toFollower)) + 1
  BY <1>0, <1>1, PositionsTail
<1>3. Received(t) = Received(r) + 1 /\ Head(r.toFollower).lsn = r.from + Len(r.got) + 1
  BY <1>0, <1>2 DEF Received
<1>4. Consecutive(t.got, t.from)
  BY <1>0, <1>3, ConsecutiveAppend DEF Good, Gapless
<1>5. Positions(t.toFollower, Received(t))
  BY <1>2, <1>3, EmptyFacts
<1>6. Head(r.toFollower) = r.toFollower[1] /\ 1 \in DOMAIN r.toFollower
  BY <1>0
<1>7. /\ Head(r.toFollower).lsn <= l /\ r.phase \notin Early
      /\ Len(t.toFollower) <= WireCapacity /\ UpTo(t.toFollower, l)
  <2>1. Head(r.toFollower).lsn <= l /\ r.phase \notin Early
    BY <1>6 DEF Good, Sound, UpTo, NoWal
  <2>2. CASE r.up
    <3>1. /\ Len(t.toFollower) < Len(r.toFollower) /\ Len(t.toFollower) \in Nat /\ Len(r.toFollower) \in Nat
          /\ \A i \in DOMAIN t.toFollower :
               i + 1 \in DOMAIN r.toFollower /\ t.toFollower[i] = r.toFollower[i + 1]
      BY <1>0, <2>2, TailType
    <3>2. Len(r.toFollower) <= WireCapacity /\ UpTo(r.toFollower, l)
      BY DEF Good, Sound
    <3>3. Len(t.toFollower) <= WireCapacity
      BY <3>1, <3>2, ReplicationBounds
    <3> QED BY <2>1, <3>1, <3>2, <3>3 DEF UpTo
  <2>3. CASE ~r.up
    BY <2>1, <2>3, EmptyFacts, ReplicationBounds
  <2> QED BY <2>2, <2>3
<1>8. Sound(t, l)
  BY <1>7 DEF Good, Sound, Early
<1>9. CASE r.up
  <2>1. AllWals(Tail(r.toFollower)) \in Nat
    BY <1>0, TailType, AllWalsNat
  <2>2. SentUpTo(t) = SentUpTo(r)
    <3>1. SentUpTo(t) = Received(t) + AllWals(Tail(r.toFollower)) + AllWals(r.out)
      BY <1>9 DEF SentUpTo
    <3>2. SentUpTo(r) = Received(r) + AllWals(r.toFollower) + AllWals(r.out)
      BY DEF SentUpTo
    <3> QED BY <1>1, <1>2, <1>3, <2>1, <3>1, <3>2
  <2>3. Received(t) + AllWals(t.toFollower) + 1 = Received(r) + AllWals(r.toFollower) + 1
    BY <1>1, <1>2, <1>3, <1>9, <2>1
  <2>4. Gapless(t)
    BY <1>4, <1>5, <2>2, <2>3 DEF Good, Gapless
  <2> QED BY <1>2, <1>7, <1>8, <2>2, <2>4 DEF Good, FedKept, Fed
<1>10. CASE ~r.up
  <2>1. Gapless(t)
    BY <1>4, <1>5, <1>10 DEF Gapless
  <2> QED BY <1>2, <1>7, <1>8, <1>10, <2>1 DEF Good, FedKept, Fed
<1> QED BY <1>9, <1>10

-----------------------------------------------------------------------------
(* The ways in which a step changes a session r into t, whatever the action.  *)

Kept(r, t) == t.follower = r.follower /\ t.from = r.from /\ t.got = r.got

Registers(r, t) ==
    /\ t.phase = "streaming"
    /\ \/ r.phase = "snapshotting" /\ r.out = <<>>
       \/ r.phase = "subscribed" /\ ~(leader.graph /\ r.hsLsn = 0)
PlainMove(r, t) ==
    /\ Kept(r, t) /\ t.toFollower = r.toFollower /\ t.out = r.out /\ t.up = r.up /\ t.queue = r.queue
    /\ PhaseKept(r, t) \/ Registers(r, t)
    /\ t.phase = "done" => ~t.up
DownMove(r, t) ==
    /\ ~t.up /\ Kept(r, t)
    /\ t.toFollower \in {r.toFollower, <<>>} /\ t.out \in {r.out, <<>>}
    /\ t.queue \in {r.queue, <<>>} \/ (r.queue # <<>> /\ t.queue = Tail(r.queue))
    /\ PhaseKept(r, t)
RefuseMove(r, t, m) ==
    /\ r.phase = "accepted" /\ r.out = <<>> /\ m.kind = "Unauthorized" /\ m.lsn = 0
    /\ ~t.up /\ t.phase = "done" /\ Kept(r, t) /\ t.queue = r.queue /\ Wrote(r, t, m)
SentMove(r, t, m) ==
    /\ r.up /\ r.out = <<>> /\ Kept(r, t) /\ t.up = r.up /\ t.queue = r.queue /\ Wrote(r, t, m)
    /\ \/ /\ t.phase = "acked" /\ r.phase = "accepted" /\ r.follower \in Authorized
          /\ m.kind = "HandshakeAck" /\ m.lsn = 0
       \/ /\ t.phase = "snapshotting" /\ r.phase = "subscribed"
          /\ m.kind = "Snapshot" /\ m.lsn = lsn
       \/ /\ t.phase = "streaming" /\ r.phase = "streaming" /\ m.kind = "Heartbeat" /\ m.lsn = lsn
       \/ /\ t.phase = "exiting" /\ r.phase = "streaming" /\ m.kind = "Shutdown" /\ m.lsn = 0
TakeMove(r, t) ==
    /\ r.toFollower # <<>> /\ ~IsWal(Head(r.toFollower)) /\ t.toFollower = Tail(r.toFollower)
    /\ Kept(r, t) /\ t.up = r.up /\ t.queue = r.queue /\ t.out = r.out /\ t.phase = r.phase
DeliverMove(r, t) ==
    /\ r.phase # "done" /\ Len(r.queue) < QueueCapacity /\ t.queue = Append(r.queue, lsn)
    /\ Kept(r, t) /\ t.toFollower = r.toFollower /\ t.out = r.out /\ t.up = r.up /\ t.phase = r.phase
SubscribeMove(r, t) ==
    /\ r.phase = "acked" /\ t.phase = "subscribed" /\ t.from = lsn
    /\ t.follower = r.follower /\ t.got = r.got
    /\ t.toFollower = r.toFollower /\ t.out = r.out /\ t.up = r.up /\ t.queue = r.queue
ForwardMove(r, t, m) ==
    /\ r.out = <<>> /\ r.up /\ r.phase = "streaming" /\ r.queue # <<>>
    /\ IsWal(m) /\ m.lsn = Head(r.queue) /\ Wrote(r, t, m) /\ t.queue = Tail(r.queue)
    /\ Kept(r, t) /\ t.up = r.up /\ t.phase = r.phase
FinishMove(r, t) ==
    /\ r.out # <<>> /\ r.up /\ Len(r.toFollower) < WireCapacity
    /\ t.toFollower = r.toFollower \o r.out /\ t.out = <<>>
    /\ Kept(r, t) /\ t.up = r.up /\ t.phase = r.phase /\ t.queue = r.queue
ReceiveWalMove(r, t) ==
    /\ r.toFollower # <<>> /\ IsWal(Head(r.toFollower))
    /\ t.got = Append(r.got, Head(r.toFollower).lsn)
    /\ t.toFollower = IF r.up THEN Tail(r.toFollower) ELSE <<>>
    /\ t.follower = r.follower /\ t.from = r.from
    /\ t.up = r.up /\ t.queue = r.queue /\ t.out = r.out /\ t.phase = r.phase

(* What the leader has been, and is being, told: nothing new but n.           *)
Echoes(r, t, n) ==
    /\ \/ t.hsLsn = r.hsLsn
       \/ r.phase = "accepted" /\ r.toLeader # <<>> /\ t.hsLsn = Head(r.toLeader).lsn
    /\ \/ t.toLeader \in {r.toLeader, <<>>}
       \/ r.toLeader # <<>> /\ t.toLeader = Tail(r.toLeader)
       \/ /\ r.toFollower # <<>>
          /\ \E m \in Messages : m.lsn = n /\ t.toLeader = Append(r.toLeader, m)

LEMMA MessageType ==
    ASSUME NEW k \in Kinds, NEW n \in Nat
    PROVE  Message(k, n) \in Messages /\ Message(k, n).kind = k /\ Message(k, n).lsn = n
BY DEF Message, Messages

LEMMA AbandonHandshakeMoves ==
    ASSUME NEW s, session[s] \in SessionType, AbandonHandshake(s)
    PROVE  \E t \in SessionType : Becomes(s, t) /\ DownMove(session[s], t) /\ Echoes(session[s], t, 0)
<1> DEFINE r == session[s]
           e == <<>>
           t == [r EXCEPT !.phase = "done", !.queue = e, !.out = e, !.toLeader = e]
<1>0. e \in Seq(Nat) /\ e \in Seq(Messages)
  OBVIOUS
<1>3. Becomes(s, t) /\ ~r.up
  BY DEF AbandonHandshake
<1> HIDE DEF e
<1>1. t \in SessionType
  BY <1>0 DEF SessionType, Phases
<1>2. /\ t.follower = r.follower /\ t.phase = "done" /\ t.up = r.up /\ t.hsLsn = r.hsLsn
      /\ t.queue = e /\ t.out = e /\ t.toFollower = r.toFollower /\ t.toLeader = e
      /\ t.from = r.from /\ t.got = r.got
  BY DEF SessionType
<1> HIDE DEF t
<1>4. DownMove(r, t)
  BY <1>2, <1>3 DEF DownMove, Kept, PhaseKept, e
<1>5. Echoes(r, t, 0)
  BY <1>2 DEF Echoes, e
<1> QED BY <1>1, <1>3, <1>4, <1>5

LEMMA SubscribeMoves ==
    ASSUME NEW s, session[s] \in SessionType, Subscribe(s), lsn \in Nat
    PROVE  \E t \in SessionType : Becomes(s, t) /\ SubscribeMove(session[s], t) /\ Echoes(session[s], t, 0)
<1> DEFINE r == session[s]
           t == [r EXCEPT !.phase = "subscribed", !.from = lsn]
<1>1. t \in SessionType
  BY DEF SessionType, Phases
<1>2. /\ t.follower = r.follower /\ t.phase = "subscribed" /\ t.up = r.up /\ t.hsLsn = r.hsLsn
      /\ t.queue = r.queue /\ t.out = r.out /\ t.toFollower = r.toFollower /\ t.toLeader = r.toLeader
      /\ t.from = lsn /\ t.got = r.got
  BY DEF SessionType
<1>3. Becomes(s, t) /\ r.phase = "acked"
  BY DEF Subscribe
<1> HIDE DEF t
<1>4. SubscribeMove(r, t)
  BY <1>2, <1>3 DEF SubscribeMove
<1>5. Echoes(r, t, 0)
  BY <1>2 DEF Echoes
<1> QED BY <1>1, <1>3, <1>4, <1>5

LEMMA DeliverMoves ==
    ASSUME NEW s, session[s] \in SessionType, Deliver(s), lsn \in Nat
    PROVE  \E t \in SessionType : Becomes(s, t) /\ DeliverMove(session[s], t) /\ Echoes(session[s], t, 0)
<1> DEFINE r == session[s]
           q == Append(r.queue, lsn)
           t == [r EXCEPT !.queue = q]
<1>0. q \in Seq(Nat)
  BY DEF SessionType
<1>3. Becomes(s, t) /\ r.phase # "done" /\ Len(r.queue) < QueueCapacity
  BY DEF Deliver
<1> HIDE DEF q
<1>1. t \in SessionType
  BY <1>0 DEF SessionType
<1>2. /\ t.follower = r.follower /\ t.phase = r.phase /\ t.up = r.up /\ t.hsLsn = r.hsLsn
      /\ t.queue = q /\ t.out = r.out /\ t.toFollower = r.toFollower /\ t.toLeader = r.toLeader
      /\ t.from = r.from /\ t.got = r.got
  BY DEF SessionType
<1> HIDE DEF t
<1>4. DeliverMove(r, t)
  BY <1>2, <1>3 DEF DeliverMove, Kept, q
<1>5. Echoes(r, t, 0)
  BY <1>2 DEF Echoes
<1> QED BY <1>1, <1>3, <1>4, <1>5

LEMMA RegisterMoves ==
    ASSUME NEW s, session[s] \in SessionType, Register(s)
    PROVE  \E t \in SessionType : Becomes(s, t) /\ PlainMove(session[s], t) /\ Echoes(session[s], t, 0)
<1> DEFINE r == session[s]
           t == [r EXCEPT !.phase = "streaming"]
<1>1. t \in SessionType
  BY DEF SessionType, Phases
<1>2. /\ t.follower = r.follower /\ t.phase = "streaming" /\ t.up = r.up /\ t.hsLsn = r.hsLsn
      /\ t.queue = r.queue /\ t.out = r.out /\ t.toFollower = r.toFollower /\ t.toLeader = r.toLeader
      /\ t.from = r.from /\ t.got = r.got
  BY DEF SessionType
<1>3. Becomes(s, t)
  BY DEF Register
<1> HIDE DEF t
<1>4. PlainMove(r, t)
  BY <1>2 DEF PlainMove, Kept, Registers, Register, WantsSnapshot
<1>5. Echoes(r, t, 0)
  BY <1>2 DEF Echoes
<1> QED BY <1>1, <1>3, <1>4, <1>5

LEMMA ReceiveAckMoves ==
    ASSUME NEW s, session[s] \in SessionType, ReceiveAck(s)
    PROVE  \E t \in SessionType : Becomes(s, t) /\ PlainMove(session[s], t) /\ Echoes(session[s], t, 0)
<1> DEFINE r == session[s]
<1> DEFINE w == Tail(r.toLeader)
           t == [r EXCEPT !.toLeader = w]
<1>2. Becomes(s, t) /\ r.toLeader # <<>> /\ r.phase = "streaming"
  BY DEF ReceiveAck, Streaming
<1>4. w \in Seq(Messages)
  BY <1>2 DEF SessionType
<1> HIDE DEF w
<1>5. t \in SessionType
  BY <1>4 DEF SessionType, Phases
<1>6. /\ t.follower = r.follower /\ t.phase = r.phase /\ t.up = r.up /\ t.hsLsn = r.hsLsn
      /\ t.queue = r.queue /\ t.out = r.out /\ t.toFollower = r.toFollower /\ t.toLeader = w
      /\ t.from = r.from /\ t.got = r.got
  BY DEF SessionType
<1> HIDE DEF t
<1>7. PlainMove(r, t)
  BY <1>2, <1>6 DEF PlainMove, Kept, PhaseKept, w
<1>8. Echoes(r, t, 0)
  BY <1>2, <1>6 DEF Echoes, w
<1> QED BY <1>2, <1>5, <1>7, <1>8

LEMMA LeaveLoopMoves ==
    ASSUME NEW s, session[s] \in SessionType, LeaveLoop(s)
    PROVE  \E t \in SessionType : Becomes(s, t) /\ PlainMove(session[s], t) /\ Echoes(session[s], t, 0)
<1> DEFINE r == session[s]
<1> DEFINE t == [r EXCEPT !.phase = "exiting"]
<1>2. Becomes(s, t) /\ r.phase = "streaming"
  BY DEF LeaveLoop, Streaming
<1>5. t \in SessionType
  BY DEF SessionType, Phases
<1>6. /\ t.follower = r.follower /\ t.phase = "exiting" /\ t.up = r.up /\ t.hsLsn = r.hsLsn
      /\ t.queue = r.queue /\ t.out = r.out /\ t.toFollower = r.toFollower /\ t.toLeader = r.toLeader
      /\ t.from = r.from /\ t.got = r.got
  BY DEF SessionType
<1> HIDE DEF t
<1>7. PlainMove(r, t)
  BY <1>2, <1>6 DEF PlainMove, Kept, PhaseKept
<1>8. Echoes(r, t, 0)
  BY <1>2, <1>6 DEF Echoes
<1> QED BY <1>2, <1>5, <1>7, <1>8

LEMMA ExitHandlerMoves ==
    ASSUME NEW s, session[s] \in SessionType, ExitHandler(s)
    PROVE  \E t \in SessionType : Becomes(s, t) /\ DownMove(session[s], t) /\ Echoes(session[s], t, 0)
<1> DEFINE r == session[s]
<1> DEFINE e == <<>>
           t == [r EXCEPT !.phase = "done", !.up = FALSE, !.queue = e, !.toLeader = e]
<1>2. Becomes(s, t)
  BY DEF ExitHandler
<1>4. e \in Seq(Nat) /\ e \in Seq(Messages)
  BY <1>2 DEF SessionType
<1> HIDE DEF e
<1>5. t \in SessionType
  BY <1>4 DEF SessionType, Phases
<1>6. /\ t.follower = r.follower /\ t.phase = "done" /\ t.up = FALSE /\ t.hsLsn = r.hsLsn
      /\ t.queue = e /\ t.out = r.out /\ t.toFollower = r.toFollower /\ t.toLeader = e
      /\ t.from = r.from /\ t.got = r.got
  BY DEF SessionType
<1> HIDE DEF t
<1>7. DownMove(r, t)
  BY <1>2, <1>6 DEF DownMove, Kept, PhaseKept, e
<1>8. Echoes(r, t, 0)
  BY <1>2, <1>6 DEF Echoes, e
<1> QED BY <1>2, <1>5, <1>7, <1>8

LEMMA HeartbeatMoves ==
    ASSUME NEW s, session[s] \in SessionType, Heartbeat(s), lsn \in Nat
    PROVE  \E t \in SessionType : /\ Becomes(s, t) /\ Echoes(session[s], t, 0)
                                  /\ \/ DownMove(session[s], t)
                                     \/ \E m \in Messages : SentMove(session[s], t, m)
<1> DEFINE r == session[s]
<1>1. CASE r.up
  <2> DEFINE m == Message("Heartbeat", lsn)
             u == Sent(r, m)
             t == u
  <2>0. m \in Messages /\ m.kind = "Heartbeat" /\ m.lsn = lsn
    BY MessageType DEF Kinds
  <2>1. r.out = <<>> /\ r.up /\ r.phase = "streaming"
    BY <1>1 DEF Heartbeat, Streaming
  <2>2. Becomes(s, t)
    BY <1>1 DEF Heartbeat
  <2> HIDE DEF m
  <2>3. /\ u \in SessionType /\ Wrote(r, u, m)
        /\ u.follower = r.follower /\ u.phase = r.phase /\ u.up = r.up /\ u.hsLsn = r.hsLsn
        /\ u.queue = r.queue /\ u.toLeader = r.toLeader /\ u.from = r.from /\ u.got = r.got
    BY <2>0, <2>1, SentFields
  <2> HIDE DEF u
  <2>5. t \in SessionType
    BY <2>3 DEF SessionType, Phases
  <2>6. /\ t.follower = u.follower /\ t.phase = u.phase /\ t.up = u.up /\ t.hsLsn = u.hsLsn
        /\ t.queue = u.queue /\ t.out = u.out /\ t.toFollower = u.toFollower /\ t.toLeader = u.toLeader
        /\ t.from = u.from /\ t.got = u.got
    BY <2>3 DEF SessionType
  <2> HIDE DEF t
  <2>7. SentMove(r, t, m)
    BY <1>1, <2>0, <2>1, <2>3, <2>6 DEF SentMove, Kept, Wrote
  <2>8. Echoes(r, t, 0)
    BY <2>0, <2>1, <2>3, <2>6 DEF Echoes
  <2> QED BY <2>0, <2>2, <2>5, <2>7, <2>8
<1>2. CASE ~r.up
  <2> DEFINE t == [r EXCEPT !.phase = "exiting"]
  <2>2. Becomes(s, t) /\ ~r.up /\ r.phase = "streaming"
    BY <1>2 DEF Heartbeat, Streaming
  <2>5. t \in SessionType
    BY DEF SessionType, Phases
  <2>6. /\ t.follower = r.follower /\ t.phase = "exiting" /\ t.up = r.up /\ t.hsLsn = r.hsLsn
        /\ t.queue = r.queue /\ t.out = r.out /\ t.toFollower = r.toFollower /\ t.toLeader = r.toLeader
        /\ t.from = r.from /\ t.got = r.got
    BY DEF SessionType
  <2> HIDE DEF t
  <2>7. DownMove(r, t)
    BY <1>2, <2>2, <2>6 DEF DownMove, Kept, PhaseKept
  <2>8. Echoes(r, t, 0)
    BY <2>2, <2>6 DEF Echoes
  <2> QED BY <2>2, <2>5, <2>7, <2>8
<1> QED BY <1>1, <1>2

LEMMA LeaveOnShutdownMoves ==
    ASSUME NEW s, session[s] \in SessionType, LeaveOnShutdown(s), lsn \in Nat
    PROVE  \E t \in SessionType : /\ Becomes(s, t) /\ Echoes(session[s], t, 0)
                                  /\ \/ DownMove(session[s], t)
                                     \/ \E m \in Messages : SentMove(session[s], t, m)
<1> DEFINE r == session[s]
<1>1. CASE r.up
  <2> DEFINE m == Message("Shutdown", 0)
             u == Sent(r, m)
             t == [u EXCEPT !.phase = "exiting"]
  <2>0. m \in Messages /\ m.kind = "Shutdown" /\ m.lsn = 0
    BY MessageType DEF Kinds
  <2>1. r.out = <<>> /\ r.up /\ r.phase = "streaming"
    BY <1>1 DEF LeaveOnShutdown, Streaming
  <2>2. Becomes(s, t)
    BY <1>1 DEF LeaveOnShutdown
  <2> HIDE DEF m
  <2>3. /\ u \in SessionType /\ Wrote(r, u, m)
        /\ u.follower = r.follower /\ u.phase = r.phase /\ u.up = r.up /\ u.hsLsn = r.hsLsn
        /\ u.queue = r.queue /\ u.toLeader = r.toLeader /\ u.from = r.from /\ u.got = r.got
    BY <2>0, <2>1, SentFields
  <2> HIDE DEF u
  <2>5. t \in SessionType
    BY <2>3 DEF SessionType, Phases
  <2>6. /\ t.follower = u.follower /\ t.phase = "exiting" /\ t.up = u.up /\ t.hsLsn = u.hsLsn
        /\ t.queue = u.queue /\ t.out = u.out /\ t.toFollower = u.toFollower /\ t.toLeader = u.toLeader
        /\ t.from = u.from /\ t.got = u.got
    BY <2>3 DEF SessionType
  <2> HIDE DEF t
  <2>7. SentMove(r, t, m)
    BY <1>1, <2>0, <2>1, <2>3, <2>6 DEF SentMove, Kept, Wrote
  <2>8. Echoes(r, t, 0)
    BY <2>0, <2>1, <2>3, <2>6 DEF Echoes
  <2> QED BY <2>0, <2>2, <2>5, <2>7, <2>8
<1>2. CASE ~r.up
  <2> DEFINE t == [r EXCEPT !.phase = "exiting"]
  <2>2. Becomes(s, t) /\ ~r.up /\ r.phase = "streaming"
    BY <1>2 DEF LeaveOnShutdown, Streaming
  <2>5. t \in SessionType
    BY DEF SessionType, Phases
  <2>6. /\ t.follower = r.follower /\ t.phase = "exiting" /\ t.up = r.up /\ t.hsLsn = r.hsLsn
        /\ t.queue = r.queue /\ t.out = r.out /\ t.toFollower = r.toFollower /\ t.toLeader = r.toLeader
        /\ t.from = r.from /\ t.got = r.got
    BY DEF SessionType
  <2> HIDE DEF t
  <2>7. DownMove(r, t)
    BY <1>2, <2>2, <2>6 DEF DownMove, Kept, PhaseKept
  <2>8. Echoes(r, t, 0)
    BY <2>2, <2>6 DEF Echoes
  <2> QED BY <2>2, <2>5, <2>7, <2>8
<1> QED BY <1>1, <1>2

LEMMA SendSnapshotMoves ==
    ASSUME NEW s, session[s] \in SessionType, SendSnapshot(s), lsn \in Nat, Good(session[s], lsn)
    PROVE  \E t \in SessionType : /\ Becomes(s, t) /\ Echoes(session[s], t, 0)
                                  /\ \E m \in Messages : SentMove(session[s], t, m)
<1> DEFINE r == session[s]
<1> DEFINE m == Message("Snapshot", lsn)
           u == Sent(r, m)
           t == [u EXCEPT !.phase = "snapshotting"]
<1>0. m \in Messages /\ m.kind = "Snapshot" /\ m.lsn = lsn
  BY MessageType DEF Kinds
<1>1. r.out = <<>> /\ r.up /\ r.phase = "subscribed"
  BY DEF SendSnapshot, Good, Sound
<1>2. Becomes(s, t)
  BY DEF SendSnapshot
<1> HIDE DEF m
<1>3. /\ u \in SessionType /\ Wrote(r, u, m)
      /\ u.follower = r.follower /\ u.phase = r.phase /\ u.up = r.up /\ u.hsLsn = r.hsLsn
      /\ u.queue = r.queue /\ u.toLeader = r.toLeader /\ u.from = r.from /\ u.got = r.got
  BY <1>0, <1>1, SentFields
<1> HIDE DEF u
<1>5. t \in SessionType
  BY <1>3 DEF SessionType, Phases
<1>6. /\ t.follower = u.follower /\ t.phase = "snapshotting" /\ t.up = u.up /\ t.hsLsn = u.hsLsn
      /\ t.queue = u.queue /\ t.out = u.out /\ t.toFollower = u.toFollower /\ t.toLeader = u.toLeader
      /\ t.from = u.from /\ t.got = u.got
  BY <1>3 DEF SessionType
<1> HIDE DEF t
<1>7. SentMove(r, t, m)
  BY <1>0, <1>1, <1>3, <1>6 DEF SentMove, Kept, Wrote
<1>8. Echoes(r, t, 0)
  BY <1>0, <1>1, <1>3, <1>6 DEF Echoes
<1> QED BY <1>0, <1>2, <1>5, <1>7, <1>8

LEMMA AckHandshakeMoves ==
    ASSUME NEW s, session[s] \in SessionType, AckHandshake(s), lsn \in Nat, Good(session[s], lsn)
    PROVE  \E t \in SessionType : /\ Becomes(s, t) /\ Echoes(session[s], t, 0)
                                  /\ \/ \E m \in Messages : SentMove(session[s], t, m)
                                     \/ \E m \in Messages : RefuseMove(session[s], t, m)
                                     \/ DownMove(session[s], t)
<1> DEFINE r == session[s]
<1>1. CASE r.up /\ r.follower \in Authorized
  <2> DEFINE m == Message("HandshakeAck", 0)
             u == Sent(r, m)
             w == Tail(r.toLeader)
             h == Head(r.toLeader).lsn
             t == [u EXCEPT !.phase = "acked", !.hsLsn = h, !.toLeader = w]
  <2>0. m \in Messages /\ m.kind = "HandshakeAck" /\ m.lsn = 0
    BY MessageType DEF Kinds
  <2>1. r.out = <<>> /\ r.up /\ r.phase = "accepted" /\ r.toLeader # <<>>
    BY <1>1 DEF AckHandshake, Good, Sound, Early
  <2> HIDE DEF m
  <2>3. /\ u \in SessionType /\ Wrote(r, u, m)
        /\ u.follower = r.follower /\ u.phase = r.phase /\ u.up = r.up /\ u.hsLsn = r.hsLsn
        /\ u.queue = r.queue /\ u.toLeader = r.toLeader /\ u.from = r.from /\ u.got = r.got
    BY <2>0, <2>1, SentFields
  <2>2. Becomes(s, t)
    BY <1>1, <2>3 DEF AckHandshake, m
  <2> HIDE DEF u
  <2>4. w \in Seq(Messages) /\ h \in Nat
    <3>1. r.toLeader \in Seq(Messages)
      BY DEF SessionType
    <3>2. Head(r.toLeader) \in Messages /\ w \in Seq(Messages)
      BY <2>1, <3>1, TailType
    <3> QED BY <3>2 DEF Messages
  <2> HIDE DEF w, h
  <2>5. t \in SessionType
    BY <2>3, <2>4 DEF SessionType, Phases
  <2>6. /\ t.follower = u.follower /\ t.phase = "acked" /\ t.up = u.up /\ t.hsLsn = h
        /\ t.queue = u.queue /\ t.out = u.out /\ t.toFollower = u.toFollower /\ t.toLeader = w
        /\ t.from = u.from /\ t.got = u.got
    BY <2>3 DEF SessionType
  <2> HIDE DEF t
  <2>7. SentMove(r, t, m)
    BY <1>1, <2>0, <2>1, <2>3, <2>6 DEF SentMove, Kept, Wrote, w, h
  <2>8. Echoes(r, t, 0)
    BY <2>0, <2>1, <2>3, <2>6 DEF Echoes, w, h
  <2> QED BY <2>0, <2>2, <2>5, <2>7, <2>8
<1>2. CASE r.up /\ r.follower \notin Authorized
  <2> DEFINE m == Message("Unauthorized", 0)
             u == Sent(r, m)
             e == <<>>
             t == [u EXCEPT !.phase = "done", !.up = FALSE, !.toLeader = e]
  <2>0. m \in Messages /\ m.kind = "Unauthorized" /\ m.lsn = 0
    BY MessageType DEF Kinds
  <2>1. r.out = <<>> /\ r.up /\ r.phase = "accepted"
    BY <1>2 DEF AckHandshake, Good, Sound, Early
  <2>2. Becomes(s, t)
    BY <1>2 DEF AckHandshake
  <2> HIDE DEF m
  <2>3. /\ u \in SessionType /\ Wrote(r, u, m)
        /\ u.follower = r.follower /\ u.phase = r.phase /\ u.up = r.up /\ u.hsLsn = r.hsLsn
        /\ u.queue = r.queue /\ u.toLeader = r.toLeader /\ u.from = r.from /\ u.got = r.got
    BY <2>0, <2>1, SentFields
  <2> HIDE DEF u
  <2>4. e \in Seq(Messages)
    BY <2>2, <2>1 DEF SessionType
  <2> HIDE DEF e
  <2>5. t \in SessionType
    BY <2>3, <2>4 DEF SessionType, Phases
  <2>6. /\ t.follower = u.follower /\ t.phase = "done" /\ t.up = FALSE /\ t.hsLsn = u.hsLsn
        /\ t.queue = u.queue /\ t.out = u.out /\ t.toFollower = u.toFollower /\ t.toLeader = e
        /\ t.from = u.from /\ t.got = u.got
    BY <2>3 DEF SessionType
  <2> HIDE DEF t
  <2>7. RefuseMove(r, t, m)
    BY <1>2, <2>0, <2>1, <2>3, <2>6 DEF RefuseMove, Kept, Wrote, e
  <2>8. Echoes(r, t, 0)
    BY <2>0, <2>1, <2>3, <2>6 DEF Echoes, e
  <2> QED BY <2>0, <2>2, <2>5, <2>7, <2>8
<1>3. CASE ~r.up
  <2> DEFINE e == <<>>
             t == [r EXCEPT !.phase = "done", !.up = FALSE, !.toLeader = e]
  <2>2. Becomes(s, t) /\ ~r.up
    BY <1>3 DEF AckHandshake
  <2>4. e \in Seq(Messages)
    BY <2>2 DEF SessionType
  <2> HIDE DEF e
  <2>5. t \in SessionType
    BY <2>4 DEF SessionType, Phases
  <2>6. /\ t.follower = r.follower /\ t.phase = "done" /\ t.up = FALSE /\ t.hsLsn = r.hsLsn
        /\ t.queue = r.queue /\ t.out = r.out /\ t.toFollower = r.toFollower /\ t.toLeader = e
        /\ t.from = r.from /\ t.got = r.got
    BY DEF SessionType
  <2> HIDE DEF t
  <2>7. DownMove(r, t)
    BY <1>3, <2>2, <2>6 DEF DownMove, Kept, PhaseKept, e
  <2>8. Echoes(r, t, 0)
    BY <2>2, <2>6 DEF Echoes, e
  <2> QED BY <2>2, <2>5, <2>7, <2>8
<1> QED BY <1>1, <1>2, <1>3

LEMMA ForwardWalMoves ==
    ASSUME NEW s, session[s] \in SessionType, ForwardWal(s)
    PROVE  \E t \in SessionType : /\ Becomes(s, t) /\ Echoes(session[s], t, 0)
                                  /\ \/ \E m \in Messages : ForwardMove(session[s], t, m)
                                     \/ DownMove(session[s], t)
<1> DEFINE r == session[s]
<1>1. CASE r.up
  <2> DEFINE m == Message("WalEntry", Head(r.queue))
             u == Sent(r, m)
             q == Tail(r.queue)
             t == [u EXCEPT !.queue = q]
  <2>0. m \in Messages /\ m.kind = "WalEntry" /\ m.lsn = Head(r.queue)
    BY MessageType, TailType DEF Kinds, SessionType, ForwardWal
  <2>1. r.out = <<>> /\ r.up /\ r.phase = "streaming" /\ r.queue # <<>>
    BY <1>1 DEF ForwardWal, Streaming
  <2> HIDE DEF m
  <2>3. /\ u \in SessionType /\ Wrote(r, u, m)
        /\ u.follower = r.follower /\ u.phase = r.phase /\ u.up = r.up /\ u.hsLsn = r.hsLsn
        /\ u.queue = r.queue /\ u.toLeader = r.toLeader /\ u.from = r.from /\ u.got = r.got
    BY <2>0, <2>1, SentFields
  <2>2. Becomes(s, t)
    BY <1>1, <2>3 DEF ForwardWal, m
  <2> HIDE DEF u
  <2>4. q \in Seq(Nat)
    BY <2>2, <2>1, TailType DEF SessionType
  <2> HIDE DEF q
  <2>5. t \in SessionType
    BY <2>3, <2>4 DEF SessionType, Phases
  <2>6. /\ t.follower = u.follower /\ t.phase = u.phase /\ t.up = u.up /\ t.hsLsn = u.hsLsn
        /\ t.queue = q /\ t.out = u.out /\ t.toFollower = u.toFollower /\ t.toLeader = u.toLeader
        /\ t.from = u.from /\ t.got = u.got
    BY <2>3 DEF SessionType
  <2> HIDE DEF t
  <2>7. ForwardMove(r, t, m)
    BY <1>1, <2>0, <2>1, <2>3, <2>6 DEF ForwardMove, Kept, Wrote, IsWal, q
  <2>8. Echoes(r, t, 0)
    BY <2>0, <2>1, <2>3, <2>6 DEF Echoes, q
  <2> QED BY <2>0, <2>2, <2>5, <2>7, <2>8
<1>2. CASE ~r.up
  <2> DEFINE q == Tail(r.queue)
             t == [r EXCEPT !.phase = "exiting", !.queue = q]
  <2>2. Becomes(s, t) /\ ~r.up /\ r.queue # <<>> /\ r.phase = "streaming"
    BY <1>2 DEF ForwardWal, Streaming
  <2>4. q \in Seq(Nat)
    BY <2>2, TailType DEF SessionType
  <2> HIDE DEF q
  <2>5. t \in SessionType
    BY <2>4 DEF SessionType, Phases
  <2>6. /\ t.follower = r.follower /\ t.phase = "exiting" /\ t.up = r.up /\ t.hsLsn = r.hsLsn
        /\ t.queue = q /\ t.out = r.out /\ t.toFollower = r.toFollower /\ t.toLeader = r.toLeader
        /\ t.from = r.from /\ t.got = r.got
    BY DEF SessionType
  <2> HIDE DEF t
  <2>7. DownMove(r, t)
    BY <1>2, <2>2, <2>6 DEF DownMove, Kept, PhaseKept, q
  <2>8. Echoes(r, t, 0)
    BY <2>2, <2>6 DEF Echoes, q
  <2> QED BY <2>2, <2>5, <2>7, <2>8
<1> QED BY <1>1, <1>2

LEMMA FinishWriteMoves ==
    ASSUME NEW s, session[s] \in SessionType, FinishWrite(s)
    PROVE  \E t \in SessionType : /\ Becomes(s, t) /\ Echoes(session[s], t, 0)
                                  /\ \/ FinishMove(session[s], t)
                                     \/ DownMove(session[s], t)
<1> DEFINE r == session[s]
<1>1. CASE r.up
  <2> DEFINE w == r.toFollower \o r.out
             e == <<>>
             t == [r EXCEPT !.toFollower = w, !.out = e]
  <2>2. Becomes(s, t) /\ r.up /\ r.out # <<>> /\ Len(r.toFollower) < WireCapacity
    BY <1>1 DEF FinishWrite
  <2>4. w \in Seq(Messages) /\ e \in Seq(Messages)
    BY <2>2 DEF SessionType
  <2> HIDE DEF w, e
  <2>5. t \in SessionType
    BY <2>4 DEF SessionType, Phases
  <2>6. /\ t.follower = r.follower /\ t.phase = r.phase /\ t.up = r.up /\ t.hsLsn = r.hsLsn
        /\ t.queue = r.queue /\ t.out = e /\ t.toFollower = w /\ t.toLeader = r.toLeader
        /\ t.from = r.from /\ t.got = r.got
    BY DEF SessionType
  <2> HIDE DEF t
  <2>7. FinishMove(r, t)
    BY <1>1, <2>2, <2>6 DEF FinishMove, Kept, w, e
  <2>8. Echoes(r, t, 0)
    BY <2>2, <2>6 DEF Echoes, w, e
  <2> QED BY <2>2, <2>5, <2>7, <2>8
<1>2. CASE ~r.up /\ r.phase = "snapshotting"
  <2> DEFINE e == <<>>
             t == [r EXCEPT !.out = e, !.phase = "done", !.queue = e]
  <2>2. Becomes(s, t) /\ ~r.up
    BY <1>2 DEF FinishWrite
  <2>4. e \in Seq(Nat) /\ e \in Seq(Messages)
    BY <2>2 DEF SessionType
  <2> HIDE DEF e
  <2>5. t \in SessionType
    BY <2>4 DEF SessionType, Phases
  <2>6. /\ t.follower = r.follower /\ t.phase = "done" /\ t.up = r.up /\ t.hsLsn = r.hsLsn
        /\ t.queue = e /\ t.out = e /\ t.toFollower = r.toFollower /\ t.toLeader = r.toLeader
        /\ t.from = r.from /\ t.got = r.got
    BY DEF SessionType
  <2> HIDE DEF t
  <2>7. DownMove(r, t)
    BY <1>2, <2>2, <2>6 DEF DownMove, Kept, PhaseKept, e
  <2>8. Echoes(r, t, 0)
    BY <2>2, <2>6 DEF Echoes, e
  <2> QED BY <2>2, <2>5, <2>7, <2>8
<1>3. CASE ~r.up /\ r.phase # "snapshotting"
  <2> DEFINE e == <<>>
             t == [r EXCEPT !.out = e, !.phase = "exiting"]
  <2>2. Becomes(s, t) /\ ~r.up /\ r.out # <<>>
    BY <1>3 DEF FinishWrite
  <2>4. e \in Seq(Messages)
    BY <2>2 DEF SessionType
  <2> HIDE DEF e
  <2>5. t \in SessionType
    BY <2>4 DEF SessionType, Phases
  <2>6. /\ t.follower = r.follower /\ t.phase = "exiting" /\ t.up = r.up /\ t.hsLsn = r.hsLsn
        /\ t.queue = r.queue /\ t.out = e /\ t.toFollower = r.toFollower /\ t.toLeader = r.toLeader
        /\ t.from = r.from /\ t.got = r.got
    BY DEF SessionType
  <2> HIDE DEF t
  <2>7. DownMove(r, t)
    BY <1>3, <2>2, <2>6 DEF DownMove, Kept, PhaseKept, e
  <2>8. Echoes(r, t, 0)
    BY <2>2, <2>6 DEF Echoes, e
  <2> QED BY <2>2, <2>5, <2>7, <2>8
<1> QED BY <1>1, <1>2, <1>3

LEMMA BreakMoves ==
    ASSUME NEW s, session[s] \in SessionType, Break(s)
    PROVE  \E t \in SessionType : Becomes(s, t) /\ DownMove(session[s], t) /\ Echoes(session[s], t, 0)
<1> DEFINE r == session[s]
<1>1. CASE Becomes(s, [r EXCEPT !.up = FALSE])
  <2> DEFINE t == [r EXCEPT !.up = FALSE]
  <2>2. Becomes(s, t)
    BY <1>1 DEF Break
  <2>5. t \in SessionType
    BY DEF SessionType, Phases
  <2>6. /\ t.follower = r.follower /\ t.phase = r.phase /\ t.up = FALSE /\ t.hsLsn = r.hsLsn
        /\ t.queue = r.queue /\ t.out = r.out /\ t.toFollower = r.toFollower /\ t.toLeader = r.toLeader
        /\ t.from = r.from /\ t.got = r.got
    BY DEF SessionType
  <2> HIDE DEF t
  <2>7. DownMove(r, t)
    BY <1>1, <2>2, <2>6 DEF DownMove, Kept, PhaseKept
  <2>8. Echoes(r, t, 0)
    BY <2>2, <2>6 DEF Echoes
  <2> QED BY <2>2, <2>5, <2>7, <2>8
<1>2. CASE Becomes(s, [r EXCEPT !.up = FALSE, !.toFollower = <<>>, !.toLeader = <<>>])
  <2> DEFINE e == <<>>
             t == [r EXCEPT !.up = FALSE, !.toFollower = e, !.toLeader = e]
  <2>2. Becomes(s, t)
    BY <1>2 DEF Break
  <2>4. e \in Seq(Messages)
    BY <2>2 DEF SessionType
  <2> HIDE DEF e
  <2>5. t \in SessionType
    BY <2>4 DEF SessionType, Phases
  <2>6. /\ t.follower = r.follower /\ t.phase = r.phase /\ t.up = FALSE /\ t.hsLsn = r.hsLsn
        /\ t.queue = r.queue /\ t.out = r.out /\ t.toFollower = e /\ t.toLeader = e
        /\ t.from = r.from /\ t.got = r.got
    BY DEF SessionType
  <2> HIDE DEF t
  <2>7. DownMove(r, t)
    BY <1>2, <2>2, <2>6 DEF DownMove, Kept, PhaseKept, e
  <2>8. Echoes(r, t, 0)
    BY <2>2, <2>6 DEF Echoes, e
  <2> QED BY <2>2, <2>5, <2>7, <2>8
<1> QED BY <1>1, <1>2 DEF Break

LEMMA LostMoves ==
    ASSUME NEW s, session[s] \in SessionType, Becomes(s, [session[s] EXCEPT !.up = FALSE, !.toFollower = <<>>])
    PROVE  \E t \in SessionType : Becomes(s, t) /\ DownMove(session[s], t) /\ Echoes(session[s], t, 0)
<1> DEFINE r == session[s]
<1> DEFINE e == <<>>
           t == [r EXCEPT !.up = FALSE, !.toFollower = e]
<1>2. Becomes(s, t)
  OBVIOUS
<1>4. e \in Seq(Messages)
  BY <1>2 DEF SessionType
<1> HIDE DEF e
<1>5. t \in SessionType
  BY <1>4 DEF SessionType, Phases
<1>6. /\ t.follower = r.follower /\ t.phase = r.phase /\ t.up = FALSE /\ t.hsLsn = r.hsLsn
      /\ t.queue = r.queue /\ t.out = r.out /\ t.toFollower = e /\ t.toLeader = r.toLeader
      /\ t.from = r.from /\ t.got = r.got
  BY DEF SessionType
<1> HIDE DEF t
<1>7. DownMove(r, t)
  BY <1>2, <1>6 DEF DownMove, Kept, PhaseKept, e
<1>8. Echoes(r, t, 0)
  BY <1>2, <1>6 DEF Echoes, e
<1> QED BY <1>2, <1>5, <1>7, <1>8

LEMMA TakeMoves ==
    ASSUME NEW s, session[s] \in SessionType, Take(s), session[s].toFollower # <<>>,
           ~IsWal(Head(session[s].toFollower))
    PROVE  \E t \in SessionType : Becomes(s, t) /\ TakeMove(session[s], t) /\ Echoes(session[s], t, 0)
<1> DEFINE r == session[s]
<1> DEFINE w == Tail(r.toFollower)
           t == [r EXCEPT !.toFollower = w]
<1>2. Becomes(s, t) /\ r.toFollower # <<>>
  BY DEF Take
<1>4. w \in Seq(Messages)
  BY <1>2, TailType DEF SessionType
<1> HIDE DEF w
<1>5. t \in SessionType
  BY <1>4 DEF SessionType, Phases
<1>6. /\ t.follower = r.follower /\ t.phase = r.phase /\ t.up = r.up /\ t.hsLsn = r.hsLsn
      /\ t.queue = r.queue /\ t.out = r.out /\ t.toFollower = w /\ t.toLeader = r.toLeader
      /\ t.from = r.from /\ t.got = r.got
  BY DEF SessionType
<1> HIDE DEF t
<1>7. TakeMove(r, t)
  BY <1>2, <1>6 DEF TakeMove, Kept, w
<1>8. Echoes(r, t, 0)
  BY <1>2, <1>6 DEF Echoes, w
<1> QED BY <1>2, <1>5, <1>7, <1>8

LEMMA ReplyMoves ==
    ASSUME NEW s, session[s] \in SessionType, NEW m \in Messages,
           session[s].toFollower # <<>>, ~IsWal(Head(session[s].toFollower)), Becomes(s, Replied(session[s], m))
    PROVE  \E t \in SessionType : /\ Becomes(s, t) /\ Echoes(session[s], t, m.lsn)
                                  /\ \/ TakeMove(session[s], t)
                                     \/ DownMove(session[s], t)
<1> DEFINE r == session[s]
<1>1. CASE r.up
  <2> DEFINE w == Tail(r.toFollower)
             a == Append(r.toLeader, m)
             t == [r EXCEPT !.toFollower = w, !.toLeader = a]
  <2>2. Becomes(s, t) /\ r.toFollower # <<>>
    BY <1>1 DEF Replied
  <2>4. w \in Seq(Messages) /\ a \in Seq(Messages)
    BY <2>2, TailType DEF SessionType
  <2> HIDE DEF w, a
  <2>5. t \in SessionType
    BY <2>4 DEF SessionType, Phases
  <2>6. /\ t.follower = r.follower /\ t.phase = r.phase /\ t.up = r.up /\ t.hsLsn = r.hsLsn
        /\ t.queue = r.queue /\ t.out = r.out /\ t.toFollower = w /\ t.toLeader = a
        /\ t.from = r.from /\ t.got = r.got
    BY DEF SessionType
  <2> HIDE DEF t
  <2>7. TakeMove(r, t)
    BY <1>1, <2>2, <2>6 DEF TakeMove, Kept, w, a
  <2>8. Echoes(r, t, m.lsn)
    BY <2>2, <2>6 DEF Echoes, w, a
  <2> QED BY <2>2, <2>5, <2>7, <2>8
<1>2. CASE ~r.up
  <2> DEFINE e == <<>>
             t == [r EXCEPT !.toFollower = e]
  <2>2. Becomes(s, t) /\ ~r.up
    BY <1>2 DEF Replied
  <2>4. e \in Seq(Messages)
    BY <2>2 DEF SessionType
  <2> HIDE DEF e
  <2>5. t \in SessionType
    BY <2>4 DEF SessionType, Phases
  <2>6. /\ t.follower = r.follower /\ t.phase = r.phase /\ t.up = r.up /\ t.hsLsn = r.hsLsn
        /\ t.queue = r.queue /\ t.out = r.out /\ t.toFollower = e /\ t.toLeader = r.toLeader
        /\ t.from = r.from /\ t.got = r.got
    BY DEF SessionType
  <2> HIDE DEF t
  <2>7. DownMove(r, t)
    BY <1>2, <2>2, <2>6 DEF DownMove, Kept, PhaseKept, e
  <2>8. Echoes(r, t, m.lsn)
    BY <2>2, <2>6 DEF Echoes, e
  <2> QED BY <2>2, <2>5, <2>7, <2>8
<1> QED BY <1>1, <1>2

LEMMA ReceiveWalMoves ==
    ASSUME NEW s, session[s] \in SessionType, NEW m \in Messages, NEW l \in Nat, l = Head(session[s].toFollower).lsn,
           session[s].toFollower # <<>>, IsWal(Head(session[s].toFollower)),
           Becomes(s, [Replied(session[s], m) EXCEPT !.got = Append(@, l)])
    PROVE  \E t \in SessionType : Becomes(s, t) /\ ReceiveWalMove(session[s], t) /\ Echoes(session[s], t, m.lsn)
<1> DEFINE r == session[s]
<1>1. CASE r.up
  <2> DEFINE w == Tail(r.toFollower)
             a == Append(r.toLeader, m)
             g == Append(r.got, l)
             t == [r EXCEPT !.toFollower = w, !.toLeader = a, !.got = g]
  <2>2. Becomes(s, t) /\ r.toFollower # <<>>
    BY <1>1 DEF Replied, SessionType
  <2>4. w \in Seq(Messages) /\ a \in Seq(Messages) /\ g \in Seq(Nat)
    BY <2>2, TailType DEF SessionType
  <2> HIDE DEF w, a, g
  <2>5. t \in SessionType
    BY <2>4 DEF SessionType, Phases
  <2>6. /\ t.follower = r.follower /\ t.phase = r.phase /\ t.up = r.up /\ t.hsLsn = r.hsLsn
        /\ t.queue = r.queue /\ t.out = r.out /\ t.toFollower = w /\ t.toLeader = a
        /\ t.from = r.from /\ t.got = g
    BY DEF SessionType
  <2> HIDE DEF t
  <2>7. ReceiveWalMove(r, t)
    BY <1>1, <2>2, <2>6 DEF ReceiveWalMove, Kept, w, a, g
  <2>8. Echoes(r, t, m.lsn)
    BY <2>2, <2>6 DEF Echoes, w, a, g
  <2> QED BY <2>2, <2>5, <2>7, <2>8
<1>2. CASE ~r.up
  <2> DEFINE e == <<>>
             g == Append(r.got, l)
             t == [r EXCEPT !.toFollower = e, !.got = g]
  <2>2. Becomes(s, t) /\ ~r.up
    BY <1>2 DEF Replied, SessionType
  <2>4. e \in Seq(Messages) /\ g \in Seq(Nat)
    BY <2>2 DEF SessionType
  <2> HIDE DEF e, g
  <2>5. t \in SessionType
    BY <2>4 DEF SessionType, Phases
  <2>6. /\ t.follower = r.follower /\ t.phase = r.phase /\ t.up = r.up /\ t.hsLsn = r.hsLsn
        /\ t.queue = r.queue /\ t.out = r.out /\ t.toFollower = e /\ t.toLeader = r.toLeader
        /\ t.from = r.from /\ t.got = g
    BY DEF SessionType
  <2> HIDE DEF t
  <2>7. ReceiveWalMove(r, t)
    BY <1>2, <2>2, <2>6 DEF ReceiveWalMove, e, g
  <2>8. Echoes(r, t, m.lsn)
    BY <2>2, <2>6 DEF Echoes, e, g
  <2> QED BY <2>2, <2>5, <2>7, <2>8
<1> QED BY <1>1, <1>2

-----------------------------------------------------------------------------
(* What all these steps keep.                                                 *)

StreamMove(r, t) ==
    \/ PlainMove(r, t) \/ DownMove(r, t) \/ TakeMove(r, t) \/ FinishMove(r, t) \/ ReceiveWalMove(r, t)
    \/ \E m \in Messages : RefuseMove(r, t, m) \/ SentMove(r, t, m) \/ ForwardMove(r, t, m)

Grows(q, p) == \A i \in DOMAIN q : \E j \in DOMAIN p : p[j] = q[i]

LEMMA RefuseStep ==
    ASSUME NEW r, NEW t \in SessionType, NEW l \in Nat, NEW m \in Messages, Good(r, l),
           RefuseMove(r, t, m)
    PROVE  Good(t, l) /\ FedKept(r, t)
<1>1. r.toFollower = <<>> /\ r.queue = <<>> /\ r.got = <<>> /\ r.from <= l
  BY DEF Good, Sound, RefuseMove, Early
<1>2. Len(r.toFollower) < WireCapacity
  BY <1>1, ReplicationBounds
<1>3. t.toFollower = <<m>> /\ t.out = <<>> /\ t.queue = <<>> /\ t.got = <<>> /\ t.from = r.from
  BY <1>1, <1>2 DEF RefuseMove, Wrote, Kept
<1>4. ~t.up /\ t.phase = "done" /\ ~IsWal(m) /\ m.lsn <= l
  BY DEF RefuseMove, IsWal
<1>5. Len(t.toFollower) <= WireCapacity
  BY <1>3, ReplicationBounds
<1>6. UpTo(t.toFollower, l) /\ Positions(t.toFollower, Received(t))
  BY <1>3, <1>4 DEF UpTo, Positions
<1>7. UpTo(t.out, l) /\ Len(t.out) <= 1 /\ Len(t.queue) <= QueueCapacity /\ Consecutive(t.got, t.from)
      /\ \A i \in DOMAIN t.queue : t.queue[i] <= l
  BY <1>3, EmptyFacts, ReplicationBounds
<1>8. Sound(t, l)
  BY <1>1, <1>3, <1>4, <1>5, <1>6, <1>7 DEF Sound, Early
<1>9. Gapless(t)
  BY <1>4, <1>6, <1>7 DEF Gapless
<1> QED BY <1>4, <1>8, <1>9 DEF Good, FedKept, Fed

LEMMA MoveGood ==
    ASSUME NEW r, NEW t \in SessionType, lsn \in Nat, Good(r, lsn), StreamMove(r, t)
    PROVE  /\ Good(t, lsn) /\ FedKept(r, t) /\ t.follower = r.follower
           /\ t.phase \in Early => r.phase \in Early
           /\ Grows(r.got, t.got)
<1>0. r \in SessionType /\ r.got \in Seq(Nat)
  BY DEF Good, Sound, SessionType
<1>1. CASE PlainMove(r, t)
  <2>1. PhaseKept(r, t) \/ (t.phase = "streaming" /\ r.phase \in Subscribed)
    BY <1>1 DEF PlainMove, Registers, Subscribed
  <2>2. Good(t, lsn) /\ FedKept(r, t)
    BY <1>1, <2>1, PlainStep DEF PlainMove, Kept
  <2> QED BY <1>1, <2>1, <2>2 DEF PlainMove, Kept, Grows, PhaseKept, Early
<1>2. CASE DownMove(r, t)
  <2>1. Good(t, lsn) /\ FedKept(r, t)
    BY <1>2, DownStep DEF DownMove, Kept
  <2> QED BY <1>2, <2>1 DEF DownMove, Kept, Grows, PhaseKept, Early
<1>3. CASE TakeMove(r, t)
  <2>1. Good(t, lsn) /\ FedKept(r, t)
    BY <1>3, TakeStep DEF TakeMove, Kept
  <2> QED BY <1>3, <2>1 DEF TakeMove, Kept, Grows
<1>4. CASE FinishMove(r, t)
  <2>1. Good(t, lsn) /\ FedKept(r, t)
    BY <1>4, FinishWriteStep DEF FinishMove, Kept
  <2> QED BY <1>4, <2>1 DEF FinishMove, Kept, Grows
<1>5. CASE ReceiveWalMove(r, t)
  <2>1. Good(t, lsn) /\ FedKept(r, t)
    BY <1>5, ReceiveWalStep DEF ReceiveWalMove
  <2>2. t.got = Append(r.got, Head(r.toFollower).lsn) /\ t.follower = r.follower /\ t.phase = r.phase
    BY <1>5 DEF ReceiveWalMove
  <2>3. Grows(r.got, t.got)
    <3>1. \A i \in DOMAIN r.got : i \in DOMAIN t.got /\ t.got[i] = r.got[i]
      BY <1>0, <2>2
    <3> QED BY <3>1 DEF Grows
  <2> QED BY <2>1, <2>2, <2>3
<1>6. ASSUME NEW m \in Messages, RefuseMove(r, t, m)
      PROVE  /\ Good(t, lsn) /\ FedKept(r, t) /\ t.follower = r.follower
             /\ t.phase \in Early => r.phase \in Early
             /\ Grows(r.got, t.got)
  <2>1. Good(t, lsn) /\ FedKept(r, t)
    BY <1>6, RefuseStep
  <2> QED BY <1>6, <2>1 DEF RefuseMove, Kept, Grows, Early
<1>7. ASSUME NEW m \in Messages, SentMove(r, t, m)
      PROVE  /\ Good(t, lsn) /\ FedKept(r, t) /\ t.follower = r.follower
             /\ t.phase \in Early => r.phase \in Early
             /\ Grows(r.got, t.got)
  <2>1. ~IsWal(m) /\ m.lsn <= lsn
    BY <1>7 DEF SentMove, IsWal
  <2>2. Good(t, lsn) /\ FedKept(r, t)
    BY <1>7, <2>1, SentStep DEF SentMove, Kept
  <2> QED BY <1>7, <2>2 DEF SentMove, Kept, Grows, Early
<1>8. ASSUME NEW m \in Messages, ForwardMove(r, t, m)
      PROVE  /\ Good(t, lsn) /\ FedKept(r, t) /\ t.follower = r.follower
             /\ t.phase \in Early => r.phase \in Early
             /\ Grows(r.got, t.got)
  <2>1. Good(t, lsn) /\ FedKept(r, t)
    BY <1>8, ForwardStep DEF ForwardMove, Kept
  <2> QED BY <1>8, <2>1 DEF ForwardMove, Kept, Grows
<1> QED BY <1>1, <1>2, <1>3, <1>4, <1>5, <1>6, <1>7, <1>8 DEF StreamMove

(* A follower has never received less than before.                            *)
LEMMA GotByGrows ==
    ASSUME session \in Seq(SessionType), NEW s \in Sessions, NEW t \in SessionType, Becomes(s, t),
           t.follower = session[s].follower, Grows(session[s].got, t.got), NEW f
    PROVE  GotBy(f) \subseteq GotBy(f)'
<1>1. /\ Sessions' = Sessions /\ session'[s] = t
      /\ \A u \in Sessions \ {s} : session'[u] = session[u]
  BY SessionMoves
<1>2. ASSUME NEW l \in Nat, NEW u \in Sessions, session[u].follower = f,
             NEW i \in DOMAIN session[u].got, session[u].got[i] = l
      PROVE  \E v \in Sessions' : session'[v].follower = f /\
                \E j \in DOMAIN session'[v].got : session'[v].got[j] = l
  <2>1. CASE u = s
    BY <1>1, <1>2, <2>1 DEF Grows
  <2>2. CASE u # s
    BY <1>1, <1>2, <2>2
  <2> QED BY <2>1, <2>2
<1> QED BY <1>2 DEF GotBy

LEMMA AcksKeep ==
    ASSUME session \in Seq(SessionType), AcksInv, NEW s \in Sessions, NEW t \in SessionType,
           Becomes(s, t), t.follower = session[s].follower, Grows(session[s].got, t.got),
           NEW f \in Followers, f = session[s].follower, NEW n, n \in GotBy(f)',
           Echoes(session[s], t, n),
           \A g \in Followers : known'[g].lastLsn \in GotBy(g),
           \A g \in Followers : follower'[g].lsn \in GotBy(g)'
    PROVE  AcksInv'
<1>1. /\ Sessions' = Sessions /\ session'[s] = t
      /\ \A u \in Sessions \ {s} : session'[u] = session[u]
  BY SessionMoves
<1>2. \A g : GotBy(g) \subseteq GotBy(g)'
  BY GotByGrows
<1>3. \A g \in Followers : known'[g].lastLsn \in GotBy(g)' /\ follower'[g].lsn \in GotBy(g)'
  BY <1>2
<1> DEFINE G == [g \in Followers |-> GotBy(g)']
           Told(r) == /\ r.hsLsn \in G[r.follower]
                      /\ \A i \in DOMAIN r.toLeader : r.toLeader[i].lsn \in G[r.follower]
<1>8. \A u \in Sessions : session[u] \in SessionType /\ session[u].follower \in Followers
  <2>1. \A u \in Sessions : session[u] \in SessionType
    BY DEF Sessions
  <2> QED BY <2>1 DEF SessionType
<1>9. \A g \in Followers : G[g] = GotBy(g)' /\ GotBy(g) \subseteq G[g]
  BY <1>2
<1> HIDE DEF G
<1>4. \A u \in Sessions : Told(session[u])
  BY <1>8, <1>9 DEF AcksInv
<1>5. session[s].toLeader \in Seq(Messages) /\ n \in G[f]
  BY <1>8, <1>9 DEF SessionType
<1>6. Told(t)
  <2> DEFINE r == session[s]
  <2>1. r.hsLsn \in G[f] /\ \A i \in DOMAIN r.toLeader : r.toLeader[i].lsn \in G[f]
    BY <1>4
  <2>2. r.toLeader # <<>> => Head(r.toLeader) = r.toLeader[1] /\ 1 \in DOMAIN r.toLeader
    BY <1>5
  <2>3. t.hsLsn \in G[f]
    BY <2>1, <2>2 DEF Echoes
  <2>4. CASE t.toLeader \in {r.toLeader, <<>>}
    BY <2>1, <2>3, <2>4
  <2>5. CASE r.toLeader # <<>> /\ t.toLeader = Tail(r.toLeader)
    BY <1>5, <2>1, <2>3, <2>5, TailType
  <2>6. ASSUME NEW m \in Messages, m.lsn = n, t.toLeader = Append(r.toLeader, m) PROVE Told(t)
    <3>1. \A i \in DOMAIN t.toLeader : t.toLeader[i] = m \/ (i \in DOMAIN r.toLeader /\ t.toLeader[i] = r.toLeader[i])
      BY <1>5, <2>6
    <3> QED BY <1>5, <2>1, <2>3, <2>6, <3>1
  <2> QED BY <2>4, <2>5, <2>6 DEF Echoes
<1> HIDE DEF Told
<1>7. \A u \in Sessions' : Told(session'[u]) /\ session'[u].follower \in Followers
  BY <1>1, <1>4, <1>6, <1>8
<1>10. \A u \in Sessions', g \in Followers : session'[u].follower = g =>
         /\ session'[u].hsLsn \in GotBy(g)'
         /\ \A i \in DOMAIN session'[u].toLeader : session'[u].toLeader[i].lsn \in GotBy(g)'
  BY <1>7, <1>9 DEF Told
<1> QED BY <1>3, <1>10 DEF AcksInv

LEMMA MoveKeeps ==
    ASSUME ReplicationInv, NEW s \in Sessions, NEW t \in SessionType, Becomes(s, t),
           StreamMove(session[s], t), UNCHANGED <<lsn, subscribers, append, leader>>,
           KnownStep, FollowerStep, NEW f \in Followers, f = session[s].follower,
           NEW n, n \in GotBy(f)', Echoes(session[s], t, n),
           \A g \in Followers : known'[g].lastLsn \in GotBy(g),
           \A g \in Followers : follower'[g].lsn \in GotBy(g)'
    PROVE  ReplicationInv'
<1>1. ContextInv /\ SessionsInv /\ AcksInv /\ session \in Seq(SessionType) /\ lsn \in Nat
  BY ReplicationBounds DEF ReplicationInv, ContextInv
<1>2. Good(session[s], lsn)
  BY <1>1 DEF SessionsInv
<1>3. /\ Good(t, lsn) /\ FedKept(session[s], t) /\ t.follower = session[s].follower
      /\ t.phase \in Early => session[s].phase \in Early
      /\ Grows(session[s].got, t.got)
  BY <1>1, <1>2, MoveGood
<1>4. SessionStep(s, t)
  BY <1>3 DEF SessionStep
<1>5. ContextInv' /\ SessionsInv'
  BY <1>1, <1>4, StepKeeps
<1>6. AcksInv'
  BY <1>1, <1>3, AcksKeep
<1> QED BY <1>5, <1>6 DEF ReplicationInv

(* The leader moves: followers stay as they are.                              *)
LEMMA LeaderKeeps ==
    ASSUME ReplicationInv, NEW s \in Sessions, NEW t \in SessionType, Becomes(s, t),
           StreamMove(session[s], t), Echoes(session[s], t, 0),
           UNCHANGED <<lsn, subscribers, append, leader, follower>>,
           KnownStep, \A g \in Followers : known'[g].lastLsn \in GotBy(g)
    PROVE  ReplicationInv'
<1>1. ContextInv /\ SessionsInv /\ AcksInv /\ session \in Seq(SessionType) /\ lsn \in Nat
  BY ReplicationBounds DEF ReplicationInv, ContextInv
<1>2. session[s] \in SessionType /\ Good(session[s], lsn)
  BY <1>1 DEF SessionsInv, Sessions
<1>3. PICK f \in Followers : f = session[s].follower
  BY <1>2 DEF SessionType
<1>4. t.follower = session[s].follower /\ Grows(session[s].got, t.got)
  BY <1>1, <1>2, MoveGood
<1>5. \A g : GotBy(g) \subseteq GotBy(g)'
  BY <1>1, <1>4, GotByGrows
<1>6. \A g \in Followers : follower'[g].lsn \in GotBy(g)'
  BY <1>1, <1>5 DEF AcksInv
<1>7. 0 \in GotBy(f)'
  BY DEF GotBy
<1>8. FollowerStep
  BY <1>1 DEF FollowerStep, ContextInv
<1> QED BY <1>3, <1>6, <1>7, <1>8, MoveKeeps

LEMMA QuietKeeps ==
    ASSUME ReplicationInv, NEW s \in Sessions, NEW t \in SessionType, Becomes(s, t),
           StreamMove(session[s], t), Echoes(session[s], t, 0),
           UNCHANGED <<lsn, subscribers, append, known, leader, follower>>
    PROVE  ReplicationInv'
<1>1. KnownStep /\ \A g \in Followers : known'[g].lastLsn \in GotBy(g)
  BY DEF ReplicationInv, ContextInv, AcksInv, KnownStep
<1> QED BY <1>1, LeaderKeeps

(* A follower moves: the leader stays as it is.                               *)
LEMMA FollowerKeeps ==
    ASSUME ReplicationInv, NEW s \in Sessions, NEW t \in SessionType, Becomes(s, t),
           StreamMove(session[s], t), NEW f \in Followers, f = session[s].follower,
           NEW n, n \in GotBy(f)', Echoes(session[s], t, n),
           UNCHANGED <<lsn, subscribers, append, known, leader>>,
           FollowerStep, \A g \in Followers : follower'[g].lsn \in GotBy(g)'
    PROVE  ReplicationInv'
<1>1. KnownStep /\ \A g \in Followers : known'[g].lastLsn \in GotBy(g)
  BY DEF ReplicationInv, ContextInv, AcksInv, KnownStep
<1> QED BY <1>1, MoveKeeps

-----------------------------------------------------------------------------
(* The actions, one by one.                                                   *)

LEMMA InvFacts ==
    ASSUME ReplicationInv, NEW s \in Sessions
    PROVE  /\ session[s] \in SessionType /\ Good(session[s], lsn) /\ lsn \in Nat
           /\ session[s].follower \in Followers /\ session \in Seq(SessionType)
<1>1. session \in Seq(SessionType) /\ lsn \in Nat
  BY ReplicationBounds DEF ReplicationInv, ContextInv
<1>2. session[s] \in SessionType
  BY <1>1 DEF Sessions
<1> QED BY <1>1, <1>2 DEF ReplicationInv, SessionsInv, SessionType

LEMMA HandlersKeep ==
    ASSUME ReplicationInv, NEW s \in Sessions,
           \/ AckHandshake(s) \/ AbandonHandshake(s) \/ SendSnapshot(s) \/ Heartbeat(s)
           \/ ForwardWal(s) \/ FinishWrite(s) \/ LeaveLoop(s) \/ LeaveOnShutdown(s) \/ Break(s)
    PROVE  ReplicationInv'
<1>1. session[s] \in SessionType /\ Good(session[s], lsn) /\ lsn \in Nat
  BY InvFacts
<1>2. UNCHANGED <<lsn, subscribers, append, known, leader, follower>>
  BY DEF AckHandshake, AbandonHandshake, SendSnapshot, Heartbeat, ForwardWal, FinishWrite,
         LeaveLoop, LeaveOnShutdown, Break
<1>3. \E t \in SessionType : Becomes(s, t) /\ StreamMove(session[s], t) /\ Echoes(session[s], t, 0)
  <2>1. CASE AckHandshake(s)
    BY <1>1, <2>1, AckHandshakeMoves DEF StreamMove
  <2>2. CASE AbandonHandshake(s)
    BY <1>1, <2>2, AbandonHandshakeMoves DEF StreamMove
  <2>3. CASE SendSnapshot(s)
    BY <1>1, <2>3, SendSnapshotMoves DEF StreamMove
  <2>4. CASE Heartbeat(s)
    BY <1>1, <2>4, HeartbeatMoves DEF StreamMove
  <2>5. CASE ForwardWal(s)
    BY <1>1, <2>5, ForwardWalMoves DEF StreamMove
  <2>6. CASE FinishWrite(s)
    BY <1>1, <2>6, FinishWriteMoves DEF StreamMove
  <2>7. CASE LeaveLoop(s)
    BY <1>1, <2>7, LeaveLoopMoves DEF StreamMove
  <2>8. CASE LeaveOnShutdown(s)
    BY <1>1, <2>8, LeaveOnShutdownMoves DEF StreamMove
  <2>9. CASE Break(s)
    BY <1>1, <2>9, BreakMoves DEF StreamMove
  <2> QED BY <2>1, <2>2, <2>3, <2>4, <2>5, <2>6, <2>7, <2>8, <2>9
<1> QED BY <1>2, <1>3, QuietKeeps

LEMMA LeaderLearnsKeep ==
    ASSUME ReplicationInv, NEW s \in Sessions, Register(s) \/ ReceiveAck(s) \/ ExitHandler(s)
    PROVE  ReplicationInv'
<1> DEFINE f == session[s].follower
<1>1. session[s] \in SessionType /\ Good(session[s], lsn) /\ lsn \in Nat /\ f \in Followers
  BY InvFacts
<1>2. UNCHANGED <<lsn, subscribers, append, leader, follower>>
  BY DEF Register, ReceiveAck, ExitHandler
<1>3. \E t \in SessionType : Becomes(s, t) /\ StreamMove(session[s], t) /\ Echoes(session[s], t, 0)
  <2>1. CASE Register(s)
    BY <1>1, <2>1, RegisterMoves DEF StreamMove
  <2>2. CASE ReceiveAck(s)
    BY <1>1, <2>2, ReceiveAckMoves DEF StreamMove
  <2>3. CASE ExitHandler(s)
    BY <1>1, <2>3, ExitHandlerMoves DEF StreamMove
  <2> QED BY <2>1, <2>2, <2>3
<1>4. /\ known \in [Followers -> [lastLsn : Nat, alive : BOOLEAN]]
      /\ \A g \in Followers : known[g].lastLsn \in GotBy(g)
      /\ session[s].hsLsn \in GotBy(f)
      /\ \A i \in DOMAIN session[s].toLeader : session[s].toLeader[i].lsn \in GotBy(f)
  BY <1>1 DEF ReplicationInv, ContextInv, AcksInv
<1>5. session[s].hsLsn \in Nat /\ session[s].toLeader \in Seq(Messages)
  BY <1>1 DEF SessionType
<1>6. KnownStep /\ \A g \in Followers : known'[g].lastLsn \in GotBy(g)
  <2>1. CASE Register(s)
    <3>1. known' = [known EXCEPT ![f] = [lastLsn |-> session[s].hsLsn, alive |-> TRUE]]
      BY <2>1 DEF Register
    <3> HIDE DEF f
    <3> QED BY <1>1, <1>4, <1>5, <3>1 DEF KnownStep
  <2>2. CASE ReceiveAck(s)
    <3> DEFINE l == Head(session[s].toLeader).lsn
    <3>1. known' = [known EXCEPT ![f].lastLsn = l] /\ session[s].toLeader # <<>>
      BY <2>2 DEF ReceiveAck
    <3>2. Head(session[s].toLeader) = session[s].toLeader[1] /\ 1 \in DOMAIN session[s].toLeader
          /\ Head(session[s].toLeader) \in Messages
      BY <1>5, <3>1
    <3>3. l \in GotBy(f) /\ l \in Nat
      BY <1>4, <3>2 DEF Messages
    <3> HIDE DEF f, l
    <3> QED BY <1>1, <1>4, <3>1, <3>3 DEF KnownStep
  <2>3. CASE ExitHandler(s)
    <3>1. known' = [known EXCEPT ![f].alive = FALSE]
      BY <2>3 DEF ExitHandler
    <3> HIDE DEF f
    <3> QED BY <1>1, <1>4, <3>1 DEF KnownStep
  <2> QED BY <2>1, <2>2, <2>3
<1> QED BY <1>2, <1>3, <1>6, LeaderKeeps

(* What a follower's step leaves of the other followers, and of itself.       *)
OthersKept(f) ==
    /\ follower' \in [Followers -> ProcessType]
    /\ \A g \in Followers \ {f} : follower'[g] = follower[g]
    /\ follower'[f].session \in {NoSession, follower[f].session}

LEMMA OwnStep ==
    ASSUME ReplicationInv, NEW f \in Followers, OthersKept(f), follower'[f].lsn <= lsn
    PROVE  FollowerStep
<1>1. follower \in [Followers -> ProcessType] /\ \A g \in Followers : follower[g].lsn <= lsn
  BY DEF ReplicationInv, ContextInv
<1> QED BY <1>1 DEF OthersKept, FollowerStep

LEMMA ConnectedTo ==
    ASSUME ReplicationInv, NEW f \in Followers, NEW s \in Sessions, follower[f].session = s
    PROVE  f = session[s].follower /\ follower[f] \in ProcessType /\ follower[f].lsn \in Nat
           /\ follower[f].lsn <= lsn /\ follower \in [Followers -> ProcessType]
<1>1. s # NoSession
  BY DEF Sessions, NoSession
<1> QED BY <1>1 DEF ReplicationInv, ContextInv, ProcessType

LEMMA ReceivedKeeps ==
    ASSUME ReplicationInv, NEW f \in Followers, NEW s \in Sessions,
           f = session[s].follower, NEW n, n \in {0, follower[f].lsn},
           OthersKept(f), follower'[f].lsn \in {0, follower[f].lsn},
           NEW t \in SessionType, Becomes(s, t), StreamMove(session[s], t), Echoes(session[s], t, n),
           UNCHANGED <<lsn, subscribers, append, known, leader>>
    PROVE  ReplicationInv'
<1>1. Good(session[s], lsn) /\ lsn \in Nat /\ session \in Seq(SessionType)
  BY InvFacts
<1>2. t.follower = session[s].follower /\ Grows(session[s].got, t.got)
  BY <1>1, MoveGood
<1>3. \A g : GotBy(g) \subseteq GotBy(g)'
  BY <1>1, <1>2, GotByGrows
<1>4. \A g \in Followers : 0 \in GotBy(g) /\ follower[g].lsn \in GotBy(g)
  BY DEF ReplicationInv, AcksInv, GotBy
<1>5. n \in GotBy(f)'
  BY <1>3, <1>4
<1>6. \A g \in Followers : follower'[g].lsn \in GotBy(g)'
  <2>1. \A g \in Followers : follower'[g].lsn \in {0, follower[g].lsn}
    BY DEF OthersKept
  <2> QED BY <1>3, <1>4, <2>1
<1>7. FollowerStep
  <2>1. follower[f].lsn <= lsn
    BY DEF ReplicationInv, ContextInv
  <2>2. follower'[f].lsn <= lsn
    BY <1>1, <2>1
  <2> QED BY <2>2, OwnStep
<1> QED BY <1>5, <1>6, <1>7, FollowerKeeps

LEMMA ReceivesKeep ==
    ASSUME ReplicationInv, NEW f \in Followers, NEW s \in Sessions,
           ReceiveHandshakeAck(f, s) \/ ReceiveHeartbeat(f, s) \/ ReceiveSnapshot(f, s)
    PROVE  ReplicationInv'
<1> DEFINE r == session[s]
<1>1. r \in SessionType /\ lsn \in Nat
  BY InvFacts
<1>2. /\ follower[f].session = s /\ r.toFollower # <<>> /\ ~IsWal(Head(r.toFollower))
      /\ UNCHANGED <<lsn, subscribers, append, known, leader>>
  BY DEF ReceiveHandshakeAck, ReceiveHeartbeat, ReceiveSnapshot, Receiving, IsWal
<1>3. f = r.follower /\ follower[f] \in ProcessType /\ follower[f].lsn \in Nat
      /\ follower \in [Followers -> ProcessType]
  BY <1>2, ConnectedTo
<1>4. CASE ReceiveHandshakeAck(f, s)
  <2>1. Take(s)
    BY <1>4 DEF ReceiveHandshakeAck
  <2>2. \E t \in SessionType : Becomes(s, t) /\ StreamMove(r, t) /\ Echoes(r, t, 0)
    BY <1>1, <1>2, <2>1, TakeMoves DEF StreamMove
  <2>3. follower' = [follower EXCEPT ![f].ready = TRUE, ![f].leaderAlive = TRUE]
    BY <1>4 DEF ReceiveHandshakeAck
  <2>4. OthersKept(f) /\ follower'[f].lsn = follower[f].lsn
    BY <1>3, <2>3 DEF OthersKept, ProcessType
  <2> QED BY <1>2, <1>3, <2>2, <2>4, ReceivedKeeps
<1>5. CASE ReceiveHeartbeat(f, s)
  <2> DEFINE m == Message("HeartbeatAck", follower[f].lsn)
  <2>1. m \in Messages /\ m.lsn = follower[f].lsn
    BY <1>3, MessageType DEF Kinds
  <2>2. Becomes(s, Replied(r, m))
    BY <1>5 DEF ReceiveHeartbeat
  <2> HIDE DEF m
  <2>3. \E t \in SessionType : Becomes(s, t) /\ StreamMove(r, t) /\ Echoes(r, t, m.lsn)
    BY <1>1, <1>2, <2>1, <2>2, ReplyMoves DEF StreamMove
  <2>4. follower' = [follower EXCEPT ![f].leaderAlive = TRUE, ![f].session = AfterReply(s)]
    BY <1>5 DEF ReceiveHeartbeat
  <2>5. AfterReply(s) \in {NoSession, follower[f].session} /\ AfterReply(s) \in Nat
    BY <1>2, <1>3 DEF AfterReply, NoSession, ProcessType
  <2>6. OthersKept(f) /\ follower'[f].lsn = follower[f].lsn
    BY <1>3, <2>4, <2>5 DEF OthersKept, ProcessType
  <2> QED BY <1>2, <1>3, <2>1, <2>3, <2>6, ReceivedKeeps
<1>6. CASE ReceiveSnapshot(f, s)
  <2>1. Take(s)
    BY <1>6 DEF ReceiveSnapshot
  <2>2. \E t \in SessionType : Becomes(s, t) /\ StreamMove(r, t) /\ Echoes(r, t, 0)
    BY <1>1, <1>2, <2>1, TakeMoves DEF StreamMove
  <2>3. PICK D \in Applying(follower[f], 1 .. Head(r.toFollower).lsn) :
          follower' = [follower EXCEPT ![f].data = D]
    BY <1>6 DEF ReceiveSnapshot
  <2>4. D \in SUBSET Nat
    BY <1>3, <2>3 DEF ProcessType, Applying
  <2>5. OthersKept(f) /\ follower'[f].lsn = follower[f].lsn
    BY <1>3, <2>3, <2>4 DEF OthersKept, ProcessType
  <2> QED BY <1>2, <1>3, <2>2, <2>5, ReceivedKeeps
<1> QED BY <1>4, <1>5, <1>6

LEMMA EndSessionKeeps ==
    ASSUME ReplicationInv, NEW f \in Followers, NEW s \in Sessions, EndSession(f, s)
    PROVE  ReplicationInv'
<1> DEFINE r == session[s]
<1>1. r \in SessionType /\ lsn \in Nat
  BY InvFacts
<1>2. /\ follower[f].session = s
      /\ UNCHANGED <<lsn, subscribers, append, known, leader>>
      /\ Becomes(s, [r EXCEPT !.up = FALSE, !.toFollower = <<>>])
  BY DEF EndSession
<1>3. f = r.follower /\ follower[f] \in ProcessType /\ follower \in [Followers -> ProcessType]
  BY <1>2, ConnectedTo
<1>4. \E t \in SessionType : Becomes(s, t) /\ StreamMove(r, t) /\ Echoes(r, t, 0)
  BY <1>1, <1>2, LostMoves DEF StreamMove
<1>5. \E b \in BOOLEAN :
        follower' = [follower EXCEPT ![f].session = NoSession, ![f].leaderAlive = b]
  <2>1. CASE follower' = [follower EXCEPT ![f].session = NoSession]
    <3>1. follower' = [follower EXCEPT ![f].session = NoSession,
                                       ![f].leaderAlive = follower[f].leaderAlive]
      BY <1>3, <2>1 DEF ProcessType
    <3> QED BY <1>3, <3>1 DEF ProcessType
  <2>2. CASE follower' = [follower EXCEPT ![f].session = NoSession, ![f].leaderAlive = FALSE]
    BY <2>2
  <2>3. CASE follower' = [follower EXCEPT ![f].session = NoSession,
                                          ![f].leaderAlive = @ /\ ~follower[f].ready]
    <3> DEFINE b == follower[f].leaderAlive /\ ~follower[f].ready
    <3>1. b \in BOOLEAN
      OBVIOUS
    <3>2. follower' = [follower EXCEPT ![f].session = NoSession, ![f].leaderAlive = b]
      BY <2>3
    <3> QED BY <3>1, <3>2
  <2> QED BY <2>1, <2>2, <2>3 DEF EndSession
<1>6. OthersKept(f) /\ follower'[f].lsn = follower[f].lsn
  BY <1>3, <1>5 DEF OthersKept, ProcessType, NoSession
<1> QED BY <1>2, <1>3, <1>4, <1>6, ReceivedKeeps

LEMMA ReceiveWalKeeps ==
    ASSUME ReplicationInv, NEW f \in Followers, NEW s \in Sessions, ReceiveWal(f, s)
    PROVE  ReplicationInv'
<1> DEFINE r == session[s]
           l == Head(r.toFollower).lsn
           m == Message("WalAck", l)
<1>1. r \in SessionType /\ lsn \in Nat /\ Good(r, lsn) /\ session \in Seq(SessionType)
  BY InvFacts
<1>2. /\ follower[f].session = s /\ r.toFollower # <<>> /\ IsWal(Head(r.toFollower))
      /\ UNCHANGED <<lsn, subscribers, append, known, leader>>
      /\ Becomes(s, [Replied(r, m) EXCEPT !.got = Append(@, l)])
      /\ \E d \in Applying(follower[f], {l}) :
            follower' = [follower EXCEPT ![f].data = d, ![f].lsn = l, ![f].joined = r.from,
                                         ![f].session = AfterReply(s)]
  BY DEF ReceiveWal, Receiving, IsWal
<1>3. f = r.follower /\ follower[f] \in ProcessType /\ follower \in [Followers -> ProcessType]
  BY <1>2, ConnectedTo
<1>4. l \in Nat
  <2>1. Head(r.toFollower) \in Messages
    BY <1>1, <1>2, TailType DEF SessionType
  <2> QED BY <2>1 DEF Messages
<1>5. m \in Messages /\ m.lsn = l
  BY <1>4, MessageType DEF Kinds
<1> HIDE DEF m
<1>6. PICK t \in SessionType : Becomes(s, t) /\ ReceiveWalMove(r, t) /\ Echoes(r, t, m.lsn)
  BY <1>1, <1>2, <1>4, <1>5, ReceiveWalMoves
<1>7. StreamMove(r, t) /\ t.got = Append(r.got, l) /\ t.follower = r.follower
  BY <1>6 DEF StreamMove, ReceiveWalMove
<1>8. l <= lsn
  BY <1>1, <1>6, ReceiveWalStep DEF ReceiveWalMove
<1>9. Grows(r.got, t.got)
  BY <1>1, <1>7, MoveGood
<1>10. \A g : GotBy(g) \subseteq GotBy(g)'
  BY <1>1, <1>6, <1>7, <1>9, GotByGrows
<1>11. Sessions' = Sessions /\ session'[s] = t
  BY <1>1, <1>6, SessionMoves
<1>12. PICK n \in Nat : n = l
  BY <1>4
<1>13. n \in GotBy(f)'
  <2>1. \E i \in DOMAIN t.got : t.got[i] = l
    <3>1. r.got \in Seq(Nat)
      BY <1>1 DEF SessionType
    <3>2. Len(r.got) + 1 \in DOMAIN t.got /\ t.got[Len(r.got) + 1] = l
      BY <1>7, <3>1
    <3> QED BY <3>2
  <2>2. \E v \in Sessions' : session'[v].follower = f /\
           \E i \in DOMAIN session'[v].got : session'[v].got[i] = n
    BY <1>3, <1>7, <1>11, <1>12, <2>1
  <2> QED BY <2>2 DEF GotBy
<1> HIDE DEF l
<1>14. OthersKept(f) /\ follower'[f].lsn = l
  <2>1. AfterReply(s) \in {NoSession, follower[f].session} /\ AfterReply(s) \in Nat
    BY <1>2, <1>3 DEF AfterReply, NoSession, ProcessType
  <2>2. PICK d \in Applying(follower[f], {l}) :
          follower' = [follower EXCEPT ![f].data = d, ![f].lsn = l, ![f].joined = r.from,
                                       ![f].session = AfterReply(s)]
    BY <1>2
  <2>3. d \in SUBSET Nat /\ r.from \in Nat
    BY <1>1, <1>3, <1>4, <2>2 DEF ProcessType, Applying, SessionType
  <2> QED BY <1>3, <1>4, <2>1, <2>2, <2>3 DEF OthersKept, ProcessType
<1>15. FollowerStep
  BY <1>8, <1>14, OwnStep
<1>16. \A g \in Followers : follower'[g].lsn \in GotBy(g)'
  <2>1. \A g \in Followers : follower[g].lsn \in GotBy(g)
    BY DEF ReplicationInv, AcksInv
  <2>2. ASSUME NEW g \in Followers PROVE follower'[g].lsn \in GotBy(g)'
    <3>1. CASE g = f
      BY <1>12, <1>13, <1>14, <3>1
    <3>2. CASE g # f
      BY <1>10, <1>14, <2>1, <3>2 DEF OthersKept
    <3> QED BY <3>1, <3>2
  <2> QED BY <2>2
<1> QED BY <1>2, <1>3, <1>5, <1>6, <1>7, <1>12, <1>13, <1>15, <1>16, FollowerKeeps

(* Steps that leave the sessions alone.                                       *)
LEMMA SameSessions ==
    ASSUME session' = session
    PROVE  Sessions' = Sessions /\ \A f : GotBy(f)' = GotBy(f)
BY DEF Sessions, GotBy

LEMMA IdleFollowerKeeps ==
    ASSUME ReplicationInv, NEW f \in Followers, OthersKept(f),
           follower'[f].lsn \in {0, follower[f].lsn},
           UNCHANGED <<lsn, subscribers, append, known, leader, session>>
    PROVE  ReplicationInv'
<1>1. Sessions' = Sessions /\ \A g : GotBy(g)' = GotBy(g)
  BY SameSessions
<1>2. follower[f].lsn <= lsn /\ lsn \in Nat
  BY ReplicationBounds DEF ReplicationInv, ContextInv
<1>3. FollowerStep
  BY <1>2, OwnStep
<1>4. \A g \in Followers :
        /\ follower'[g].lsn <= lsn'
        /\ follower'[g].session # NoSession =>
              /\ follower'[g].session \in Sessions'
              /\ session'[follower'[g].session].follower = g
  BY <1>1, <1>3 DEF FollowerStep, ReplicationInv, ContextInv
<1>5. ContextInv'
  BY <1>1, <1>3, <1>4 DEF FollowerStep, ReplicationInv, ContextInv, Idle
<1>6. SessionsInv'
  BY <1>1 DEF ReplicationInv, SessionsInv, Newest
<1>7. \A g \in Followers : follower'[g].lsn \in GotBy(g)
  <2>1. \A g \in Followers : 0 \in GotBy(g) /\ follower[g].lsn \in GotBy(g)
    BY DEF ReplicationInv, AcksInv, GotBy
  <2>2. \A g \in Followers : follower'[g].lsn \in {0, follower[g].lsn}
    BY DEF OthersKept
  <2> QED BY <2>1, <2>2
<1>8. AcksInv'
  BY <1>1, <1>7 DEF ReplicationInv, AcksInv
<1> QED BY <1>5, <1>6, <1>8 DEF ReplicationInv

LEMMA WatchdogKeeps ==
    ASSUME ReplicationInv, NEW f \in Followers, Watchdog(f)
    PROVE  ReplicationInv'
<1>1. follower \in [Followers -> ProcessType]
  BY DEF ReplicationInv, ContextInv
<1>2. follower' = [follower EXCEPT ![f].leaderAlive = FALSE]
  BY DEF Watchdog
<1>3. OthersKept(f) /\ follower'[f].lsn = follower[f].lsn
  BY <1>1, <1>2 DEF OthersKept, ProcessType
<1>4. UNCHANGED <<lsn, subscribers, append, known, leader, session>>
  BY DEF Watchdog
<1> QED BY <1>3, <1>4, IdleFollowerKeeps

(* A process starts again with the graph it saved, or with an empty one.      *)
LEMMA RestartsAs ==
    ASSUME NEW f \in Followers, Restart(f), follower \in [Followers -> ProcessType]
    PROVE  \E saved \in {{}, follower[f].data}, b \in BOOLEAN :
              follower' = [follower EXCEPT ![f] = NewProcess(saved, b)]
<1>1. CASE follower' = [follower EXCEPT ![f] = NewProcess({}, TRUE)]
  BY <1>1
<1>2. CASE follower' = [follower EXCEPT ![f] = NewProcess(@.data, @.fresh /\ @.data = {})]
  <2>1. PICK b : b = (follower[f].fresh /\ follower[f].data = {})
    OBVIOUS
  <2>2. b \in BOOLEAN
    BY <2>1
  <2>3. follower' = [follower EXCEPT ![f] = NewProcess(follower[f].data, b)]
    BY <1>2, <2>1
  <2> QED BY <2>2, <2>3
<1> QED BY <1>1, <1>2 DEF Restart

LEMMA RestartKeeps ==
    ASSUME ReplicationInv, NEW f \in Followers, Restart(f)
    PROVE  ReplicationInv'
<1>1. follower \in [Followers -> ProcessType] /\ follower[f] \in ProcessType
  BY DEF ReplicationInv, ContextInv
<1>2. PICK saved \in {{}, follower[f].data}, b \in BOOLEAN :
        follower' = [follower EXCEPT ![f] = NewProcess(saved, b)]
  BY <1>1, RestartsAs
<1>3. NewProcess(saved, b) \in ProcessType /\ NewProcess(saved, b).lsn = 0
      /\ NewProcess(saved, b).session = NoSession
  BY <1>1 DEF NewProcess, ProcessType, NoSession
<1>4. OthersKept(f) /\ follower'[f].lsn = 0
  BY <1>1, <1>2, <1>3 DEF OthersKept
<1>5. UNCHANGED <<lsn, subscribers, append, known, leader>>
  BY DEF Restart
<1>6. CASE follower[f].session = NoSession
  BY <1>4, <1>5, <1>6, IdleFollowerKeeps DEF Restart
<1>7. CASE follower[f].session # NoSession
  <2>1. PICK s \in Sessions : s = follower[f].session
    BY <1>7 DEF ReplicationInv, ContextInv
  <2>2. session[s] \in SessionType /\ f = session[s].follower
    BY <2>1, InvFacts, ConnectedTo
  <2>3. Becomes(s, [session[s] EXCEPT !.up = FALSE, !.toFollower = <<>>])
    BY <1>7, <2>1 DEF Restart
  <2>4. \E t \in SessionType : Becomes(s, t) /\ StreamMove(session[s], t) /\ Echoes(session[s], t, 0)
    BY <2>2, <2>3, LostMoves DEF StreamMove
  <2> QED BY <1>4, <1>5, <2>2, <2>4, ReceivedKeeps
<1> QED BY <1>6, <1>7

LEMMA GoodGrows ==
    ASSUME NEW r, NEW l \in Nat, Good(r, l)
    PROVE  Good(r, l + 1)
<1>0. r \in SessionType /\ r.from \in Nat /\ r.queue \in Seq(Nat) /\ r.toFollower \in Seq(Messages)
      /\ r.out \in Seq(Messages)
  BY DEF Good, Sound, SessionType
<1>1. UpTo(r.toFollower, l + 1) /\ UpTo(r.out, l + 1)
  <2>1. ASSUME NEW w \in Seq(Messages), UpTo(w, l) PROVE UpTo(w, l + 1)
    <3>1. \A i \in DOMAIN w : w[i].lsn \in Nat
      <4>1. \A i \in DOMAIN w : w[i] \in Messages
        OBVIOUS
      <4> QED BY <4>1 DEF Messages
    <3> QED BY <2>1, <3>1 DEF UpTo
  <2> QED BY <1>0, <2>1 DEF Good, Sound
<1>2. r.from <= l + 1
  BY <1>0 DEF Good, Sound
<1>3. \A i \in DOMAIN r.queue : r.queue[i] <= l + 1
  <2>1. \A i \in DOMAIN r.queue : r.queue[i] \in Nat /\ r.queue[i] <= l
    BY <1>0 DEF Good, Sound
  <2> QED BY <2>1
<1> QED BY <1>1, <1>2, <1>3 DEF Good, Sound

LEMMA StartAppendKeeps ==
    ASSUME ReplicationInv, StartAppend
    PROVE  ReplicationInv'
<1>1. /\ ~append.busy /\ lsn < MaxLsn /\ lsn' = lsn + 1
      /\ append' = [busy |-> TRUE, todo |-> subscribers]
      /\ UNCHANGED <<subscribers, known, leader, session, follower>>
  BY DEF StartAppend
<1>2. lsn \in Nat /\ MaxLsn \in Nat /\ append = Idle /\ subscribers \subseteq Sessions
      /\ append.todo \subseteq subscribers
  BY <1>1, ReplicationBounds DEF ReplicationInv, ContextInv
<1>3. Sessions' = Sessions /\ \A g : GotBy(g)' = GotBy(g)
  BY <1>1, SameSessions
<1>4. lsn' \in 0 .. MaxLsn /\ append'.todo = subscribers /\ append'.busy
  BY <1>1, <1>2
<1>5. append' \in [busy : BOOLEAN, todo : SUBSET Nat]
  BY <1>1, <1>2 DEF Sessions
<1>6. \A g \in Followers : follower[g].lsn <= lsn'
  <2>1. \A g \in Followers : follower[g].lsn \in Nat /\ follower[g].lsn <= lsn
    BY DEF ReplicationInv, ContextInv, ProcessType
  <2> QED BY <1>1, <1>2, <2>1
<1>7. ContextInv'
  BY <1>1, <1>3, <1>4, <1>5, <1>6 DEF ReplicationInv, ContextInv
<1>8. ASSUME NEW s \in Sessions
      PROVE  Good(session[s], lsn + 1) /\ (s \in subscribers => Fed(session[s], Newest(s)'))
  <2>1. Good(session[s], lsn) /\ (s \in subscribers => Fed(session[s], Newest(s)))
    BY DEF ReplicationInv, SessionsInv
  <2>2. Newest(s) = lsn
    BY <1>2 DEF Newest, Idle
  <2>3. s \in subscribers => Newest(s)' = lsn
    BY <1>1, <1>2, <1>4 DEF Newest
  <2> QED BY <1>2, <2>1, <2>2, <2>3, GoodGrows
<1>9. SessionsInv'
  BY <1>1, <1>3, <1>8 DEF SessionsInv
<1>10. AcksInv'
  BY <1>1, <1>3 DEF ReplicationInv, AcksInv
<1> QED BY <1>7, <1>9, <1>10 DEF ReplicationInv

LEMMA DeliverKeeps ==
    ASSUME ReplicationInv, NEW s \in append.todo, Deliver(s)
    PROVE  ReplicationInv'
<1> DEFINE r == session[s]
<1>1. /\ append.todo \subseteq subscribers /\ subscribers \subseteq Sessions
      /\ append \in [busy : BOOLEAN, todo : SUBSET Nat] /\ (~append.busy => append = Idle)
      /\ r.phase \notin Early
  BY DEF ReplicationInv, ContextInv
<1>2. s \in Sessions /\ s \in subscribers
  BY <1>1
<1>3. r \in SessionType /\ Good(r, lsn) /\ lsn \in Nat /\ r.follower \in Followers
      /\ session \in Seq(SessionType)
  BY <1>2, InvFacts
<1>4. append' = [append EXCEPT !.todo = @ \ {s}]
      /\ UNCHANGED <<lsn, subscribers, known, leader, follower>>
  BY DEF Deliver
<1>5. PICK t \in SessionType : Becomes(s, t) /\ DeliverMove(r, t) /\ Echoes(r, t, 0)
  BY <1>3, DeliverMoves
<1>6. Fed(r, lsn - 1)
  BY <1>2 DEF ReplicationInv, SessionsInv, Newest
<1>7. Good(t, lsn) /\ Fed(t, lsn)
  BY <1>1, <1>3, <1>5, <1>6, DeliverStep DEF DeliverMove, Kept
<1>8. t.follower = r.follower /\ t.phase = r.phase /\ Grows(r.got, t.got)
  BY <1>5 DEF DeliverMove, Kept, Grows
<1>9. /\ session' \in Seq(SessionType) /\ Sessions' = Sessions /\ session'[s] = t
      /\ \A u \in Sessions \ {s} : session'[u] = session[u]
  BY <1>2, <1>3, <1>5, SessionMoves
<1>10. /\ append' \in [busy : BOOLEAN, todo : SUBSET Nat] /\ append'.todo = append.todo \ {s}
       /\ append'.busy = append.busy
  BY <1>1, <1>4
<1>11. append.busy
  BY <1>1 DEF Idle
<1>12. ContextInv'
  <2>1. \A u \in subscribers' : session'[u].phase \notin Early
    <3>1. \A u \in subscribers : session[u].phase \notin Early
      BY DEF ReplicationInv, ContextInv
    <3> QED BY <1>1, <1>4, <1>8, <1>9, <3>1
  <2>2. \A g \in Followers :
          follower'[g].session # NoSession =>
             /\ follower'[g].session \in Sessions'
             /\ session'[follower'[g].session].follower = g
    BY <1>4, <1>8, <1>9 DEF ReplicationInv, ContextInv
  <2> QED BY <1>1, <1>4, <1>9, <1>10, <1>11, <2>1, <2>2 DEF ReplicationInv, ContextInv
<1>13. ASSUME NEW u \in Sessions'
       PROVE  Good(session'[u], lsn') /\ (u \in subscribers' => Fed(session'[u], Newest(u)'))
  <2>1. CASE u = s
    <3>1. Newest(s)' = lsn
      BY <1>4, <1>10 DEF Newest
    <3> QED BY <1>4, <1>7, <1>9, <2>1, <3>1
  <2>2. CASE u # s
    <3>1. Newest(u)' = Newest(u)
      BY <1>4, <1>10, <2>2 DEF Newest
    <3> QED BY <1>4, <1>9, <2>2, <3>1 DEF ReplicationInv, SessionsInv
  <2> QED BY <2>1, <2>2
<1>14. SessionsInv'
  BY <1>13 DEF SessionsInv
<1>15. \A g : GotBy(g) \subseteq GotBy(g)'
  BY <1>2, <1>3, <1>5, <1>8, GotByGrows
<1>16. AcksInv'
  <2>1. PICK f \in Followers : f = r.follower
    BY <1>3
  <2>2. 0 \in GotBy(f)'
    BY DEF GotBy
  <2>3. /\ \A g \in Followers : known'[g].lastLsn \in GotBy(g)
        /\ \A g \in Followers : follower'[g].lsn \in GotBy(g)'
    BY <1>4, <1>15 DEF ReplicationInv, AcksInv
  <2> QED BY <1>2, <1>3, <1>5, <1>8, <2>1, <2>2, <2>3, AcksKeep DEF ReplicationInv
<1> QED BY <1>12, <1>14, <1>16 DEF ReplicationInv

LEMMA AppendEndsKeep ==
    ASSUME ReplicationInv, FinishAppend \/ \E s \in append.todo : DropSubscriber(s)
    PROVE  ReplicationInv'
<1>1. UNCHANGED <<lsn, known, leader, session, follower>>
  BY DEF FinishAppend, DropSubscriber
<1>2. Sessions' = Sessions /\ \A g : GotBy(g)' = GotBy(g)
  BY <1>1, SameSessions
<1>3. /\ append.todo \subseteq subscribers /\ subscribers \subseteq Sessions
      /\ append \in [busy : BOOLEAN, todo : SUBSET Nat] /\ (~append.busy => append = Idle)
  BY DEF ReplicationInv, ContextInv
<1>4. /\ append' \in [busy : BOOLEAN, todo : SUBSET Nat] /\ (~append'.busy => append' = Idle)
      /\ append'.todo \subseteq subscribers' /\ subscribers' \subseteq subscribers
      /\ \A u \in subscribers' : u \in append'.todo <=> u \in append.todo
  <2>1. CASE FinishAppend
    BY <1>3, <2>1 DEF FinishAppend, Idle
  <2>2. ASSUME NEW s \in append.todo, DropSubscriber(s)
        PROVE  /\ append' \in [busy : BOOLEAN, todo : SUBSET Nat] /\ (~append'.busy => append' = Idle)
               /\ append'.todo \subseteq subscribers' /\ subscribers' \subseteq subscribers
               /\ \A u \in subscribers' : u \in append'.todo <=> u \in append.todo
    <3>1. subscribers' = subscribers \ {s} /\ append' = [append EXCEPT !.todo = @ \ {s}]
      BY <2>2 DEF DropSubscriber
    <3>2. append.busy
      BY <1>3 DEF Idle
    <3>3. append'.busy /\ append'.todo = append.todo \ {s} /\ append' \in [busy : BOOLEAN, todo : SUBSET Nat]
      BY <1>3, <3>1, <3>2
    <3> QED BY <1>3, <3>1, <3>3
  <2> QED BY <2>1, <2>2
<1>5. ContextInv'
  BY <1>1, <1>2, <1>3, <1>4 DEF ReplicationInv, ContextInv
<1>6. \A u \in subscribers' : Newest(u)' = Newest(u)
  BY <1>1, <1>4 DEF Newest
<1>7. SessionsInv'
  BY <1>1, <1>2, <1>4, <1>6 DEF ReplicationInv, SessionsInv
<1>8. AcksInv'
  BY <1>1, <1>2 DEF ReplicationInv, AcksInv
<1> QED BY <1>5, <1>7, <1>8 DEF ReplicationInv

LEMMA SubscribeKeeps ==
    ASSUME ReplicationInv, NEW s \in Sessions, Subscribe(s)
    PROVE  ReplicationInv'
<1> DEFINE r == session[s]
<1>1. /\ append.todo \subseteq subscribers /\ subscribers \subseteq Sessions /\ (~append.busy => append = Idle)
  BY DEF ReplicationInv, ContextInv
<1>3. r \in SessionType /\ Good(r, lsn) /\ lsn \in Nat /\ r.follower \in Followers
      /\ session \in Seq(SessionType)
  BY InvFacts
<1>4. /\ append = Idle /\ subscribers' = subscribers \cup {s}
      /\ UNCHANGED <<lsn, append, known, leader, follower>>
  BY <1>1 DEF Subscribe
<1>5. PICK t \in SessionType : Becomes(s, t) /\ SubscribeMove(r, t) /\ Echoes(r, t, 0)
  BY <1>3, SubscribeMoves
<1>7. Good(t, lsn) /\ Fed(t, lsn)
  BY <1>3, <1>5, SubscribeStep DEF SubscribeMove
<1>8. t.follower = r.follower /\ t.phase \notin Early /\ Grows(r.got, t.got)
  BY <1>5 DEF SubscribeMove, Grows, Early
<1>9. /\ session' \in Seq(SessionType) /\ Sessions' = Sessions /\ session'[s] = t
      /\ \A u \in Sessions \ {s} : session'[u] = session[u]
  BY <1>3, <1>5, SessionMoves
<1>12. ContextInv'
  <2>1. \A u \in subscribers' : session'[u].phase \notin Early
    <3>1. \A u \in subscribers : session[u].phase \notin Early
      BY DEF ReplicationInv, ContextInv
    <3> QED BY <1>1, <1>4, <1>8, <1>9, <3>1
  <2>2. \A g \in Followers :
          follower'[g].session # NoSession =>
             /\ follower'[g].session \in Sessions'
             /\ session'[follower'[g].session].follower = g
    BY <1>4, <1>8, <1>9 DEF ReplicationInv, ContextInv
  <2>3. append'.todo \subseteq subscribers' /\ subscribers' \subseteq Sessions'
    BY <1>1, <1>4, <1>9
  <2> QED BY <1>4, <1>9, <2>1, <2>2, <2>3 DEF ReplicationInv, ContextInv
<1>13. ASSUME NEW u \in Sessions'
       PROVE  Good(session'[u], lsn') /\ (u \in subscribers' => Fed(session'[u], Newest(u)'))
  <2>0. Newest(u)' = Newest(u) /\ Newest(u) = lsn
    BY <1>4 DEF Newest, Idle
  <2>1. CASE u = s
    BY <1>4, <1>7, <1>9, <2>0, <2>1
  <2>2. CASE u # s
    BY <1>4, <1>9, <2>0, <2>2 DEF ReplicationInv, SessionsInv
  <2> QED BY <2>1, <2>2
<1>14. SessionsInv'
  BY <1>13 DEF SessionsInv
<1>15. \A g : GotBy(g) \subseteq GotBy(g)'
  BY <1>3, <1>5, <1>8, GotByGrows
<1>16. AcksInv'
  <2>1. PICK f \in Followers : f = r.follower
    BY <1>3
  <2>2. 0 \in GotBy(f)'
    BY DEF GotBy
  <2>3. /\ \A g \in Followers : known'[g].lastLsn \in GotBy(g)
        /\ \A g \in Followers : follower'[g].lsn \in GotBy(g)'
    BY <1>4, <1>15 DEF ReplicationInv, AcksInv
  <2> QED BY <1>3, <1>5, <1>8, <2>1, <2>2, <2>3, AcksKeep DEF ReplicationInv
<1> QED BY <1>12, <1>14, <1>16 DEF ReplicationInv

LEMMA NewSessionGood ==
    ASSUME NEW f \in Followers, follower[f].lsn \in Nat, NEW l \in Nat
    PROVE  LET t == NewSession(f)
           IN /\ Good(t, l) /\ t \in SessionType /\ t.follower = f /\ t.phase = "accepted" /\ t.hsLsn = 0
              /\ t.toFollower = <<>> /\ t.out = <<>> /\ t.got = <<>> /\ t.up
              /\ \A i \in DOMAIN t.toLeader : t.toLeader[i].lsn = follower[f].lsn
<1> DEFINE e == <<>>
           h == [kind |-> "Handshake", lsn |-> follower[f].lsn]
           w == <<h>>
           t == [follower |-> f, phase |-> "accepted", up |-> TRUE, hsLsn |-> 0,
                 queue |-> e, out |-> e, toFollower |-> e, toLeader |-> w, from |-> 0, got |-> e]
<1>1. t = NewSession(f)
  BY DEF NewSession
<1>2. e \in Seq(Nat) /\ e \in Seq(Messages)
  OBVIOUS
<1>3. w \in Seq(Messages) /\ \A i \in DOMAIN w : w[i].lsn = follower[f].lsn
  <2>1. h \in Messages /\ h.lsn = follower[f].lsn
    BY DEF Messages, Kinds
  <2> HIDE DEF h
  <2> QED BY <2>1
<1> HIDE DEF e, w
<1>4. t \in SessionType
  BY <1>2, <1>3 DEF SessionType, Phases
<1>5. /\ t.follower = f /\ t.phase = "accepted" /\ t.up /\ t.hsLsn = 0
      /\ t.queue = e /\ t.out = e /\ t.toFollower = e /\ t.toLeader = w /\ t.from = 0 /\ t.got = e
  OBVIOUS
<1> HIDE DEF t
<1>6. /\ Len(e) = 0 /\ UpTo(e, l) /\ NoWal(e) /\ Positions(e, Received(t)) /\ Consecutive(e, t.from)
      /\ DOMAIN e = {}
  BY EmptyFacts DEF e
<1>7. Sound(t, l)
  BY <1>4, <1>5, <1>6, ReplicationBounds DEF Sound, Early, e
<1>8. Gapless(t)
  BY <1>5, <1>6 DEF Gapless, Subscribed
<1> QED BY <1>1, <1>3, <1>4, <1>5, <1>7, <1>8 DEF Good, e

LEMMA ConnectKeeps ==
    ASSUME ReplicationInv, NEW f \in Followers, Connect(f)
    PROVE  ReplicationInv'
<1> DEFINE t == NewSession(f)
           n == Len(session) + 1
<1>1. /\ session' = Append(session, t)
      /\ follower' = [follower EXCEPT ![f].started = TRUE, ![f].session = n]
      /\ UNCHANGED <<lsn, subscribers, append, known, leader>>
  BY DEF Connect
<1>2. session \in Seq(SessionType) /\ follower \in [Followers -> ProcessType] /\ lsn \in Nat
      /\ follower[f].lsn \in Nat
  BY ReplicationBounds DEF ReplicationInv, ContextInv, ProcessType
<1>3. /\ Good(t, lsn) /\ t \in SessionType /\ t.follower = f /\ t.phase = "accepted" /\ t.hsLsn = 0
      /\ \A i \in DOMAIN t.toLeader : t.toLeader[i].lsn = follower[f].lsn
  BY <1>2, NewSessionGood
<1> HIDE DEF t
<1>4. /\ session' \in Seq(SessionType) /\ Sessions' = Sessions \cup {n} /\ n \notin Sessions
      /\ session'[n] = t /\ n \in Nat /\ n # 0 /\ \A u \in Sessions : session'[u] = session[u]
  BY <1>1, <1>2, <1>3 DEF Sessions
<1> HIDE DEF n
<1>5. /\ follower' \in [Followers -> ProcessType] /\ follower'[f].session = n
      /\ \A g \in Followers : follower'[g].lsn = follower[g].lsn
      /\ \A g \in Followers \ {f} : follower'[g].session = follower[g].session
  BY <1>1, <1>2, <1>4 DEF ProcessType
<1>6. /\ append.todo \subseteq subscribers /\ subscribers \subseteq Sessions
  BY DEF ReplicationInv, ContextInv
<1>7. ContextInv'
  <2>1. \A u \in subscribers' : session'[u].phase \notin Early
    <3>1. \A u \in subscribers : session[u].phase \notin Early
      BY DEF ReplicationInv, ContextInv
    <3> QED BY <1>1, <1>4, <1>6, <3>1
  <2>2. ASSUME NEW g \in Followers, follower'[g].session # NoSession
        PROVE  follower'[g].session \in Sessions' /\ session'[follower'[g].session].follower = g
    <3>1. CASE g = f
      BY <1>3, <1>4, <1>5, <3>1
    <3>2. CASE g # f
      <4>1. follower'[g].session = follower[g].session
        BY <1>5, <3>2
      <4>2. follower[g].session \in Sessions /\ session[follower[g].session].follower = g
        BY <2>2, <4>1 DEF ReplicationInv, ContextInv
      <4> QED BY <1>4, <4>1, <4>2
    <3> QED BY <3>1, <3>2
  <2>3. subscribers' \subseteq Sessions'
    BY <1>1, <1>4, <1>6
  <2>4. \A g \in Followers : follower'[g].lsn <= lsn'
    BY <1>1, <1>5 DEF ReplicationInv, ContextInv
  <2> QED BY <1>1, <1>4, <1>5, <2>1, <2>2, <2>3, <2>4 DEF ReplicationInv, ContextInv, Idle
<1>8. ASSUME NEW u \in Sessions'
      PROVE  Good(session'[u], lsn') /\ (u \in subscribers' => Fed(session'[u], Newest(u)'))
  <2>0. Newest(u)' = Newest(u)
    BY <1>1 DEF Newest
  <2>1. CASE u = n
    BY <1>1, <1>3, <1>4, <1>6, <2>1
  <2>2. CASE u # n
    BY <1>1, <1>4, <2>0, <2>2 DEF ReplicationInv, SessionsInv
  <2> QED BY <2>1, <2>2
<1>9. SessionsInv'
  BY <1>8 DEF SessionsInv
<1>10. \A g : GotBy(g) \subseteq GotBy(g)'
  BY <1>4 DEF GotBy
<1>11. \A g \in Followers : known'[g].lastLsn \in GotBy(g)' /\ follower'[g].lsn \in GotBy(g)'
  BY <1>1, <1>5, <1>10 DEF ReplicationInv, AcksInv
<1>12. ASSUME NEW u \in Sessions', NEW g \in Followers, session'[u].follower = g
       PROVE  /\ session'[u].hsLsn \in GotBy(g)'
              /\ \A i \in DOMAIN session'[u].toLeader : session'[u].toLeader[i].lsn \in GotBy(g)'
  <2>1. CASE u = n
    <3>1. 0 \in GotBy(g)'
      BY DEF GotBy
    <3>2. g = f /\ follower[f].lsn \in GotBy(g)'
      BY <1>3, <1>4, <1>5, <1>11, <1>12, <2>1
    <3> QED BY <1>3, <1>4, <2>1, <3>1, <3>2
  <2>2. CASE u # n
    BY <1>4, <1>10, <1>12, <2>2 DEF ReplicationInv, AcksInv
  <2> QED BY <2>1, <2>2
<1>13. AcksInv'
  BY <1>11, <1>12 DEF AcksInv
<1> QED BY <1>7, <1>9, <1>13 DEF ReplicationInv

LEMMA InitKeeps ==
    ASSUME Init
    PROVE  ReplicationInv
<1>0. leader \in [stopping : BOOLEAN, graph : BOOLEAN]
  <2>1. leader \in [stopping : {FALSE}, graph : BOOLEAN]
    BY DEF Init
  <2> QED BY <2>1
<1>1. Sessions = {} /\ lsn = 0 /\ append = Idle /\ subscribers = {} /\ session = <<>>
  BY DEF Init, Sessions
<1>2. known \in [Followers -> [lastLsn : Nat, alive : BOOLEAN]] /\ \A f \in Followers : known[f].lastLsn = 0
  BY DEF Init
<1>3. /\ follower \in [Followers -> ProcessType]
      /\ \A f \in Followers : follower[f].lsn = 0 /\ follower[f].session = NoSession
  BY DEF Init, NewProcess, ProcessType, NoSession
<1>4. ContextInv
  <2>1. lsn \in 0 .. MaxLsn /\ session \in Seq(SessionType)
    BY <1>1, ReplicationBounds
  <2>2. append \in [busy : BOOLEAN, todo : SUBSET Nat] /\ append.todo = {}
    BY <1>1 DEF Idle
  <2>3. \A f \in Followers : follower[f].lsn <= lsn
    BY <1>1, <1>3
  <2> QED BY <1>0, <1>1, <1>2, <1>3, <2>1, <2>2, <2>3 DEF ContextInv
<1>5. SessionsInv /\ AcksInv
  BY <1>1, <1>2, <1>3 DEF SessionsInv, AcksInv, GotBy
<1> QED BY <1>4, <1>5 DEF ReplicationInv

LEMMA NextKeeps ==
    ASSUME ReplicationInv, [Next]_vars
    PROVE  ReplicationInv'
<1>1. CASE UNCHANGED vars
  <2>1. Sessions' = Sessions /\ \A g : GotBy(g)' = GotBy(g)
    BY <1>1, SameSessions DEF vars
  <2>2. ContextInv' /\ SessionsInv' /\ AcksInv'
    BY <1>1, <2>1 DEF vars, ReplicationInv, ContextInv, SessionsInv, AcksInv, Newest, Idle
  <2> QED BY <2>2 DEF ReplicationInv
<1>2. CASE Shutdown
  <2>1. Sessions' = Sessions /\ \A g : GotBy(g)' = GotBy(g)
    BY <1>2, SameSessions DEF Shutdown
  <2>2. ContextInv' /\ SessionsInv' /\ AcksInv'
    BY <1>2, <2>1 DEF Shutdown, ReplicationInv, ContextInv, SessionsInv, AcksInv, Newest, Idle
  <2> QED BY <2>2 DEF ReplicationInv
<1>3. CASE StartAppend
  BY <1>3, StartAppendKeeps
<1>4. CASE Appending
  BY <1>4, DeliverKeeps, AppendEndsKeep DEF Appending
<1>5. ASSUME NEW s \in Sessions,
             \/ Handshaking(s) \/ FinishWrite(s) \/ ForwardWal(s) \/ Heartbeat(s)
             \/ ReceiveAck(s) \/ Leaving(s) \/ Break(s)
      PROVE  ReplicationInv'
  BY <1>5, HandlersKeep, LeaderLearnsKeep, SubscribeKeeps DEF Handshaking, Leaving
<1>6. ASSUME NEW f \in Followers, Connect(f) \/ ReceiveStep(f) \/ Watchdog(f) \/ Restart(f)
      PROVE  ReplicationInv'
  BY <1>6, ConnectKeeps, ReceivesKeep, ReceiveWalKeeps, EndSessionKeeps, WatchdogKeeps, RestartKeeps
     DEF ReceiveStep
<1> QED BY <1>1, <1>2, <1>3, <1>4, <1>5, <1>6 DEF Next

(* The bytes towards the follower and the message being written, as one       *)
(* stream.                                                                    *)
LEMMA WireStream ==
    ASSUME NEW r, NEW l \in Nat, Good(r, l), r.up
    PROVE  LET wire == r.toFollower \o r.out
           IN /\ Positions(wire, Received(r))
              /\ Received(r) + AllWals(wire) = SentUpTo(r)
<1> DEFINE wire == r.toFollower \o r.out
           m == r.out[1]
<1>1. r \in SessionType /\ r.toFollower \in Seq(Messages) /\ r.out \in Seq(Messages) /\ Sound(r, l)
  BY DEF Good, Sound, SessionType
<1>2. /\ SentUpTo(r) \in Nat /\ Received(r) \in Nat /\ AllWals(r.toFollower) \in Nat
      /\ AllWals(r.out) \in Nat
  BY <1>1, SentUpToNat
<1>3. SentUpTo(r) = Received(r) + AllWals(r.toFollower) + AllWals(r.out)
  BY DEF SentUpTo
<1>4. Positions(r.toFollower, Received(r))
  BY DEF Good, Gapless
<1>5. CASE r.out = <<>>
  <2>1. wire = r.toFollower
    BY <1>1, <1>5, ConcatEmptySeq
  <2>2. AllWals(r.out) = 0
    BY <1>5, EmptyFacts
  <2> QED BY <1>1, <1>2, <1>3, <1>4, <2>1, <2>2
<1>6. CASE r.out # <<>>
  <2>1. /\ m \in Messages /\ 1 \in DOMAIN r.out
        /\ wire = Append(r.toFollower, m)
        /\ AllWals(r.out) = IF IsWal(m) THEN 1 ELSE 0
    BY <1>1, <1>6, Writing
  <2>2. IsWal(m) => m.lsn = Received(r) + AllWals(r.toFollower) + 1
    BY <2>1 DEF Good, Gapless
  <2>3. Positions(wire, Received(r))
    BY <1>1, <1>2, <1>4, <2>1, <2>2, PositionsAppend
  <2>4. AllWals(wire) = IF IsWal(m) THEN AllWals(r.toFollower) + 1 ELSE AllWals(r.toFollower)
    BY <1>1, <2>1, WalsAppend
  <2> QED BY <1>2, <1>3, <2>1, <2>3, <2>4
<1> QED BY <1>5, <1>6

LEMMA InvImpliesTyped ==
    ASSUME ReplicationInv
    PROVE  TypeOK
<1>1. \A s \in Sessions :
        /\ session[s].phase \in Phases
        /\ Len(session[s].queue) <= QueueCapacity
        /\ Len(session[s].toFollower) <= WireCapacity
        /\ session[s].phase = "done" => ~session[s].up
  BY DEF ReplicationInv, SessionsInv, Good, Sound, SessionType
<1>2. \A f \in Followers :
        /\ follower[f].lsn \in 0 .. lsn
        /\ follower[f].session \in {NoSession} \cup Sessions
  BY ReplicationBounds DEF ReplicationInv, ContextInv, ProcessType
<1>3. /\ lsn \in 0 .. MaxLsn /\ subscribers \subseteq Sessions /\ append.todo \subseteq subscribers
      /\ ~append.busy => append = Idle
  BY DEF ReplicationInv, ContextInv
<1> QED BY <1>1, <1>2, <1>3 DEF TypeOK, Phases

LEMMA InvImpliesGapless ==
    ASSUME ReplicationInv
    PROVE  StreamGapless
<1> SUFFICES ASSUME NEW s \in Sessions, session[s].up, session[s].phase \in Subscribed
             PROVE  LET r == session[s]
                        wire == r.toFollower \o r.out
                        received == r.from + Len(r.got)
                        sent == received + Wals(wire, Len(wire))
                    IN /\ \A i \in DOMAIN r.got : r.got[i] = r.from + i
                       /\ \A i \in DOMAIN wire : IsWal(wire[i]) => wire[i].lsn = received + Wals(wire, i)
                       /\ \A i \in DOMAIN r.queue : r.queue[i] = sent + i
                       /\ s \in subscribers =>
                             sent + Len(r.queue) = IF s \in append.todo THEN lsn - 1 ELSE lsn
  BY DEF StreamGapless
<1> DEFINE r == session[s]
           wire == r.toFollower \o r.out
<1>1. Good(r, lsn) /\ lsn \in Nat
  BY InvFacts
<1>2. /\ Positions(wire, Received(r)) /\ Received(r) + AllWals(wire) = SentUpTo(r)
  BY <1>1, WireStream
<1>3. Consecutive(r.got, r.from) /\ Consecutive(r.queue, SentUpTo(r))
  BY <1>1 DEF Good, Gapless
<1>4. s \in subscribers => SentUpTo(r) + Len(r.queue) = Newest(s)
  BY DEF ReplicationInv, SessionsInv, Fed
<1> HIDE DEF wire
<1>5. /\ \A i \in DOMAIN r.got : r.got[i] = r.from + i
      /\ \A i \in DOMAIN wire : IsWal(wire[i]) => wire[i].lsn = Received(r) + Wals(wire, i)
      /\ \A i \in DOMAIN r.queue : r.queue[i] = SentUpTo(r) + i
  BY <1>2, <1>3 DEF Consecutive, Positions
<1> QED BY <1>2, <1>4, <1>5 DEF Received, AllWals, Newest, wire

LEMMA InvImpliesAcks ==
    ASSUME ReplicationInv
    PROVE  AcksApplied
BY DEF ReplicationInv, AcksInv, AcksApplied, GotBy

LEMMA InvImpliesExact ==
    ASSUME ReplicationInv
    PROVE  StreamsExact
BY InvImpliesTyped, InvImpliesGapless, InvImpliesAcks DEF StreamsExact

(* For any number of followers, sessions, entries and any capacity of queues  *)
(* and sockets: every session that is up carries the entries after its        *)
(* subscription without gap, repetition or reordering, across the handler's   *)
(* queue, the write under way, the wire and what the follower has received,   *)
(* and every acknowledgement the leader holds is of an entry the follower     *)
(* received (append_wal_entry, handle_follower_connection, receive loop).     *)
THEOREM StreamsAlwaysExact == Spec => []StreamsExact
<1>1. Init => ReplicationInv
  BY InitKeeps
<1>2. ReplicationInv /\ [Next]_vars => ReplicationInv'
  BY NextKeeps
<1>3. ReplicationInv => StreamsExact
  BY InvImpliesExact
<1> QED BY <1>1, <1>2, <1>3, PTL DEF Spec

-----------------------------------------------------------------------------
(* Followers without the secret.                                              *)

LEMMA MoveRefused ==
    ASSUME NEW r, NEW t \in SessionType, lsn \in Nat, Good(r, lsn), Refused(r),
           StreamMove(r, t) \/ DeliverMove(r, t) \/ SubscribeMove(r, t)
    PROVE  Refused(t)
<1> SUFFICES ASSUME t.follower \notin Authorized
             PROVE  /\ t.phase \in {"accepted", "done"} /\ t.out = <<>>
                    /\ \A i \in DOMAIN t.toFollower : t.toFollower[i].kind = "Unauthorized"
  BY DEF Refused
<1>1. t.follower = r.follower
  BY DEF StreamMove, PlainMove, DownMove, TakeMove, FinishMove, ReceiveWalMove, RefuseMove, SentMove,
         ForwardMove, DeliverMove, SubscribeMove, Kept
<1>2. /\ r.phase \in {"accepted", "done"} /\ r.out = <<>>
      /\ \A i \in DOMAIN r.toFollower : r.toFollower[i].kind = "Unauthorized"
  BY <1>1 DEF Refused
<1>3. r.toFollower \in Seq(Messages)
  BY DEF Good, Sound, SessionType
<1>4. CASE PlainMove(r, t) \/ DeliverMove(r, t)
  BY <1>2, <1>4 DEF PlainMove, DeliverMove, PhaseKept, Registers
<1>5. CASE DownMove(r, t)
  BY <1>2, <1>5 DEF DownMove, PhaseKept
<1>6. CASE TakeMove(r, t)
  <2>1. \A i \in DOMAIN t.toFollower : i + 1 \in DOMAIN r.toFollower /\ t.toFollower[i] = r.toFollower[i + 1]
    BY <1>3, <1>6, TailType DEF TakeMove
  <2> QED BY <1>2, <1>6, <2>1 DEF TakeMove
<1>7. CASE FinishMove(r, t) \/ SubscribeMove(r, t)
  BY <1>2, <1>7 DEF FinishMove, SubscribeMove
<1>8. CASE ReceiveWalMove(r, t)
  <2>1. Head(r.toFollower) = r.toFollower[1] /\ 1 \in DOMAIN r.toFollower
    BY <1>3, <1>8 DEF ReceiveWalMove
  <2> QED BY <1>2, <1>8, <2>1 DEF ReceiveWalMove, IsWal
<1>9. ASSUME NEW m \in Messages, RefuseMove(r, t, m)
      PROVE  /\ t.phase \in {"accepted", "done"} /\ t.out = <<>>
             /\ \A i \in DOMAIN t.toFollower : t.toFollower[i].kind = "Unauthorized"
  <2>1. r.toFollower = <<>>
    BY <1>9 DEF Good, Sound, RefuseMove
  <2>2. Len(r.toFollower) < WireCapacity
    BY <2>1, ReplicationBounds
  <2>3. t.toFollower = <<m>> /\ t.out = <<>>
    BY <1>9, <2>1, <2>2 DEF RefuseMove, Wrote
  <2> QED BY <1>9, <2>3 DEF RefuseMove
<1>10. ASSUME NEW m \in Messages, SentMove(r, t, m) \/ ForwardMove(r, t, m)
       PROVE  FALSE
  BY <1>1, <1>2, <1>10 DEF SentMove, ForwardMove
<1> QED BY <1>4, <1>5, <1>6, <1>7, <1>8, <1>9, <1>10 DEF StreamMove

(* Sessions stay refused, and unauthorized followers without data.            *)
RefusedSessions == \A s \in Sessions : Refused(session[s])
Barred == Followers \ Authorized
BarredStep == \A f \in Barred : follower'[f].data = {} /\ ~known'[f].alive

LEMMA RefusedKeeps ==
    ASSUME ReplicationInv, RefusedInv, NEW s \in Sessions, NEW t \in SessionType, Becomes(s, t),
           StreamMove(session[s], t) \/ DeliverMove(session[s], t) \/ SubscribeMove(session[s], t),
           t.follower = session[s].follower,
           subscribers' \subseteq subscribers \cup {s},
           s \in subscribers' \ subscribers => session[s].phase = "acked",
           BarredStep
    PROVE  RefusedInv'
<1>1. session \in Seq(SessionType) /\ Good(session[s], lsn) /\ lsn \in Nat
  BY InvFacts
<1>2. /\ Sessions' = Sessions /\ session'[s] = t
      /\ \A u \in Sessions \ {s} : session'[u] = session[u]
  BY <1>1, SessionMoves
<1>3. Refused(session[s])
  BY DEF RefusedInv
<1>4. Refused(t)
  BY <1>1, <1>3, MoveRefused
<1>5. \A u \in Sessions' : Refused(session'[u])
  BY <1>2, <1>4 DEF RefusedInv
<1>6. \A f \in Barred, u \in subscribers' : session'[u].follower # f
  <2> SUFFICES ASSUME NEW f \in Barred, NEW u \in subscribers', session'[u].follower = f PROVE FALSE
    OBVIOUS
  <2>1. u \in Sessions /\ session[u].follower = f
    BY <1>2 DEF ReplicationInv, ContextInv
  <2>2. u \notin subscribers
    BY <2>1 DEF RefusedInv, UnauthorizedIsolated, Barred
  <2>3. u = s /\ session[s].phase = "acked"
    BY <2>2
  <2> QED BY <1>3, <2>1, <2>3 DEF Refused, Barred
<1> QED BY <1>5, <1>6 DEF RefusedInv, UnauthorizedIsolated, BarredStep, Barred

LEMMA StreamFollower ==
    ASSUME NEW r, NEW t, StreamMove(r, t)
    PROVE  t.follower = r.follower
BY DEF StreamMove, PlainMove, DownMove, TakeMove, FinishMove, ReceiveWalMove, RefuseMove, SentMove,
       ForwardMove, Kept

LEMMA HandlersRefuse ==
    ASSUME ReplicationInv, RefusedInv, NEW s \in Sessions,
           \/ AckHandshake(s) \/ AbandonHandshake(s) \/ SendSnapshot(s) \/ Heartbeat(s)
           \/ ForwardWal(s) \/ FinishWrite(s) \/ LeaveLoop(s) \/ LeaveOnShutdown(s) \/ Break(s)
           \/ Register(s) \/ ReceiveAck(s) \/ ExitHandler(s) \/ Subscribe(s)
    PROVE  RefusedInv'
<1>1. session[s] \in SessionType /\ Good(session[s], lsn) /\ lsn \in Nat /\ session[s].follower \in Followers
  BY InvFacts
<1>2. Refused(session[s]) /\ known \in [Followers -> [lastLsn : Nat, alive : BOOLEAN]]
      /\ \A f \in Barred : follower[f].data = {} /\ ~known[f].alive
  BY DEF RefusedInv, UnauthorizedIsolated, Barred, ReplicationInv, ContextInv
<1>3. CASE Subscribe(s)
  <2>1. PICK t \in SessionType : Becomes(s, t) /\ SubscribeMove(session[s], t)
    BY <1>1, <1>3, SubscribeMoves
  <2>2. BarredStep /\ subscribers' = subscribers \cup {s} /\ session[s].phase = "acked"
    BY <1>2, <1>3 DEF Subscribe, BarredStep
  <2>3. t.follower = session[s].follower
    BY <2>1 DEF SubscribeMove
  <2> QED BY <2>1, <2>2, <2>3, RefusedKeeps
<1>4. CASE ~Subscribe(s)
  <2>1. UNCHANGED <<subscribers, follower>>
    BY <1>4 DEF AckHandshake, AbandonHandshake, SendSnapshot, Heartbeat, ForwardWal, FinishWrite,
         LeaveLoop, LeaveOnShutdown, Break, Register, ReceiveAck, ExitHandler
  <2>2. PICK t \in SessionType : Becomes(s, t) /\ StreamMove(session[s], t)
    BY <1>1, <1>4, AckHandshakeMoves, AbandonHandshakeMoves, SendSnapshotMoves, HeartbeatMoves,
       ForwardWalMoves, FinishWriteMoves, LeaveLoopMoves, LeaveOnShutdownMoves, BreakMoves,
       RegisterMoves, ReceiveAckMoves, ExitHandlerMoves DEF StreamMove
  <2>3. BarredStep
    <3> DEFINE f == session[s].follower
    <3>1. CASE Register(s)
      <4>1. f \in Authorized
        BY <1>2, <3>1 DEF Refused, Register
      <4>2. \A g \in Followers \ {f} : known'[g] = known[g]
        BY <1>2, <3>1 DEF Register
      <4> QED BY <1>2, <2>1, <4>1, <4>2 DEF BarredStep, Barred
    <3>2. CASE ReceiveAck(s)
      <4>1. \A g \in Followers : known'[g].alive = known[g].alive
        BY <1>1, <1>2, <3>2 DEF ReceiveAck
      <4> QED BY <1>2, <2>1, <4>1 DEF BarredStep, Barred
    <3>3. CASE ExitHandler(s)
      <4>1. \A g \in Followers : known'[g].alive \in {known[g].alive, FALSE}
        BY <1>1, <1>2, <3>3 DEF ExitHandler
      <4> QED BY <1>2, <2>1, <4>1 DEF BarredStep, Barred
    <3>4. CASE ~(Register(s) \/ ReceiveAck(s) \/ ExitHandler(s))
      <4>1. known' = known
        BY <1>4, <3>4 DEF AckHandshake, AbandonHandshake, SendSnapshot, Heartbeat, ForwardWal, FinishWrite,
           LeaveLoop, LeaveOnShutdown, Break
      <4> QED BY <1>2, <2>1, <4>1 DEF BarredStep
    <3> QED BY <3>1, <3>2, <3>3, <3>4
  <2> QED BY <2>1, <2>2, <2>3, StreamFollower, RefusedKeeps
<1> QED BY <1>3, <1>4

(* What a barred follower receives: a refusal, and nothing else.              *)
LEMMA BarredReceives ==
    ASSUME ReplicationInv, RefusedInv, NEW f \in Barred, NEW s \in Sessions, NEW k,
           Receiving(f, s, k)
    PROVE  k = "Unauthorized"
<1>1. follower[f].session = s /\ session[s].toFollower # <<>> /\ Head(session[s].toFollower).kind = k
  BY DEF Receiving
<1>2. f = session[s].follower
  BY <1>1, ConnectedTo DEF Barred
<1>3. session[s].toFollower \in Seq(Messages)
  BY InvFacts DEF SessionType
<1>4. Head(session[s].toFollower) = session[s].toFollower[1] /\ 1 \in DOMAIN session[s].toFollower
  BY <1>1, <1>3
<1> QED BY <1>1, <1>2, <1>4 DEF RefusedInv, Refused, Barred

LEMMA ReceivesRefuse ==
    ASSUME ReplicationInv, RefusedInv, NEW f \in Followers, NEW s \in Sessions,
           \/ ReceiveHandshakeAck(f, s) \/ ReceiveHeartbeat(f, s) \/ ReceiveSnapshot(f, s)
           \/ ReceiveWal(f, s) \/ EndSession(f, s)
    PROVE  RefusedInv'
<1> DEFINE r == session[s]
<1>1. r \in SessionType /\ lsn \in Nat /\ Good(r, lsn)
  BY InvFacts
<1>2. UNCHANGED <<lsn, subscribers, append, known, leader>> /\ follower[f].session = s
  BY DEF ReceiveHandshakeAck, ReceiveHeartbeat, ReceiveSnapshot, ReceiveWal, EndSession, Receiving
<1>3. follower[f] \in ProcessType /\ follower[f].lsn \in Nat /\ follower \in [Followers -> ProcessType]
  BY <1>2, ConnectedTo
<1>4. \A g \in Barred : follower[g].data = {} /\ ~known[g].alive
  BY DEF RefusedInv, UnauthorizedIsolated, Barred
<1>5. /\ \A g \in Followers \ {f} : follower'[g].data = follower[g].data
      /\ f \in Barred => follower'[f].data = follower[f].data
  <2>1. CASE ReceiveHandshakeAck(f, s) \/ ReceiveHeartbeat(f, s)
    BY <1>3, <2>1 DEF ReceiveHandshakeAck, ReceiveHeartbeat, ProcessType
  <2>2. CASE EndSession(f, s)
    BY <1>3, <2>2 DEF EndSession, ProcessType
  <2>3. CASE ReceiveSnapshot(f, s) \/ ReceiveWal(f, s)
    <3>1. f \notin Barred
      BY <2>3, BarredReceives DEF ReceiveSnapshot, ReceiveWal
    <3>2. \A g \in Followers \ {f} : follower'[g].data = follower[g].data
      BY <1>3, <2>3, Zenon DEF ReceiveSnapshot, ReceiveWal
    <3> QED BY <3>1, <3>2
  <2> QED BY <2>1, <2>2, <2>3
<1>6. BarredStep
  BY <1>2, <1>4, <1>5 DEF BarredStep, Barred
<1>7. \E t \in SessionType : Becomes(s, t) /\ StreamMove(r, t)
  <2>1. CASE ReceiveHandshakeAck(f, s) \/ ReceiveSnapshot(f, s)
    <3>1. Take(s) /\ r.toFollower # <<>> /\ ~IsWal(Head(r.toFollower))
      BY <2>1 DEF ReceiveHandshakeAck, ReceiveSnapshot, Receiving, IsWal
    <3> QED BY <1>1, <3>1, TakeMoves DEF StreamMove
  <2>2. CASE ReceiveHeartbeat(f, s)
    <3> DEFINE m == Message("HeartbeatAck", follower[f].lsn)
    <3>1. Becomes(s, Replied(r, m)) /\ r.toFollower # <<>> /\ ~IsWal(Head(r.toFollower))
      BY <2>2 DEF ReceiveHeartbeat, Receiving, IsWal
    <3>2. m \in Messages
      BY <1>3, MessageType DEF Kinds
    <3> HIDE DEF m
    <3> QED BY <1>1, <3>1, <3>2, ReplyMoves DEF StreamMove
  <2>3. CASE ReceiveWal(f, s)
    <3> DEFINE l == Head(r.toFollower).lsn
               m == Message("WalAck", l)
    <3>1. /\ Becomes(s, [Replied(r, m) EXCEPT !.got = Append(@, l)])
          /\ r.toFollower # <<>> /\ IsWal(Head(r.toFollower))
      BY <2>3 DEF ReceiveWal, Receiving, IsWal
    <3>2. l \in Nat
      <4>1. Head(r.toFollower) \in Messages
        BY <1>1, <3>1, TailType DEF SessionType
      <4> QED BY <4>1 DEF Messages
    <3>3. m \in Messages
      BY <3>2, MessageType DEF Kinds
    <3> HIDE DEF m
    <3> QED BY <1>1, <3>1, <3>2, <3>3, ReceiveWalMoves DEF StreamMove
  <2>4. CASE EndSession(f, s)
    BY <1>1, <2>4, LostMoves DEF StreamMove, EndSession
  <2> QED BY <2>1, <2>2, <2>3, <2>4
<1> QED BY <1>2, <1>6, <1>7, StreamFollower, RefusedKeeps

(* Steps that leave the sessions there are alone.                             *)
LEMMA QuietRefuse ==
    ASSUME ReplicationInv, RefusedInv, Sessions \subseteq Sessions',
           \A u \in Sessions : session'[u] = session[u],
           \A u \in Sessions' \ Sessions : Refused(session'[u]),
           subscribers' \subseteq subscribers, BarredStep
    PROVE  RefusedInv'
<1>1. \A u \in Sessions' : Refused(session'[u])
  BY DEF RefusedInv
<1>2. \A f \in Barred, u \in subscribers' : session'[u].follower # f
  BY DEF RefusedInv, UnauthorizedIsolated, Barred, ReplicationInv, ContextInv
<1> QED BY <1>1, <1>2 DEF RefusedInv, UnauthorizedIsolated, BarredStep, Barred

LEMMA LeaderRefuses ==
    ASSUME ReplicationInv, RefusedInv, StartAppend \/ Appending \/ Shutdown \/ UNCHANGED vars
    PROVE  RefusedInv'
<1>1. UNCHANGED <<known, follower>>
  BY DEF StartAppend, Appending, FinishAppend, Deliver, DropSubscriber, Shutdown, vars
<1>2. BarredStep
  BY <1>1 DEF BarredStep, Barred, RefusedInv, UnauthorizedIsolated
<1>3. ASSUME NEW s \in append.todo, Deliver(s) PROVE RefusedInv'
  <2>1. s \in Sessions
    BY DEF ReplicationInv, ContextInv
  <2>2. session[s] \in SessionType /\ lsn \in Nat
    BY <2>1, InvFacts
  <2>3. PICK t \in SessionType : Becomes(s, t) /\ DeliverMove(session[s], t)
    BY <1>3, <2>2, DeliverMoves
  <2>4. t.follower = session[s].follower /\ subscribers' = subscribers
    BY <1>3, <2>3 DEF DeliverMove, Kept, Deliver
  <2> QED BY <1>2, <2>1, <2>3, <2>4, RefusedKeeps
<1>4. CASE session' = session /\ subscribers' \subseteq subscribers
  BY <1>2, <1>4, QuietRefuse, SameSessions
<1>5. (session' = session /\ subscribers' \subseteq subscribers) \/ \E s \in append.todo : Deliver(s)
  BY DEF StartAppend, Appending, FinishAppend, DropSubscriber, Shutdown, vars
<1> QED BY <1>3, <1>4, <1>5

LEMMA ProcessesRefuse ==
    ASSUME ReplicationInv, RefusedInv, NEW f \in Followers, Connect(f) \/ Watchdog(f) \/ Restart(f)
    PROVE  RefusedInv'
<1>1. follower \in [Followers -> ProcessType] /\ session \in Seq(SessionType) /\ lsn \in Nat
      /\ follower[f].lsn \in Nat
  BY ReplicationBounds DEF ReplicationInv, ContextInv, ProcessType
<1>2. UNCHANGED <<subscribers, known>>
  BY DEF Connect, Watchdog, Restart
<1>3. \A g \in Followers : follower'[g].data \in {{}, follower[g].data}
  <2>1. CASE Connect(f)
    <3> DEFINE n == Len(session) + 1
    <3>1. follower' = [follower EXCEPT ![f].started = TRUE, ![f].session = n]
      BY <2>1 DEF Connect
    <3> HIDE DEF n
    <3> QED BY <1>1, <3>1 DEF ProcessType
  <2>2. CASE Watchdog(f)
    BY <1>1, <2>2 DEF Watchdog, ProcessType
  <2>3. CASE Restart(f)
    <3>1. PICK saved \in {{}, follower[f].data}, b \in BOOLEAN :
            follower' = [follower EXCEPT ![f] = NewProcess(saved, b)]
      BY <1>1, <2>3, RestartsAs
    <3>2. NewProcess(saved, b).data = saved
      BY DEF NewProcess
    <3> QED BY <1>1, <3>1, <3>2
  <2> QED BY <2>1, <2>2, <2>3
<1>4. BarredStep
  BY <1>2, <1>3 DEF BarredStep, Barred, RefusedInv, UnauthorizedIsolated
<1>5. CASE Connect(f)
  <2> DEFINE t == NewSession(f)
  <2>1. /\ t \in SessionType /\ t.phase = "accepted" /\ t.out = <<>> /\ t.toFollower = <<>>
    BY <1>1, NewSessionGood
  <2>2. Refused(t)
    BY <2>1 DEF Refused
  <2>3. session' = Append(session, t)
    BY <1>5 DEF Connect
  <2> HIDE DEF t
  <2>4. /\ Sessions' = Sessions \cup {Len(session) + 1} /\ session'[Len(session) + 1] = t
        /\ \A u \in Sessions : session'[u] = session[u]
    BY <1>1, <2>1, <2>3 DEF Sessions
  <2> QED BY <1>2, <1>4, <2>2, <2>4, QuietRefuse
<1>6. CASE session' = session
  BY <1>2, <1>4, <1>6, QuietRefuse, SameSessions
<1>7. CASE Restart(f) /\ session' # session
  <2>1. PICK s \in Sessions : s = follower[f].session
    BY <1>7 DEF ReplicationInv, ContextInv, Restart
  <2>2. session[s] \in SessionType
    BY InvFacts
  <2>3. Becomes(s, [session[s] EXCEPT !.up = FALSE, !.toFollower = <<>>])
    BY <1>7, <2>1 DEF Restart
  <2>4. \E t \in SessionType : Becomes(s, t) /\ StreamMove(session[s], t)
    BY <2>2, <2>3, LostMoves DEF StreamMove
  <2> QED BY <1>2, <1>4, <2>4, StreamFollower, RefusedKeeps
<1> QED BY <1>5, <1>6, <1>7 DEF Watchdog

(* For any set of followers and of secrets held: a follower without the       *)
(* shared secret receives no entry and no snapshot, is never subscribed and   *)
(* never marked alive, also across restarts and broken connections            *)
(* (handle_follower_connection compares the secret before it subscribes).     *)
THEOREM UnauthorizedAlwaysIsolated == Spec => []UnauthorizedIsolated
<1> DEFINE Inv == ReplicationInv /\ RefusedInv
<1>1. Init => Inv
  <2>1. Init => RefusedInv
    BY DEF Init, RefusedInv, UnauthorizedIsolated, Sessions, NewProcess
  <2> QED BY <2>1, InitKeeps
<1>2. Inv /\ [Next]_vars => Inv'
  <2> SUFFICES ASSUME ReplicationInv, RefusedInv, [Next]_vars PROVE RefusedInv'
    BY NextKeeps
  <2>1. CASE StartAppend \/ Appending \/ Shutdown \/ UNCHANGED vars
    BY <2>1, LeaderRefuses
  <2>2. ASSUME NEW s \in Sessions,
               \/ Handshaking(s) \/ FinishWrite(s) \/ ForwardWal(s) \/ Heartbeat(s)
               \/ ReceiveAck(s) \/ Leaving(s) \/ Break(s)
        PROVE  RefusedInv'
    BY <2>2, HandlersRefuse DEF Handshaking, Leaving
  <2>3. ASSUME NEW f \in Followers, Connect(f) \/ ReceiveStep(f) \/ Watchdog(f) \/ Restart(f)
        PROVE  RefusedInv'
    BY <2>3, ReceivesRefuse, ProcessesRefuse DEF ReceiveStep
  <2> QED BY <2>1, <2>2, <2>3 DEF Next
<1>3. Inv => UnauthorizedIsolated
  BY DEF RefusedInv
<1> QED BY <1>1, <1>2, <1>3, PTL DEF Spec

-----------------------------------------------------------------------------
(* With snapshots: no entry without those before it.                          *)

CoveredMove(b, r, t, E) ==
    \/ PlainMove(r, t) \/ DownMove(r, t) \/ FinishMove(r, t) \/ DeliverMove(r, t) \/ SubscribeMove(r, t)
    \/ \E m \in Messages : RefuseMove(r, t, m) \/ SentMove(r, t, m) \/ ForwardMove(r, t, m)
    \/ TakeMove(r, t) /\ (IsBase(Head(r.toFollower), r) => Applied(b, r, E))
    \/ ReceiveWalMove(r, t) /\ Head(r.toFollower).lsn \in E

LEMMA SameCovered ==
    ASSUME NEW b, NEW r, NEW t, NEW D, NEW E, D \subseteq E, t.from = r.from, t.got = r.got
    PROVE  /\ Applied(b, r, D) => Applied(b, t, E)
           /\ GotIn(b, r, D) => GotIn(b, t, E)
           /\ t.toFollower = r.toFollower => (WalsBased(b, r, D) => WalsBased(b, t, E))
           /\ t.toFollower = r.toFollower => (Based(b, r, D) => Based(b, t, E))
           /\ \A m : IsBase(m, r) => IsBase(m, t)
BY DEF Applied, GotIn, WalsBased, Based, IsBase

(* A message is written behind the others.                                    *)
LEMMA AppendCovered ==
    ASSUME NEW b, NEW r, NEW t, NEW D, NEW E, D \subseteq E, t.from = r.from, t.got = r.got,
           r.toFollower \in Seq(Messages), NEW m \in Messages, t.toFollower = Append(r.toFollower, m),
           WalsBased(b, r, D), IsWal(m) => Based(b, r, D)
    PROVE  /\ WalsBased(b, t, E) /\ (Based(b, r, D) => Based(b, t, E)) /\ (IsBase(m, r) => Based(b, t, E))
           /\ NoWal(r.toFollower) /\ ~IsWal(m) => NoWal(t.toFollower)
<1> DEFINE v == r.toFollower
           w == t.toFollower
           n == Len(v)
<1>1. /\ n \in Nat /\ DOMAIN v = 1 .. n /\ DOMAIN w = 1 .. n + 1 /\ w[n + 1] = m
      /\ \A i \in 1 .. n : w[i] = v[i]
  OBVIOUS
<1>2. (Applied(b, r, D) => Applied(b, t, E)) /\ \A x : IsBase(x, r) => IsBase(x, t)
  BY SameCovered
<1> HIDE DEF v, w, n
<1>3. ASSUME NEW i \in DOMAIN w, IsWal(w[i]) PROVE Applied(b, t, E) \/ \E j \in 1 .. i - 1 : IsBase(w[j], t)
  <2>1. CASE i \in 1 .. n
    <3>1. Applied(b, r, D) \/ \E j \in 1 .. i - 1 : IsBase(v[j], r)
      BY <1>1, <1>3, <2>1 DEF WalsBased, v
    <3>2. \A j \in 1 .. i - 1 : w[j] = v[j]
      BY <1>1, <2>1
    <3> QED BY <1>2, <3>1, <3>2
  <2>2. CASE i = n + 1
    <3>1. Applied(b, r, D) \/ \E j \in 1 .. n : IsBase(v[j], r)
      BY <1>1, <1>3, <2>2 DEF Based, v
    <3>2. \A j \in 1 .. n : w[j] = v[j] /\ j \in 1 .. i - 1
      BY <1>1, <2>2
    <3> QED BY <1>2, <3>1, <3>2
  <2> QED BY <1>1, <2>1, <2>2
<1>4. WalsBased(b, t, E)
  BY <1>3 DEF WalsBased, w
<1>5. Based(b, r, D) => Based(b, t, E)
  BY <1>1, <1>2 DEF Based, v, w
<1>6. IsBase(m, r) => Based(b, t, E)
  <2>1. n + 1 \in DOMAIN w
    BY <1>1
  <2> QED BY <1>1, <1>2, <2>1 DEF Based, w
<1>7. NoWal(v) /\ ~IsWal(m) => NoWal(w)
  BY <1>1 DEF NoWal
<1> QED BY <1>4, <1>5, <1>6, <1>7 DEF v, w

LEMMA PlainCovered ==
    ASSUME NEW b, NEW r, NEW t \in SessionType, NEW l \in Nat, NEW D, NEW E, Good(r, l), Covered(b, r, D),
           D \subseteq E, b = leader.graph, r.hsLsn = 0, PlainMove(r, t) \/ DeliverMove(r, t)
    PROVE  Covered(b, t, E)
<1>1. t.from = r.from /\ t.got = r.got /\ t.toFollower = r.toFollower /\ t.out = r.out /\ t.up = r.up
  BY DEF PlainMove, DeliverMove, Kept
<1>2. GotIn(b, t, E) /\ WalsBased(b, t, E) /\ (Based(b, r, D) => Based(b, t, E)) /\ \A m : IsBase(m, r) => IsBase(m, t)
  BY <1>1, SameCovered DEF Covered
<1>3. CASE t.phase = r.phase
  BY <1>1, <1>2, <1>3 DEF Covered, HandlerBased, NotYet
<1>4. CASE t.phase = "done"
  BY <1>1, <1>2, <1>4 DEF Covered, HandlerBased, NotYet
<1>5. CASE t.phase = "exiting" /\ (r.phase = "streaming" \/ ~r.up)
  BY <1>1, <1>2, <1>5 DEF Covered, HandlerBased, NotYet
<1>6. CASE Registers(r, t)
  BY <1>1, <1>2, <1>6 DEF Covered, HandlerBased, NotYet, Registers, Based, Applied
<1> QED BY <1>3, <1>4, <1>5, <1>6 DEF PlainMove, DeliverMove, PhaseKept

LEMMA DownCovered ==
    ASSUME NEW b, NEW r, NEW t \in SessionType, NEW l \in Nat, NEW D, NEW E, Good(r, l), Covered(b, r, D),
           D \subseteq E, DownMove(r, t)
    PROVE  Covered(b, t, E)
<1>1. t.from = r.from /\ t.got = r.got /\ ~t.up
  BY DEF DownMove, Kept
<1>2. GotIn(b, t, E) /\ (t.toFollower = r.toFollower => WalsBased(b, t, E))
  BY <1>1, SameCovered DEF Covered
<1>3. t.toFollower = <<>> => WalsBased(b, t, E)
  BY DEF WalsBased
<1>4. NotYet(t)
  <2>1. NoWal(<<>>)
    BY EmptyFacts
  <2> QED BY <2>1 DEF NotYet, Covered, DownMove, PhaseKept
<1> QED BY <1>1, <1>2, <1>3, <1>4 DEF Covered, HandlerBased, DownMove

LEMMA RefuseCovered ==
    ASSUME NEW b, NEW r, NEW t \in SessionType, NEW l \in Nat, NEW D, NEW E, Good(r, l), Covered(b, r, D),
           D \subseteq E, NEW m \in Messages, RefuseMove(r, t, m)
    PROVE  Covered(b, t, E)
<1>1. t.from = r.from /\ t.got = r.got /\ ~t.up /\ t.phase = "done"
  BY DEF RefuseMove, Kept
<1>2. r.toFollower = <<>>
  BY DEF Good, Sound, RefuseMove
<1>3. Len(r.toFollower) < WireCapacity
  BY <1>2, ReplicationBounds
<1>4. t.toFollower = <<m>> /\ ~IsWal(m)
  BY <1>2, <1>3 DEF RefuseMove, Wrote, IsWal
<1>5. WalsBased(b, t, E)
  BY <1>4 DEF WalsBased
<1>6. GotIn(b, t, E)
  BY <1>1, SameCovered DEF Covered
<1> QED BY <1>1, <1>5, <1>6 DEF Covered, HandlerBased, NotYet

LEMMA SubscribeCovered ==
    ASSUME NEW b, NEW r, NEW t \in SessionType, NEW l \in Nat, NEW D, NEW E, Good(r, l), Covered(b, r, D),
           D \subseteq E, SubscribeMove(r, t)
    PROVE  Covered(b, t, E)
<1>1. /\ t.got = <<>> /\ t.out = <<>> /\ NoWal(t.toFollower) /\ t.phase = "subscribed"
  BY DEF SubscribeMove, Good, Sound, Early
<1>2. GotIn(b, t, E) /\ WalsBased(b, t, E) /\ NoWal(t.out)
  BY <1>1, EmptyFacts DEF GotIn, WalsBased, NoWal
<1> QED BY <1>1, <1>2 DEF Covered, HandlerBased, NotYet

LEMMA SentCovered ==
    ASSUME NEW b, NEW r, NEW t \in SessionType, lsn \in Nat, NEW D, NEW E, Good(r, lsn), Covered(b, r, D),
           D \subseteq E, NEW m \in Messages, SentMove(r, t, m) \/ ForwardMove(r, t, m)
    PROVE  Covered(b, t, E)
<1>1. t.from = r.from /\ t.got = r.got /\ t.up = r.up /\ r.up /\ r.out = <<>> /\ Wrote(r, t, m)
  BY DEF SentMove, ForwardMove, Kept
<1>2. r.toFollower \in Seq(Messages) /\ r.from <= lsn /\ NoWal(<<>>)
  BY EmptyFacts DEF Good, Sound, SessionType
<1>3. r.phase = "streaming" => Based(b, r, D)
  BY <1>1 DEF Covered, HandlerBased
<1>4. IsWal(m) => r.phase = "streaming" /\ t.phase = "streaming"
  BY DEF SentMove, ForwardMove, IsWal
<1>5. t.phase = "snapshotting" => IsBase(m, r) /\ r.phase = "subscribed" /\ ~IsWal(m)
  BY <1>2 DEF SentMove, ForwardMove, IsBase, IsWal
<1>6. t.phase \in {"acked", "snapshotting"} \/ r.phase = "streaming"
  BY DEF SentMove, ForwardMove
<1>7. GotIn(b, t, E)
  BY <1>1, SameCovered DEF Covered
<1>8. CASE Len(r.toFollower) < WireCapacity
  <2>1. t.toFollower = Append(r.toFollower, m) /\ t.out = <<>>
    BY <1>1, <1>8 DEF Wrote
  <2>2. /\ WalsBased(b, t, E) /\ (Based(b, r, D) => Based(b, t, E)) /\ (IsBase(m, r) => Based(b, t, E))
        /\ NoWal(r.toFollower) /\ ~IsWal(m) => NoWal(t.toFollower)
    BY <1>1, <1>2, <1>3, <1>4, <2>1, AppendCovered DEF Covered
  <2>3. HandlerBased(b, t, E)
    BY <1>3, <1>5, <1>6, <2>2 DEF HandlerBased
  <2>4. NotYet(t)
    BY <1>2, <1>5, <1>6, <2>1, <2>2, SMT DEF NotYet, Covered, SentMove, ForwardMove
  <2> QED BY <1>7, <2>2, <2>3, <2>4 DEF Covered
<1>9. CASE ~(Len(r.toFollower) < WireCapacity)
  <2>1. t.toFollower = r.toFollower /\ t.out = <<m>>
    BY <1>1, <1>9 DEF Wrote
  <2>2. /\ WalsBased(b, t, E) /\ (Based(b, r, D) => Based(b, t, E)) /\ (IsBase(m, r) => IsBase(m, t))
    BY <1>1, <2>1, SameCovered DEF Covered
  <2>3. t.out # <<>> /\ t.out[1] = m /\ (~IsWal(m) => NoWal(t.out))
    BY <2>1 DEF NoWal
  <2>4. HandlerBased(b, t, E)
    BY <1>3, <1>5, <1>6, <2>2, <2>3 DEF HandlerBased
  <2>5. NotYet(t)
    BY <1>5, <1>6, <2>1, <2>3 DEF NotYet, Covered, SentMove, ForwardMove
  <2> QED BY <1>7, <2>2, <2>4, <2>5 DEF Covered
<1> QED BY <1>8, <1>9

LEMMA FinishCovered ==
    ASSUME NEW b, NEW r, NEW t \in SessionType, NEW l \in Nat, NEW D, NEW E, Good(r, l), Covered(b, r, D),
           D \subseteq E, FinishMove(r, t)
    PROVE  Covered(b, t, E)
<1> DEFINE m == r.out[1]
<1>1. t.from = r.from /\ t.got = r.got /\ t.up = r.up /\ r.up /\ r.out # <<>> /\ t.out = <<>>
      /\ t.phase = r.phase /\ t.toFollower = r.toFollower \o r.out
  BY DEF FinishMove, Kept
<1>2. r.toFollower \in Seq(Messages) /\ Sound(r, l)
  BY DEF Good, Sound, SessionType
<1>3. m \in Messages /\ t.toFollower = Append(r.toFollower, m) /\ 1 \in DOMAIN r.out
  BY <1>1, <1>2, Writing
<1>4. r.phase \in {"snapshotting", "streaming", "exiting"}
  BY <1>1, <1>2 DEF Sound, SessionType, Phases, Early
<1>5. Based(b, r, D) \/ (r.phase = "snapshotting" /\ IsBase(m, r))
  BY <1>1, <1>4 DEF Covered, HandlerBased
<1>6. IsWal(m) => Based(b, r, D)
  BY <1>5 DEF IsBase, IsWal
<1> HIDE DEF m
<1>7. /\ WalsBased(b, t, E) /\ (Based(b, r, D) => Based(b, t, E)) /\ (IsBase(m, r) => Based(b, t, E))
      /\ NoWal(r.toFollower) /\ ~IsWal(m) => NoWal(t.toFollower)
  BY <1>1, <1>2, <1>3, <1>6, AppendCovered DEF Covered
<1>8. NotYet(t)
  <2>1. NoWal(r.out) => ~IsWal(m)
    BY <1>3 DEF NoWal, m
  <2>2. NoWal(t.out)
    BY <1>1, EmptyFacts
  <2> QED BY <1>1, <1>7, <2>1, <2>2 DEF NotYet, Covered
<1>9. GotIn(b, t, E)
  BY <1>1, SameCovered DEF Covered
<1> QED BY <1>5, <1>7, <1>8, <1>9 DEF Covered, HandlerBased

LEMMA TakeCovered ==
    ASSUME NEW b, NEW r, NEW t \in SessionType, NEW l \in Nat, NEW D, NEW E, Good(r, l), Covered(b, r, D),
           D \subseteq E, TakeMove(r, t), IsBase(Head(r.toFollower), r) => Applied(b, r, E)
    PROVE  Covered(b, t, E)
<1> DEFINE v == r.toFollower
           w == t.toFollower
<1>1. /\ t.from = r.from /\ t.got = r.got /\ t.up = r.up /\ t.out = r.out /\ t.phase = r.phase
      /\ w = Tail(v) /\ v # <<>>
  BY DEF TakeMove, Kept
<1>2. v \in Seq(Messages)
  BY DEF Good, Sound, SessionType
<1>3. /\ Len(v) \in Nat /\ Len(v) > 0 /\ DOMAIN v = 1 .. Len(v) /\ DOMAIN w = 1 .. Len(v) - 1
      /\ Head(v) = v[1] /\ \A i \in 1 .. Len(v) - 1 : w[i] = v[i + 1]
  BY <1>1, <1>2
<1>4. GotIn(b, t, E) /\ (Applied(b, r, D) => Applied(b, t, E)) /\ \A m : IsBase(m, r) => IsBase(m, t)
  BY <1>1, SameCovered DEF Covered
<1>5. Applied(b, r, E) => Applied(b, t, E)
  BY <1>1 DEF Applied
<1> HIDE DEF v, w
<1>6. ASSUME NEW n \in 0 .. Len(v) - 1, NEW j \in 1 .. n + 1, IsBase(v[j], r)
      PROVE  Applied(b, t, E) \/ \E k \in 1 .. n : IsBase(w[k], t)
  <2>1. CASE j = 1
    BY <1>3, <1>5, <1>6, <2>1 DEF v
  <2>2. CASE j # 1
    <3>1. j - 1 \in 1 .. n /\ j - 1 \in 1 .. Len(v) - 1 /\ (j - 1) + 1 = j
      BY <1>3, <2>2
    <3>2. w[j - 1] = v[j]
      BY <1>3, <3>1
    <3> QED BY <1>4, <1>6, <3>1, <3>2
  <2> QED BY <2>1, <2>2
<1>7. ASSUME NEW i \in DOMAIN w, IsWal(w[i]) PROVE Applied(b, t, E) \/ \E k \in 1 .. i - 1 : IsBase(w[k], t)
  <2>1. i + 1 \in DOMAIN v /\ w[i] = v[i + 1] /\ i - 1 \in 0 .. Len(v) - 1 /\ (i + 1) - 1 = (i - 1) + 1
    BY <1>3
  <2>2. Applied(b, r, D) \/ \E j \in 1 .. (i - 1) + 1 : IsBase(v[j], r)
    BY <1>7, <2>1 DEF Covered, WalsBased, v
  <2> QED BY <1>4, <1>6, <2>1, <2>2
<1>8. WalsBased(b, t, E)
  BY <1>7 DEF WalsBased, w
<1>9. Based(b, r, D) => Based(b, t, E)
  <2> SUFFICES ASSUME NEW j \in DOMAIN v, IsBase(v[j], r) PROVE Based(b, t, E)
    BY <1>4 DEF Based, v
  <2>1. Len(v) - 1 \in 0 .. Len(v) - 1 /\ j \in 1 .. (Len(v) - 1) + 1
    BY <1>3
  <2>2. Applied(b, t, E) \/ \E k \in 1 .. Len(v) - 1 : IsBase(w[k], t)
    BY <1>6, <2>1
  <2> QED BY <1>3, <2>2 DEF Based, w
<1>10. NoWal(v) => NoWal(w)
  BY <1>3 DEF NoWal
<1> QED BY <1>1, <1>4, <1>8, <1>9, <1>10 DEF Covered, HandlerBased, NotYet, v, w

LEMMA ReceiveWalCovered ==
    ASSUME NEW b, NEW r, NEW t \in SessionType, NEW l \in Nat, NEW D, NEW E, Good(r, l), Covered(b, r, D),
           D \subseteq E, ReceiveWalMove(r, t), Head(r.toFollower).lsn \in E
    PROVE  Covered(b, t, E) /\ Applied(b, r, D)
<1>1. /\ t.from = r.from /\ t.got = Append(r.got, Head(r.toFollower).lsn)
      /\ t.phase = r.phase /\ r.toFollower # <<>> /\ IsWal(Head(r.toFollower))
  BY DEF ReceiveWalMove
<1>2. r.toFollower \in Seq(Messages) /\ r.got \in Seq(Nat)
  BY DEF Good, Sound, SessionType
<1>3. 1 \in DOMAIN r.toFollower /\ Head(r.toFollower) = r.toFollower[1] /\ 1 .. 1 - 1 = {}
  BY <1>1, <1>2
<1>4. Applied(b, r, D)
  BY <1>1, <1>3 DEF Covered, WalsBased
<1>5. Applied(b, t, E)
  BY <1>1, <1>4 DEF Applied
<1>6. GotIn(b, t, E)
  <2>1. \A i \in DOMAIN t.got : t.got[i] = Head(r.toFollower).lsn \/ (i \in DOMAIN r.got /\ t.got[i] = r.got[i])
    BY <1>1, <1>2
  <2> QED BY <1>5, <2>1 DEF GotIn, Covered
<1>7. NotYet(t)
  BY <1>1, <1>3 DEF NotYet, Covered, NoWal
<1> QED BY <1>4, <1>5, <1>6, <1>7 DEF Covered, WalsBased, HandlerBased, Based

LEMMA MoveCovered ==
    ASSUME NEW b, NEW r, NEW t \in SessionType, lsn \in Nat, NEW D, NEW E, Good(r, lsn), Covered(b, r, D),
           D \subseteq E, b = leader.graph, r.hsLsn = 0, CoveredMove(b, r, t, E)
    PROVE  Covered(b, t, E)
BY PlainCovered, DownCovered, RefuseCovered, SubscribeCovered, SentCovered, FinishCovered,
   TakeCovered, ReceiveWalCovered DEF CoveredMove

LEMMA MoveAsksAll ==
    ASSUME NEW b, NEW r, NEW t \in SessionType, NEW E, lsn \in Nat, Good(r, lsn), CoveredMove(b, r, t, E), NEW n,
           Echoes(r, t, n), AsksAll(r)
    PROVE  AsksAll(t)
<1>1. r.toLeader \in Seq(Messages) /\ (r.phase = "accepted" => r.toFollower = <<>>)
  BY DEF Good, Sound, SessionType
<1>2. t.hsLsn = 0
  <2>1. r.toLeader # <<>> => Head(r.toLeader) = r.toLeader[1] /\ 1 \in DOMAIN r.toLeader
    BY <1>1
  <2> QED BY <2>1 DEF Echoes, AsksAll
<1>3. t.phase = "accepted" => r.phase = "accepted"
  BY DEF CoveredMove, PlainMove, DownMove, FinishMove, DeliverMove, SubscribeMove, RefuseMove, SentMove,
         ForwardMove, TakeMove, ReceiveWalMove, PhaseKept, Registers
<1>4. ASSUME t.phase = "accepted" PROVE \A i \in DOMAIN t.toLeader : t.toLeader[i].lsn = 0
  <2>1. \A i \in DOMAIN r.toLeader : r.toLeader[i].lsn = 0
    BY <1>3, <1>4 DEF AsksAll
  <2>2. CASE t.toLeader \in {r.toLeader, <<>>}
    BY <2>1, <2>2
  <2>3. CASE r.toLeader # <<>> /\ t.toLeader = Tail(r.toLeader)
    BY <1>1, <2>1, <2>3, TailType
  <2> QED BY <1>1, <1>3, <1>4, <2>2, <2>3 DEF Echoes
<1> QED BY <1>2, <1>4 DEF AsksAll

(* A step of a session, and of the follower connected through it.             *)
LEMMA CoveredKeeps ==
    ASSUME ReplicationInv, CoveredInv, leader'.graph = leader.graph, NEW s \in Sessions, NEW t \in SessionType,
           NEW E, CoveredMove(leader.graph, session[s], t, E), Becomes(s, t), NEW n, Echoes(session[s], t, n),
           \A f \in Followers :
              /\ Prefixed(leader.graph, follower'[f])
              /\ follower'[f].session \in {NoSession, follower[f].session}
              /\ follower'[f].session # NoSession => Shown(follower[f]) \subseteq Shown(follower'[f])
              /\ follower'[f].session # NoSession /\ follower'[f].session # s =>
                    Shown(follower'[f]) = Shown(follower[f])
              /\ follower'[f].session = s => Shown(follower'[f]) = E
    PROVE  CoveredInv'
<1>1. session \in Seq(SessionType) /\ Good(session[s], lsn) /\ lsn \in Nat
  BY InvFacts
<1>2. /\ Sessions' = Sessions /\ session'[s] = t
      /\ \A u \in Sessions \ {s} : session'[u] = session[u]
  BY <1>1, SessionMoves
<1>3. AsksAll(session[s])
  BY DEF CoveredInv
<1>4. AsksAll(t)
  BY <1>1, <1>3, MoveAsksAll
<1>5. ASSUME NEW f \in Followers, follower'[f].session # NoSession
      PROVE  Covered(leader.graph, session'[follower'[f].session], Shown(follower'[f]))
  <2>1. follower'[f].session = follower[f].session /\ follower[f].session # NoSession
    BY <1>5
  <2>2. Covered(leader.graph, session[follower[f].session], Shown(follower[f]))
    BY <2>1 DEF CoveredInv
  <2>3. CASE follower[f].session = s
    <3>1. session[s].hsLsn = 0
      BY <1>3 DEF AsksAll
    <3>2. PICK D : D = Shown(follower[f])
      OBVIOUS
    <3>3. Covered(leader.graph, session[s], D) /\ D \subseteq E
      BY <1>5, <2>1, <2>2, <2>3, <3>2
    <3>4. Covered(leader.graph, t, E)
      BY <1>1, <3>1, <3>3, MoveCovered
    <3> QED BY <1>2, <2>1, <2>3, <3>4
  <2>4. CASE follower[f].session # s
    <3>1. follower[f].session \in Sessions
      BY <2>1 DEF ReplicationInv, ContextInv
    <3> QED BY <1>2, <2>1, <2>2, <2>4, <3>1
  <2> QED BY <2>3, <2>4
<1>6. \A u \in Sessions' : AsksAll(session'[u])
  BY <1>2, <1>4 DEF CoveredInv
<1> QED BY <1>5, <1>6 DEF CoveredInv

(* The leader moves: what followers have stays.                               *)
LEMMA LeaderCovered ==
    ASSUME ReplicationInv, CoveredInv, leader'.graph = leader.graph, NEW s \in Sessions, NEW t \in SessionType,
           \A E : CoveredMove(leader.graph, session[s], t, E), Becomes(s, t), Echoes(session[s], t, 0),
           follower' = follower
    PROVE  CoveredInv'
<1>1. PICK E : \A f \in Followers : follower[f].session = s => Shown(follower[f]) = E
  <2>1. \A f \in Followers : follower[f].session = s => session[s].follower = f
    BY ConnectedTo
  <2>2. PICK E : E = Shown(follower[session[s].follower])
    OBVIOUS
  <2> QED BY <2>1, <2>2
<1>2. \A f \in Followers : Prefixed(leader.graph, follower[f])
  BY DEF CoveredInv
<1>3. CoveredMove(leader.graph, session[s], t, E)
  OBVIOUS
<1>4. \A f \in Followers :
        /\ Prefixed(leader.graph, follower'[f])
        /\ follower'[f].session \in {NoSession, follower[f].session}
        /\ follower'[f].session # NoSession => Shown(follower[f]) \subseteq Shown(follower'[f])
        /\ follower'[f].session # NoSession /\ follower'[f].session # s =>
              Shown(follower'[f]) = Shown(follower[f])
        /\ follower'[f].session = s => Shown(follower'[f]) = E
  BY <1>1, <1>2
<1> QED BY <1>3, <1>4, CoveredKeeps

LEMMA HandlersCovered ==
    ASSUME ReplicationInv, CoveredInv, leader'.graph = leader.graph, NEW s \in Sessions,
           \/ AckHandshake(s) \/ AbandonHandshake(s) \/ SendSnapshot(s) \/ Heartbeat(s)
           \/ ForwardWal(s) \/ FinishWrite(s) \/ LeaveLoop(s) \/ LeaveOnShutdown(s) \/ Break(s)
           \/ Register(s) \/ ReceiveAck(s) \/ ExitHandler(s) \/ Subscribe(s) \/ Deliver(s)
    PROVE  CoveredInv'
<1> DEFINE r == session[s]
<1>1. r \in SessionType /\ Good(r, lsn) /\ lsn \in Nat
  BY InvFacts
<1>2. follower' = follower
  BY DEF AckHandshake, AbandonHandshake, SendSnapshot, Heartbeat, ForwardWal, FinishWrite,
         LeaveLoop, LeaveOnShutdown, Break, Register, ReceiveAck, ExitHandler, Subscribe, Deliver
<1>3. \E t \in SessionType : /\ Becomes(s, t) /\ Echoes(r, t, 0)
                             /\ \/ PlainMove(r, t) \/ DownMove(r, t) \/ FinishMove(r, t)
                                \/ DeliverMove(r, t) \/ SubscribeMove(r, t)
                                \/ \E m \in Messages :
                                      RefuseMove(r, t, m) \/ SentMove(r, t, m) \/ ForwardMove(r, t, m)
  BY <1>1, AckHandshakeMoves, AbandonHandshakeMoves, SendSnapshotMoves, HeartbeatMoves,
     ForwardWalMoves, FinishWriteMoves, LeaveLoopMoves, LeaveOnShutdownMoves, BreakMoves,
     RegisterMoves, ReceiveAckMoves, ExitHandlerMoves, SubscribeMoves, DeliverMoves
<1>4. \E t \in SessionType : Becomes(s, t) /\ Echoes(r, t, 0) /\ \A E : CoveredMove(leader.graph, r, t, E)
  BY <1>3 DEF CoveredMove
<1> QED BY <1>2, <1>4, LeaderCovered

(* Steps that leave the sessions there are alone.                             *)
LEMMA QuietCovered ==
    ASSUME ReplicationInv, CoveredInv, leader'.graph = leader.graph, Sessions \subseteq Sessions',
           \A u \in Sessions : session'[u] = session[u],
           \A u \in Sessions' \ Sessions : AsksAll(session'[u]),
           \A f \in Followers :
              /\ Prefixed(leader.graph, follower'[f])
              /\ \/ follower'[f].session = NoSession
                 \/ /\ follower'[f].session = follower[f].session
                    /\ Shown(follower'[f]) = Shown(follower[f])
                 \/ Covered(leader.graph, session'[follower'[f].session], Shown(follower'[f]))
    PROVE  CoveredInv'
<1>1. \A u \in Sessions' : AsksAll(session'[u])
  BY DEF CoveredInv
<1>2. ASSUME NEW f \in Followers, follower'[f].session # NoSession
      PROVE  Covered(leader.graph, session'[follower'[f].session], Shown(follower'[f]))
  <2>1. CASE follower'[f].session = follower[f].session /\ Shown(follower'[f]) = Shown(follower[f])
    <3>1. follower[f].session \in Sessions
      BY <1>2, <2>1 DEF ReplicationInv, ContextInv
    <3> QED BY <1>2, <2>1, <3>1 DEF CoveredInv
  <2> QED BY <1>2, <2>1
<1> QED BY <1>1, <1>2 DEF CoveredInv

LEMMA AppendingCovered ==
    ASSUME ReplicationInv, CoveredInv, leader'.graph = leader.graph,
           StartAppend \/ Appending \/ Shutdown \/ UNCHANGED vars
    PROVE  CoveredInv'
<1>1. ASSUME NEW s \in append.todo, Deliver(s) PROVE CoveredInv'
  <2>1. s \in Sessions
    BY DEF ReplicationInv, ContextInv
  <2> QED BY <1>1, <2>1, HandlersCovered
<1>2. CASE session' = session /\ follower' = follower
  <2>1. \A f \in Followers : Prefixed(leader.graph, follower[f])
    BY DEF CoveredInv
  <2> QED BY <1>2, <2>1, QuietCovered, SameSessions
<1>3. (session' = session /\ follower' = follower) \/ \E s \in append.todo : Deliver(s)
  BY DEF StartAppend, Appending, FinishAppend, DropSubscriber, Shutdown, vars
<1> QED BY <1>1, <1>2, <1>3

(* The step of a connected follower: its data may grow, its LSN with it.      *)
LEMMA FollowerCovered ==
    ASSUME ReplicationInv, CoveredInv, leader'.graph = leader.graph, NEW s \in Sessions, NEW f \in Followers,
           follower[f].session = s, OthersKept(f), NEW t \in SessionType, NEW E,
           CoveredMove(leader.graph, session[s], t, E), Becomes(s, t), NEW n, Echoes(session[s], t, n),
           Prefixed(leader.graph, follower'[f]),
           follower'[f].session # NoSession => Shown(follower'[f]) = E /\ Shown(follower[f]) \subseteq E
    PROVE  CoveredInv'
<1>1. \A g \in Followers \ {f} : follower[g].session # s
  BY ConnectedTo
<1>2. s # NoSession
  BY DEF Sessions, NoSession
<1>3. \A g \in Followers : Prefixed(leader.graph, follower[g])
  BY DEF CoveredInv
<1>4. ASSUME NEW g \in Followers
      PROVE  /\ Prefixed(leader.graph, follower'[g])
             /\ follower'[g].session \in {NoSession, follower[g].session}
             /\ follower'[g].session # NoSession => Shown(follower[g]) \subseteq Shown(follower'[g])
             /\ follower'[g].session # NoSession /\ follower'[g].session # s =>
                   Shown(follower'[g]) = Shown(follower[g])
             /\ follower'[g].session = s => Shown(follower'[g]) = E
  <2>1. CASE g = f
    BY <1>2, <2>1 DEF OthersKept
  <2>2. CASE g # f
    BY <1>1, <1>3, <2>2 DEF OthersKept
  <2> QED BY <2>1, <2>2
<1> QED BY <1>4, CoveredKeeps

LEMMA ReceivesCovered ==
    ASSUME ReplicationInv, CoveredInv, leader'.graph = leader.graph, NEW f \in Followers, NEW s \in Sessions,
           ReceiveHandshakeAck(f, s) \/ ReceiveHeartbeat(f, s) \/ ReceiveSnapshot(f, s)
    PROVE  CoveredInv'
<1> DEFINE r == session[s]
<1>1. r \in SessionType /\ lsn \in Nat
  BY InvFacts
<1>2. follower[f].session = s /\ r.toFollower # <<>> /\ ~IsWal(Head(r.toFollower))
  BY DEF ReceiveHandshakeAck, ReceiveHeartbeat, ReceiveSnapshot, Receiving, IsWal
<1>3. f = r.follower /\ follower[f] \in ProcessType /\ follower[f].lsn \in Nat
      /\ follower \in [Followers -> ProcessType] /\ Prefixed(leader.graph, follower[f])
  BY <1>2, ConnectedTo DEF CoveredInv
<1>4. CASE ReceiveHandshakeAck(f, s) \/ ReceiveHeartbeat(f, s)
  <2>1. /\ OthersKept(f) /\ follower'[f].lsn = follower[f].lsn /\ Shown(follower'[f]) = Shown(follower[f])
        /\ follower'[f].started = follower[f].started /\ follower'[f].joined = follower[f].joined
    <3>1. CASE ReceiveHandshakeAck(f, s)
      <4>1. follower' = [follower EXCEPT ![f].ready = TRUE, ![f].leaderAlive = TRUE]
        BY <3>1 DEF ReceiveHandshakeAck
      <4> QED BY <1>3, <4>1 DEF OthersKept, ProcessType, Shown
    <3>2. CASE ReceiveHeartbeat(f, s)
      <4>1. follower' = [follower EXCEPT ![f].leaderAlive = TRUE, ![f].session = AfterReply(s)]
        BY <3>2 DEF ReceiveHeartbeat
      <4>2. AfterReply(s) \in {NoSession, follower[f].session} /\ AfterReply(s) \in Nat
        BY <1>2, <1>3 DEF AfterReply, NoSession, ProcessType
      <4> QED BY <1>3, <4>1, <4>2 DEF OthersKept, ProcessType, Shown
    <3> QED BY <1>4, <3>1, <3>2
  <2>2. Prefixed(leader.graph, follower'[f])
    BY <1>3, <2>1 DEF Prefixed, OthersKept
  <2>3. PICK D : D = Shown(follower[f])
    OBVIOUS
  <2>4. ~IsBase(Head(r.toFollower), r)
    BY <1>4 DEF ReceiveHandshakeAck, ReceiveHeartbeat, Receiving, IsBase
  <2>5. \E t \in SessionType, n \in Nat : Becomes(s, t) /\ CoveredMove(leader.graph, r, t, D) /\ Echoes(r, t, n)
    <3>1. CASE ReceiveHandshakeAck(f, s)
      BY <1>1, <1>2, <2>4, <3>1, TakeMoves DEF CoveredMove, ReceiveHandshakeAck
    <3>2. CASE ReceiveHeartbeat(f, s)
      <4> DEFINE m == Message("HeartbeatAck", follower[f].lsn)
      <4>1. Becomes(s, Replied(r, m))
        BY <3>2 DEF ReceiveHeartbeat
      <4>2. m \in Messages /\ m.lsn \in Nat
        BY <1>3, MessageType DEF Kinds
      <4> HIDE DEF m
      <4> QED BY <1>1, <1>2, <2>4, <4>1, <4>2, ReplyMoves DEF CoveredMove
    <3> QED BY <1>4, <3>1, <3>2
  <2> QED BY <1>2, <2>1, <2>2, <2>3, <2>5, FollowerCovered
<1>5. CASE ReceiveSnapshot(f, s)
  <2> DEFINE l == Head(r.toFollower).lsn
  <2>1. PICK d \in Applying(follower[f], 1 .. l) : follower' = [follower EXCEPT ![f].data = d]
    BY <1>5 DEF ReceiveSnapshot
  <2>2. PICK E : E = Shown(follower[f]) \cup 1 .. l
    OBVIOUS
  <2>3. d \in SUBSET Nat /\ Shown(follower[f]) \subseteq E
    BY <1>3, <2>1, <2>2 DEF ProcessType, Applying
  <2>4. l \in Nat
    <3>1. Head(r.toFollower) \in Messages
      BY <1>1, <1>2, TailType DEF SessionType
    <3> QED BY <3>1 DEF Messages
  <2>5. IsBase(Head(r.toFollower), r) => Applied(leader.graph, r, E)
    <3>1. r.from \in Nat
      BY <1>1 DEF SessionType
    <3>2. IsBase(Head(r.toFollower), r) => r.from <= l
      BY DEF IsBase
    <3> QED BY <2>2, <2>4, <3>1, <3>2 DEF Applied
  <2>6. /\ OthersKept(f) /\ follower'[f].lsn = follower[f].lsn /\ Shown(follower'[f]) = E
        /\ follower'[f].started = follower[f].started /\ follower'[f].joined = follower[f].joined
    <3>1. /\ OthersKept(f) /\ follower'[f].lsn = follower[f].lsn
          /\ follower'[f].started = follower[f].started /\ follower'[f].joined = follower[f].joined
          /\ follower'[f].data = d /\ follower'[f].fresh = follower[f].fresh
      BY <1>3, <2>1, <2>3 DEF OthersKept, ProcessType
    <3>2. Shown(follower'[f]) = E
      BY <2>1, <2>2, <2>4, <3>1 DEF Shown, Applying
    <3> QED BY <3>1, <3>2
  <2> HIDE DEF l
  <2>7. Prefixed(leader.graph, follower'[f])
    BY <1>3, <2>3, <2>6 DEF Prefixed, OthersKept
  <2>8. \E t \in SessionType : Becomes(s, t) /\ CoveredMove(leader.graph, r, t, E) /\ Echoes(r, t, 0)
    BY <1>1, <1>2, <1>5, <2>5, TakeMoves DEF CoveredMove, ReceiveSnapshot
  <2> QED BY <1>2, <2>3, <2>6, <2>7, <2>8, FollowerCovered
<1> QED BY <1>4, <1>5

(* The entry that a follower takes is the next one after those it has.        *)
LEMMA NextApplied ==
    ASSUME NEW b, NEW r, NEW t \in SessionType, NEW l \in Nat, NEW D, NEW E, Good(r, l), Covered(b, r, D),
           D \subseteq E, ReceiveWalMove(r, t), Head(r.toFollower).lsn \in E
    PROVE  (IF b THEN 1 ELSE r.from + 1) .. Head(r.toFollower).lsn \subseteq E
<1>1. Applied(b, r, D) /\ GotIn(b, r, D) /\ Consecutive(r.got, r.from)
  BY ReceiveWalCovered DEF Covered, Good, Gapless
<1>2. Head(r.toFollower).lsn = Received(r) + 1
  BY ReceiveWalStep DEF ReceiveWalMove
<1>3. r.from \in Nat /\ r.got \in Seq(Nat)
  BY DEF Good, Sound, SessionType
<1>4. Len(r.got) \in Nat /\ DOMAIN r.got = 1 .. Len(r.got)
  BY <1>3
<1> SUFFICES ASSUME NEW k \in 1 .. r.from + Len(r.got) + 1, b \/ k > r.from PROVE k \in E
  BY <1>2, <1>3, <1>4 DEF Received
<1>5. CASE k \in 1 .. r.from
  BY <1>1, <1>3, <1>5 DEF Applied
<1>6. CASE k - r.from \in 1 .. Len(r.got)
  <2>1. r.got[k - r.from] = r.from + (k - r.from)
    BY <1>1, <1>4, <1>6 DEF Consecutive
  <2>2. r.from + (k - r.from) = k
    BY <1>3
  <2>3. r.got[k - r.from] \in D
    BY <1>1, <1>4, <1>6 DEF GotIn
  <2> QED BY <2>1, <2>2, <2>3
<1>7. CASE k = r.from + Len(r.got) + 1
  BY <1>2, <1>7 DEF Received
<1> QED BY <1>3, <1>4, <1>5, <1>6, <1>7

LEMMA ReceiveWalStepCovered ==
    ASSUME ReplicationInv, CoveredInv, leader'.graph = leader.graph, NEW f \in Followers, NEW s \in Sessions,
           ReceiveWal(f, s)
    PROVE  CoveredInv'
<1> DEFINE r == session[s]
           l == Head(r.toFollower).lsn
           m == Message("WalAck", l)
<1>1. r \in SessionType /\ lsn \in Nat /\ Good(r, lsn)
  BY InvFacts
<1>2. /\ follower[f].session = s /\ s # NoSession /\ r.toFollower # <<>> /\ IsWal(Head(r.toFollower))
      /\ Becomes(s, [Replied(r, m) EXCEPT !.got = Append(@, l)])
      /\ \E d \in Applying(follower[f], {l}) :
            follower' = [follower EXCEPT ![f].data = d, ![f].lsn = l, ![f].joined = r.from,
                                         ![f].session = AfterReply(s)]
  BY DEF ReceiveWal, Receiving, IsWal
<1>3. follower[f] \in ProcessType /\ follower \in [Followers -> ProcessType]
  BY <1>2, ConnectedTo
<1>4. l \in Nat
  <2>1. Head(r.toFollower) \in Messages
    BY <1>1, <1>2, TailType DEF SessionType
  <2> QED BY <2>1 DEF Messages
<1>5. m \in Messages
  BY <1>4, MessageType DEF Kinds
<1> HIDE DEF m
<1>6. PICK t \in SessionType : Becomes(s, t) /\ ReceiveWalMove(r, t) /\ Echoes(r, t, m.lsn)
  BY <1>1, <1>2, <1>4, <1>5, ReceiveWalMoves
<1>7. PICK D : D = Shown(follower[f])
  OBVIOUS
<1>8. PICK E : E = D \cup {l}
  OBVIOUS
<1>9. Covered(leader.graph, r, D)
  BY <1>2, <1>7 DEF CoveredInv
<1>10. (IF leader.graph THEN 1 ELSE r.from + 1) .. l \subseteq E
  BY <1>1, <1>6, <1>8, <1>9, NextApplied
<1>11. CoveredMove(leader.graph, r, t, E)
  BY <1>6, <1>8 DEF CoveredMove
<1> HIDE DEF l
<1>12. /\ OthersKept(f) /\ follower'[f].lsn = l /\ Shown(follower'[f]) = E
       /\ follower'[f].started = follower[f].started /\ follower'[f].joined = r.from
  <2>1. AfterReply(s) \in {NoSession, follower[f].session} /\ AfterReply(s) \in Nat
    BY <1>2, <1>3 DEF AfterReply, NoSession, ProcessType
  <2>2. PICK d \in Applying(follower[f], {l}) :
          follower' = [follower EXCEPT ![f].data = d, ![f].lsn = l, ![f].joined = r.from,
                                       ![f].session = AfterReply(s)]
    BY <1>2
  <2>3. d \in SUBSET Nat /\ r.from \in Nat
    BY <1>1, <1>3, <1>4, <2>2 DEF ProcessType, Applying, SessionType
  <2>4. /\ OthersKept(f) /\ follower'[f].lsn = l /\ follower'[f].joined = r.from
        /\ follower'[f].started = follower[f].started
        /\ follower'[f].data = d /\ follower'[f].fresh = follower[f].fresh
    BY <1>3, <1>4, <2>1, <2>2, <2>3 DEF OthersKept, ProcessType
  <2>5. Shown(follower'[f]) = E
    BY <1>4, <1>7, <1>8, <2>2, <2>4 DEF Shown, Applying
  <2> QED BY <2>4, <2>5
<1>13. Prefixed(leader.graph, follower'[f])
  <2>1. follower[f].started
    BY <1>2 DEF CoveredInv, Prefixed
  <2> QED BY <1>10, <1>12, <2>1 DEF Prefixed
<1> QED BY <1>2, <1>6, <1>7, <1>8, <1>11, <1>12, <1>13, FollowerCovered

(* The follower gives up the connection.                                      *)
LEMMA LostCovered ==
    ASSUME ReplicationInv, CoveredInv, leader'.graph = leader.graph, NEW f \in Followers, NEW s \in Sessions,
           follower[f].session = s, OthersKept(f), follower'[f].session = NoSession,
           Prefixed(leader.graph, follower'[f]), Becomes(s, [session[s] EXCEPT !.up = FALSE, !.toFollower = <<>>])
    PROVE  CoveredInv'
<1>1. session[s] \in SessionType
  BY InvFacts
<1>2. PICK t \in SessionType : Becomes(s, t) /\ DownMove(session[s], t) /\ Echoes(session[s], t, 0)
  BY <1>1, LostMoves
<1>3. CoveredMove(leader.graph, session[s], t, {})
  BY <1>2 DEF CoveredMove
<1> QED BY <1>2, <1>3, FollowerCovered

LEMMA EndSessionCovered ==
    ASSUME ReplicationInv, CoveredInv, leader'.graph = leader.graph, NEW f \in Followers, NEW s \in Sessions,
           EndSession(f, s)
    PROVE  CoveredInv'
<1>1. /\ follower[f].session = s
      /\ Becomes(s, [session[s] EXCEPT !.up = FALSE, !.toFollower = <<>>])
  BY DEF EndSession
<1>2. follower \in [Followers -> ProcessType] /\ Prefixed(leader.graph, follower[f])
  BY DEF CoveredInv, ReplicationInv, ContextInv
<1>3. /\ OthersKept(f) /\ follower'[f].lsn = follower[f].lsn /\ Shown(follower'[f]) = Shown(follower[f])
      /\ follower'[f].started = follower[f].started /\ follower'[f].session = NoSession
      /\ follower'[f].joined = follower[f].joined
  <2>1. CASE follower' = [follower EXCEPT ![f].session = NoSession]
    BY <1>2, <2>1 DEF OthersKept, ProcessType, NoSession, Shown
  <2>2. CASE follower' = [follower EXCEPT ![f].session = NoSession, ![f].leaderAlive = FALSE]
    BY <1>2, <2>2 DEF OthersKept, ProcessType, NoSession, Shown
  <2>3. CASE follower' = [follower EXCEPT ![f].session = NoSession,
                                          ![f].leaderAlive = @ /\ ~follower[f].ready]
    <3> DEFINE b == follower[f].leaderAlive /\ ~follower[f].ready
    <3>1. b \in BOOLEAN /\ follower' = [follower EXCEPT ![f].session = NoSession, ![f].leaderAlive = b]
      BY <2>3
    <3> HIDE DEF b
    <3> QED BY <1>2, <3>1 DEF OthersKept, ProcessType, NoSession, Shown
  <2> QED BY <2>1, <2>2, <2>3 DEF EndSession
<1>4. Prefixed(leader.graph, follower'[f])
  BY <1>2, <1>3 DEF Prefixed
<1> QED BY <1>1, <1>3, <1>4, LostCovered

LEMMA ProcessesCovered ==
    ASSUME ReplicationInv, CoveredInv, leader'.graph = leader.graph, NEW f \in Followers,
           Connect(f) \/ Watchdog(f) \/ Restart(f)
    PROVE  CoveredInv'
<1>1. follower \in [Followers -> ProcessType] /\ session \in Seq(SessionType) /\ lsn \in Nat
      /\ follower[f].lsn \in Nat
  BY ReplicationBounds DEF ReplicationInv, ContextInv, ProcessType
<1>2. \A g \in Followers : Prefixed(leader.graph, follower[g])
  BY DEF CoveredInv
<1>3. CASE Connect(f)
  <2> DEFINE t == NewSession(f)
             n == Len(session) + 1
  <2>1. /\ t \in SessionType /\ t.phase = "accepted" /\ t.hsLsn = 0 /\ t.out = <<>>
        /\ t.toFollower = <<>> /\ t.got = <<>>
        /\ \A i \in DOMAIN t.toLeader : t.toLeader[i].lsn = follower[f].lsn
    BY <1>1, NewSessionGood
  <2>2. /\ ~follower[f].started /\ session' = Append(session, t)
        /\ follower' = [follower EXCEPT ![f].started = TRUE, ![f].session = n]
    BY <1>3 DEF Connect
  <2>3. follower[f].lsn = 0
    BY <1>2, <2>2 DEF Prefixed
  <2>4. AsksAll(t)
    BY <2>1, <2>3 DEF AsksAll
  <2>5. Covered(leader.graph, t, Shown(follower[f]))
    <3>1. GotIn(leader.graph, t, Shown(follower[f])) /\ WalsBased(leader.graph, t, Shown(follower[f]))
      BY <2>1, EmptyFacts DEF GotIn, WalsBased
    <3> QED BY <2>1, <3>1 DEF Covered, HandlerBased, NotYet
  <2> HIDE DEF t
  <2>6. /\ Sessions' = Sessions \cup {n} /\ session'[n] = t /\ n \in Nat
        /\ \A u \in Sessions : session'[u] = session[u]
    BY <1>1, <2>1, <2>2 DEF Sessions
  <2> HIDE DEF n
  <2>7. /\ \A g \in Followers \ {f} : follower'[g] = follower[g]
        /\ follower'[f].started /\ follower'[f].lsn = follower[f].lsn
        /\ Shown(follower'[f]) = Shown(follower[f]) /\ follower'[f].session = n
        /\ follower'[f].joined = follower[f].joined
    BY <1>1, <2>2, <2>6 DEF ProcessType, Shown
  <2>8. Prefixed(leader.graph, follower'[f])
    BY <1>2, <2>7 DEF Prefixed
  <2>9. \A g \in Followers :
          /\ Prefixed(leader.graph, follower'[g])
          /\ \/ follower'[g].session = NoSession
             \/ /\ follower'[g].session = follower[g].session
                /\ Shown(follower'[g]) = Shown(follower[g])
             \/ Covered(leader.graph, session'[follower'[g].session], Shown(follower'[g]))
    BY <1>2, <2>5, <2>6, <2>7, <2>8
  <2> QED BY <2>4, <2>6, <2>9, QuietCovered
<1>4. CASE Watchdog(f)
  <2>1. follower' = [follower EXCEPT ![f].leaderAlive = FALSE] /\ session' = session
    BY <1>4 DEF Watchdog
  <2>2. \A g \in Followers :
          /\ follower'[g].session = follower[g].session /\ Shown(follower'[g]) = Shown(follower[g])
          /\ follower'[g].lsn = follower[g].lsn /\ follower'[g].started = follower[g].started
          /\ follower'[g].joined = follower[g].joined
    BY <1>1, <2>1 DEF ProcessType, Shown
  <2>3. \A g \in Followers : Prefixed(leader.graph, follower'[g])
    BY <1>2, <2>2 DEF Prefixed
  <2> QED BY <2>1, <2>2, <2>3, QuietCovered, SameSessions
<1>5. CASE Restart(f)
  <2>1. PICK saved \in {{}, follower[f].data}, b \in BOOLEAN :
          follower' = [follower EXCEPT ![f] = NewProcess(saved, b)]
    BY <1>1, <1>5, RestartsAs
  <2>2. NewProcess(saved, b) \in ProcessType /\ NewProcess(saved, b).lsn = 0
        /\ NewProcess(saved, b).session = NoSession /\ NewProcess(saved, b).joined = 0
    BY <1>1 DEF NewProcess, ProcessType, NoSession
  <2>3. /\ OthersKept(f) /\ follower'[f].session = NoSession /\ follower'[f].lsn = 0
        /\ follower'[f].joined = 0
    BY <1>1, <2>1, <2>2 DEF OthersKept
  <2>4. Prefixed(leader.graph, follower'[f])
    BY <2>3 DEF Prefixed
  <2>5. CASE follower[f].session = NoSession
    <3>1. session' = session
      BY <1>5, <2>5 DEF Restart
    <3> QED BY <1>2, <2>3, <2>4, <3>1, QuietCovered, SameSessions DEF OthersKept
  <2>6. CASE follower[f].session # NoSession
    <3>1. PICK s \in Sessions : s = follower[f].session
      BY <2>6 DEF ReplicationInv, ContextInv
    <3>2. Becomes(s, [session[s] EXCEPT !.up = FALSE, !.toFollower = <<>>])
      BY <1>5, <2>6, <3>1 DEF Restart
    <3> QED BY <2>3, <2>4, <3>1, <3>2, LostCovered
  <2> QED BY <2>5, <2>6
<1> QED BY <1>3, <1>4, <1>5

(* Every step leaves the leader its graph, or leaves it without one.          *)
LEMMA GraphStays ==
    ASSUME ReplicationInv, [Next]_vars
    PROVE  leader'.graph = leader.graph
<1>1. leader \in [stopping : BOOLEAN, graph : BOOLEAN]
  BY DEF ReplicationInv, ContextInv
<1>2. CASE Shutdown
  BY <1>1, <1>2 DEF Shutdown
<1>3. CASE leader' = leader
  BY <1>3
<1>4. StartAppend \/ Appending => leader' = leader
  BY DEF StartAppend, Appending, FinishAppend, Deliver, DropSubscriber
<1>5. ASSUME NEW s \in Sessions,
             \/ Handshaking(s) \/ FinishWrite(s) \/ ForwardWal(s) \/ Heartbeat(s)
             \/ ReceiveAck(s) \/ Leaving(s) \/ Break(s)
      PROVE  leader' = leader
  BY <1>5 DEF Handshaking, Leaving, AckHandshake, AbandonHandshake, SendSnapshot, Heartbeat, ForwardWal,
         FinishWrite, LeaveLoop, LeaveOnShutdown, Break, Register, ReceiveAck, ExitHandler, Subscribe
<1>6. ASSUME NEW f \in Followers, Connect(f) \/ ReceiveStep(f) \/ Watchdog(f) \/ Restart(f)
      PROVE  leader' = leader
  BY <1>6 DEF Connect, Watchdog, Restart, ReceiveStep, ReceiveHandshakeAck, ReceiveHeartbeat,
         ReceiveSnapshot, ReceiveWal, EndSession
<1> QED BY <1>2, <1>3, <1>4, <1>5, <1>6 DEF Next, vars

(* A follower that began with an empty graph and claims to have applied entry *)
(* l shows every entry up to l if its leader sends snapshots, and every entry *)
(* since its subscription if the leader, like the server's, sends none; for   *)
(* any number of entries, sessions, crashes and restarts.  The snapshot is    *)
(* taken after the subscription and travels before the first entry, and a     *)
(* restarted follower asks for it again because its LSN starts at 0.          *)
THEOREM AppliedAlwaysPrefix == Spec => []AppliedPrefix
<1> DEFINE Inv == ReplicationInv /\ CoveredInv
<1>1. Init => Inv
  <2>1. ASSUME Init PROVE CoveredInv
    <3>1. Sessions = {} /\ \A f \in Followers : follower[f] = NewProcess({}, TRUE)
      BY <2>1 DEF Init, Sessions
    <3>2. /\ NewProcess({}, TRUE).lsn = 0 /\ NewProcess({}, TRUE).session = NoSession
          /\ NewProcess({}, TRUE).joined = 0
      BY DEF NewProcess
    <3>3. \A b : (IF b THEN 1 ELSE 0 + 1) .. 0 = {}
      OBVIOUS
    <3> QED BY <3>1, <3>2, <3>3 DEF CoveredInv, Prefixed
  <2> QED BY <2>1, InitKeeps
<1>2. Inv /\ [Next]_vars => Inv'
  <2> SUFFICES ASSUME ReplicationInv, CoveredInv, [Next]_vars PROVE CoveredInv'
    BY NextKeeps
  <2>0. leader'.graph = leader.graph
    BY GraphStays
  <2>1. CASE StartAppend \/ Appending \/ Shutdown \/ UNCHANGED vars
    BY <2>0, <2>1, AppendingCovered
  <2>2. ASSUME NEW s \in Sessions,
               \/ Handshaking(s) \/ FinishWrite(s) \/ ForwardWal(s) \/ Heartbeat(s)
               \/ ReceiveAck(s) \/ Leaving(s) \/ Break(s)
        PROVE  CoveredInv'
    BY <2>0, <2>2, HandlersCovered DEF Handshaking, Leaving
  <2>3. ASSUME NEW f \in Followers, Connect(f) \/ ReceiveStep(f) \/ Watchdog(f) \/ Restart(f)
        PROVE  CoveredInv'
    BY <2>0, <2>3, ReceivesCovered, ReceiveWalStepCovered, EndSessionCovered, ProcessesCovered
       DEF ReceiveStep
  <2> QED BY <2>1, <2>2, <2>3 DEF Next
<1>3. Inv => AppliedPrefix
  BY DEF CoveredInv, Prefixed, Shown, AppliedPrefix
<1> QED BY <1>1, <1>2, <1>3, PTL DEF Spec
=============================================================================
