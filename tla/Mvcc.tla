-------------------------------- MODULE Mvcc --------------------------------
(***************************************************************************)
(* The multi-version store of maharit-storage/src/mvcc.rs: version chains, *)
(* snapshots, commit, rollback and garbage collection.                     *)
(*                                                                         *)
(* begin_transaction, begin_snapshot, commit and read_node take &self, so  *)
(* threads sharing the manager interleave between their lock and atomic    *)
(* operations; write_node, delete_node, rollback and gc take &mut self and *)
(* run alone.  A two-step &self call that is under way therefore blocks    *)
(* every &mut self call (Exclusive).                                       *)
(*                                                                         *)
(* A chain is the set of the versions of its node.  Its order, that of     *)
(* created_at, is the order in which write_node pushes; an empty chain and *)
(* a missing one are the same.                                             *)
(***************************************************************************)
EXTENDS Naturals, FiniteSets

CONSTANTS
    Nodes,      \* node ids
    Values,     \* the NodeData a version may carry
    Readers,    \* threads that take snapshots and read under them
    Nil,        \* None
    MaxTxn,     \* bound on transaction ids
    MaxClock    \* bound on the logical clock

ASSUME BoundsAssumption == MaxTxn \in Nat /\ MaxClock \in Nat
ASSUME NilAssumption == Nil \notin Nat /\ Nil \notin Values

VARIABLES
    versions,       \* versioned_nodes: all versions of all chains
    clock,          \* the logical clock
    nextTxn,        \* next_txn_id
    active,         \* active_transactions
    starting,       \* ids issued by begin_transaction, not yet in active
    snapshot,       \* what each reader holds
    committed       \* history: the transactions that have committed

vars == <<versions, clock, nextTxn, active, starting, snapshot, committed>>

TxnId == Nat \ {0}

VersionRecord == [node : Nodes, data : Values, txn : TxnId, created : Nat,
                  deleted : Nat \cup {Nil}, deleter : TxnId \cup {Nil}]

\* A version is deleted at a time and by a transaction, or not at all.
Version == {v \in VersionRecord : v.deleted = Nil <=> v.deleter = Nil}

\* A reader holds no snapshot, is inside begin_snapshot between the copy of
\* the active set and the tick, or holds a finished snapshot.
Snapshot == [phase : {"held"}, id : Nat, active : SUBSET TxnId]
Capture  == [phase : {"capturing"}, active : SUBSET TxnId]
NoSnapshot == [phase |-> "none"]

Held == {r \in Readers : snapshot[r].phase = "held"}
Capturing == {r \in Readers : snapshot[r].phase = "capturing"}

\* No shared borrow is under way: a &mut self call may run.
Exclusive == starting = {} /\ Capturing = {}

TypeOK ==
    /\ versions \in SUBSET Version
    /\ clock \in Nat
    /\ nextTxn \in TxnId
    /\ active \in SUBSET TxnId
    /\ starting \in SUBSET TxnId
    /\ snapshot \in [Readers -> Snapshot \cup Capture \cup {NoSnapshot}]
    /\ committed \in SUBSET TxnId

-----------------------------------------------------------------------------
(* Visibility and reads *)

\* Variants of IsVisible: the active set is ignored; a delete of a transaction
\* that was active counts.
IsVisibleNoRule2(s, v) ==
    /\ v.created <= s.id
    /\ v.deleted # Nil => v.deleter \in s.active \/ v.deleted > s.id
IsVisibleNoDeleterRule(s, v) ==
    /\ v.created <= s.id
    /\ v.txn \notin s.active
    /\ v.deleted # Nil => v.deleted > s.id

IsVisible(s, v) ==
    /\ v.created <= s.id
    /\ v.txn \notin s.active
    /\ v.deleted # Nil => v.deleter \in s.active \/ v.deleted > s.id

\* The versions of node n, among those in V, that snapshot s shows.
VisibleVersions(V, s, n) == {v \in V : v.node = n /\ IsVisible(s, v)}

IsNewest(v, V) == v \in V /\ \A w \in V : w.created <= v.created

\* Option<&NodeData>: empty for None, a singleton for Some.
ReadFrom(V, s, n) ==
    {v.data : v \in {w \in V : IsNewest(w, VisibleVersions(V, s, n))}}

ReadNode(s, n) == ReadFrom(versions, s, n)

\* The snapshot begin_snapshot would return if it ran alone now.
FreshSnapshot == [phase |-> "held", id |-> clock, active |-> active]

-----------------------------------------------------------------------------
(* Transaction lifecycle *)

Init ==
    /\ versions = {}
    /\ clock = 1
    /\ nextTxn = 1
    /\ active = {}
    /\ starting = {}
    /\ snapshot = [r \in Readers |-> NoSnapshot]
    /\ committed = {}

\* begin_transaction: the fetch_add ...
IssueTxnId ==
    /\ nextTxn <= MaxTxn
    /\ nextTxn' = nextTxn + 1
    /\ starting' = starting \cup {nextTxn}
    /\ UNCHANGED <<versions, clock, active, snapshot, committed>>

\* ... and the insertion into the active set.
ActivateTxn(t) ==
    /\ t \in starting
    /\ starting' = starting \ {t}
    /\ active' = active \cup {t}
    /\ UNCHANGED <<versions, clock, nextTxn, snapshot, committed>>

\* begin_snapshot: the copy of the active set ...
CaptureActive(r) ==
    /\ snapshot[r].phase = "none"
    /\ snapshot' = [snapshot EXCEPT ![r] = [phase |-> "capturing", active |-> active]]
    /\ UNCHANGED <<versions, clock, nextTxn, active, starting, committed>>

\* A variant of TakeSnapshotId: the clock is read without being advanced.
TakeSnapshotIdNoTick(r) ==
    /\ snapshot[r].phase = "capturing"
    /\ clock < MaxClock
    /\ snapshot' = [snapshot EXCEPT ![r] =
            [phase |-> "held", id |-> clock, active |-> @.active]]
    /\ UNCHANGED <<versions, clock, nextTxn, active, starting, committed>>

\* ... and the tick, which makes the snapshot usable.
TakeSnapshotId(r) ==
    /\ snapshot[r].phase = "capturing"
    /\ clock < MaxClock
    /\ snapshot' = [snapshot EXCEPT ![r] =
            [phase |-> "held", id |-> clock, active |-> @.active]]
    /\ clock' = clock + 1
    /\ UNCHANGED <<versions, nextTxn, active, starting, committed>>

DropSnapshot(r) ==
    /\ snapshot[r].phase = "held"
    /\ snapshot' = [snapshot EXCEPT ![r] = NoSnapshot]
    /\ UNCHANGED <<versions, clock, nextTxn, active, starting, committed>>

-----------------------------------------------------------------------------
(* Writes *)

WriteNode(n, d, t) ==
    /\ Exclusive
    /\ t \in active
    /\ clock < MaxClock
    /\ versions' = versions \cup
            {[node |-> n, data |-> d, txn |-> t, created |-> clock,
              deleted |-> Nil, deleter |-> Nil]}
    /\ clock' = clock + 1
    /\ UNCHANGED <<nextTxn, active, starting, snapshot, committed>>

Undeleted(n) == {v \in versions : v.node = n /\ v.deleted = Nil}

MarkDeleted(v, ts, t) == [v EXCEPT !.deleted = ts, !.deleter = t]

\* Marks the newest undeleted version only; the tick happens in any case.
DeleteNode(n, t) ==
    /\ Exclusive
    /\ t \in active
    /\ clock < MaxClock
    /\ \/ Undeleted(n) = {} /\ versions' = versions
       \/ \E v \in versions :
             /\ IsNewest(v, Undeleted(n))
             /\ versions' = (versions \ {v}) \cup {MarkDeleted(v, clock, t)}
    /\ clock' = clock + 1
    /\ UNCHANGED <<nextTxn, active, starting, snapshot, committed>>

Commit(t) ==
    /\ t \in active
    /\ active' = active \ {t}
    /\ committed' = committed \cup {t}
    /\ UNCHANGED <<versions, clock, nextTxn, starting, snapshot>>

\* A logical delete by t is undone, any other version stays as it is.
Undelete(v, t) ==
    IF v.deleter = t THEN [v EXCEPT !.deleted = Nil, !.deleter = Nil] ELSE v

\* A variant of Rollback: the deletes t issued stay.
RollbackKeepsDeletes(t) ==
    /\ Exclusive
    /\ t \in active
    /\ versions' = {v \in versions : v.txn # t}
    /\ active' = active \ {t}
    /\ UNCHANGED <<clock, nextTxn, starting, snapshot, committed>>

Rollback(t) ==
    /\ Exclusive
    /\ t \in active
    /\ versions' = {Undelete(v, t) : v \in {w \in versions : w.txn # t}}
    /\ active' = active \ {t}
    /\ UNCHANGED <<clock, nextTxn, starting, snapshot, committed>>

-----------------------------------------------------------------------------
(* Garbage collection *)

\* The watermark is u64::MAX without active transactions, the clock otherwise.
BelowWatermark(ts) == active = {} \/ ts < clock

Collectable(v) ==
    IF v.deleted # Nil
    THEN BelowWatermark(v.deleted)
    ELSE \E w \in Undeleted(v.node) :
            w.created > v.created /\ BelowWatermark(w.created)

Gc ==
    /\ Exclusive
    /\ versions' = {v \in versions : ~ Collectable(v)}
    /\ UNCHANGED <<clock, nextTxn, active, starting, snapshot, committed>>

Next ==
    \/ IssueTxnId
    \/ \E t \in starting : ActivateTxn(t)
    \/ \E r \in Readers : CaptureActive(r) \/ TakeSnapshotId(r) \/ DropSnapshot(r)
    \/ \E t \in active :
          \/ \E n \in Nodes, d \in Values : WriteNode(n, d, t)
          \/ \E n \in Nodes : DeleteNode(n, t)
          \/ Commit(t)
          \/ Rollback(t)
    \/ Gc

Spec == Init /\ [][Next]_vars

-----------------------------------------------------------------------------
(* Properties *)

\* Transaction ids are never reused, and no transaction is in two states.
TxnsDisjoint ==
    /\ \A t \in starting \cup active \cup committed : t < nextTxn
    /\ starting \cap active = {}
    /\ (starting \cup active) \cap committed = {}

\* Every stamp lies in the past of the clock.
StampsBeforeClock ==
    /\ \A v \in versions : v.created < clock /\ (v.deleted # Nil => v.deleted < clock)
    /\ \A r \in Held : snapshot[r].id < clock

\* Who touched version v before time ts is in T.
TouchedBy(v, ts, T) ==
    /\ v.created <= ts => v.txn \in T
    /\ v.deleted # Nil /\ v.deleted <= ts => v.deleter \in T

\* A version in a chain was written, and deleted if it is, by transactions that
\* are active or have committed: rollback discards the work of the others.
TouchedByLive ==
    \A v \in versions : TouchedBy(v, clock, active \cup committed)

\* Between the two steps of begin_snapshot, all that is in the chains is the work
\* of the captured transactions and of committed ones, because writers are
\* excluded until the call returns.
CaptureCovers ==
    \A r \in Capturing : \A v \in versions :
        TouchedBy(v, clock, snapshot[r].active \cup committed)

\* A held snapshot knows every transaction that touched anything before it.
SnapshotCovers ==
    \A r \in Held : \A v \in versions :
        TouchedBy(v, snapshot[r].id, snapshot[r].active \cup committed)

\* The inductive invariant: what a snapshot recorded in its two steps stays true
\* of the chains while transactions write, delete, commit and roll back.
SnapshotInv ==
    /\ TxnsDisjoint
    /\ StampsBeforeClock
    /\ TouchedByLive
    /\ CaptureCovers
    /\ SnapshotCovers

\* A snapshot never shows a version of a transaction that had not committed:
\* neither one that was active, nor one that began between the two steps of
\* begin_snapshot, nor one rolled back since.
NoDirtyRead ==
    \A r \in Held : \A v \in versions :
        IsVisible(snapshot[r], v) => v.txn \in committed

\* Repeatable read: whatever the other transactions do, commits and rollbacks
\* included, a snapshot keeps reading the same data.  (Garbage collection is
\* excepted: it looks at no snapshot.)
SnapshotReadStable ==
    [][~ Gc => \A r \in Held : snapshot'[r] = snapshot[r] =>
            \A n \in Nodes : ReadNode(snapshot[r], n)' = ReadNode(snapshot[r], n)]_vars

\* Rollback and, with no transaction active, collection leave no trace: a snapshot
\* taken right after reads what one taken right before would have read, even if
\* others have deleted what the transaction wrote or written over its deletes.
CleanupInvisible ==
    [][(\E t \in active : Rollback(t)) \/ (Gc /\ active = {}) =>
            \A n \in Nodes : ReadNode(FreshSnapshot, n)' = ReadNode(FreshSnapshot, n)]_vars
=============================================================================
