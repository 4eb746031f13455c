------------------------------ MODULE TxServer ------------------------------
(***************************************************************************)
(* How maharit-server/src/tcp_server.rs runs statements: the write gate,   *)
(* transactions with an undo log in TransactionManager, rollback, and the  *)
(* stream of WAL entries that followers replay.                            *)
(*                                                                         *)
(* A write statement holds the write gate from before its execution until  *)
(* its last WAL entry is appended; rollback holds it likewise; COMMIT does *)
(* not take it, so another connection may commit a transaction at any      *)
(* point of a statement that runs under it.  A statement is any sequence   *)
(* of mutations: this includes the ones that fail midway, whose changes    *)
(* stay applied and recorded.  Statements and rollback hold the manager    *)
(* locks exclusively while they touch the graph, so that no reader sees a  *)
(* state between two mutations of one statement.                           *)
(***************************************************************************)
EXTENDS MutationLog

CONSTANTS
    MaxTx,      \* bound on transactions begun
    MaxLog      \* bound on WAL entries of statements (rollback may add to it)

ASSUME ServerBounds == MaxTx \in Nat /\ MaxLog \in Nat

VARIABLES
    graph,      \* the leader's ConcurrentGraph
    txs,        \* TransactionManager.transactions: sequence of transactions
    gate,       \* what the holder of the write gate has done so far
    log         \* WAL entries appended by the leader, in LSN order

vars == <<graph, txs, gate, log>>

TxIds == 1..Len(txs)
Active(t) == txs[t].state = "active"

\* NoTx: the statement of a query without tx_id.
NoTx == 0
Free == [phase |-> "free", tx |-> NoTx, wal |-> <<>>, undo |-> <<>>]

\* The labels and ids a statement may name.
LabelLists == {<<>>} \cup {<<l>> : l \in Labels}
KnownNodes == 0..(graph.nextNode - 1)
KnownEdges == 0..(graph.nextEdge - 1)

TypeOK ==
    /\ gate.phase \in {"free", "executing", "recording", "emitting"}
    /\ gate.tx \in {NoTx} \cup TxIds
    /\ gate.phase = "free" => gate = Free
    /\ \A t \in TxIds : txs[t].state # "active" => txs[t].undo = <<>>

-----------------------------------------------------------------------------

\* A database loaded at start and already copied to the followers: two nodes
\* joined by an edge, with a property on the first node and on the edge.
Loaded ==
    LET k == CHOOSE k \in Keys : TRUE
        v == CHOOSE v \in PlainValues : TRUE
        g == CreateEdge(CreateNodeWithLabels(CreateNodeWithLabels(EmptyGraph,
                 SetToSeq(Labels)), <<>>), 0, 1)
    IN  SetEdgeProperty(SetNodeProperty(g, 0, k, v), 0, k, v)

Init ==
    /\ graph = Loaded
    /\ txs = <<>>
    /\ gate = Free
    /\ log = <<>>

\* base and alone are history: the graph when the transaction began, and
\* whether it has been the only writer since.  The read-only flag of the request is
\* stored with the transaction and has no effect on statements.
BeginTransaction ==
    /\ Len(txs) < MaxTx
    /\ txs' = Append(txs, [state |-> "active", undo |-> <<>>, base |-> graph, alone |-> gate = Free])
    /\ UNCHANGED <<graph, gate, log>>

\* A write statement outside a transaction takes the gate ...
StartStatement ==
    /\ gate = Free
    /\ gate' = [Free EXCEPT !.phase = "executing"]
    /\ UNCHANGED <<graph, txs, log>>

\* ... and so does one inside a transaction, which is refused unless the
\* transaction is active.  Nobody asks whether it is read-only.
StartInTx(t) ==
    /\ gate = Free
    /\ Active(t)
    /\ gate' = [Free EXCEPT !.phase = "executing", !.tx = t]
    /\ UNCHANGED <<graph, txs, log>>

\* The transactions after a write by transaction t (or by none).
WriteBy(t) ==
    [u \in TxIds |-> [txs[u] EXCEPT !.alone = @ /\ u = t]]

\* One recorded mutation of the statement, from the recording so far to r.  Writing
\* a property of a deleted element is recorded too and changes nothing.
Mutate(r) ==
    /\ gate.phase = "executing"
    /\ Len(log) + Len(gate.wal) < MaxLog
    /\ r.wal # gate.wal
    /\ graph' = r.graph
    /\ gate' = [gate EXCEPT !.wal = r.wal, !.undo = r.undo]
    /\ txs' = WriteBy(gate.tx)
    /\ UNCHANGED log

SoFar == [graph |-> graph, wal |-> gate.wal, undo |-> gate.undo]

MutateNodes ==
    \/ \E ls \in LabelLists : Mutate(RecCreateNode(SoFar, ls))
    \/ \E n \in KnownNodes :
          \/ Mutate(RecDeleteNode(SoFar, n))
          \/ \E k \in Keys :
                \/ \E v \in Values : Mutate(RecSetNodeProperty(SoFar, n, k, v))
                \/ Mutate(RecRemoveNodeProperty(SoFar, n, k))
          \/ \E l \in Labels :
                \/ Mutate(RecAddNodeLabel(SoFar, n, l))
                \/ Mutate(RecRemoveNodeLabel(SoFar, n, l))

MutateEdges ==
    \/ \E n, m \in KnownNodes : Mutate(RecCreateEdge(SoFar, n, m))
    \/ \E e \in KnownEdges :
          \/ Mutate(RecDeleteEdge(SoFar, e))
          \/ \E k \in Keys :
                \/ \E v \in Values : Mutate(RecSetEdgeProperty(SoFar, e, k, v))
                \/ Mutate(RecRemoveEdgeProperty(SoFar, e, k))

\* The executor returns, with a result or with an error.
FinishExecution ==
    /\ gate.phase = "executing"
    /\ gate' = [gate EXCEPT !.phase = IF gate.tx = NoTx THEN "emitting" ELSE "recording",
                            !.undo = IF gate.tx = NoTx THEN <<>> ELSE @]
    /\ UNCHANGED <<graph, txs, log>>

\* record_undo fails, and is only logged, if the transaction is finished by now.
RecordUndo ==
    /\ gate.phase = "recording"
    /\ gate' = [gate EXCEPT !.phase = "emitting", !.undo = <<>>]
    /\ txs' = IF Active(gate.tx) THEN [txs EXCEPT ![gate.tx].undo = @ \o gate.undo] ELSE txs
    /\ UNCHANGED <<graph, log>>

\* A variant of Emit: the newest mutation is appended first.
EmitNewestFirst ==
    /\ gate.phase = "emitting"
    /\ gate.wal # <<>>
    /\ log' = Append(log, Last(gate.wal))
    /\ gate' = [gate EXCEPT !.wal = Front(@)]
    /\ UNCHANGED <<graph, txs>>

\* emit_wal_entries appends one entry at a time, in execution order.
Emit ==
    /\ gate.phase = "emitting"
    /\ gate.wal # <<>>
    /\ log' = Append(log, Head(gate.wal))
    /\ gate' = [gate EXCEPT !.wal = Tail(@)]
    /\ UNCHANGED <<graph, txs>>

ReleaseGate ==
    /\ gate.phase = "emitting"
    /\ gate.wal = <<>>
    /\ gate' = Free
    /\ UNCHANGED <<graph, txs, log>>

Commit(t) ==
    /\ Active(t)
    /\ txs' = [txs EXCEPT ![t].state = "committed", ![t].undo = <<>>]
    /\ UNCHANGED <<graph, gate, log>>

\* SharedManagers::rollback.  Then the indexes of the nodes that were touched
\* are filled anew; they are no state of this module.
Rollback(t) ==
    /\ gate = Free
    /\ Active(t)
    /\ LET r == ApplyUndoLog(graph, txs[t].undo) IN
       /\ graph' = r.graph
       /\ gate' = [Free EXCEPT !.phase = "emitting", !.wal = r.wal]
    /\ txs' = [WriteBy(t) EXCEPT ![t].state = "rolledback", ![t].undo = <<>>]
    /\ UNCHANGED log

Next ==
    \/ BeginTransaction
    \/ StartStatement
    \/ \E t \in TxIds : StartInTx(t) \/ Commit(t) \/ Rollback(t)
    \/ MutateNodes
    \/ MutateEdges
    \/ FinishExecution
    \/ RecordUndo
    \/ Emit
    \/ ReleaseGate

Spec == Init /\ [][Next]_vars

-----------------------------------------------------------------------------
(* Properties *)

\* The graph of a follower that began with Loaded and has applied the log so far.
Replica == Replay(Loaded, log)

\* No mutation, compensation or replay leaves a dangling edge or a stale
\* adjacency set, label index entry or id counter, on the leader or a follower.
GraphsConsistent ==
    Consistent(graph) /\ Consistent(Replica)

\* Whatever has been executed, rolled back, committed by others or is yet to be
\* emitted, a follower that has applied it all has the leader's graph, with
\* property values as the WAL conveys them.
FollowersMirror ==
    Contents(Replay(Replica, gate.wal)) = Contents(WalImage(graph))

\* A follower may be given the graph as a snapshot and afterwards entries that the
\* snapshot already contains: the queue is subscribed to first.  Replaying any
\* suffix of the log over the graph it led to changes nothing but the order of
\* labels.
OverlapHarmless ==
    \A i \in 0..Len(log) :
        ContentsUpToLabelOrder(Replay(WalImage(graph),
                                      SubSeq(log, i + 1, Len(log)) \o gate.wal))
            = ContentsUpToLabelOrder(WalImage(graph))

\* Rolling back a transaction that was the only writer since it began gives
\* back the graph it began with, up to the order of a node's labels.
RollbackRestores ==
    [][\A t \in TxIds : Rollback(t) /\ txs[t].alone =>
          ContentsUpToLabelOrder(graph') = ContentsUpToLabelOrder(txs[t].base)]_vars

\* The state is well typed, the graphs of leader and followers are sound, and a
\* follower that has applied everything has the leader's graph.
GraphsSound == TypeOK /\ GraphsConsistent /\ FollowersMirror

-----------------------------------------------------------------------------
(* What documentation, comments and tests say, and the code does not do *)

\* tcp_server.rs:1352: no statement writes under a finished transaction.
NoWriteAfterFinish ==
    [][gate.phase = "executing" /\ gate.tx # NoTx /\ graph' # graph => Active(gate.tx)]_vars
=============================================================================
