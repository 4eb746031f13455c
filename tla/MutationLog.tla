---------------------------- MODULE MutationLog ----------------------------
(***************************************************************************)
(* RecordingGraph of maharit-server/src/mutation_log.rs: each mutation the *)
(* executor performs is applied to the graph and recorded twice, as WAL    *)
(* entries for the followers and as undo records for ROLLBACK.  Also the   *)
(* two consumers of those records: rollback_backend of                     *)
(* maharit-storage/src/transaction.rs and apply_wal_entry of               *)
(* maharit-server/src/replication.rs.                                      *)
(*                                                                         *)
(* A recording is [graph, wal, undo].  Mutations, WAL entries and undo     *)
(* records are records with a field "op".  Undo capture is always on here; *)
(* outside a transaction the server drops the undo records.                *)
(***************************************************************************)
EXTENDS ConcurrentGraph

CONSTANTS
    Keys,           \* property keys
    PlainValues,    \* values that survive the JSON encoding of the WAL
    TemporalValues  \* dates, times, durations, non-finite floats

ASSUME ValuesAssumption == PlainValues # {} /\ PlainValues \cap TemporalValues = {}

Values == PlainValues \cup TemporalValues

\* property_value_to_wal_string followed by the decoding in apply_wal_entry: a
\* temporal value comes out as the string that displays it.
WalRoundTrip(v) == IF v \in TemporalValues THEN <<"text", v>> ELSE v

\* A graph as it arrives at a follower: every property value has been through the
\* WAL.
WalProps(props) == [k \in DOMAIN props |-> WalRoundTrip(props[k])]
WalElement(x) == [x EXCEPT !.props = WalProps(@)]
WalImage(g) ==
    [g EXCEPT !.nodes = [n \in DOMAIN @ |-> WalElement(@[n])],
              !.edges = [e \in DOMAIN @ |-> WalElement(@[e])]]

Recording(g) == [graph |-> g, wal |-> <<>>, undo |-> <<>>]

\* r after one more mutation has led to graph g.
Recorded(r, g, wal, undo) ==
    [graph |-> g, wal |-> r.wal \o wal, undo |-> r.undo \o undo]

SetPropEntry(node, id, k, v) ==
    [op |-> "SetProperty", node |-> node, id |-> id, key |-> k,
     value |-> WalRoundTrip(v)]

\* Entries that set all the properties of a restored element.
SetPropEntries(node, id, props) ==
    LET ks == SetToSeq(DOMAIN props) IN
    [i \in 1..Len(ks) |-> SetPropEntry(node, id, ks[i], props[ks[i]])]

DeleteEdgeUndo(g, e) ==
    [op |-> "DeleteEdge", id |-> e, from |-> g.edges[e].from, to |-> g.edges[e].to,
     props |-> g.edges[e].props]

\* Option<PropertyValue>: empty for None.
OldValue(props, k) == IF k \in DOMAIN props THEN <<props[k]>> ELSE <<>>

-----------------------------------------------------------------------------
(* The mutations of GraphBackend, recorded *)

RecCreateNode(r, ls) ==
    LET n == r.graph.nextNode IN
    Recorded(r, CreateNodeWithLabels(r.graph, ls),
             <<[op |-> "CreateNode", id |-> n, labels |-> ls]>>,
             <<[op |-> "CreateNode", id |-> n]>>)

RecCreateEdge(r, from, to) ==
    IF ~ EndpointsExist(r.graph, from, to) THEN r
    ELSE LET e == r.graph.nextEdge IN
         Recorded(r, CreateEdge(r.graph, from, to),
                  <<[op |-> "CreateEdge", id |-> e, from |-> from, to |-> to]>>,
                  <<[op |-> "CreateEdge", id |-> e]>>)

\* A variant of RecDeleteNode: the incident edges are not captured.
RecDeleteNodeForgetsEdges(r, n) ==
    IF ~ HasNode(r.graph, n) THEN r
    ELSE Recorded(r, DeleteNode(r.graph, n),
                  <<[op |-> "DeleteNode", id |-> n]>>,
                  <<[op |-> "DeleteNode", id |-> n, labels |-> r.graph.nodes[n].labels,
                     props |-> r.graph.nodes[n].props]>>)

\* The incident edges are captured before the node, so that the reverse order
\* restores the node first.  A self-loop is in both sets and captured once.
RecDeleteNode(r, n) ==
    IF ~ HasNode(r.graph, n) THEN r
    ELSE LET g == r.graph
             incident == SetToSeq(g.out[n] \cup g.inc[n])
         IN  Recorded(r, DeleteNode(g, n),
                <<[op |-> "DeleteNode", id |-> n]>>,
                [i \in 1..Len(incident) |-> DeleteEdgeUndo(g, incident[i])] \o
                <<[op |-> "DeleteNode", id |-> n, labels |-> g.nodes[n].labels,
                   props |-> g.nodes[n].props]>>)

RecDeleteEdge(r, e) ==
    IF ~ HasEdge(r.graph, e) THEN r
    ELSE Recorded(r, DeleteEdge(r.graph, e),
                  <<[op |-> "DeleteEdge", id |-> e]>>, <<DeleteEdgeUndo(r.graph, e)>>)

\* Setting a property is recorded even when the element does not exist.
RecSetNodeProperty(r, n, k, v) ==
    Recorded(r, SetNodeProperty(r.graph, n, k, v),
             <<SetPropEntry(TRUE, n, k, v)>>,
             <<[op |-> "SetProperty", node |-> TRUE, id |-> n, key |-> k,
                old |-> IF HasNode(r.graph, n)
                        THEN OldValue(r.graph.nodes[n].props, k) ELSE <<>>]>>)

RecRemoveNodeProperty(r, n, k) ==
    IF ~ HasNode(r.graph, n) \/ k \notin DOMAIN r.graph.nodes[n].props THEN r
    ELSE Recorded(r, RemoveNodeProperty(r.graph, n, k),
                  <<[op |-> "RemoveProperty", node |-> TRUE, id |-> n, key |-> k]>>,
                  <<[op |-> "SetProperty", node |-> TRUE, id |-> n, key |-> k,
                     old |-> OldValue(r.graph.nodes[n].props, k)]>>)

RecAddNodeLabel(r, n, l) ==
    IF ~ HasNode(r.graph, n) \/ HasLabel(r.graph, n, l) THEN r
    ELSE Recorded(r, AddNodeLabel(r.graph, n, l),
                  <<[op |-> "AddLabel", id |-> n, label |-> l]>>,
                  <<[op |-> "AddLabel", id |-> n, label |-> l]>>)

RecRemoveNodeLabel(r, n, l) ==
    IF ~ HasLabel(r.graph, n, l) THEN r
    ELSE Recorded(r, RemoveNodeLabel(r.graph, n, l),
                  <<[op |-> "RemoveLabel", id |-> n, label |-> l]>>,
                  <<[op |-> "RemoveLabel", id |-> n, label |-> l]>>)

RecSetEdgeProperty(r, e, k, v) ==
    Recorded(r, SetEdgeProperty(r.graph, e, k, v),
             <<SetPropEntry(FALSE, e, k, v)>>,
             <<[op |-> "SetProperty", node |-> FALSE, id |-> e, key |-> k,
                old |-> IF HasEdge(r.graph, e)
                        THEN OldValue(r.graph.edges[e].props, k) ELSE <<>>]>>)

RecRemoveEdgeProperty(r, e, k) ==
    IF ~ HasEdge(r.graph, e) \/ k \notin DOMAIN r.graph.edges[e].props THEN r
    ELSE Recorded(r, RemoveEdgeProperty(r.graph, e, k),
                  <<[op |-> "RemoveProperty", node |-> FALSE, id |-> e, key |-> k]>>,
                  <<[op |-> "SetProperty", node |-> FALSE, id |-> e, key |-> k,
                     old |-> OldValue(r.graph.edges[e].props, k)]>>)

-----------------------------------------------------------------------------
(* Rollback: the inverses, newest first, through the same recorder *)

WithProps(el, props) == [el EXCEPT !.props = props]

\* The branch for a deleted node: restored under its id, then its properties.
UndoDeleteNode(r, u) ==
    LET g == CreateNodeWithId(r.graph, u.id, u.labels) IN
    Recorded(r, [g EXCEPT !.nodes[u.id] = WithProps(@, u.props)],
             <<[op |-> "CreateNode", id |-> u.id, labels |-> u.labels]>>
                \o SetPropEntries(TRUE, u.id, u.props), <<>>)

\* The branch for a deleted edge: nothing if an endpoint is gone.
UndoDeleteEdge(r, u) ==
    IF ~ EndpointsExist(r.graph, u.from, u.to) THEN r
    ELSE LET g == CreateEdgeWithId(r.graph, u.id, u.from, u.to) IN
         Recorded(r, [g EXCEPT !.edges[u.id] = WithProps(@, u.props)],
                  <<[op |-> "CreateEdge", id |-> u.id, from |-> u.from, to |-> u.to]>>
                     \o SetPropEntries(FALSE, u.id, u.props), <<>>)

UndoSetProperty(r, u) ==
    CASE u.node /\ u.old # <<>>   -> RecSetNodeProperty(r, u.id, u.key, u.old[1])
      [] u.node /\ u.old = <<>>   -> RecRemoveNodeProperty(r, u.id, u.key)
      [] ~ u.node /\ u.old # <<>> -> RecSetEdgeProperty(r, u.id, u.key, u.old[1])
      [] ~ u.node /\ u.old = <<>> -> RecRemoveEdgeProperty(r, u.id, u.key)

ApplyUndo(r, u) ==
    CASE u.op = "CreateNode"  -> RecDeleteNode(r, u.id)
      [] u.op = "DeleteNode"  -> UndoDeleteNode(r, u)
      [] u.op = "SetProperty" -> UndoSetProperty(r, u)
      [] u.op = "CreateEdge"  -> RecDeleteEdge(r, u.id)
      [] u.op = "DeleteEdge"  -> UndoDeleteEdge(r, u)
      [] u.op = "AddLabel"    -> RecRemoveNodeLabel(r, u.id, u.label)
      [] u.op = "RemoveLabel" -> RecAddNodeLabel(r, u.id, u.label)

ApplyUndoLog(g, undo) ==
    LET undone[i \in 0..Len(undo)] ==
            IF i = 0 THEN Recording(g) ELSE ApplyUndo(undone[i - 1], undo[Len(undo) + 1 - i])
    IN  undone[Len(undo)]

-----------------------------------------------------------------------------
(* The follower *)

ApplyWal(g, w) ==
    CASE w.op = "CreateNode"  -> CreateNodeWithId(g, w.id, w.labels)
      [] w.op = "DeleteNode"  -> DeleteNode(g, w.id)
      [] w.op = "CreateEdge"  -> CreateEdgeWithId(g, w.id, w.from, w.to)
      [] w.op = "DeleteEdge"  -> DeleteEdge(g, w.id)
      [] w.op = "SetProperty" ->
            IF w.node THEN SetNodeProperty(g, w.id, w.key, w.value)
            ELSE SetEdgeProperty(g, w.id, w.key, w.value)
      [] w.op = "RemoveProperty" ->
            IF w.node THEN RemoveNodeProperty(g, w.id, w.key)
            ELSE RemoveEdgeProperty(g, w.id, w.key)
      [] w.op = "AddLabel"    -> AddNodeLabel(g, w.id, w.label)
      [] w.op = "RemoveLabel" -> RemoveNodeLabel(g, w.id, w.label)

Replay(g, wal) ==
    LET applied[i \in 0..Len(wal)] ==
            IF i = 0 THEN g ELSE ApplyWal(applied[i - 1], wal[i])
    IN  applied[Len(wal)]
=============================================================================
