-------------------------- MODULE ConcurrentGraph --------------------------
(***************************************************************************)
(* The graph of maharit-core/src/concurrent_graph.rs as a value, and its   *)
(* operations as functions from graphs to graphs.  A graph holds the       *)
(* DashMaps of the code as functions on the ids present: nodes with their  *)
(* label list and properties, edges, the outgoing and incoming edge sets,  *)
(* the label index, and the two id counters.                               *)
(*                                                                         *)
(* Each operation is a sequence of map updates; the server runs them under *)
(* its write gate and its manager locks, so here they are whole.           *)
(***************************************************************************)
EXTENDS Integers, Sequences, SequencesExt

CONSTANT Labels     \* node labels

ASSUME LabelsAssumption == IsFiniteSet(Labels)

Empty == [x \in {} |-> x]

Put(f, k, v) == [x \in DOMAIN f \cup {k} |-> IF x = k THEN v ELSE f[x]]
Drop(f, K) == Restrict(f, DOMAIN f \ K)
EntryOrDefault(f, k) == IF k \in DOMAIN f THEN f ELSE Put(f, k, {})
AtLeast(a, b) == IF a >= b THEN a ELSE b

EmptyGraph ==
    [nodes |-> Empty, edges |-> Empty, out |-> Empty, inc |-> Empty,
     index |-> [l \in Labels |-> {}], nextNode |-> 0, nextEdge |-> 0]

HasNode(g, n) == n \in DOMAIN g.nodes
HasEdge(g, e) == e \in DOMAIN g.edges
HasLabel(g, n, l) == HasNode(g, n) /\ l \in Range(g.nodes[n].labels)

-----------------------------------------------------------------------------
(* Label index *)

LabelIndexAdd(ix, n, ls) ==
    [l \in Labels |-> IF l \in Range(ls) THEN ix[l] \cup {n} ELSE ix[l]]

LabelIndexRemove(ix, n, ls) ==
    [l \in Labels |-> IF l \in Range(ls) THEN ix[l] \ {n} ELSE ix[l]]

NodesByLabel(g, l) == g.index[l]

\* Vec::retain: the labels other than l, in their order.
Without(ls, l) ==
    LET kept[i \in 0..Len(ls)] ==
            IF i = 0 THEN <<>>
            ELSE IF ls[i] = l THEN kept[i - 1] ELSE Append(kept[i - 1], ls[i])
    IN  kept[Len(ls)]

AddNodeLabel(g, n, l) ==
    IF ~ HasNode(g, n) \/ HasLabel(g, n, l) THEN g
    ELSE [g EXCEPT !.nodes[n].labels = Append(@, l), !.index[l] = @ \cup {n}]

RemoveNodeLabel(g, n, l) ==
    IF ~ HasLabel(g, n, l) THEN g
    ELSE [g EXCEPT !.nodes[n].labels = Without(@, l), !.index[l] = @ \ {n}]

-----------------------------------------------------------------------------
(* Nodes *)

NewNode(ls) == [labels |-> ls, props |-> Empty]

CreateNodeWithLabels(g, ls) ==
    LET n == g.nextNode IN
    [g EXCEPT !.nextNode = n + 1,
              !.index = LabelIndexAdd(@, n, ls),
              !.nodes = Put(@, n, NewNode(ls)),
              !.out = Put(@, n, {}),
              !.inc = Put(@, n, {})]

\* For replay and restore: an existing node is overwritten, and its adjacency
\* sets are kept.
CreateNodeWithId(g, n, ls) ==
    [g EXCEPT !.nextNode = AtLeast(@, n + 1),
              !.index = LabelIndexAdd(@, n, ls),
              !.nodes = Put(@, n, NewNode(ls)),
              !.out = EntryOrDefault(@, n),
              !.inc = EntryOrDefault(@, n)]

\* A variant of DeleteNode: the incoming edges stay behind.
DeleteNodeOutgoingOnly(g, n) ==
    IF ~ HasNode(g, n) THEN g
    ELSE LET gone == g.out[n] IN
         [g EXCEPT !.nodes = Drop(@, {n}),
                   !.index = LabelIndexRemove(@, n, g.nodes[n].labels),
                   !.edges = Drop(@, gone),
                   !.out = Drop(@, {n}),
                   !.inc = [m \in DOMAIN @ \ {n} |-> @[m] \ gone]]

\* Outgoing edges leave the incoming sets of their targets, incoming edges the
\* outgoing sets of their sources.
DeleteNode(g, n) ==
    IF ~ HasNode(g, n) THEN g
    ELSE LET gone == g.out[n] \cup g.inc[n] IN
         [g EXCEPT !.nodes = Drop(@, {n}),
                   !.index = LabelIndexRemove(@, n, g.nodes[n].labels),
                   !.edges = Drop(@, gone),
                   !.out = [m \in DOMAIN @ \ {n} |-> @[m] \ gone],
                   !.inc = [m \in DOMAIN @ \ {n} |-> @[m] \ gone]]

SetNodeProperty(g, n, k, v) ==
    IF HasNode(g, n) THEN [g EXCEPT !.nodes[n].props = Put(@, k, v)] ELSE g

RemoveNodeProperty(g, n, k) ==
    IF HasNode(g, n) THEN [g EXCEPT !.nodes[n].props = Drop(@, {k})] ELSE g

-----------------------------------------------------------------------------
(* Edges *)

EndpointsExist(g, from, to) == HasNode(g, from) /\ HasNode(g, to)

InsertEdge(g, e, from, to) ==
    [g EXCEPT !.edges = Put(@, e, [from |-> from, to |-> to, props |-> Empty]),
              !.out = Put(@, from, EntryOrDefault(@, from)[from] \cup {e}),
              !.inc = Put(@, to, EntryOrDefault(@, to)[to] \cup {e})]

\* The two creations return an error, and change nothing, when an endpoint is
\* missing.
CreateEdge(g, from, to) ==
    IF EndpointsExist(g, from, to)
    THEN [InsertEdge(g, g.nextEdge, from, to) EXCEPT !.nextEdge = @ + 1]
    ELSE g

CreateEdgeWithId(g, e, from, to) ==
    IF EndpointsExist(g, from, to)
    THEN [InsertEdge(g, e, from, to) EXCEPT !.nextEdge = AtLeast(@, e + 1)]
    ELSE g

DeleteEdge(g, e) ==
    IF ~ HasEdge(g, e) THEN g
    ELSE [g EXCEPT !.edges = Drop(@, {e}),
                   !.out[g.edges[e].from] = @ \ {e},
                   !.inc[g.edges[e].to] = @ \ {e}]

SetEdgeProperty(g, e, k, v) ==
    IF HasEdge(g, e) THEN [g EXCEPT !.edges[e].props = Put(@, k, v)] ELSE g

RemoveEdgeProperty(g, e, k) ==
    IF HasEdge(g, e) THEN [g EXCEPT !.edges[e].props = Drop(@, {k})] ELSE g

-----------------------------------------------------------------------------
(* What the rest of the system relies on *)

\* The redundant structures agree with the nodes and edges: no edge dangles, the
\* adjacency sets list exactly the edges at each node, the label index lists
\* exactly the nodes with each label, and the counters are past every id.
Consistent(g) ==
    /\ DOMAIN g.out = DOMAIN g.nodes /\ DOMAIN g.inc = DOMAIN g.nodes
    /\ \A e \in DOMAIN g.edges : EndpointsExist(g, g.edges[e].from, g.edges[e].to)
    /\ \A n \in DOMAIN g.nodes :
          /\ g.out[n] = {e \in DOMAIN g.edges : g.edges[e].from = n}
          /\ g.inc[n] = {e \in DOMAIN g.edges : g.edges[e].to = n}
    /\ \A l \in Labels : NodesByLabel(g, l) = {n \in DOMAIN g.nodes : HasLabel(g, n, l)}
    /\ \A n \in DOMAIN g.nodes : n < g.nextNode
    /\ \A e \in DOMAIN g.edges : e < g.nextEdge

\* What clients can see of a graph: everything but the counters.
Contents(g) == <<g.nodes, g.edges, g.out, g.inc, g.index>>

\* The same up to the order of labels.
ContentsUpToLabelOrder(g) ==
    <<[n \in DOMAIN g.nodes |-> <<Range(g.nodes[n].labels), g.nodes[n].props>>],
      g.edges, g.out, g.inc, g.index>>
=============================================================================
