--------------------------- MODULE PropertyGraph ---------------------------
(***************************************************************************)
(* The single-owner graph of maharit-core/src/graph.rs as a value, and its *)
(* operations as functions from graphs to graphs.  Slots are numbered from *)
(* 0; the slots in use are the domain of nodes (edges), ncap (ecap) is the *)
(* length of the slot vector.  The slots of deleted nodes and edges wait   *)
(* in free lists, and the last one freed is the first one reused.          *)
(*                                                                         *)
(* The operations that reach the graph through GraphBackend are total: a   *)
(* missing node or edge leaves the graph as it is.                         *)
(***************************************************************************)
EXTENDS Integers, Sequences, FiniteSets, SequencesExt

CONSTANT Labels     \* node labels

Nothing == [x \in {} |-> x]
With(f, k, v) == [x \in DOMAIN f \cup {k} |-> IF x = k THEN v ELSE f[x]]
Without(f, K) == Restrict(f, DOMAIN f \ K)
Ascending(S) == SetToSortSeq(S, LAMBDA a, b : a < b)
Mapped(s, Op(_)) == [i \in DOMAIN s |-> Op(s[i])]
Concat(ss) == FlattenSeq(ss)
Upto(n) == [i \in 1 .. n |-> i]

EmptyGraph ==
    [nodes |-> Nothing, edges |-> Nothing, out |-> Nothing, inc |-> Nothing,
     nfree |-> <<>>, efree |-> <<>>, ncap |-> 0, ecap |-> 0,
     ncount |-> 0, ecount |-> 0, index |-> [l \in Labels |-> {}]]

ContainsNode(g, n) == n \in DOMAIN g.nodes
ContainsEdge(g, e) == e \in DOMAIN g.edges
LabelsOf(g, n) == IF ContainsNode(g, n) THEN g.nodes[n].labels ELSE <<>>
HasLabel(g, n, l) == l \in Range(LabelsOf(g, n))
HasAllLabels(g, n, ls) == ContainsNode(g, n) /\ Range(ls) \subseteq Range(LabelsOf(g, n))
NoLabel == "-"
PrimaryLabel(g, n) == IF LabelsOf(g, n) = <<>> THEN NoLabel ELSE LabelsOf(g, n)[1]
HasProp(g, n, p) == ContainsNode(g, n) /\ p \in DOMAIN g.nodes[n].props

(* The edges read through the adjacency sets, as get_outgoing_edges does:  *)
(* an id whose slot is empty is left out.                                  *)
OutEdges(g, n) == IF n \in DOMAIN g.out THEN {e \in g.out[n] : ContainsEdge(g, e)} ELSE {}
InEdges(g, n) == IF n \in DOMAIN g.inc THEN {e \in g.inc[n] : ContainsEdge(g, e)} ELSE {}
HasIncidentEdges(g, n) == OutEdges(g, n) # {} \/ InEdges(g, n) # {}

-----------------------------------------------------------------------------
(* Labels *)

NodesByLabel(g, l) == IF l \in Labels THEN g.index[l] ELSE {}

LabelIndexAddNode(g, n) ==
    [g EXCEPT !.index = [l \in Labels |->
        IF l \in Range(g.nodes[n].labels) THEN @[l] \cup {n} ELSE @[l]]]

AddNodeLabel(g, n, l) ==
    IF ~ ContainsNode(g, n) \/ HasLabel(g, n, l) THEN g
    ELSE [g EXCEPT !.nodes[n].labels = Append(@, l), !.index[l] = @ \cup {n}]

RemoveNodeLabel(g, n, l) ==
    IF ~ HasLabel(g, n, l) THEN g
    ELSE [g EXCEPT !.nodes[n].labels = SelectSeq(@, LAMBDA x : x # l),
                   !.index[l] = @ \ {n}]

-----------------------------------------------------------------------------
(* Nodes *)

FreshNode(ls) == [labels |-> ls, props |-> Nothing]

NextNodeSlot(g) == IF g.nfree = <<>> THEN g.ncap ELSE Last(g.nfree)
NextEdgeSlot(g) == IF g.efree = <<>> THEN g.ecap ELSE Last(g.efree)

(* The slot n receives a node without edges. *)
PlaceNode(g, n, ls) ==
    LabelIndexAddNode(
        [g EXCEPT !.nodes = With(@, n, FreshNode(ls)),
                  !.out = With(@, n, {}), !.inc = With(@, n, {}),
                  !.ncap = IF n >= @ THEN n + 1 ELSE @,
                  !.ncount = @ + 1], n)

CreateNodeWithLabels(g, ls) ==
    PlaceNode([g EXCEPT !.nfree = IF @ = <<>> THEN @ ELSE Front(@)],
              NextNodeSlot(g), ls)

(* The slots passed over by a larger id stay out of the free list. *)
CreateNodeWithIdAndLabels(g, n, ls) ==
    IF ContainsNode(g, n) THEN g
    ELSE PlaceNode([g EXCEPT !.nfree = SelectSeq(@, LAMBDA f : f # n)], n, ls)

(* Removes the edges of D from their slots and from the far end's set. *)
DropEdges(g, D) ==
    [g EXCEPT !.edges = Without(@, D),
              !.out = [n \in DOMAIN @ |-> @[n] \ D],
              !.inc = [n \in DOMAIN @ |-> @[n] \ D],
              !.efree = @ \o SetToSeq(D),
              !.ecount = @ - Cardinality(D)]

(* First the outgoing edges, then the incoming ones that are left: a loop  *)
(* is freed once.                                                          *)
GraphDeleteNode(g, n) ==
    IF ~ ContainsNode(g, n) THEN g
    ELSE LET g1 == DropEdges(g, OutEdges(g, n))
             g2 == DropEdges(g1, InEdges(g1, n))
         IN [g2 EXCEPT !.nodes = Without(@, {n}),
                       !.out[n] = {}, !.inc[n] = {},
                       !.index = [l \in Labels |->
                           IF HasLabel(g, n, l) THEN @[l] \ {n} ELSE @[l]],
                       !.nfree = Append(@, n),
                       !.ncount = @ - 1]

SetNodeProperty(g, n, p, v) ==
    IF ContainsNode(g, n) THEN [g EXCEPT !.nodes[n].props = With(@, p, v)] ELSE g

RemoveNodeProperty(g, n, p) ==
    IF ContainsNode(g, n) THEN [g EXCEPT !.nodes[n].props = Without(@, {p})] ELSE g

-----------------------------------------------------------------------------
(* Edges *)

PlaceEdge(g, e, a, b, l) ==
    [g EXCEPT !.edges = With(@, e, [from |-> a, to |-> b, label |-> l, props |-> Nothing]),
              !.out[a] = @ \cup {e}, !.inc[b] = @ \cup {e},
              !.ecap = IF e >= @ THEN e + 1 ELSE @,
              !.ecount = @ + 1]

CanCreateEdge(g, a, b) == ContainsNode(g, a) /\ ContainsNode(g, b)

CreateEdge(g, a, b, l) ==
    IF ~ CanCreateEdge(g, a, b) THEN g
    ELSE PlaceEdge([g EXCEPT !.efree = IF @ = <<>> THEN @ ELSE Front(@)],
                   NextEdgeSlot(g), a, b, l)

(* The slots passed over by a larger id become free. *)
CreateEdgeWithId(g, e, a, b, l) ==
    IF ~ CanCreateEdge(g, a, b) \/ ContainsEdge(g, e) THEN g
    ELSE LET skipped == [i \in 1 .. (IF e > g.ecap THEN e - g.ecap ELSE 0) |-> g.ecap + i - 1]
         IN PlaceEdge([g EXCEPT !.efree = SelectSeq(@ \o skipped, LAMBDA f : f # e)], e, a, b, l)

DeleteEdge(g, e) == IF ContainsEdge(g, e) THEN DropEdges(g, {e}) ELSE g

SetEdgeProperty(g, e, p, v) ==
    IF ContainsEdge(g, e) THEN [g EXCEPT !.edges[e].props = With(@, p, v)] ELSE g

RemoveEdgeProperty(g, e, p) ==
    IF ContainsEdge(g, e) THEN [g EXCEPT !.edges[e].props = Without(@, {p})] ELSE g
=============================================================================
