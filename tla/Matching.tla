------------------------------ MODULE Matching ------------------------------
(***************************************************************************)
(* Pattern matching of maharit-query/src/executor.rs: what MATCH binds in  *)
(* a graph g with the property index pi.                                   *)
(*                                                                         *)
(* A node pattern is [var, labels, props]: props maps properties to the    *)
(* literal or parameter the query gives, [lit |-> TRUE/FALSE, v |-> value] *)
(* (only a literal is looked up in the index).  A segment is [dir, type,   *)
(* range, evar, node]: range is <<>> for one hop, else <<min, max>> with   *)
(* max = NoMax for an open one.  A path pattern is [start, segs, shortest, *)
(* pvar].  Names starting with "_" stand for the hidden names the code     *)
(* gives to anonymous nodes and relationships.                             *)
(*                                                                         *)
(* Bindings map variables to <<"node", id>>, <<"edge", id>> or             *)
(* <<"path", nodes, edges>>.  A list of bindings is a sequence; where the  *)
(* code reads a hash set, its order is the order of the ids.               *)
(***************************************************************************)
EXTENDS PropertyGraph, PropertyIndex

NoVar == "-"
NoMax == 99
DefaultMaxDepth == 10
AnyType == "-"

ValueOf(g, n, p) == g.nodes[n].props[p]

Bind(b, x, v) == IF x = NoVar THEN b ELSE With(b, x, v)

-----------------------------------------------------------------------------
(* Property values against query values *)

PropertyValueMatches(actual, expected) ==
    \/ actual = expected /\ actual[1] \in {"null", "bool", "int", "float", "str"}
    \/ IsNumber(actual) /\ IsNumber(expected) /\ Doubled(actual) = Doubled(expected)

(* A bound variable matches that node alone. *)
NodeMatchesPattern(g, n, pat, b) ==
    /\ pat.var \in DOMAIN b => b[pat.var] = <<"node", n>>
    /\ pat.labels # <<>> => HasAllLabels(g, n, pat.labels)
    /\ (pat.labels = <<>> /\ pat.props = Nothing) => ContainsNode(g, n)
    /\ \A p \in DOMAIN pat.props :
          HasProp(g, n, p) /\ PropertyValueMatches(ValueOf(g, n, p), pat.props[p].v)

-----------------------------------------------------------------------------
(* Candidates of a node pattern *)

(* The first range hint of the variable whose property is indexed.  hints  *)
(* is a sequence of [var, prop, op, v] with op in <, <=, >, >=.            *)
UsableHints(pi, pat, hints) ==
    IF pat.var = NoVar \/ pat.labels = <<>> THEN <<>>
    ELSE SelectSeq(hints, LAMBDA h : h.var = pat.var /\ HasIndex(pi, pat.labels[1], h.prop))

RangeIndexCandidates(pi, h) ==
    IF h.op \in {">", ">="} THEN FindFrom(pi, h.prop, Doubled(h.v))
    ELSE FindUpTo(pi, h.prop, Doubled(h.v))

ScanCandidates(g, pi, pat, hints) ==
    LET usable == UsableHints(pi, pat, hints) IN
    IF usable # <<>> THEN RangeIndexCandidates(pi, usable[1])
    ELSE IF pat.labels # <<>> THEN NodesByLabel(g, pat.labels[1])
    ELSE DOMAIN g.nodes

(* The properties of the pattern that are looked up rather than scanned;   *)
(* the code takes the first one its hash map yields.                       *)
IndexedProps(pi, pat) ==
    IF pat.labels = <<>> THEN {}
    ELSE {p \in DOMAIN pat.props : HasIndex(pi, pat.labels[1], p) /\ pat.props[p].lit}

Candidates(g, pi, pat, hints) ==
    IF IndexedProps(pi, pat) # {}
    THEN LET p == CHOOSE p \in IndexedProps(pi, pat) : TRUE
         IN FindByProperty(pi, p, pat.props[p].v)
    ELSE ScanCandidates(g, pi, pat, hints)

MatchNodePattern(g, pi, hints, pat, bs) ==
    LET ForBinding(b) ==
          IF pat.var \in DOMAIN b
          THEN IF b[pat.var][1] = "node" /\ NodeMatchesPattern(g, b[pat.var][2], pat, b)
               THEN <<b>> ELSE <<>>
          ELSE LET found == {n \in Candidates(g, pi, pat, hints) :
                               NodeMatchesPattern(g, n, pat, b)}
               IN Mapped(Ascending(found), LAMBDA n : Bind(b, pat.var, <<"node", n>>))
    IN Concat(Mapped(bs, ForBinding))

-----------------------------------------------------------------------------
(* Relationships *)

(* Both reads the outgoing edges, then the incoming ones: a loop is met    *)
(* twice.                                                                  *)
EdgesByDirection(g, n, dir) ==
    CASE dir = "out" -> Ascending(OutEdges(g, n))
      [] dir = "in" -> Ascending(InEdges(g, n))
      [] OTHER -> Ascending(OutEdges(g, n)) \o Ascending(InEdges(g, n))

NextNode(g, n, e, dir) ==
    CASE dir = "out" -> g.edges[e].to
      [] dir = "in" -> g.edges[e].from
      [] OTHER -> IF g.edges[e].from = n THEN g.edges[e].to ELSE g.edges[e].from

TypedEdges(g, n, seg) ==
    SelectSeq(EdgesByDirection(g, n, seg.dir),
              LAMBDA e : seg.type = AnyType \/ g.edges[e].label = seg.type)

MatchSingleHop(g, seg, prev, b) ==
    LET n == b[prev.var][2]
        usable == SelectSeq(TypedEdges(g, n, seg), LAMBDA e :
                    /\ seg.evar \in DOMAIN b => b[seg.evar] = <<"edge", e>>
                    /\ NodeMatchesPattern(g, NextNode(g, n, e, seg.dir), seg.node, b))
    IN Mapped(usable, LAMBDA e :
         Bind(Bind(b, seg.node.var, <<"node", NextNode(g, n, e, seg.dir)>>),
              seg.evar, <<"edge", e>>))

(* One more hop of the paths of a worklist, never to a node already on it. *)
Extend(g, seg, path) ==
    LET n == Last(path.nodes)
        ok == SelectSeq(TypedEdges(g, n, seg),
                        LAMBDA e : ~ Contains(path.nodes, NextNode(g, n, e, seg.dir)))
    IN Mapped(ok, LAMBDA e : [nodes |-> Append(path.nodes, NextNode(g, n, e, seg.dir)),
                              edges |-> Append(path.edges, e)])

MaxDepth(range) == IF range[2] = NoMax THEN DefaultMaxDepth ELSE range[2]

(* The paths of every length up to the maximum; the worklist is a stack,   *)
(* so only their order differs from the code.                              *)
PathsFrom(g, seg, n) ==
    LET depth == IF MaxDepth(seg.range) > g.ncount THEN g.ncount ELSE MaxDepth(seg.range)
        level[d \in 0 .. depth] ==
          IF d = 0 THEN <<[nodes |-> <<n>>, edges |-> <<>>]>>
          ELSE Concat(Mapped(level[d - 1], LAMBDA path : Extend(g, seg, path)))
    IN Concat([d \in 1 .. depth + 1 |-> IF d - 1 >= seg.range[1] THEN level[d - 1] ELSE <<>>])

BindPath(b, seg, path) ==
    Bind(Bind(b, seg.node.var, <<"node", Last(path.nodes)>>),
         seg.evar, <<"path", path.nodes, path.edges>>)

MatchVariableLength(g, seg, prev, b) ==
    LET found == SelectSeq(PathsFrom(g, seg, b[prev.var][2]),
                           LAMBDA path : NodeMatchesPattern(g, Last(path.nodes), seg.node, b))
    IN Mapped(found, LAMBDA path : BindPath(b, seg, path))

-----------------------------------------------------------------------------
(* shortestPath and allShortestPaths: breadth first, layer by layer.  A    *)
(* layer is [front, dist, preds]: preds maps a node to the <<node, edge>>  *)
(* pairs it was first reached by.                                          *)

Reach(g, seg, n, all, acc, e) ==
    LET to == NextNode(g, n, e, seg.dir) IN
    IF to \notin DOMAIN acc.dist
    THEN [acc EXCEPT !.next = Append(@, to),
                     !.dist = With(@, to, acc.depth),
                     !.preds = With(@, to, <<<<n, e>>>>)]
    ELSE IF acc.dist[to] = acc.depth /\ all
    THEN [acc EXCEPT !.preds[to] = Append(@, <<n, e>>)]
    ELSE acc

NextLayer(g, seg, all, layer) ==
    LET start == [next |-> <<>>, dist |-> layer.dist, preds |-> layer.preds,
                  depth |-> layer.depth + 1]
        ofNode(acc, n) == FoldLeft(LAMBDA a, e : Reach(g, seg, n, all, a, e), acc,
                                   TypedEdges(g, n, seg))
        r == FoldLeft(ofNode, start, layer.front)
    IN [front |-> r.next, dist |-> r.dist, preds |-> r.preds, depth |-> r.depth,
        targets |-> layer.targets]

CollectTargets(g, seg, b, min, layer) ==
    [layer EXCEPT !.targets = @ \o SelectSeq(layer.front, LAMBDA n :
        layer.depth >= min /\ NodeMatchesPattern(g, n, seg.node, b))]

SearchStops(seg, b, max, layer) ==
    \/ seg.node.var \in DOMAIN b /\ b[seg.node.var][1] = "node"
         /\ b[seg.node.var][2] \in DOMAIN layer.dist
    \/ max # NoMax /\ layer.depth >= max

ShortestSearch(g, seg, b, n, all) ==
    LET min == IF seg.range = <<>> THEN 1 ELSE seg.range[1]
        max == IF seg.range = <<>> THEN 1 ELSE seg.range[2]
        first == [front |-> <<n>>, dist |-> With(Nothing, n, 0), preds |-> Nothing,
                  depth |-> 0, targets |-> <<>>]
        step(acc, i) ==
          IF acc.done \/ acc.layer.front = <<>> THEN [acc EXCEPT !.done = TRUE]
          ELSE LET seen == CollectTargets(g, seg, b, min, acc.layer) IN
               IF SearchStops(seg, b, max, seen) THEN [layer |-> seen, done |-> TRUE]
               ELSE [layer |-> NextLayer(g, seg, all, seen), done |-> FALSE]
    IN FoldLeft(step, [layer |-> first, done |-> FALSE],
                [i \in 1 .. g.ncount + 1 |-> i]).layer

(* The paths back from the target along the predecessors. *)
ShortestPathsTo(layer, n, target, all) ==
    LET back[d \in 0 .. layer.dist[target]] ==
          IF d = 0 THEN <<[nodes |-> <<target>>, edges |-> <<>>]>>
          ELSE Concat(Mapped(back[d - 1], LAMBDA path :
                 Mapped(layer.preds[path.nodes[1]], LAMBDA pe :
                   [nodes |-> <<pe[1]>> \o path.nodes, edges |-> <<pe[2]>> \o path.edges])))
        found == back[layer.dist[target]]
    IN IF all THEN found ELSE <<found[1]>>

MatchShortest(g, seg, prev, b, all) ==
    LET n == b[prev.var][2]
        layer == ShortestSearch(g, seg, b, n, all)
    IN Concat(Mapped(layer.targets, LAMBDA t :
         Mapped(ShortestPathsTo(layer, n, t, all), LAMBDA path : BindPath(b, seg, path))))

-----------------------------------------------------------------------------
(* Whole patterns *)

MatchSegment(g, seg, prev, shortest, bs) ==
    Concat(Mapped(bs, LAMBDA b :
        CASE shortest = "one" -> MatchShortest(g, seg, prev, b, FALSE)
          [] shortest = "all" -> MatchShortest(g, seg, prev, b, TRUE)
          [] OTHER -> IF seg.range = <<>> THEN MatchSingleHop(g, seg, prev, b)
                      ELSE MatchVariableLength(g, seg, prev, b)))

(* The nodes of a variable-length hop include the one it starts from. *)
AssemblePath(pat, b) ==
    FoldLeft(LAMBDA acc, seg :
                IF b[seg.evar][1] = "edge"
                THEN <<"path", Append(acc[2], b[seg.node.var][2]),
                       Append(acc[3], b[seg.evar][2])>>
                ELSE <<"path", acc[2] \o Tail(b[seg.evar][2]), acc[3] \o b[seg.evar][3]>>,
             <<"path", <<b[pat.start.var][2]>>, <<>>>>, pat.segs)

Hidden == {"_1", "_2", "_3", "_4"}

MatchPathPattern(g, pi, hints, pat, bs) ==
    LET first == MatchNodePattern(g, pi, hints, pat.start, bs)
        prev(i) == IF i = 1 THEN pat.start ELSE pat.segs[i - 1].node
        hops == FoldLeft(LAMBDA acc, i : MatchSegment(g, pat.segs[i], prev(i), pat.shortest, acc),
                         first, [i \in DOMAIN pat.segs |-> i])
        whole == Mapped(hops, LAMBDA b :
                   IF pat.pvar = NoVar THEN b ELSE Bind(b, pat.pvar, AssemblePath(pat, b)))
    IN Mapped(whole, LAMBDA b : Without(b, Hidden))

MatchPattern(g, pi, hints, pat, bs) ==
    IF "segs" \in DOMAIN pat THEN MatchPathPattern(g, pi, hints, pat, bs)
    ELSE MatchNodePattern(g, pi, hints, pat, bs)

MatchPatterns(g, pi, hints, pats, bs) ==
    FoldLeft(LAMBDA acc, pat : MatchPattern(g, pi, hints, pat, acc), bs, pats)

(* OPTIONAL MATCH keeps a row without a match, its new variables unbound. *)
ExecuteMatchClause(g, pi, hints, clause, bs) ==
    Concat(Mapped(bs, LAMBDA b :
        LET found == MatchPatterns(g, pi, hints, clause.pats, <<b>>) IN
        IF clause.optional /\ found = <<>> THEN <<b>> ELSE found))
=============================================================================
