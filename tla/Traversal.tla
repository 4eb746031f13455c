----------------------------- MODULE Traversal -----------------------------
(***************************************************************************)
(* Traversals and path searches of maharit-core/src/traversal.rs.          *)
(*                                                                         *)
(* A traversal is [g, start, dir, max, types, labels, order]: max is       *)
(* NoLimit or a depth, types and labels are what the edge and the node     *)
(* filter accept, order is "bfs" or "dfs".  Its answer is a sequence of    *)
(* <<node, depth>>.  Edges are read in the order of their ids where the    *)
(* code reads a hash set, and the least node stands for the arbitrary      *)
(* choice of the heap among entries of the same cost.                      *)
(*                                                                         *)
(* A loop "until the queue is empty" is a fold over enough steps to empty  *)
(* it.                                                                     *)
(***************************************************************************)
EXTENDS PropertyGraph, PropertyIndex

NoLimit == 99

-----------------------------------------------------------------------------
(* Breadth-first and depth-first iteration *)

PushNeighbors(t, n) ==
    LET ok(e) == t.g.edges[e].label \in t.types
        outs == SelectSeq(Ascending(OutEdges(t.g, n)), ok)
        ins == SelectSeq(Ascending(InEdges(t.g, n)), ok)
    IN (IF t.dir \in {"out", "both"} THEN Mapped(outs, LAMBDA e : t.g.edges[e].to) ELSE <<>>)
         \o (IF t.dir \in {"in", "both"} THEN Mapped(ins, LAMBDA e : t.g.edges[e].from) ELSE <<>>)

ShouldVisit(t, n) ==
    /\ ContainsNode(t.g, n)
    /\ PrimaryLabel(t.g, n) \in t.labels

(* A node counts as visited when it is pushed, at the depth it is pushed   *)
(* at: depth first may meet it late on a long path and then not expand it. *)
Push(w, n, d) ==
    IF n \in w.seen THEN w ELSE [w EXCEPT !.seen = @ \cup {n}, !.work = Append(@, <<n, d>>)]

IteratorNext(t, w) ==
    LET item == IF t.order = "bfs" THEN Head(w.work) ELSE Last(w.work)
        rest == [w EXCEPT !.work = IF t.order = "bfs" THEN Tail(@) ELSE Front(@)]
        grown == IF item[2] < t.max
                 THEN FoldLeft(LAMBDA acc, m : Push(acc, m, item[2] + 1), rest,
                               PushNeighbors(t, item[1]))
                 ELSE rest
    IN IF item[2] > t.max \/ ~ ShouldVisit(t, item[1]) THEN rest
       ELSE [grown EXCEPT !.out = Append(@, item)]

Traverse(t) ==
    FoldLeft(LAMBDA w, i : IF w.work = <<>> THEN w ELSE IteratorNext(t, w),
             [work |-> <<<<t.start, 0>>>>, seen |-> {t.start}, out |-> <<>>],
             Upto(t.g.ncap + 1)).out

-----------------------------------------------------------------------------
(* Unweighted paths along outgoing edges; a path is its sequence of nodes. *)

Successors(g, n) == Mapped(Ascending(OutEdges(g, n)), LAMBDA e : g.edges[e].to)

(* The predecessors recorded by one breadth-first sweep that stops         *)
(* expanding at the distance of the target.  Two edges between the same    *)
(* nodes record the predecessor twice.                                     *)
RecordStep(w, n, m) ==
    CASE m \notin DOMAIN w.dist ->
           [w EXCEPT !.dist = With(@, m, w.dist[n] + 1), !.pred = With(@, m, <<n>>),
                     !.queue = Append(@, m)]
      [] w.dist[m] = w.dist[n] + 1 -> [w EXCEPT !.pred[m] = Append(@, n)]
      [] OTHER -> w

SweepFrom(g, from, to) ==
    LET step(w, i) ==
          IF w.queue = <<>> THEN w
          ELSE LET n == Head(w.queue)
                   rest == [w EXCEPT !.queue = Tail(@)]
               IN IF to \in DOMAIN w.dist /\ w.dist[n] >= w.dist[to] THEN rest
                  ELSE FoldLeft(LAMBDA acc, m : RecordStep(acc, n, m), rest, Successors(g, n))
    IN FoldLeft(step, [queue |-> <<from>>, dist |-> With(Nothing, from, 0), pred |-> Nothing],
                Upto(g.ncap))

AllShortestPaths(g, from, to) ==
    LET w == SweepFrom(g, from, to)
        back[d \in 0 .. g.ncap] ==
          IF d = 0 THEN <<<<to>>>>
          ELSE Concat(Mapped(back[d - 1], LAMBDA p :
                 Mapped(w.pred[p[1]], LAMBDA n : <<n>> \o p)))
    IN IF from = to THEN <<<<from>>>>
       ELSE IF to \notin DOMAIN w.pred THEN <<>>
       ELSE back[w.dist[to]]

(* The parent of a node is the first one that reached it. *)
ShortestPath(g, from, to) ==
    LET w == SweepFrom(g, from, to)
        back[d \in 0 .. g.ncap] ==
          IF d = 0 THEN <<to>> ELSE <<w.pred[back[d - 1][1]][1]>> \o back[d - 1]
    IN IF from = to THEN <<from>>
       ELSE IF to \notin DOMAIN w.pred THEN <<>>
       ELSE back[w.dist[to]]

HasPath(g, from, to) == from = to \/ to \in DOMAIN SweepFrom(g, from, to).dist

(* The paths of all_paths by length: the partial ones that avoid the       *)
(* target are extended, the others are results.                            *)
AllPaths(g, from, to, max) ==
    LET depth == IF max < g.ncount THEN max ELSE g.ncount
        grow(p) == SelectSeq(Successors(g, Last(p)), LAMBDA m : m = to \/ ~ Contains(p, m))
        level[d \in 0 .. depth] ==
          IF d = 0 THEN <<<<from>>>>
          ELSE Concat(Mapped(SelectSeq(level[d - 1], LAMBDA p : Last(p) # to), LAMBDA p :
                 Mapped(grow(p), LAMBDA m : Append(p, m))))
    IN IF ~ ContainsNode(g, from) \/ ~ ContainsNode(g, to) THEN <<>>
       ELSE IF from = to THEN <<<<from>>>>
       ELSE Concat([d \in 1 .. depth |-> SelectSeq(level[d], LAMBDA p : Last(p) = to)])

-----------------------------------------------------------------------------
(* Weighted paths; weights and costs are doubled numbers. *)

WeightOf(g, e, prop) ==
    LET props == g.edges[e].props IN
    IF prop \in DOMAIN props /\ IsNumber(props[prop]) THEN Doubled(props[prop]) ELSE 2

LeastEntry(H) ==
    CHOOSE x \in H : \A y \in H : x[1] < y[1] \/ (x[1] = y[1] /\ x[2] <= y[2])

(* An entry of the heap is <<priority, node, cost>>; closing is A* alone.  *)
Relax(g, prop, h, to, n, cost, w, e) ==
    LET m == g.edges[e].to
        c == cost + WeightOf(g, e, prop)
    IN IF m \in w.closed \/ (m \in DOMAIN w.cost /\ c >= w.cost[m]) THEN w
       ELSE [w EXCEPT !.cost = With(@, m, c), !.prev = With(@, m, <<n, e>>),
                      !.heap = @ \cup {<<c + h[m], m, c>>}]

(* Dijkstra expands an entry that is not outdated, A* a node not closed.   *)
Expandable(algo, w, x) ==
    IF algo = "astar" THEN x[2] \notin w.closed ELSE x[3] <= w.cost[x[2]]

SearchStep(g, prop, h, to, algo, w) ==
    LET x == LeastEntry(w.heap)
        rest == [w EXCEPT !.heap = @ \ {x}]
        closed == IF algo = "astar" THEN [rest EXCEPT !.closed = @ \cup {x[2]}] ELSE rest
    IN IF x[2] = to THEN [rest EXCEPT !.found = <<x[3]>>]
       ELSE IF ~ Expandable(algo, w, x) THEN rest
       ELSE FoldLeft(LAMBDA acc, e : Relax(g, prop, h, to, x[2], x[3], acc, e), closed,
                     Ascending(OutEdges(g, x[2])))

WeightedSearch(g, from, to, prop, h, algo) ==
    FoldLeft(LAMBDA w, i : IF w.heap = {} \/ w.found # <<>> THEN w
                           ELSE SearchStep(g, prop, h, to, algo, w),
             [heap |-> {<<h[from], from, 0>>}, cost |-> With(Nothing, from, 0),
              prev |-> Nothing, closed |-> {}, found |-> <<>>],
             Upto(g.ecount + 2))

(* The walk back over prev, as reconstruct_path does. *)
ReconstructPath(w, from, to) ==
    FoldLeft(LAMBDA p, i : IF p.nodes[1] = from THEN p
                           ELSE LET pe == w.prev[p.nodes[1]] IN
                                [nodes |-> <<pe[1]>> \o p.nodes, edges |-> <<pe[2]>> \o p.edges],
             [nodes |-> <<to>>, edges |-> <<>>], Upto(Cardinality(DOMAIN w.prev)))

WeightedPath(g, from, to, prop, h, algo) ==
    LET w == WeightedSearch(g, from, to, prop, h, algo)
        p == ReconstructPath(w, from, to)
    IN IF from = to THEN [nodes |-> <<from>>, edges |-> <<>>, weight |-> 0]
       ELSE IF w.found = <<>> THEN [nodes |-> <<>>, edges |-> <<>>, weight |-> -1]
       ELSE [nodes |-> p.nodes, edges |-> p.edges, weight |-> w.found[1]]

NoHeuristic(g) == [n \in 0 .. g.ncap |-> 0]

Dijkstra(g, from, to, prop) == WeightedPath(g, from, to, prop, NoHeuristic(g), "dijkstra")
AStar(g, from, to, prop, h) == WeightedPath(g, from, to, prop, h, "astar")

(* No target: the search runs until the heap is empty. *)
DistancesFrom(g, from, prop) ==
    WeightedSearch(g, from, -1, prop, NoHeuristic(g), "dijkstra").cost

-----------------------------------------------------------------------------
(***************************************************************************)
(* Graph analysis of maharit-core/src/algorithms.rs.  Fractions are exact: *)
(* a closeness is <<numerator, denominator>>, a betweenness is a multiple  *)
(* of 1 / Scale before normalisation, and PageRank scores share a          *)
(* denominator.  The parallel variants above 500 nodes compute the same    *)
(* sums.                                                                   *)
(***************************************************************************)

NodeList(g) == Ascending(DOMAIN g.nodes)

DegreeCentrality(g) ==
    [n \in DOMAIN g.nodes |->
        LET ins == Cardinality({e \in DOMAIN g.edges : g.edges[e].to = n})
            outs == Cardinality({e \in DOMAIN g.edges : g.edges[e].from = n})
        IN [in |-> ins, out |-> outs, total |-> ins + outs]]

BfsDistances(g, source) ==
    FoldLeft(LAMBDA w, i :
               IF w.queue = <<>> THEN w
               ELSE FoldLeft(LAMBDA acc, m :
                      IF m \in DOMAIN acc.dist THEN acc
                      ELSE [queue |-> Append(acc.queue, m),
                            dist |-> With(acc.dist, m, acc.dist[Head(w.queue)] + 1)],
                      [w EXCEPT !.queue = Tail(@)], Successors(g, Head(w.queue))),
             [queue |-> <<source>>, dist |-> With(Nothing, source, 0)], Upto(g.ncap)).dist

SumOver(f) == FoldFunction(LAMBDA a, b : a + b, 0, f)

Closeness(g) ==
    [n \in DOMAIN g.nodes |->
        LET dist == BfsDistances(g, n)
            reachable == Cardinality(DOMAIN dist)
        IN IF g.ncount > 1 /\ SumOver(dist) > 0 /\ reachable > 1
           THEN <<reachable - 1, SumOver(dist)>> ELSE <<0, 1>>]

-----------------------------------------------------------------------------
(* Betweenness: Brandes' accumulation from every source *)

Scale == 12

(* A variant of BrandesVisit that assigns the number of paths. *)
BrandesAssign(acc, v, w) ==
    LET seen == IF w \in DOMAIN acc.dist THEN acc
                ELSE [acc EXCEPT !.dist = With(@, w, acc.dist[v] + 1), !.queue = Append(@, w)]
    IN IF seen.dist[w] = seen.dist[v] + 1
       THEN [seen EXCEPT !.sigma[w] = seen.sigma[v], !.pred[w] = Append(@, v)]
       ELSE seen

BrandesVisit(acc, v, w) ==
    LET seen == IF w \in DOMAIN acc.dist THEN acc
                ELSE [acc EXCEPT !.dist = With(@, w, acc.dist[v] + 1), !.queue = Append(@, w)]
    IN IF seen.dist[w] = seen.dist[v] + 1
       THEN [seen EXCEPT !.sigma[w] = @ + seen.sigma[v], !.pred[w] = Append(@, v)]
       ELSE seen

BrandesForward(g, source) ==
    FoldLeft(LAMBDA w, i :
               IF w.queue = <<>> THEN w
               ELSE LET v == Head(w.queue) IN
                    FoldLeft(LAMBDA acc, m : BrandesVisit(acc, v, m),
                             [w EXCEPT !.queue = Tail(@), !.stack = Append(@, v)],
                             Successors(g, v)),
             [queue |-> <<source>>, stack |-> <<>>, dist |-> With(Nothing, source, 0),
              sigma |-> [n \in DOMAIN g.nodes |-> IF n = source THEN 1 ELSE 0],
              pred |-> [n \in DOMAIN g.nodes |-> <<>>]], Upto(g.ncap))

BrandesSingle(g, source) ==
    LET f == BrandesForward(g, source)
        give(d, w) == FoldLeft(LAMBDA acc, v :
                        [acc EXCEPT ![v] = @ + (f.sigma[v] * (Scale + acc[w])) \div f.sigma[w]],
                        d, f.pred[w])
        delta == FoldLeft(give, [n \in DOMAIN g.nodes |-> 0], Reverse(f.stack))
    IN [n \in DOMAIN g.nodes |-> IF n = source THEN 0 ELSE delta[n]]

(* The sum over the sources, over Scale (n - 1) (n - 2) when n > 2. *)
Betweenness(g) ==
    [n \in DOMAIN g.nodes |->
        SumOver([s \in DOMAIN g.nodes |-> BrandesSingle(g, s)[n]])]

-----------------------------------------------------------------------------
(* PageRank with damping 17/20: scores are numerators over den. *)

DegreeMultiple == 12

PageRankStep(g, r) ==
    LET n == g.ncount
        deg(v) == Cardinality(OutEdges(g, v))
        dangling == SumOver([v \in {v \in DOMAIN g.nodes : deg(v) = 0} |-> r.num[v]])
        incoming(v) == SumOver([e \in InEdges(g, v) |->
            17 * r.num[g.edges[e].from] * n * (DegreeMultiple \div deg(g.edges[e].from))])
        den == r.den * 20 * n * DegreeMultiple
        num == [v \in DOMAIN g.nodes |->
                  3 * r.den * DegreeMultiple + incoming(v) + 17 * dangling * DegreeMultiple]
        gap(v) == num[v] - r.num[v] * 20 * n * DegreeMultiple
        diff == SumOver([v \in DOMAIN g.nodes |-> IF gap(v) < 0 THEN -gap(v) ELSE gap(v)])
    IN [num |-> num, den |-> den, iterations |-> r.iterations + 1,
        converged |-> diff = 0 \/ diff < den \div 1000000]

PageRank(g, max) ==
    FoldLeft(LAMBDA r, i : IF r.converged THEN r ELSE PageRankStep(g, r),
             [num |-> [v \in DOMAIN g.nodes |-> 1], den |-> g.ncount, iterations |-> 0,
              converged |-> g.ncount = 0], Upto(max))

-----------------------------------------------------------------------------
(* Communities *)

(* The most frequent label among the neighbours in both directions, the    *)
(* least of several.                                                       *)
BestLabel(g, labels, v) ==
    LET near == Mapped(Ascending(OutEdges(g, v)), LAMBDA e : labels[g.edges[e].to])
                  \o Mapped(Ascending(InEdges(g, v)), LAMBDA e : labels[g.edges[e].from])
        count(l) == Cardinality({i \in DOMAIN near : near[i] = l})
        best == {l \in Range(near) : \A m \in Range(near) : count(l) >= count(m)}
    IN IF near = <<>> THEN labels[v] ELSE CHOOSE l \in best : \A m \in best : l <= m

LabelPropagation(g, max) ==
    LET pass(labels) == FoldLeft(LAMBDA acc, v : [acc EXCEPT ![v] = BestLabel(g, acc, v)],
                                 labels, NodeList(g))
    IN FoldLeft(LAMBDA labels, i : pass(labels), [n \in DOMAIN g.nodes |-> n], Upto(max))

(* The component of n among the nodes not yet visited. *)
Around(g, n) ==
    {g.edges[e].to : e \in OutEdges(g, n)} \cup {g.edges[e].from : e \in InEdges(g, n)}

ComponentOf(g, n) ==
    FoldLeft(LAMBDA S, i : S \cup UNION {Around(g, m) : m \in S}, {n}, Upto(g.ncap))
ConnectedComponents(g) ==
    FoldLeft(LAMBDA acc, n : IF n \in UNION Range(acc) THEN acc
                             ELSE Append(acc, ComponentOf(g, n)), <<>>, NodeList(g))

RECURSIVE DfsFinish(_, _, _), DfsCollect(_, _, _), DfsCycle(_, _, _), FindCyclesDfs(_, _, _)

(* acc is [seen, order]. *)
DfsFinish(g, n, acc) ==
    LET inner == FoldLeft(LAMBDA a, m : IF m \in a.seen THEN a ELSE DfsFinish(g, m, a),
                          [acc EXCEPT !.seen = @ \cup {n}], Successors(g, n))
    IN [inner EXCEPT !.order = Append(@, n)]

(* Depth first over the reversed edges; acc is [seen, comp]. *)
DfsCollect(g, n, acc) ==
    LET back == Mapped(Ascending(InEdges(g, n)), LAMBDA e : g.edges[e].from)
    IN FoldLeft(LAMBDA a, m : IF m \in a.seen THEN a ELSE DfsCollect(g, m, a),
                [seen |-> acc.seen \cup {n}, comp |-> acc.comp \cup {n}], back)

StronglyConnected(g) ==
    LET first == FoldLeft(LAMBDA a, n : IF n \in a.seen THEN a ELSE DfsFinish(g, n, a),
                          [seen |-> {}, order |-> <<>>], NodeList(g))
        second == FoldLeft(LAMBDA a, n :
                    IF n \in a.seen THEN a
                    ELSE LET r == DfsCollect(g, n, [seen |-> a.seen, comp |-> {}])
                         IN [seen |-> r.seen, comps |-> Append(a.comps, r.comp)],
                    [seen |-> {}, comps |-> <<>>], Reverse(first.order))
    IN second.comps

-----------------------------------------------------------------------------
(* Cycles *)

(* acc is [seen, stack, hit]; a hit ends the search. *)
DfsCycle(g, n, acc) ==
    LET inner == FoldLeft(LAMBDA a, m :
                   IF a.hit THEN a
                   ELSE IF m \notin a.seen THEN DfsCycle(g, m, a)
                   ELSE [a EXCEPT !.hit = m \in a.stack],
                   [acc EXCEPT !.seen = @ \cup {n}, !.stack = @ \cup {n}], Successors(g, n))
    IN IF inner.hit THEN inner ELSE [inner EXCEPT !.stack = @ \ {n}]

HasCycle(g) ==
    FoldLeft(LAMBDA a, n : IF a.hit \/ n \in a.seen THEN a ELSE DfsCycle(g, n, a),
             [seen |-> {}, stack |-> {}, hit |-> FALSE], NodeList(g)).hit

(* One cycle per back edge: the nodes of the stack from its target on. *)
FindCyclesDfs(g, n, acc) ==
    LET inner == FoldLeft(LAMBDA a, m :
                   IF m \notin a.seen THEN FindCyclesDfs(g, m, a)
                   ELSE IF ~ Contains(a.stack, m) THEN a
                   ELSE [a EXCEPT !.cycles = Append(@,
                           SubSeq(a.stack, CHOOSE i \in DOMAIN a.stack : a.stack[i] = m,
                                  Len(a.stack)))],
                   [acc EXCEPT !.seen = @ \cup {n}, !.stack = Append(@, n)], Successors(g, n))
    IN [inner EXCEPT !.stack = Front(@)]

FindCycles(g) ==
    FoldLeft(LAMBDA a, n : IF n \in a.seen THEN a ELSE FindCyclesDfs(g, n, a),
             [seen |-> {}, stack |-> <<>>, cycles |-> <<>>], NodeList(g)).cycles

(* Kahn's algorithm: the nodes in the order in which their in-degrees drop *)
(* to 0.                                                                   *)
KahnOrder(g) ==
    LET indeg == [n \in DOMAIN g.nodes |-> Cardinality({e \in DOMAIN g.edges : g.edges[e].to = n})]
        lower(acc, m) ==
          LET d == [acc.deg EXCEPT ![m] = @ - 1] IN
          [acc EXCEPT !.deg = d, !.queue = IF d[m] = 0 THEN Append(@, m) ELSE @]
        step(w, i) ==
          IF w.queue = <<>> THEN w
          ELSE FoldLeft(lower, [w EXCEPT !.queue = Tail(@), !.out = Append(@, Head(w.queue))],
                        Successors(g, Head(w.queue)))
    IN FoldLeft(step, [deg |-> indeg, out |-> <<>>,
                       queue |-> SelectSeq(NodeList(g), LAMBDA n : indeg[n] = 0)],
                Upto(g.ncap)).out

(* <<order>>, or <<>> when a cycle keeps some node back.                   *)
TopologicalSort(g) == IF Len(KahnOrder(g)) = g.ncount THEN <<KahnOrder(g)>> ELSE <<>>
=============================================================================
