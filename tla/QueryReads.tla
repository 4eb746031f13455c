----------------------------- MODULE QueryReads -----------------------------
(***************************************************************************)
(* Questions about a graph as steps of a reader: first the traversals,     *)
(* path searches and analyses of maharit-core, then patterns, queries,     *)
(* expressions, texts and dates of the query language.  Each comes with a  *)
(* definition of the right answer that does not look like the code's.      *)
(***************************************************************************)
EXTENDS Queries

CONSTANTS
    Reply(_, _),    \* the answer to a question about a graph, as the code gives it
    Graphs,         \* the graphs a reader is given
    Depths          \* maximum depths of traversals

VARIABLES
    graph,
    ask,            \* the question, [kind, ...]
    answer
gvars == <<graph, ask, answer>>

NoQuestion == [kind |-> "none"]

GraphInit == graph \in Graphs /\ ask = NoQuestion /\ answer = <<>>

Nodes == DOMAIN graph.nodes

(* One less than the true cost, or nothing: heuristics that never promise  *)
(* too much.                                                               *)
Heuristics(to) == {NoHeuristic(graph), [n \in 0 .. graph.ncap |-> IF n = to THEN 0 ELSE 1]}

GraphQuestions ==
    [kind : {"traversal"}, start : Nodes, dir : {"out", "in", "both"}, max : Depths, order : {"bfs", "dfs"}]
      \cup [kind : {"paths"}, from : Nodes, to : Nodes]
      \cup UNION {[kind : {"weighted"}, from : Nodes, to : {to}, h : Heuristics(to)] : to \in Nodes}
      \cup [kind : {"structure", "centrality"}]

(* One question is asked and answered, and then forgotten. *)
AskFrom(questions) ==
    /\ ask = NoQuestion
    /\ \E q \in questions : ask' = q /\ answer' = Reply(graph, q)
    /\ UNCHANGED graph
Forget == ask # NoQuestion /\ ask' = NoQuestion /\ answer' = <<>> /\ UNCHANGED graph

(* What maharit-core answers. *)
Traversed(g, q) ==
    Traverse([g |-> g, start |-> q.start, dir |-> q.dir, max |-> q.max, order |-> q.order,
              types |-> {g.edges[e].label : e \in DOMAIN g.edges}, labels |-> Labels])
PathsFound(g, q) ==
    [one |-> ShortestPath(g, q.from, q.to), all |-> AllShortestPaths(g, q.from, q.to),
     every |-> AllPaths(g, q.from, q.to, NoLimit), has |-> HasPath(g, q.from, q.to)]
GraphReply(g, q) ==
    CASE q.kind = "traversal" -> Traversed(g, q)
      [] q.kind = "paths" -> PathsFound(g, q)
      [] q.kind = "weighted" ->
           [dijkstra |-> Dijkstra(g, q.from, q.to, "w"), astar |-> AStar(g, q.from, q.to, "w", q.h),
            all |-> DistancesFrom(g, q.from, "w")]
      [] q.kind = "structure" ->
           [connected |-> ConnectedComponents(g), strong |-> StronglyConnected(g),
            cycle |-> HasCycle(g), cycles |-> FindCycles(g), order |-> TopologicalSort(g)]
      [] q.kind = "centrality" ->
           [degree |-> DegreeCentrality(g), close |-> Closeness(g), between |-> Betweenness(g),
            rank |-> PageRank(g, 2), communities |-> LabelPropagation(g, 2)]

-----------------------------------------------------------------------------
(* Reference definitions *)

Arc(m, n, dir) ==
    \E e \in DOMAIN graph.edges :
        \/ dir \in {"out", "both"} /\ graph.edges[e].from = m /\ graph.edges[e].to = n
        \/ dir \in {"in", "both"} /\ graph.edges[e].from = n /\ graph.edges[e].to = m

(* The nodes within d steps. *)
Within(n, dir) ==
    LET ball[d \in 0 .. Cardinality(Nodes)] ==
          IF d = 0 THEN {n}
          ELSE ball[d - 1] \cup {m \in Nodes : \E k \in ball[d - 1] : Arc(k, m, dir)}
    IN ball
Capped(d) == IF d > Cardinality(Nodes) THEN Cardinality(Nodes) ELSE d
Reaches(m, n, dir) == n \in Within(m, dir)[Cardinality(Nodes)]
Distance(m, n, dir) ==
    CHOOSE d \in 0 .. Cardinality(Nodes) :
        n \in Within(m, dir)[d] /\ (d > 0 => n \notin Within(m, dir)[d - 1])

IsPathOf(p, m, n) ==
    /\ p # <<>> /\ p[1] = m /\ Last(p) = n
    /\ \A i \in 1 .. Len(p) - 1 : Arc(p[i], p[i + 1], "out")
SimplePaths(m, n) ==
    {p \in UNION {[1 .. k -> Nodes] : k \in 1 .. Cardinality(Nodes)} :
        IsInjective(p) /\ IsPathOf(p, m, n)}

(* The cheapest edge between two nodes, and the cost of a path of them. *)
Cheapest(m, n) ==
    LET ws == {WeightOf(graph, e, "w") : e \in {e \in DOMAIN graph.edges :
                 graph.edges[e].from = m /\ graph.edges[e].to = n}}
    IN CHOOSE w \in ws : \A v \in ws : w <= v
CostOf(p) == FoldLeft(LAMBDA acc, i : acc + Cheapest(p[i], p[i + 1]), 0, Upto(Len(p) - 1))
LeastCost(m, n) ==
    LET cs == {CostOf(p) : p \in SimplePaths(m, n)} IN CHOOSE c \in cs : \A d \in cs : c <= d

(* How many edges lead from m to n, and in how many ways the steps of p    *)
(* can be taken.                                                           *)
EdgeCount(m, n) ==
    Cardinality({e \in DOMAIN graph.edges : graph.edges[e].from = m /\ graph.edges[e].to = n})
Ways(p) == FoldLeft(LAMBDA acc, i : acc * EdgeCount(p[i], p[i + 1]), 1, Upto(Len(p) - 1))
Shortest(m, n) == {p \in SimplePaths(m, n) : Len(p) = Distance(m, n, "out") + 1}
TotalWays(P) == SumOver([p \in P |-> Ways(p)])

-----------------------------------------------------------------------------
(* A breadth-first traversal visits exactly the nodes within the maximum   *)
(* depth, each once, nearest first and at its distance; a depth-first one  *)
(* without a limit visits the same nodes.                                  *)
TraversalExact ==
    ask.kind = "traversal" =>
        LET visited == {answer[i][1] : i \in DOMAIN answer} IN
        /\ Cardinality(visited) = Len(answer)
        /\ visited \subseteq Within(ask.start, ask.dir)[Capped(ask.max)]
        /\ ask.order = "bfs" =>
             /\ visited = Within(ask.start, ask.dir)[Capped(ask.max)]
             /\ \A i \in DOMAIN answer : answer[i][2] = Distance(ask.start, answer[i][1], ask.dir)
             /\ \A i \in 1 .. Len(answer) - 1 : answer[i][2] <= answer[i + 1][2]
        /\ ask.max >= Cardinality(Nodes) => visited = Within(ask.start, ask.dir)[Cardinality(Nodes)]

(* shortest_path and all_shortest_paths agree with the paths there are:    *)
(* none is missing, none is longer, and each counts once per choice of     *)
(* edges; all_paths finds every simple path.                               *)
PathsExact ==
    ask.kind = "paths" =>
        LET P == SimplePaths(ask.from, ask.to) IN
        /\ answer.has <=> P # {}
        /\ (answer.one = <<>>) <=> (P = {})
        /\ P # {} => answer.one \in Shortest(ask.from, ask.to)
        /\ Range(answer.all) = Shortest(ask.from, ask.to)
        /\ Len(answer.all) = TotalWays(Shortest(ask.from, ask.to))
        /\ Range(answer.every) = P

(* Dijkstra and A* return a path of least cost, whose edges are the edges  *)
(* of its nodes and whose weight is theirs, and the two agree.             *)
WeightedOptimal ==
    ask.kind = "weighted" =>
        /\ \A r \in {answer.dijkstra, answer.astar} :
             IF SimplePaths(ask.from, ask.to) = {} THEN r.nodes = <<>>
             ELSE /\ r.nodes \in SimplePaths(ask.from, ask.to)
                  /\ r.weight = LeastCost(ask.from, ask.to)
                  /\ Len(r.edges) = Len(r.nodes) - 1
                  /\ \A i \in DOMAIN r.edges :
                        /\ graph.edges[r.edges[i]].from = r.nodes[i]
                        /\ graph.edges[r.edges[i]].to = r.nodes[i + 1]
                  /\ r.weight = FoldLeft(LAMBDA acc, e : acc + WeightOf(graph, e, "w"), 0, r.edges)
        /\ DOMAIN answer.all = {n \in Nodes : Reaches(ask.from, n, "out")}
        /\ \A n \in DOMAIN answer.all : answer.all[n] = LeastCost(ask.from, n)

(* The components are classes: connected ones of reachability both ways    *)
(* along any edge, strong ones of reachability in both directions.         *)
ComponentsExact ==
    ask.kind = "structure" =>
        /\ Range(answer.connected) = {{m \in Nodes : Reaches(n, m, "both")} : n \in Nodes}
        /\ Range(answer.strong)
             = {{m \in Nodes : Reaches(n, m, "out") /\ Reaches(m, n, "out")} : n \in Nodes}
        /\ IsInjective(answer.connected) /\ IsInjective(answer.strong)

(* The three questions about cycles agree, every reported cycle is one,    *)
(* and a topological order puts the source of every edge first.            *)
CyclesAgree ==
    ask.kind = "structure" =>
        LET cyclic == \E n \in Nodes : \E m \in Nodes : Arc(n, m, "out") /\ Reaches(m, n, "out")
            at(n) == CHOOSE i \in DOMAIN answer.order[1] : answer.order[1][i] = n
        IN /\ answer.cycle = cyclic
           /\ (answer.cycles # <<>>) = cyclic
           /\ (answer.order = <<>>) = cyclic
           /\ \A i \in DOMAIN answer.cycles :
                IsPathOf(Append(answer.cycles[i], answer.cycles[i][1]),
                         answer.cycles[i][1], answer.cycles[i][1])
           /\ ~ cyclic => \A e \in DOMAIN graph.edges :
                at(graph.edges[e].from) < at(graph.edges[e].to)

(* Betweenness is the sum, over the pairs of other nodes, of the fraction  *)
(* of shortest paths that pass; closeness divides the nodes reached by     *)
(* their distances; the ranks stay a distribution; labels of communities   *)
(* never cross components.                                                 *)
CentralityExact ==
    ask.kind = "centrality" =>
        /\ \A v \in Nodes :
             answer.between[v] =
                SumOver([pair \in {pr \in (Nodes \ {v}) \X (Nodes \ {v}) :
                                     pr[1] # pr[2] /\ Reaches(pr[1], pr[2], "out")} |->
                    LET P == Shortest(pair[1], pair[2])
                    IN (Scale * TotalWays({p \in P : v \in Range(p)})) \div TotalWays(P)])
        /\ \A v \in Nodes :
             LET near == {n \in Nodes \ {v} : Reaches(v, n, "out")} IN
             near # {} => answer.close[v] = <<Cardinality(near),
                                              SumOver([n \in near |-> Distance(v, n, "out")])>>
        /\ SumOver(answer.rank.num) = answer.rank.den
        /\ \A m, n \in Nodes :
             answer.communities[m] = answer.communities[n] => Reaches(m, n, "both")

(* Every answer of the graph library is the one its definition gives:      *)
(* traversals, paths, weights, components, cycles and centralities.        *)
GraphAnswersExact ==
    /\ TraversalExact /\ PathsExact /\ WeightedOptimal
    /\ ComponentsExact /\ CyclesAgree /\ CentralityExact

-----------------------------------------------------------------------------

CONSTANTS
    QueryGraphs,    \* the graphs queries are asked about
    MatchQueries,   \* queries of one segment or several
    PathPatterns,   \* variable-length and shortest path patterns
    Laws,           \* pairs of expressions that must have the same value
    Texts, Terms,   \* texts and words for the string functions and full text
    Days, Months    \* dates and durations

Index(g) ==
    FoldSet(LAMBDA n, acc : IF HasProp(g, n, "p") THEN IndexProperty(acc, n, "p", ValueOf(g, n, "p"))
                            ELSE acc,
            CreateIndexDef(EmptyIndex, "A", "p"), NodesByLabel(g, "A"))
ContextOf(g, pi, ties) == [g |-> g, pi |-> pi, params |-> Nothing, ties |-> ties]
Plainly(g) == ContextOf(g, EmptyIndex, "first")

QueryQuestions ==
    IF graph \in QueryGraphs
    THEN [kind : {"match"}, m : MatchQueries, pi : {EmptyIndex, Index(graph)}, ties : {"first", "last"}]
           \cup [kind : {"union"}, m : MatchQueries, n : MatchQueries, all : BOOLEAN]
           \cup [kind : {"pattern"}, pat : PathPatterns]
           \cup [kind : {"law"}, law : Laws, n : Nodes]
    ELSE IF graph = EmptyGraph
    THEN [kind : {"text"}, s : Texts, t : Texts, w : Terms, v : Terms]
           \cup [kind : {"date"}, d : Days, m : Months]
    ELSE {}

TextIx == INSTANCE Fulltext

(* Two documents, and what is found of two words. *)
Searched(q) ==
    LET ix == TextIx!AddDocument(TextIx!AddDocument(TextIx!EmptyInverted, <<1, "t">>, q.s), <<2, "t">>, q.t)
        two == q.w \o <<0>> \o q.v
    IN [edits |-> TextIx!Levenshtein(q.w, q.v),
        any |-> TextIx!SearchKeywords(ix, TextIx!Tokenize(two)),
        all |-> TextIx!ContainsQuery(ix, [form |-> "words", text |-> two, max |-> 0]),
        phrase |-> TextIx!SearchIndex(ix, [form |-> "phrase", text |-> two, max |-> 0]),
        fuzzy |-> TextIx!SearchIndex(ix, [form |-> "fuzzy", text |-> q.w, max |-> 1]),
        removed |-> TextIx!RemoveDocument(ix, <<2, "t">>),
        alone |-> TextIx!AddDocument(TextIx!EmptyInverted, <<1, "t">>, q.s),
        split |-> Split(q.s, q.w), replaced |-> ReplaceText(q.s, q.w, q.v)]

(* The rows of a query without indexes, without predicates pushed into the *)
(* patterns, and without stopping early: the bindings after each segment,  *)
(* and what is returned of the last ones.                                  *)
PlainSegment(g, seg, bs) ==
    LET found == FoldLeft(LAMBDA acc, c : ExecuteMatchClause(g, EmptyIndex, <<>>, c, acc),
                          bs, seg.clauses)
        kept == Filter(Plainly(g), seg.where, found)
    IN IF seg.with = <<>> THEN kept ELSE ApplyWithClause(Plainly(g), seg.with[1], kept).bs
PlainBindings(g, m) ==
    FoldLeft(LAMBDA acc, seg : Append(acc, PlainSegment(g, seg, Last(acc))), <<<<NoRow>>>>, m.segs)
Bare(ret) == [ret EXCEPT !.order = <<>>, !.skip = <<>>, !.limit = <<>>]
PlainAnswer(g, m) ==
    LET bs == PlainBindings(g, m)
    IN [plain |-> BuildResultSet(Plainly(g), Bare(m.ret), Last(bs)).rows,
        found |-> Mapped(Tail(bs), Len)]

(* What the query engine and its functions answer; with the answer of a    *)
(* query come its plain rows and the number of bindings each segment       *)
(* finds, with that of a UNION the rows of its parts.                      *)
QueryReply(g, q) ==
    CASE q.kind = "match" ->
           ExecuteMatch(ContextOf(g, q.pi, q.ties), q.m) @@ PlainAnswer(g, q.m)
      [] q.kind = "union" ->
           ExecuteUnion(Plainly(g), [queries |-> <<q.m, q.n>>, all |-> q.all])
             @@ [parts |-> Concat(Mapped(<<q.m, q.n>>, LAMBDA m : ExecuteMatch(Plainly(g), m).rows))]
      [] q.kind = "pattern" -> MatchPattern(g, EmptyIndex, <<>>, q.pat, <<NoRow>>)
      [] q.kind = "law" ->
           [i \in 1 .. 2 |-> Eval(Plainly(g), q.law[i], [x \in {"n"} |-> <<"node", q.n>>])]
      [] q.kind = "text" -> Searched(q)
      [] q.kind = "date" ->
           [ymd |-> DaysToYmd(q.d),
            moved |-> AddDurationToDate(q.d, [months |-> q.m, days |-> 0, millis |-> 0])]
      [] OTHER -> GraphReply(g, q)

-----------------------------------------------------------------------------
(* Queries *)

CountIn(s, x) == Cardinality({i \in DOMAIN s : s[i] = x})
Amount(clause) == IF clause = <<>> THEN <<>> ELSE <<clause[1].v[2]>>

Aggregates(m) == \E i \in DOMAIN m.ret.items : IsAggregate(m.ret.items[i])

(* Matching stops when it has as many bindings as SKIP and LIMIT need, and *)
(* that is not what the query asks for in two cases: a segment before the  *)
(* last has as many, and what follows it is never executed; or DISTINCT    *)
(* makes fewer rows of the bindings that were found.                       *)
Filled(m, k) ==
    /\ m.ret.limit # <<>> /\ ~ Aggregates(m)
    /\ answer.found[k]
         >= Amount(m.ret.limit)[1] + IF m.ret.skip = <<>> THEN 0 ELSE Amount(m.ret.skip)[1]
StopsTooEarly(m) == \E k \in 1 .. Len(m.segs) - 1 : Filled(m, k)
CutsDistinct(m) == m.ret.distinct /\ Filled(m, Len(m.segs))

(* The index keeps 1 and 1.0 apart and a comparison does not: a number is  *)
(* looked up only among the values of its own type.                        *)
TypesAgree(m) ==
    \A k \in {k \in DOMAIN m.segs : m.segs[k].where # <<>>} :
        \A q \in Range(PushableEqualities(m.segs[k].where[1])) :
            \A n \in {n \in Nodes : HasProp(graph, n, q.p)} :
                LET v == ValueOf(graph, n, q.p)
                IN (q.e.k = "lit" /\ IsNumber(q.e.v) /\ IsNumber(v)) => v[1] = q.e.v[1]

(* Pushing predicates into patterns, choosing candidates from an index and *)
(* stopping at the limit: without ORDER BY the answer is the slice of the  *)
(* rows that plain matching and filtering gives, unless a segment is left  *)
(* out by the limit.  With DISTINCT the slice may end too early, and an    *)
(* index may miss rows for the type of a number, but neither invents one.  *)
ShortcutsHarmless ==
    (ask.kind = "match" /\ ask.m.ret.order = <<>> /\ ~ StopsTooEarly(ask.m)) =>
        LET m == ask.m
            wanted == LimitRows(SkipRows(answer.plain, Amount(m.ret.skip)), Amount(m.ret.limit))
            exact == ask.pi = EmptyIndex \/ TypesAgree(m)
        IN /\ answer.ok
           /\ (exact /\ ~ CutsDistinct(m)) => answer.rows = wanted
           /\ (exact /\ CutsDistinct(m)) => IsPrefix(answer.rows, wanted)
           /\ (~ exact /\ ~ Aggregates(m)) => Range(answer.rows) \subseteq Range(answer.plain)

SortsBefore(a, b) ==
    \/ b = Null /\ a # Null
    \/ a # Null /\ b # Null /\ OrderLess(a, b)

(* ORDER BY on the first column: the rows are in order, none is invented   *)
(* or lost, and the rows that SKIP and LIMIT cut off come after the ones   *)
(* that are kept, also when only the first few are selected.               *)
TopRows ==
    (ask.kind = "match" /\ ask.m.ret.order # <<>>) =>
        LET all == answer.plain
            key(r) == r[1]
            before(a, b) == IF ask.m.ret.order[1].dir = "asc" THEN SortsBefore(key(a), key(b))
                            ELSE SortsBefore(key(b), key(a))
            skip == IF ask.m.ret.skip = <<>> THEN 0 ELSE Amount(ask.m.ret.skip)[1]
            left == IF skip >= Len(all) THEN 0 ELSE Len(all) - skip
            want == IF ask.m.ret.limit = <<>> \/ Amount(ask.m.ret.limit)[1] > left THEN left
                    ELSE Amount(ask.m.ret.limit)[1]
        IN /\ answer.ok /\ Len(answer.rows) = want
           /\ \A i, j \in DOMAIN answer.rows : i < j => ~ before(answer.rows[j], answer.rows[i])
           /\ \A r \in Range(answer.rows) : CountIn(answer.rows, r) <= CountIn(all, r)
           /\ \A i \in DOMAIN answer.rows :
                Cardinality({j \in DOMAIN all : before(all[j], answer.rows[i])}) <= skip + i - 1

(* UNION ALL has the rows of both queries, UNION every one of them once.   *)
UnionRows ==
    (ask.kind = "union" /\ answer.ok) =>
        /\ Range(answer.rows) = Range(answer.parts)
        /\ \A r \in Range(answer.rows) :
             CountIn(answer.rows, r) = IF ask.all THEN CountIn(answer.parts, r) ELSE 1

(* A variable-length pattern binds every walk of a length in its range     *)
(* that meets no node twice, once; a shortest path pattern binds the       *)
(* paths of least length to each node, one of them or all.                 *)
EdgeWalks(from, seg) ==
    {w \in UNION {[1 .. k -> DOMAIN graph.edges] : k \in 0 .. Cardinality(Nodes) - 1} :
        /\ \A i \in DOMAIN w : graph.edges[w[i]].label = seg.type
        /\ \A i \in 1 .. Len(w) - 1 : graph.edges[w[i]].to = graph.edges[w[i + 1]].from
        /\ w # <<>> => graph.edges[w[1]].from = from
        /\ IsInjective([i \in 1 .. Len(w) + 1 |->
               IF i = 1 THEN from ELSE graph.edges[w[i - 1]].to])}
EndOf(from, w) == IF w = <<>> THEN from ELSE graph.edges[Last(w)].to

PatternsExact ==
    ask.kind = "pattern" =>
        LET seg == ask.pat.segs[1]
            start == {n \in Nodes : HasAllLabels(graph, n, ask.pat.start.labels)}
            inRange(w) == Len(w) >= seg.range[1] /\ Len(w) <= seg.range[2]
            ends(n) == {w \in EdgeWalks(n, seg) :
                          inRange(w) /\ HasAllLabels(graph, EndOf(n, w), seg.node.labels)}
            least(n, w) == \A v \in EdgeWalks(n, seg) : EndOf(n, v) = EndOf(n, w) => Len(w) <= Len(v)
            wanted == {<<n, w>> \in UNION {{n} \X ends(n) : n \in start} :
                         ask.pat.shortest = "no" \/ (w # <<>> /\ least(n, w))}
            got == {<<answer[i]["a"][2], answer[i]["r"][3]>> : i \in DOMAIN answer}
        IN /\ Cardinality(got) = Len(answer)
           /\ IF ask.pat.shortest = "one"
              THEN /\ got \subseteq wanted
                   /\ {<<x[1], EndOf(x[1], x[2])>> : x \in got}
                        = {<<x[1], EndOf(x[1], x[2])>> : x \in wanted}
                   /\ \A x, y \in got : (x[1] = y[1] /\ EndOf(x[1], x[2]) = EndOf(y[1], y[2])) => x = y
              ELSE got = wanted

(* Expressions that say the same have the same value on every node. *)
LawsHold == ask.kind = "law" => answer[1] = answer[2] /\ ~ Failed(answer[1])

-----------------------------------------------------------------------------
(* Texts *)

(* Edit distance: equal words alone have distance 0, it does not depend on *)
(* the order of the words, and it is the length of the least sequence of   *)
(* edits: dropping or replacing the last letter never helps more than 1.   *)
EditDistanceOk ==
    ask.kind = "text" =>
        /\ (answer.edits = 0) <=> (ask.w = ask.v)
        /\ TextIx!Levenshtein(ask.v, ask.w) = answer.edits
        /\ answer.edits <= (IF Len(ask.w) > Len(ask.v) THEN Len(ask.w) ELSE Len(ask.v))
        /\ \A u \in Terms : answer.edits <= TextIx!Levenshtein(ask.w, u) + TextIx!Levenshtein(u, ask.v)
        /\ ask.w # <<>> =>
             \A c \in {1, 2} : TextIx!Levenshtein(Append(ask.w, c), Append(ask.v, c)) = answer.edits

(* A phrase is found where its words stand side by side, all words where   *)
(* each of them occurs, any word where one does; removing a document takes *)
(* the index back to what it was before.                                   *)
SearchExact ==
    ask.kind = "text" =>
        LET text(n) == TextIx!Tokenize(IF n = 1 THEN ask.s ELSE ask.t)
            words == TextIx!Tokenize(ask.w \o <<0>> \o ask.v)
            has(n, w) == w \in Range(text(n))
        IN /\ answer.any = {n \in {1, 2} : \E i \in DOMAIN words : has(n, words[i])}
           /\ answer.all = {n \in {1, 2} : words # <<>> /\ \A i \in DOMAIN words : has(n, words[i])}
           /\ answer.phrase = {n \in {1, 2} : words # <<>> /\
                \E i \in 0 .. Len(text(n)) - Len(words) :
                    \A k \in DOMAIN words : text(n)[i + k] = words[k]}
           /\ answer.removed = answer.alone

(* Splitting at a delimiter and joining gives the text back, no part holds *)
(* the delimiter, and replace puts the new text exactly between the parts. *)
SplitJoins ==
    (ask.kind = "text" /\ ask.w # <<>>) =>
        LET join(parts, d) == FoldLeft(LAMBDA acc, i : acc \o d \o parts[i + 1], parts[1],
                                       Upto(Len(parts) - 1))
        IN /\ join(answer.split, ask.w) = ask.s
           /\ join(answer.split, ask.v) = answer.replaced
           /\ \A i \in DOMAIN answer.split : \A j \in DOMAIN answer.split[i] :
                ~ StartsAt(answer.split[i], ask.w, j)

-----------------------------------------------------------------------------
(* Dates: the calendar day is a valid one, it comes back as the same day   *)
(* number, the next day number is the next calendar day, and adding months *)
(* keeps the day of the month unless the month is too short.               *)
CalendarExact ==
    ask.kind = "date" =>
        LET y == answer.ymd[1]
            mo == answer.ymd[2]
            da == answer.ymd[3]
            next == DaysToYmd(ask.d + 1)
            to == DaysToYmd(answer.moved)
            total == 12 * y + (mo - 1) + ask.m
        IN /\ mo \in 1 .. 12 /\ da \in 1 .. DaysInMonth(y, mo)
           /\ YmdToDays(y, mo, da) = ask.d
           /\ next = (CASE da < DaysInMonth(y, mo) -> <<y, mo, da + 1>>
                        [] mo < 12 -> <<y, mo + 1, 1>>
                        [] OTHER -> <<y + 1, 1, 1>>)
           /\ 12 * to[1] + (to[2] - 1) = total
           /\ to[3] = (IF da > DaysInMonth(to[1], to[2]) THEN DaysInMonth(to[1], to[2]) ELSE da)

(* The rows of a query are the ones its text asks for, whichever shortcut, *)
(* index, sort, union or path search the executor takes; the exceptions    *)
(* are the three of ShortcutsHarmless.                                     *)
QueryAnswersExact == ShortcutsHarmless /\ TopRows /\ UnionRows /\ PatternsExact

(* Expressions and functions obey the laws of what they compute: algebra,  *)
(* edit distances, text search, splitting and joining, the calendar.       *)
FunctionsExact ==
    LawsHold /\ EditDistanceOk /\ SearchExact /\ SplitJoins /\ CalendarExact
=============================================================================
