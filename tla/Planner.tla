------------------------------ MODULE Planner ------------------------------
(***************************************************************************)
(* The plans that EXPLAIN and PROFILE show, maharit-query/src/planner.rs,  *)
(* and the histograms of a property.  A plan is a sequence of operators    *)
(* [op, rows, cost, of]; of holds the label and property of an index, the  *)
(* operators of a UNION's branches, or nothing.  Statements are the trees  *)
(* of Parser.  Wording of the details is left out.                         *)
(***************************************************************************)
EXTENDS Integers, Sequences, FiniteSets, SequencesExt, FiniteSetsExt, PropertyIndex

LOCAL PG == INSTANCE PropertyGraph WITH Labels <- {}
LOCAL PR == INSTANCE Parser

AtLeastOne(n) == IF n > 1 THEN n ELSE 1
Operator(op, rows, cost, of) == [op |-> op, rows |-> rows, cost |-> cost, of |-> of]
Plain(op, rows, cost) == Operator(op, rows, cost, <<>>)
RowsOf(plan, default) == IF plan = <<>> THEN default ELSE Last(plan).rows

-----------------------------------------------------------------------------
(* Statistics of a graph: [nodes, edges, labels, indexed]. *)

FromGraphWithIndexes(g, pi) ==
    LET labels == UNION {Range(g.nodes[n].labels) : n \in DOMAIN g.nodes}
    IN [nodes |-> g.ncount, edges |-> g.ecount, indexed |-> pi.defs,
        labels |-> [l \in labels |-> Cardinality({n \in DOMAIN g.nodes : PG!HasLabel(g, n, l)})]]

EstimateLabelCount(st, l) ==
    CASE l \in DOMAIN st.labels -> st.labels[l]
      [] DOMAIN st.labels = {} -> AtLeastOne(st.nodes \div 10)
      [] OTHER -> 1

BucketOf(v, low, range, k) == IF v >= low + range THEN k ELSE 1 + (((v - low) * k) \div range)
BuildHistogram(g, l, p, buckets) ==
    LET nodes == {n \in DOMAIN g.nodes : PG!HasLabel(g, n, l)}
        numbers == {n \in nodes : PG!HasProp(g, n, p) /\ IsNumber(g.nodes[n].props[p])}
        value(n) == Doubled(g.nodes[n].props[p])
        low == Min({value(n) : n \in numbers})
        range == Max({value(n) : n \in numbers}) - low
        k == IF buckets < Cardinality(numbers) THEN buckets ELSE Cardinality(numbers)
        bit(v) == IF v[2] = 0 THEN IntV(0) ELSE v
        one(i) == [lower |-> IF i = 1 THEN low * k ELSE (low + range) * k, upper |-> (low + range) * k,
                   count |-> IF i = 1 THEN Cardinality(numbers) ELSE 0]
        wide(i) == [lower |-> low * k + (i - 1) * range, upper |-> low * k + i * range,
                    count |-> Cardinality({n \in numbers : BucketOf(value(n), low, range, k) = i})]
    IN IF buckets = 0 \/ numbers = {} THEN <<>>
       ELSE <<[buckets |-> [i \in 1 .. k |-> IF range = 0 \/ k = 1 THEN one(i) ELSE wide(i)],
               nulls |-> Cardinality(nodes \ numbers),
               distinct |-> Cardinality({bit(g.nodes[n].props[p]) : n \in numbers})]>>

-----------------------------------------------------------------------------
(* What a WHERE can be used for *)

Comparisons == {"=", "<", ">", "<=", ">="}
IsSimpleOperand(e) == e.k \in {"prop", "lit", "var"}
RECURSIVE IsPushableFilter(_), ClassifyFilter(_)
IsPushableFilter(e) ==
    /\ e.k = "bin"
    /\ \/ e.op \in Comparisons \cup {"<>"} /\ IsSimpleOperand(e.l) /\ IsSimpleOperand(e.r)
       \/ e.op = "and" /\ IsPushableFilter(e.l) /\ IsPushableFilter(e.r)
(* A property against a value, on either side: [kind, p]. *)
NotIndexable == [kind |-> "other", p |-> "-"]
Indexable(kind, l, r) ==
    LET isValue(e) == e.k \in {"lit", "var"}
    IN CASE l.k = "prop" /\ isValue(r) -> [kind |-> kind, p |-> l.p]
         [] r.k = "prop" /\ isValue(l) -> [kind |-> kind, p |-> r.p]
         [] OTHER -> NotIndexable
ClassifyFilter(e) ==
    CASE e.k # "bin" -> NotIndexable
      [] e.op = "=" -> Indexable("seek", e.l, e.r)
      [] e.op \in Comparisons -> Indexable("range", e.l, e.r)
      [] e.op = "and" -> IF ClassifyFilter(e.l).kind = "seek" THEN ClassifyFilter(e.l)
                         ELSE ClassifyFilter(e.r)
      [] OTHER -> NotIndexable

-----------------------------------------------------------------------------
(* The ends of a plan, from the items of RETURN *)

InItems(ret, K) == \E i \in DOMAIN ret.items : ret.items[i].item.k \in K
HasAnyAggregate(ret) == InItems(ret, {"agg"})
HasImplicitGroupBy(ret) == InItems(ret, {"agg"}) /\ InItems(ret, {"var", "prop"})
(* Only properties without another name are returned. *)
ColumnsPruned(ret) ==
    \A i \in DOMAIN ret.items : ret.items[i].item.k = "prop" /\ ret.items[i].as = PR!NoName

Returned(plan, ret, pruned) ==
    LET before == RowsOf(plan, 1)
        groups == AtLeastOne(before \div 3)
        aggregated ==
          CASE HasImplicitGroupBy(ret) ->
                 Append(plan, Plain("HashAggregation", groups, groups \div 5 + before \div 10 + 1))
            [] HasAnyAggregate(ret) -> Append(plan, Plain("EagerAggregation", 1, before \div 5 + 1))
            [] OTHER -> plan
        rows == RowsOf(aggregated, 1)
    IN aggregated \o <<Plain("Projection", rows, rows \div (IF pruned THEN 20 ELSE 10) + 1)>>
         \o (IF ret.order = <<>> THEN <<>> ELSE <<Plain("Sort", rows, rows * 2 + 1)>>)
         \o (IF ret.limit = <<>> /\ ret.skip = <<>> THEN <<>> ELSE <<Plain("Limit", rows, 1)>>)

WithSegment(plan, seg) ==
    LET rows == RowsOf(plan, 1)
    IN IF seg.with = <<>> THEN plan ELSE Append(plan, Plain("EagerAggregation", rows, rows \div 5 + 1))
PatternsOf(seg) == FlattenSeq([i \in DOMAIN seg.clauses |-> seg.clauses[i].pats])
IsPath(pat) == "segs" \in DOMAIN pat
Scan(rows) == Plain("NodeByLabelScan", rows, rows \div 10 + 1)
Expands(pat, edges) ==
    [i \in DOMAIN pat.segs |-> Plain("Expand", AtLeastOne(edges), AtLeastOne(edges) \div 5 + 1)]

-----------------------------------------------------------------------------
(* Plans from the numbers of nodes and edges alone *)

EstimateNodeScan(np, n) == AtLeastOne(IF np.labels = <<>> THEN n ELSE n \div 10)
PlanPattern(pat, n, e) ==
    IF IsPath(pat) THEN <<Scan(EstimateNodeScan(pat.start, n))>> \o Expands(pat, e)
    ELSE <<Scan(EstimateNodeScan(pat, n))>>
PlanMatch(m, n, e) ==
    LET segment(plan, seg) ==
          LET pats == PatternsOf(seg)
              scanned == plan \o FlattenSeq([i \in DOMAIN pats |-> PlanPattern(pats[i], n, e)])
              half == RowsOf(scanned, n) \div 2
          IN WithSegment(IF seg.where = <<>> THEN scanned
                         ELSE Append(scanned, Plain("Filter", half, half \div 10 + 1)), seg)
        matched == FoldLeft(segment, <<>>, m.segs)
        rows == RowsOf(matched, 1)
    IN Returned(IF m.call = <<>> THEN matched
                ELSE Append(matched, Plain("CallSubquery", rows, rows \div 5 + 1)), m.ret, FALSE)

-----------------------------------------------------------------------------
(* Plans from the statistics *)

EstimateNodeScanWithStats(np, st) ==
    IF np.labels = <<>> THEN AtLeastOne(st.nodes) ELSE EstimateLabelCount(st, np.labels[1])

UsableIndex(st, np, where) ==
    /\ np.labels # <<>> /\ where # <<>>
    /\ LET f == ClassifyFilter(where[1]) IN f.kind # "other" /\ <<np.labels[1], f.p>> \in st.indexed

(* An index under the first label, else the filter inside the scan, else a *)
(* scan.  The variable of the filter is not looked at.                     *)
PlanNodePattern(np, where, st) ==
    LET rows == EstimateNodeScanWithStats(np, st)
        f == ClassifyFilter(where[1])
        of == <<np.labels[1], f.p>>
        ranged == AtLeastOne(rows \div 5)
    IN CASE UsableIndex(st, np, where) /\ f.kind = "seek" ->
              Operator("IndexSeek", AtLeastOne(rows \div 100), 2, of)
         [] UsableIndex(st, np, where) -> Operator("IndexRangeScan", ranged, ranged \div 10 + 1, of)
         [] where # <<>> /\ IsPushableFilter(where[1]) ->
              Plain("NodeByLabelScan+Filter", AtLeastOne(rows \div 2), rows \div 10 + 1)
         [] OTHER -> Scan(rows)

(* One relationship may be walked from its end, when fewer nodes are there.*)
PlanPathPattern(pat, st) ==
    LET from == EstimateNodeScanWithStats(pat.start, st)
        end == pat.segs[1].node
        to == EstimateNodeScanWithStats(end, st)
        back == AtLeastOne((to * st.edges) \div AtLeastOne(st.nodes))
    IN IF Len(pat.segs) = 1 /\ to < from /\ end.labels # <<>>
       THEN <<Scan(to), Plain("ExpandReverse", back, back \div 5 + 1)>>
       ELSE <<Scan(from)>> \o Expands(pat, st.edges)

(* A variant of FilterShown: a filter pushed into any scan so far. *)
FilterShownEarlier(plan, before) ==
    \E i \in DOMAIN plan : \/ plan[i].op = "NodeByLabelScan+Filter"
                           \/ i > before /\ plan[i].op \in {"IndexSeek", "IndexRangeScan"}
(* The WHERE needs no operator of its own: an index was used in this       *)
(* segment, or the last scan has the filter inside.                        *)
FilterShown(plan, before) ==
    \/ \E i \in before + 1 .. Len(plan) : plan[i].op \in {"IndexSeek", "IndexRangeScan"}
    \/ plan # <<>> /\ Last(plan).op = "NodeByLabelScan+Filter"

PlanMatchWithStats(m, st) ==
    LET segment(plan, seg) ==
          LET pats == PatternsOf(seg)
              scanned == plan \o FlattenSeq([i \in DOMAIN pats |->
                           IF IsPath(pats[i]) THEN PlanPathPattern(pats[i], st)
                           ELSE <<PlanNodePattern(pats[i], seg.where, st)>>])
              half == AtLeastOne(RowsOf(scanned, st.nodes) \div 2)
          IN WithSegment(IF seg.where = <<>> \/ FilterShown(scanned, Len(plan)) THEN scanned
                         ELSE Append(scanned, Plain("Filter", half, half \div 10 + 1)), seg)
    IN Returned(FoldLeft(segment, <<>>, m.segs), m.ret, ColumnsPruned(m.ret))

-----------------------------------------------------------------------------
(* The other statements; their plans look at the two numbers only *)

PlanUnion(plans) ==
    LET children == FlattenSeq(plans)
        total == FoldLeft(LAMBDA acc, c : acc + c.rows, 0, children)
    IN <<Operator("Union", total, total \div 5 + 1, children)>>
PlanCreate(s) == LET k == Len(s.create.pats) IN <<Plain("CreateNode", k, k)>>
(* Scan, filter and change; the WHERE is that of the last segment. *)
Changing(n, where, op, count) ==
    <<Scan(n)>> \o (IF where = <<>> THEN <<>> ELSE <<Plain("Filter", n \div 2, n \div 20 + 1)>>)
      \o <<Plain(op, count, count)>>
PlanDelete(s, n) == Changing(n, s.where, "Delete", Len(s.del.vars))
PlanMatchCreate(s, n) == Changing(n, Last(s.segs).where, "CreateNode", Len(s.create.pats))
PlanMatchUpdate(s, n) ==
    LET first == s.updates[1]
    IN Changing(n, Last(s.segs).where, IF first.k = "set" THEN "SetProperty" ELSE "RemoveProperty",
                Len(first.items))
PlanMerge(s, n, e) ==
    (IF s.clauses = <<>> THEN <<>> ELSE <<Scan(n)>>)
      \o <<Plain("Merge", Len(s.pats), n \div 5 + e \div 5 + 1)>>
PlanUnwind(s) ==
    LET rows == IF s.list.k = "list" THEN Len(s.list.es) ELSE 10
    IN <<Plain("Unwind", rows, rows)>>
         \o (IF s.create = <<>> THEN <<>> ELSE <<Plain("CreateNode", rows, rows)>>)
         \o (IF s.ret = <<>> THEN <<>> ELSE <<Plain("Projection", rows, rows \div 10 + 1)>>)
OtherPlan(s, n, e) ==
    CASE s.k = "create" -> PlanCreate(s)
      [] s.k = "delete" -> PlanDelete(s, n)
      [] s.k = "matchcreate" -> PlanMatchCreate(s, n)
      [] s.k = "matchupdate" -> PlanMatchUpdate(s, n)
      [] s.k = "merge" -> PlanMerge(s, n, e)
      [] s.k = "unwind" -> PlanUnwind(s)
      [] s.k = "matchforeach" ->
           <<Plain("NodeByLabelScan", AtLeastOne(Len(s.segs)), AtLeastOne(Len(s.segs)) \div 10 + 1),
             Plain("Foreach", 1, 1)>>
      [] s.k = "return" -> <<Plain("StandaloneReturn", 1, Len(s.ret.items))>>
      [] OTHER -> <<Plain(s.k, 1, 1)>>

RECURSIVE BuildPlan(_, _, _), BuildPlanWithStats(_, _)
BuildPlan(s, n, e) ==
    CASE s.k \in {"explain", "profile"} -> BuildPlan(s.of, n, e)
      [] s.k = "match" -> PlanMatch(s, n, e)
      [] s.k = "union" -> PlanUnion([i \in DOMAIN s.queries |-> PlanMatch(s.queries[i], n, e)])
      [] OTHER -> OtherPlan(s, n, e)
OtherPlanWithStats(s, st) == OtherPlan(s, st.nodes, st.edges)
BuildPlanWithStats(s, st) ==
    CASE s.k \in {"explain", "profile"} -> BuildPlanWithStats(s.of, st)
      [] s.k = "match" -> PlanMatchWithStats(s, st)
      [] s.k = "union" -> PlanUnion([i \in DOMAIN s.queries |-> PlanMatchWithStats(s.queries[i], st)])
      [] OTHER -> OtherPlanWithStats(s, st)
=============================================================================
