------------------------------ MODULE Queries ------------------------------
(***************************************************************************)
(* Reading queries of maharit-query/src/executor.rs: segments of MATCH,    *)
(* WHERE and WITH, then RETURN.                                            *)
(*                                                                         *)
(* A segment is [clauses, where, with]; where and with are <<>> or         *)
(* one-element sequences.  A RETURN is [distinct, items, order, skip,      *)
(* limit]: order is a sequence of [item, dir, nulls], skip and limit are   *)
(* <<>> or <<expression>>.  A return item is [k |-> "var" | "prop" |       *)
(* "expr" | "agg" | "alias" | "all", ...].  A WITH is a RETURN whose items *)
(* name the new variables.                                                 *)
(*                                                                         *)
(* A result set is [ok, cols, rows].  Column names are tuples.  The        *)
(* context adds ties to the one of Expressions: which of several rows with *)
(* the same key the selection of the first n keeps, the "first" or the     *)
(* "last".                                                                 *)
(***************************************************************************)
EXTENDS Expressions

Failure == [ok |-> FALSE, cols |-> <<>>, rows |-> <<>>]
ResultSet(cols, rows) == [ok |-> TRUE, cols |-> cols, rows |-> rows]
NoRow == [x \in {} |-> x]

-----------------------------------------------------------------------------
(* Predicate pushdown *)

RECURSIVE Conjuncts(_)
Conjuncts(e) ==
    IF e.k = "bin" /\ e.op = "and" THEN Conjuncts(e.l) \o Conjuncts(e.r) ELSE <<e>>

IsPushableConst(e) == e.k \in {"lit", "param"}

(* var.prop = constant, on either side. *)
PushableEqualities(e) ==
    LET eqs == SelectSeq(Conjuncts(e), LAMBDA c :
                 c.k = "bin" /\ c.op = "=" /\
                 (\/ c.l.k = "prop" /\ IsPushableConst(c.r)
                  \/ c.r.k = "prop" /\ IsPushableConst(c.l)))
    IN Mapped(eqs, LAMBDA c :
         IF c.l.k = "prop" /\ IsPushableConst(c.r)
         THEN [x |-> c.l.x, p |-> c.l.p, e |-> c.r] ELSE [x |-> c.r.x, p |-> c.r.p, e |-> c.l])

Flip(op) == CASE op = "<" -> ">" [] op = ">" -> "<" [] op = "<=" -> ">=" [] OTHER -> "<="
NumericLiteral(e) == e.k = "lit" /\ IsNumber(e.v)

RangePredicates(e) ==
    LET cmp == SelectSeq(Conjuncts(e), LAMBDA c :
                 c.k = "bin" /\ c.op \in {"<", ">", "<=", ">="} /\
                 (\/ c.l.k = "prop" /\ NumericLiteral(c.r)
                  \/ c.l.k # "prop" /\ c.r.k = "prop" /\ NumericLiteral(c.l)))
    IN Mapped(cmp, LAMBDA c :
         IF c.l.k = "prop" THEN [var |-> c.l.x, prop |-> c.l.p, op |-> c.op, v |-> c.r.v]
         ELSE [var |-> c.r.x, prop |-> c.r.p, op |-> Flip(c.op), v |-> c.l.v])

(* The value a pushed constant has in the pattern; a parameter is not a    *)
(* literal, so it is never looked up in an index.                          *)
PatternValue(ctx, e) == [lit |-> e.k = "lit", v |-> Eval(ctx, e, NoRow)]

(* The first equality of a property wins, and the pattern's own over both. *)
AugmentNodePattern(ctx, pat, eqs) ==
    FoldLeft(LAMBDA acc, q : IF q.x = acc.var /\ q.p \notin DOMAIN acc.props
                             THEN [acc EXCEPT !.props = With(@, q.p, PatternValue(ctx, q.e))]
                             ELSE acc, pat, eqs)

AugmentPattern(ctx, pat, eqs) ==
    IF "segs" \notin DOMAIN pat THEN AugmentNodePattern(ctx, pat, eqs)
    ELSE [pat EXCEPT !.start = AugmentNodePattern(ctx, @, eqs),
                     !.segs = Mapped(@, LAMBDA seg :
                        [seg EXCEPT !.node = AugmentNodePattern(ctx, @, eqs)])]

AugmentClause(ctx, clause, eqs) ==
    IF clause.optional THEN clause
    ELSE [clause EXCEPT !.pats = Mapped(@, LAMBDA pat : AugmentPattern(ctx, pat, eqs))]

-----------------------------------------------------------------------------
(* Return items *)

Unaliased(item) == IF item.k = "alias" THEN item.of ELSE item
IsAggregate(item) == Unaliased(item).k = "agg"

(* Only a variable, a property and a literal are shown; the model leaves  *)
(* the text of literals out.                                               *)
ExpressionToDisplay(e) ==
    CASE e.k = "var" -> <<e.x>>
      [] e.k = "prop" -> <<e.x, e.p>>
      [] OTHER -> <<"expr">>

RECURSIVE ColumnName(_)
ColumnName(item) ==
    CASE item.k = "alias" -> <<item.name>>
      [] item.k = "var" -> <<item.x>>
      [] item.k = "prop" -> <<item.x, item.p>>
      [] item.k = "all" -> <<"*">>
      [] item.k = "agg" -> <<item.f>> \o (IF item.of = <<>> THEN <<"*">> ELSE ColumnName(item.of[1]))
      [] item.k = "expr" -> ExpressionToDisplay(item.e)
      [] OTHER -> <<"expr">>

(* A missing variable, node or property is null here, an error in an       *)
(* expression.                                                             *)
ReturnProperty(g, bv, p) ==
    CASE bv[1] = "node" ->
           IF ContainsNode(g, bv[2]) THEN PropOrNull(g.nodes[bv[2]].props, p) ELSE Null
      [] bv[1] = "edge" ->
           IF ContainsEdge(g, bv[2]) THEN PropOrNull(g.edges[bv[2]].props, p) ELSE Null
      [] bv[1] = "val" -> AccessTemporalField(bv[2], p)
      [] OTHER -> Null

FirstNode(g, b) ==
    LET nodes == {x \in DOMAIN b : b[x][1] = "node" /\ ContainsNode(g, b[x][2])}
    IN IF nodes = {} THEN Null ELSE b[CHOOSE x \in nodes : TRUE]

EvaluateReturnItem(ctx, it, b) ==
    LET item == Unaliased(it) IN
    CASE item.k = "var" -> IF item.x \in DOMAIN b THEN ValueOfBinding(b[item.x]) ELSE Null
      [] item.k = "prop" ->
           IF item.x \in DOMAIN b THEN ReturnProperty(ctx.g, b[item.x], item.p) ELSE Null
      [] item.k = "all" -> FirstNode(ctx.g, b)
      [] item.k = "agg" -> Null
      [] OTHER -> Eval(ctx, item.e, b)

RowOf(ctx, items, b) == Mapped(items, LAMBDA it : EvaluateReturnItem(ctx, it, b))

-----------------------------------------------------------------------------
(* Sorting *)

(* -1, 0 or 1; values of different kinds are equal, whatever they are. *)
CompareForSort(a, b, dir, nulls) ==
    LET last == IF nulls = "default" THEN dir = "asc" ELSE nulls = "last"
        base == CASE a[1] = "bool" /\ b[1] = "bool" ->
                       IF a = b THEN 0 ELSE IF b[2] THEN -1 ELSE 1
                  [] (IsNumber(a) /\ IsNumber(b)) \/ (a[1] = "str" /\ b[1] = "str") ->
                       IF OrderLess(a, b) THEN -1 ELSE IF OrderLess(b, a) THEN 1 ELSE 0
                  [] OTHER -> 0
    IN CASE a = Null /\ b = Null -> 0
         [] a = Null -> IF last THEN 1 ELSE -1
         [] b = Null -> IF last THEN -1 ELSE 1
         [] OTHER -> IF dir = "asc" THEN base ELSE -base

CompareKeys(a, b, order) ==
    LET cmp(i) == CompareForSort(a[i], b[i], order[i].dir, order[i].nulls)
        decided == {i \in DOMAIN order : cmp(i) # 0}
    IN IF decided = {} THEN 0 ELSE cmp(CHOOSE i \in decided : \A j \in decided : i <= j)

(* ps is a sequence of [key, row]. *)
StableSort(ps, order) ==
    LET insert(acc, p) ==
          LET i == Cardinality({j \in DOMAIN acc : CompareKeys(acc[j].key, p.key, order) <= 0})
          IN SubSeq(acc, 1, i) \o <<p>> \o SubSeq(acc, i + 1, Len(acc))
    IN FoldLeft(insert, <<>>, ps)

(* With a limit, the first n are selected before they are sorted, and the  *)
(* selection is not stable.                                                *)
SortRowsByKeys(ps, order, needed, ties) ==
    IF needed = <<>> \/ needed[1] >= Len(ps) THEN StableSort(ps, order)
    ELSE LET arranged == IF ties = "first" THEN ps ELSE Reverse(ps)
         IN SubSeq(StableSort(arranged, order), 1, needed[1])

(* A key is a returned column of that name, else it is evaluated in the    *)
(* source row; after grouping there is none.                               *)
OrderKeys(ctx, order, cols, row, source) ==
    Mapped(order, LAMBDA o :
        LET at == {i \in DOMAIN cols : cols[i] = ColumnName(o.item)} IN
        IF at # {} THEN row[CHOOSE i \in at : \A j \in at : i <= j]
        ELSE IF source = <<>> THEN Err ELSE EvaluateReturnItem(ctx, o.item, source[1]))

-----------------------------------------------------------------------------
(* SKIP, LIMIT and DISTINCT *)

(* <<>> without the clause, <<Err>> when it is not a count. *)
ResolveSkipLimit(ctx, clause) ==
    IF clause = <<>> THEN <<>>
    ELSE LET v == Eval(ctx, clause[1], NoRow)
         IN IF v[1] = "int" /\ v[2] >= 0 THEN <<v[2]>> ELSE <<-1>>

BadCount(c) == c = <<-1>>
SkipRows(s, c) == IF c = <<>> THEN s ELSE IF c[1] < Len(s) THEN SubSeq(s, c[1] + 1, Len(s)) ELSE <<>>
LimitRows(s, c) == IF c = <<>> \/ c[1] >= Len(s) THEN s ELSE SubSeq(s, 1, c[1])

Needed(skip, limit) ==
    IF limit = <<>> THEN <<>> ELSE <<limit[1] + IF skip = <<>> THEN 0 ELSE skip[1]>>

(* The first row of every group of equal ones.  Rows are compared by their *)
(* debug text, which tells types apart.                                    *)
DistinctBy(ps, Same(_, _)) ==
    SelectSeq(Upto(Len(ps)), LAMBDA i : ~ \E j \in 1 .. i - 1 : Same(ps[j], ps[i]))
Picked(ps, is) == Mapped(is, LAMBDA i : ps[i])
SameRow(p, q) == p.row = q.row

(* What Display prints: a float without fraction reads like the integer.   *)
Display(v) == IF IsNumber(v) THEN <<"number", Doubled(v)>> ELSE v

SameDisplay(r, s) == Mapped(r, Display) = Mapped(s, Display)

-----------------------------------------------------------------------------
(* Aggregation *)

NumbersOf(vs) == SelectSeq(vs, IsNumber)
TotalOf(vs) == FoldLeft(LAMBDA acc, v : acc + Doubled(v), 0, vs)
NonNull(vs) == SelectSeq(vs, LAMBDA v : v # Null)
DistinctValues(vs) == Picked(vs, DistinctBy(vs, LAMBDA v, w : Display(v) = Display(w)))

SumOfValues(vs) ==
    IF \E i \in DOMAIN vs : vs[i][1] = "float" THEN FloatV(TotalOf(vs))
    ELSE IntV(TruncDiv(TotalOf(vs), 2))
AverageOf(vs) == IF vs = <<>> THEN Null ELSE FloatV(TruncDiv(TotalOf(vs), Len(vs)))

(* A value that cannot be compared with the current one is passed over.    *)
ExtremeOf(vs, op) ==
    IF vs = <<>> THEN Null
    ELSE FoldLeft(LAMBDA acc, v : IF CompareValues(v, op, acc) = True THEN v ELSE acc,
                  vs[1], Tail(vs))

SortedNumbers(vs) == SortSeq(vs, LAMBDA a, b : Doubled(a) < Doubled(b))

(* The percentile is pn / pd; between two ranks the value is interpolated. *)
PercentileDisc(vs, pn, pd) ==
    LET s == SortedNumbers(vs)
        rank == IF pn = 0 THEN 1 ELSE ((pn * Len(s)) + (pd - 1)) \div pd
        v == s[rank]
    IN IF Doubled(v) % 2 = 0 THEN IntV(Doubled(v) \div 2) ELSE FloatV(Doubled(v))
PercentileCont(vs, pn, pd) ==
    LET s == SortedNumbers(vs)
        at == pn * (Len(s) - 1)
        lower == Doubled(s[(at \div pd) + 1])
        upper == IF at % pd = 0 THEN lower ELSE Doubled(s[(at \div pd) + 2])
    IN FloatV(lower + TruncDiv((upper - lower) * (at % pd), pd))

(* Variance times n (n - 1) or n n: the square root is left out. *)
SquaredDeviation(vs) ==
    Len(vs) * FoldLeft(LAMBDA a, v : a + Doubled(v) * Doubled(v), 0, vs) - TotalOf(vs) * TotalOf(vs)

(* count(x) looks at the first row alone to learn whether x is bound to a  *)
(* node or an edge.                                                        *)
AlwaysBound(item, bs) ==
    /\ item.k = "var" /\ bs # <<>>
    /\ item.x \in DOMAIN bs[1] /\ bs[1][item.x][1] \in {"node", "edge"}

CountOf(ctx, item, bs) ==
    IF AlwaysBound(item, bs) THEN Len(bs)
    ELSE Len(SelectSeq(bs, LAMBDA b :
           LET v == EvaluateReturnItem(ctx, item, b) IN ~ Failed(v) /\ v # Null))

AggregateValues(f, vs) ==
    CASE f = "sum" -> SumOfValues(NumbersOf(vs))
      [] f = "avg" -> AverageOf(NumbersOf(vs))
      [] f = "min" -> ExtremeOf(NonNull(vs), "<")
      [] f = "max" -> ExtremeOf(NonNull(vs), ">")
      [] f = "countD" -> IntV(Len(DistinctValues(NonNull(vs))))
      [] f = "sumD" -> SumOfValues(NumbersOf(DistinctValues(vs)))
      [] f = "avgD" -> AverageOf(NumbersOf(DistinctValues(NonNull(vs))))
      [] f = "stdev" -> IF Len(NumbersOf(vs)) < 2 THEN FloatV(0)
                        ELSE <<"stdev", SquaredDeviation(NumbersOf(vs))>>
      [] f = "stdevp" -> IF NumbersOf(vs) = <<>> THEN FloatV(0)
                         ELSE <<"stdevp", SquaredDeviation(NumbersOf(vs))>>
      [] OTHER -> ListV(DistinctValues(NonNull(vs)))

PercentileOf(f, vs, p) ==
    CASE vs = <<>> -> Null
      [] p[1] > p[2] -> Err
      [] f = "percentileCont" -> PercentileCont(vs, p[1], p[2])
      [] OTHER -> PercentileDisc(vs, p[1], p[2])

EvaluateAggregate(ctx, it, bs) ==
    LET item == Unaliased(it)
        vs == Mapped(bs, LAMBDA b : EvaluateReturnItem(ctx, item.of[1], b))
    IN CASE item.k # "agg" -> IF bs = <<>> THEN Null ELSE EvaluateReturnItem(ctx, item, bs[1])
         [] item.f = "count" -> IntV(IF item.of = <<>> THEN Len(bs) ELSE CountOf(ctx, item.of[1], bs))
         [] item.f = "collect" -> ListV(SelectSeq(vs, LAMBDA v : ~ Failed(v) /\ v # Null))
         [] AnyFailure(vs) -> FirstFailure(vs)
         [] item.f \in {"percentileCont", "percentileDisc"} ->
              PercentileOf(item.f, NumbersOf(vs), item.p)
         [] OTHER -> AggregateValues(item.f, vs)

(* Group keys are compared as Display prints them; one that fails reads as *)
(* the empty text.                                                         *)
GroupKey(ctx, items, b) ==
    Mapped(SelectSeq(items, LAMBDA it : ~ IsAggregate(it)), LAMBDA it :
        LET v == EvaluateReturnItem(ctx, it, b) IN IF Failed(v) THEN StrV(<<>>) ELSE Display(v))

GroupsOf(ctx, items, bs) ==
    LET keys == Mapped(bs, LAMBDA b : GroupKey(ctx, items, b))
        firsts == DistinctBy(keys, LAMBDA a, b : a = b)
    IN Mapped(firsts, LAMBDA i :
         Picked(bs, SelectSeq(Upto(Len(bs)), LAMBDA j : keys[j] = keys[i])))

(* Without group keys there is one row, and ORDER BY, SKIP and LIMIT are   *)
(* not looked at; DISTINCT never is.                                       *)
AggregatedResultSet(ctx, ret, bs) ==
    LET cols == Mapped(ret.items, ColumnName)
        rowOf(group) == Mapped(ret.items, LAMBDA it : EvaluateAggregate(ctx, it, group))
        rows == Mapped(GroupsOf(ctx, ret.items, bs), rowOf)
        skip == ResolveSkipLimit(ctx, ret.skip)
        limit == ResolveSkipLimit(ctx, ret.limit)
        ps == Mapped(rows, LAMBDA r : [key |-> OrderKeys(ctx, ret.order, cols, r, <<>>), row |-> r])
        sorted == IF ret.order = <<>> THEN rows
                  ELSE Mapped(SortRowsByKeys(ps, ret.order, Needed(skip, limit), ctx.ties),
                              LAMBDA p : p.row)
    IN IF \A i \in DOMAIN ret.items : IsAggregate(ret.items[i])
       THEN IF AnyFailure(rowOf(bs)) THEN Failure ELSE ResultSet(cols, <<rowOf(bs)>>)
       ELSE IF \/ \E i \in DOMAIN rows : AnyFailure(rows[i])
               \/ BadCount(skip) \/ BadCount(limit)
               \/ \E i \in DOMAIN ps : AnyFailure(ps[i].key)
       THEN Failure
       ELSE ResultSet(cols, LimitRows(SkipRows(sorted, skip), limit))

-----------------------------------------------------------------------------
(* RETURN *)

BuildResultSet(ctx, ret, bs) ==
    LET cols == Mapped(ret.items, ColumnName)
        all == Mapped(bs, LAMBDA b :
                 LET r == RowOf(ctx, ret.items, b)
                 IN [row |-> r, key |-> OrderKeys(ctx, ret.order, cols, r, <<b>>)])
        kept == IF ret.distinct THEN Picked(all, DistinctBy(all, SameRow)) ELSE all
        skip == ResolveSkipLimit(ctx, ret.skip)
        limit == ResolveSkipLimit(ctx, ret.limit)
        sorted == IF ret.order = <<>> THEN kept
                  ELSE SortRowsByKeys(kept, ret.order, Needed(skip, limit), ctx.ties)
        rows == LimitRows(SkipRows(Mapped(sorted, LAMBDA p : p.row), skip), limit)
    IN IF \E i \in DOMAIN ret.items : IsAggregate(ret.items[i])
       THEN AggregatedResultSet(ctx, ret, bs)
       ELSE IF \/ \E i \in DOMAIN all : AnyFailure(all[i].row) \/ AnyFailure(all[i].key)
               \/ BadCount(skip) \/ BadCount(limit)
       THEN Failure
       ELSE ResultSet(cols, rows)

-----------------------------------------------------------------------------
(* WITH.  Lists of bindings that may fail are [ok, bs]. *)

ToBinding(v) == IF v[1] \in {"node", "path"} THEN v ELSE <<"val", v>>

(* A variable is passed on as it is, so that an edge stays an edge. *)
ProjectBinding(ctx, items, b) ==
    LET name(it) == ColumnName(it)[1]
        value(it) == LET v == Unaliased(it) IN
                     IF v.k = "var" /\ v.x \in DOMAIN b THEN b[v.x]
                     ELSE ToBinding(EvaluateReturnItem(ctx, it, b))
    IN FoldLeft(LAMBDA acc, it : With(acc, name(it), value(it)), NoRow, items)

RowToBinding(items, row) ==
    FoldLeft(LAMBDA acc, i : With(acc, ColumnName(items[i])[1], ToBinding(row[i])),
             NoRow, Upto(Len(items)))

(* ORDER BY sees the old variables and the new ones. *)
ApplyWithClause(ctx, w, bs) ==
    LET cols == Mapped(w.items, ColumnName)
        rows == Mapped(bs, LAMBDA b : RowOf(ctx, w.items, b))
        scope(b) == ProjectBinding(ctx, w.items, b) @@ b
        all == [i \in DOMAIN bs |->
                  [row |-> ProjectBinding(ctx, w.items, bs[i]),
                   key |-> OrderKeys(ctx, w.order, cols, rows[i], <<scope(bs[i])>>)]]
        kept == IF w.distinct THEN Picked(all, DistinctBy(all, SameRow)) ELSE all
        sorted == IF w.order = <<>> THEN kept ELSE StableSort(kept, w.order)
        skip == ResolveSkipLimit(ctx, w.skip)
        limit == ResolveSkipLimit(ctx, w.limit)
        grouped == AggregatedResultSet(ctx, w, bs)
    IN IF \E i \in DOMAIN w.items : IsAggregate(w.items[i])
       THEN [ok |-> grouped.ok,
             bs |-> Mapped(grouped.rows, LAMBDA r : RowToBinding(w.items, r))]
       ELSE IF \/ \E i \in DOMAIN rows : AnyFailure(rows[i]) \/ AnyFailure(all[i].key)
               \/ BadCount(skip) \/ BadCount(limit)
       THEN [ok |-> FALSE, bs |-> <<>>]
       ELSE [ok |-> TRUE, bs |-> LimitRows(SkipRows(Mapped(sorted, LAMBDA p : p.row), skip), limit)]

-----------------------------------------------------------------------------
(* Segments and statements *)

Filter(ctx, where, bs) ==
    IF where = <<>> THEN bs ELSE SelectSeq(bs, LAMBDA b : Passes(ctx, where[1], b))

SegmentMatches(ctx, seg, bs) ==
    LET eqs == IF seg.where = <<>> THEN <<>> ELSE PushableEqualities(seg.where[1])
        hints == IF seg.where # <<>> /\ HasAnyIndex(ctx.pi) THEN RangePredicates(seg.where[1])
                 ELSE <<>>
    IN FoldLeft(LAMBDA acc, c : ExecuteMatchClause(ctx.g, ctx.pi, hints, AugmentClause(ctx, c, eqs), acc),
                bs, seg.clauses)

ExecuteQuerySegment(ctx, seg, bs) ==
    LET kept == Filter(ctx, seg.where, SegmentMatches(ctx, seg, bs))
    IN IF seg.with = <<>> THEN [ok |-> TRUE, bs |-> kept]
       ELSE ApplyWithClause(ctx, seg.with[1], kept)

(* MATCH (n:L) RETURN count(...) with nothing else. *)
IsSimpleCount(m) ==
    /\ m.call = <<>> /\ Len(m.segs) = 1
    /\ m.segs[1].where = <<>> /\ m.segs[1].with = <<>> /\ Len(m.segs[1].clauses) = 1
    /\ ~ m.segs[1].clauses[1].optional /\ Len(m.segs[1].clauses[1].pats) = 1
    /\ LET pat == m.segs[1].clauses[1].pats[1] IN
       /\ "segs" \notin DOMAIN pat
       /\ pat.props = Nothing /\ Len(pat.labels) <= 1
       /\ m.ret.items # <<>>
       /\ m.ret.order = <<>> /\ m.ret.skip = <<>> /\ m.ret.limit = <<>>
       /\ \A i \in DOMAIN m.ret.items :
            LET it == Unaliased(m.ret.items[i]) IN
            /\ it.k = "agg" /\ it.f = "count"
            /\ it.of = <<>> \/ (it.of[1].k = "var" /\ it.of[1].x = pat.var)

SimpleCount(g, m) ==
    LET pat == m.segs[1].clauses[1].pats[1]
        n == IF pat.labels = <<>> THEN g.ncount ELSE Cardinality(NodesByLabel(g, pat.labels[1]))
    IN ResultSet(Mapped(m.ret.items, ColumnName), <<Mapped(m.ret.items, LAMBDA it : IntV(n))>>)

(* A variant of EarlyLimit that forgets the skipped rows. *)
EarlyNoSkip(ctx, ret) ==
    LET limit == ResolveSkipLimit(ctx, ret.limit)
    IN IF \/ ret.order # <<>> \/ BadCount(limit)
          \/ \E i \in DOMAIN ret.items : IsAggregate(ret.items[i])
       THEN <<>> ELSE limit

(* The number of rows after which matching stops: LIMIT plus SKIP, without *)
(* ORDER BY and aggregation.                                               *)
EarlyLimit(ctx, ret) ==
    LET limit == ResolveSkipLimit(ctx, ret.limit)
        skip == ResolveSkipLimit(ctx, ret.skip)
    IN IF \/ ret.order # <<>> \/ limit = <<>> \/ BadCount(limit)
          \/ \E i \in DOMAIN ret.items : IsAggregate(ret.items[i])
       THEN <<>>
       ELSE <<limit[1] + IF skip = <<>> \/ BadCount(skip) THEN 0 ELSE skip[1]>>

(* A segment that fills the limit is the last one executed. *)
RunSegments(ctx, segs, early, start) ==
    LET step(acc, seg) ==
          IF ~ acc.ok \/ acc.done THEN acc
          ELSE LET r == ExecuteQuerySegment(ctx, seg, acc.bs)
                   full == early # <<>> /\ Len(r.bs) >= early[1]
               IN [ok |-> r.ok, bs |-> IF full THEN SubSeq(r.bs, 1, early[1]) ELSE r.bs,
                   done |-> full]
    IN FoldLeft(step, [ok |-> TRUE, bs |-> start, done |-> FALSE], segs)

(* One branch of CALL { }: imported variables, MATCH, WHERE, RETURN. *)
CallBranch(ctx, c, outer) ==
    LET inner == Restrict(outer, DOMAIN outer \cap c.imports)
        found == ExecuteMatchClause(ctx.g, ctx.pi, <<>>, c.clause, <<inner>>)
    IN BuildResultSet(ctx, [distinct |-> FALSE, items |-> c.items, order |-> <<>>,
                            skip |-> <<>>, limit |-> <<>>], Filter(ctx, c.where, found))

(* The branches of a UNION must have the same columns; if one of them is   *)
(* not UNION ALL, all rows are made distinct.  An outer row without inner  *)
(* rows is dropped.                                                        *)
CallRows(ctx, call, outer) ==
    LET rs == Mapped(call.branches, LAMBDA c : CallBranch(ctx, c, outer))
        rows == Concat(Mapped(rs, LAMBDA r : r.rows))
    IN IF \E i \in DOMAIN rs : ~ rs[i].ok \/ rs[i].cols # rs[1].cols THEN Failure
       ELSE ResultSet(rs[1].cols, IF call.dedup THEN Picked(rows, DistinctBy(rows, SameDisplay))
                                  ELSE rows)

ExecuteCallSubquery(ctx, call, bs) ==
    LET rs == Mapped(bs, LAMBDA b : CallRows(ctx, call, b))
        join(b, r, row) == FoldLeft(LAMBDA acc, i : With(acc, r.cols[i][1], <<"val", row[i]>>),
                                    b, Upto(Len(row)))
    IN IF \E i \in DOMAIN rs : ~ rs[i].ok THEN [ok |-> FALSE, bs |-> <<>>]
       ELSE [ok |-> TRUE, bs |-> Concat([i \in DOMAIN bs |->
               Mapped(rs[i].rows, LAMBDA row : join(bs[i], rs[i], row))])]

ExecuteMatch(ctx, m) ==
    LET run == RunSegments(ctx, m.segs, EarlyLimit(ctx, m.ret), <<NoRow>>)
        called == IF m.call = <<>> THEN [ok |-> TRUE, bs |-> run.bs]
                  ELSE ExecuteCallSubquery(ctx, m.call[1], run.bs)
    IN IF IsSimpleCount(m) THEN SimpleCount(ctx.g, m)
       ELSE IF ~ run.ok \/ ~ called.ok THEN Failure
       ELSE BuildResultSet(ctx, m.ret, called.bs)

ExecuteUnion(ctx, u) ==
    LET rs == Mapped(u.queries, LAMBDA m : ExecuteMatch(ctx, m))
        rows == Concat(Mapped(rs, LAMBDA r : r.rows))
    IN IF \E i \in DOMAIN rs : ~ rs[i].ok \/ Len(rs[i].cols) # Len(rs[1].cols) THEN Failure
       ELSE ResultSet(rs[1].cols,
                      IF u.all THEN rows ELSE Picked(rows, DistinctBy(rows, SameDisplay)))

-----------------------------------------------------------------------------
(* Procedures: rows of bindings, YIELD, further segments, RETURN *)

LOCAL FT == INSTANCE Fulltext

LabelsProcedure(g) ==
    [cols |-> {"label"},
     bs |-> Mapped(SetToSeq({l \in Labels : \E n \in DOMAIN g.nodes : HasLabel(g, n, l)}),
                   LAMBDA l : [x \in {"label"} |-> <<"val", Name(l)>>])]

SearchProcedure(ft, name, q) ==
    [cols |-> {"node", "score"},
     bs |-> Mapped(Ascending(FT!SearchIndex(ft[name].inv, q)),
                   LAMBDA n : [x \in {"node", "score"} |->
                       IF x = "node" THEN <<"node", n>> ELSE <<"val", <<"float", "real">>>>])]

ProcedureRows(g, ft, pc) ==
    IF pc.proc = "db.labels" THEN LabelsProcedure(g) ELSE SearchProcedure(ft, pc.index, pc.query)

(* yield is a sequence of [col, name]. *)
YieldRow(yield, b) ==
    IF yield = <<>> THEN b
    ELSE FoldLeft(LAMBDA acc, y : With(acc, y.name, b[y.col]), NoRow, yield)

ExecuteProcedureCall(ctx, ft, pc) ==
    LET known == pc.proc = "db.labels" \/ pc.index \in DOMAIN ft
        rows == ProcedureRows(ctx.g, ft, pc)
        start == Mapped(rows.bs, LAMBDA b : YieldRow(pc.yield, b))
        run == RunSegments(ctx, pc.segs, <<>>, start)
    IN IF ~ known THEN Failure
       ELSE IF \E i \in DOMAIN pc.yield : pc.yield[i].col \notin rows.cols THEN Failure
       ELSE IF ~ run.ok THEN Failure
       ELSE BuildResultSet(ctx, pc.ret, run.bs)
=============================================================================
