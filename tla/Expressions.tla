---------------------------- MODULE Expressions ----------------------------
(***************************************************************************)
(* Expression evaluation of maharit-query/src/executor.rs: the scalar      *)
(* functions, on evaluated arguments, and the evaluation itself.  An       *)
(* expression is a record whose field k names its form.  The context of an *)
(* evaluation is [g, pi, params].  Functions of a variable take its        *)
(* binding.                                                                *)
(*                                                                         *)
(* In a string, 30 to 39 are digits, 40 is a minus sign and 41 a point;    *)
(* the words true, false and null are single characters.  Labels, types    *)
(* and property names are <<"name", n>>.  The texts of dates are their     *)
(* parts (see Values).  Results of log, sqrt and the like are              *)
(* <<"float", "real">>; the clock and random functions are left out.       *)
(***************************************************************************)
EXTENDS Values

Name(n) == <<"name", n>>
TextTrue == 21
TextFalse == 22
TextNull == 23

-----------------------------------------------------------------------------
(* Text of numbers *)

Digits(n) == IF n < 10 THEN <<30 + n>> ELSE <<30 + (n \div 10), 30 + (n % 10)>>

(* A float without fraction is written like the integer. *)
NumberText(d) ==
    LET a == IF d < 0 THEN -d ELSE d
    IN (IF d < 0 THEN <<40>> ELSE <<>>) \o Digits(a \div 2)
         \o (IF a % 2 = 1 THEN <<41, 35>> ELSE <<>>)

MaxNumberText == 30
ParsedNumbers(s) == {d \in -MaxNumberText .. MaxNumberText : NumberText(d) = s}

ToStringValue(v) ==
    CASE v[1] = "str" -> v
      [] IsNumber(v) -> StrV(NumberText(Doubled(v)))
      [] v[1] = "bool" -> StrV(<<IF v[2] THEN TextTrue ELSE TextFalse>>)
      [] v = Null -> StrV(<<TextNull>>)
      [] OTHER -> Err

ToFloat(v) ==
    CASE IsNumber(v) -> FloatV(Doubled(v))
      [] v[1] = "str" /\ ParsedNumbers(v[2]) # {} -> FloatV(CHOOSE d \in ParsedNumbers(v[2]) : TRUE)
      [] OTHER -> Null

ToInteger(v) == IF ToFloat(v) = Null THEN Null ELSE IntV(TruncDiv(ToFloat(v)[2], 2))

ToBoolean(v) ==
    CASE v[1] = "bool" -> v
      [] v = StrV(<<TextTrue>>) -> True
      [] v = StrV(<<TextFalse>>) -> False
      [] OTHER -> Null

-----------------------------------------------------------------------------
(* Strings.  A negative count becomes a huge unsigned one. *)

Take(s, n) == IF n < 0 \/ n > Len(s) THEN s ELSE SubSeq(s, 1, n)

TrimStart(s) ==
    IF \A i \in DOMAIN s : s[i] = 0 THEN <<>>
    ELSE SubSeq(s, CHOOSE i \in DOMAIN s : s[i] # 0 /\ \A j \in 1 .. i - 1 : s[j] = 0, Len(s))
TrimEnd(s) == Reverse(TrimStart(Reverse(s)))

UpperText(s) == [i \in DOMAIN s |-> IF s[i] \in 1 .. 10 THEN s[i] + 10 ELSE s[i]]

Left(s, n) == Take(s, n)
Right(s, n) == IF n < 0 \/ n > Len(s) THEN s ELSE SubSeq(s, (Len(s) - n) + 1, Len(s))
Substring(s, from, len) ==
    IF from < 0 \/ from >= Len(s) THEN <<>>
    ELSE LET rest == SubSeq(s, from + 1, Len(s)) IN IF len = <<>> THEN rest ELSE Take(rest, len[1])

(* The parts between the occurrences found from left to right; an empty    *)
(* delimiter is found before, between and after the characters.            *)
Split(s, delim) ==
    LET step(acc, i) ==
          IF acc.skip > 0 THEN [acc EXCEPT !.skip = @ - 1]
          ELSE IF StartsAt(s, delim, i)
          THEN [parts |-> Append(acc.parts, acc.cur), cur |-> <<>>, skip |-> Len(delim) - 1]
          ELSE [acc EXCEPT !.cur = Append(@, s[i])]
        r == FoldLeft(step, [parts |-> <<>>, cur |-> <<>>, skip |-> 0], Upto(Len(s)))
    IN IF delim = <<>> THEN <<<<>>>> \o [i \in DOMAIN s |-> <<s[i]>>] \o <<<<>>>>
       ELSE Append(r.parts, r.cur)

ReplaceText(s, search, rep) ==
    LET parts == Split(s, search)
    IN FoldLeft(LAMBDA acc, i : acc \o rep \o parts[i], parts[1], [i \in 1 .. Len(parts) - 1 |-> i + 1])

StringFunction(f, v) ==
    CASE v = Null -> Null
      [] f = "reverse" /\ v[1] \in {"str", "list"} -> <<v[1], Reverse(v[2])>>
      [] f = "size" /\ v[1] \in {"str", "list"} -> IntV(Len(v[2]))
      [] v[1] # "str" -> Err
      [] f = "trim" -> StrV(TrimStart(TrimEnd(v[2])))
      [] f = "ltrim" -> StrV(TrimStart(v[2]))
      [] f = "rtrim" -> StrV(TrimEnd(v[2]))
      [] f = "toLower" -> StrV(LowerText(v[2]))
      [] f = "toUpper" -> StrV(UpperText(v[2]))
      [] OTHER -> Err

(* left, right and substring; the length of substring is looked at after   *)
(* the start.                                                              *)
CutFunction(f, vs) ==
    CASE vs[1][1] = "str" /\ vs[2][1] = "int" ->
           (CASE f = "left" -> StrV(Left(vs[1][2], vs[2][2]))
              [] f = "right" -> StrV(Right(vs[1][2], vs[2][2]))
              [] Len(vs) = 2 -> StrV(Substring(vs[1][2], vs[2][2], <<>>))
              [] vs[2][2] < 0 \/ vs[2][2] >= Len(vs[1][2]) -> StrV(<<>>)
              [] vs[3] = Null -> Null
              [] vs[3][1] = "int" -> StrV(Substring(vs[1][2], vs[2][2], <<vs[3][2]>>))
              [] OTHER -> Err)
      [] vs[1] = Null \/ vs[2] = Null -> Null
      [] OTHER -> Err

PatternFunction(f, vs) ==
    IF \A i \in DOMAIN vs : vs[i][1] = "str"
    THEN IF f = "split" THEN ListV(Mapped(Split(vs[1][2], vs[2][2]), StrV))
         ELSE StrV(ReplaceText(vs[1][2], vs[2][2], vs[3][2]))
    ELSE IF \E i \in DOMAIN vs : vs[i] = Null THEN Null ELSE Err

-----------------------------------------------------------------------------
(* Numbers *)

Abs(n) == IF n < 0 THEN -n ELSE n
RoundHalf(k) == IF k >= 0 THEN (k + 1) \div 2 ELSE -((-k + 1) \div 2)
Signum(v) ==
    CASE v[1] = "float" -> IF v[2] >= 0 THEN 1 ELSE -1
      [] v[2] = 0 -> 0
      [] OTHER -> IF v[2] > 0 THEN 1 ELSE -1

NumericFunction(f, v) ==
    CASE v = Null -> Null
      [] ~ IsNumber(v) -> Err
      [] f = "abs" -> <<v[1], Abs(v[2])>>
      [] f = "ceil" -> IntV(-((-Doubled(v)) \div 2))
      [] f = "floor" -> IntV(Doubled(v) \div 2)
      [] f = "sign" -> IntV(Signum(v))
      [] f = "isNaN" -> False
      [] OTHER -> <<"float", "real">>

(* The precision of an integer is not evaluated. *)
Round(v, p) ==
    CASE v = Null -> Null
      [] ~ IsNumber(v) -> Err
      [] p = <<>> -> IF v[1] = "int" THEN v ELSE IntV(RoundHalf(v[2]))
      [] v[1] = "int" -> FloatV(2 * v[2])
      [] p[1] = Null -> Null
      [] p[1][1] # "int" -> Err
      [] OTHER -> IF p[1][2] >= 1 THEN v ELSE FloatV(2 * RoundHalf(v[2]))

-----------------------------------------------------------------------------
(* Elements and paths *)

NodeValue(n) == <<"node", n>>
EdgeEnd(g, bv, end) == IF ContainsEdge(g, bv[2]) THEN NodeValue(g.edges[bv[2]][end]) ELSE Null
NameList(names) == ListV(Mapped(names, Name))
PropsOf(g, bv) == IF bv[1] = "node" THEN g.nodes[bv[2]].props ELSE g.edges[bv[2]].props
Exists(g, bv) == IF bv[1] = "node" THEN ContainsNode(g, bv[2]) ELSE ContainsEdge(g, bv[2])

PathFunction(f, bv) ==
    CASE bv[1] # "path" -> Err
      [] f = "nodes" -> ListV(Mapped(bv[2], NodeValue))
      [] f = "relationships" -> ListV(Mapped(bv[3], IntV))
      [] OTHER -> IntV(Len(bv[3]))

(* id, elementId, properties and keys take nodes and edges, the rest only  *)
(* one of the two.                                                         *)
ElementFunction(g, f, bv) ==
    CASE f = "labels" -> IF bv[1] # "node" THEN Err
                         ELSE IF Exists(g, bv) THEN NameList(LabelsOf(g, bv[2])) ELSE Null
      [] f \in {"type", "startNode", "endNode"} ->
           (CASE bv[1] # "edge" -> Err
              [] ~ Exists(g, bv) -> Null
              [] f = "type" -> Name(g.edges[bv[2]].label)
              [] OTHER -> EdgeEnd(g, bv, IF f = "startNode" THEN "from" ELSE "to"))
      [] bv[1] \notin {"node", "edge"} -> Err
      [] f = "id" -> IntV(bv[2])
      [] f = "elementId" -> Name(bv)
      [] ~ Exists(g, bv) -> Null
      [] f = "keys" -> NameList(SetToSeq(DOMAIN PropsOf(g, bv)))
      [] OTHER -> ListV(Mapped(SetToSeq(DOMAIN PropsOf(g, bv)),
                               LAMBDA p : ListV(<<Name(p), PropsOf(g, bv)[p]>>)))

(* The first edge of the source that leads to the next node. *)
ExtractEdgeIds(g, ns) ==
    [i \in 1 .. Len(ns) - 1 |->
        SelectSeq(Ascending(OutEdges(g, ns[i])), LAMBDA e : g.edges[e].to = ns[i + 1])[1]]

PathValue(g, ns) == <<"path", ns, ExtractEdgeIds(g, ns)>>

ShortestPathFunction(g, f, from, to) ==
    CASE from[1] # "node" \/ to[1] # "node" -> Err
      [] f = "shortestPath" ->
           LET ns == ShortestPath(g, from[2], to[2]) IN
           IF ns = <<>> THEN Null ELSE PathValue(g, ns)
      [] OTHER -> ListV(Mapped(AllShortestPaths(g, from[2], to[2]), LAMBDA ns : PathValue(g, ns)))

-----------------------------------------------------------------------------
(* Lists *)

ListFunction(f, v) ==
    CASE v = Null -> Null
      [] v[1] # "list" -> Err
      [] f = "tail" -> ListV(IF v[2] = <<>> THEN <<>> ELSE Tail(v[2]))
      [] v[2] = <<>> -> Null
      [] OTHER -> IF f = "head" THEN Head(v[2]) ELSE Last(v[2])

MaxRangeLen == 10000000

RangeCount(a, b, step) ==
    CASE step > 0 /\ b >= a -> ((b - a) \div step) + 1
      [] step < 0 /\ b <= a -> ((a - b) \div (-step)) + 1
      [] OTHER -> 0

RangeList(vs) ==
    LET step == IF Len(vs) = 3 THEN vs[3] ELSE IntV(1) IN
    CASE vs[1][1] = "int" /\ vs[2][1] = "int" ->
           (CASE step = Null -> Null
              [] step[1] # "int" \/ step[2] = 0 -> Err
              [] RangeCount(vs[1][2], vs[2][2], step[2]) > MaxRangeLen -> Err
              [] OTHER -> ListV([i \in 1 .. RangeCount(vs[1][2], vs[2][2], step[2]) |->
                                   IntV(vs[1][2] + (i - 1) * step[2])]))
      [] vs[1] = Null \/ vs[2] = Null -> Null
      [] OTHER -> Err

-----------------------------------------------------------------------------
(* Dates *)

IntField(m, f, default) == IF f \in DOMAIN m /\ m[f][1] = "int" THEN m[f][2] ELSE default

DateFunction(v) ==
    CASE v[1] = "datetext" -> IF ParseDate(v[2]) = NoValue THEN Err ELSE DateV(ParseDate(v[2])[1])
      [] v[1] = "date" -> v
      [] v[1] = "map" -> DateV(YmdToDays(IntField(v[2], "year", 1970), IntField(v[2], "month", 1),
                                         IntField(v[2], "day", 1)))
      [] OTHER -> Err

DateTimeFunction(v) ==
    CASE v[1] = "dttext" ->
           LET p == ParseDateTime(v[2].date, v[2].time, v[2].frac, v[2].digits)
           IN IF p = NoValue THEN Err ELSE <<"datetime", p>>
      [] v[1] = "datetime" -> v
      [] OTHER -> Err

DurationFunction(v) ==
    LET part(f) == IntField(v[2], f, 0) IN
    CASE v[1] = "durtext" ->
           LET p == ParseDuration(v[2][1], v[2][2]) IN IF p = NoValue THEN Err ELSE DurV(p[1])
      [] v[1] = "map" ->
           DurV([months |-> part("years") * 12 + part("months"),
                 days |-> part("weeks") * 7 + part("days"),
                 millis |-> part("hours") * 3600000 + part("minutes") * 60000
                              + part("seconds") * 1000 + part("milliseconds")])
      [] OTHER -> Err

-----------------------------------------------------------------------------
(* Dispatch of the functions whose arguments are all evaluated first. *)

NullIf(a, b) == IF a = b THEN Null ELSE a

ApplyFunction(f, vs) ==
    CASE f \in {"trim", "ltrim", "rtrim", "toLower", "toUpper", "reverse", "size"} ->
           StringFunction(f, vs[1])
      [] f \in {"left", "right", "substring"} -> CutFunction(f, vs)
      [] f \in {"split", "replace"} -> PatternFunction(f, vs)
      [] f = "toString" -> ToStringValue(vs[1])
      [] f = "toFloat" -> ToFloat(vs[1])
      [] f = "toInteger" -> ToInteger(vs[1])
      [] f = "toBoolean" -> ToBoolean(vs[1])
      [] f = "round" -> Round(vs[1], Tail(vs))
      [] f \in {"head", "last", "tail"} -> ListFunction(f, vs[1])
      [] f = "range" -> RangeList(vs)
      [] f = "nullIf" -> NullIf(vs[1], vs[2])
      [] f = "date" -> DateFunction(vs[1])
      [] f = "datetime" -> DateTimeFunction(vs[1])
      [] f = "duration" -> DurationFunction(vs[1])
      [] OTHER -> NumericFunction(f, vs[1])

(* Functions of variables. *)
ApplyVarFunction(g, f, bvs) ==
    CASE f \in {"nodes", "relationships", "length"} -> PathFunction(f, bvs[1])
      [] f \in {"shortestPath", "allShortestPaths"} ->
           ShortestPathFunction(g, f, bvs[1], bvs[2])
      [] OTHER -> ElementFunction(g, f, bvs[1])


-----------------------------------------------------------------------------
(* Evaluation *)

FirstFailure(vs) == vs[CHOOSE i \in DOMAIN vs : Failed(vs[i]) /\ \A j \in 1 .. i - 1 : ~ Failed(vs[j])]
AnyFailure(vs) == \E i \in DOMAIN vs : Failed(vs[i])

RECURSIVE Eval(_, _, _)

EvalAll(ctx, es, b) == [i \in DOMAIN es |-> Eval(ctx, es[i], b)]

(* A row passes a filter when it evaluates to true: null, an error and any *)
(* other value drop it.                                                    *)
Passes(ctx, e, b) == Eval(ctx, e, b) = True

(* The first WHEN that holds; a failing condition fails the CASE. *)
EvaluateCase(ctx, e, b) ==
    LET operand == IF e.operand = <<>> THEN <<>> ELSE <<Eval(ctx, e.operand[1], b)>>
        cond(i) == Eval(ctx, e.whens[i].cond, b)
        hit(i) == IF operand = <<>> THEN cond(i) = True ELSE ValuesEqual(operand[1], cond(i))
        decided == {i \in DOMAIN e.whens : Failed(cond(i)) \/ hit(i)}
    IN IF operand # <<>> /\ Failed(operand[1]) THEN operand[1]
       ELSE IF decided = {} THEN IF e.else = <<>> THEN Null ELSE Eval(ctx, e.else[1], b)
       ELSE LET i == CHOOSE i \in decided : \A j \in decided : i <= j IN
            IF Failed(cond(i)) THEN cond(i) ELSE Eval(ctx, e.whens[i].result, b)

WithItem(b, x, v) == With(b, x, <<"val", v>>)

ListComprehension(ctx, e, b) ==
    LET list == Eval(ctx, e.list, b)
        kept == SelectSeq(list[2], LAMBDA v : e.pred = <<>> \/
                                     Eval(ctx, e.pred[1], WithItem(b, e.x, v)) = True)
        preds == IF e.pred = <<>> THEN <<>>
                 ELSE Mapped(list[2], LAMBDA v : Eval(ctx, e.pred[1], WithItem(b, e.x, v)))
        out == Mapped(kept, LAMBDA v : Eval(ctx, e.result, WithItem(b, e.x, v)))
    IN CASE Failed(list) \/ list = Null -> list
         [] list[1] # "list" -> Err
         [] AnyFailure(preds) -> FirstFailure(preds)
         [] AnyFailure(out) -> FirstFailure(out)
         [] OTHER -> ListV(out)

ListPredicate(ctx, e, b) ==
    LET list == Eval(ctx, e.list, b)
        vals == Mapped(list[2], LAMBDA v : Eval(ctx, e.pred, WithItem(b, e.x, v)))
        count == Cardinality({i \in DOMAIN vals : vals[i] = True})
    IN CASE Failed(list) \/ list = Null -> list
         [] list[1] # "list" -> Err
         [] AnyFailure(vals) -> FirstFailure(vals)
         [] OTHER -> BoolV(QuantifierHolds(e.kind, count, Len(vals)))

(* EXISTS { }, COUNT { } and COLLECT { } match from the current row. *)
SubqueryRows(ctx, e, b) ==
    SelectSeq(MatchPatterns(ctx.g, ctx.pi, <<>>, e.pats, <<b>>),
              LAMBDA r : e.where = <<>> \/ Passes(ctx, e.where[1], r))

(* A pattern in WHERE holds when some match keeps the outer variables. *)
PatternPredicate(ctx, e, b) ==
    LET rows == MatchPatterns(ctx.g, ctx.pi, <<>>, e.pats, <<b>>)
    IN BoolV(\E i \in DOMAIN rows : \A x \in DOMAIN b : x \in DOMAIN rows[i] => rows[i][x] = b[x])

(* The arguments after the first one that is not null stay unevaluated. *)
Coalesce(ctx, e, b) ==
    LET decided == {i \in DOMAIN e.args : Eval(ctx, e.args[i], b) # Null}
    IN IF decided = {} THEN Null
       ELSE Eval(ctx, e.args[CHOOSE i \in decided : \A j \in decided : i <= j], b)

Reduce(ctx, e, b) ==
    LET list == Eval(ctx, e.list, b)
        init == Eval(ctx, e.init, b)
        step(acc, v) == IF Failed(acc) THEN acc
                        ELSE Eval(ctx, e.body, WithItem(WithItem(b, e.acc, acc), e.x, v))
    IN CASE Failed(list) -> list
         [] Failed(init) -> init
         [] list = Null -> Null
         [] list[1] # "list" -> Err
         [] OTHER -> FoldLeft(step, init, list[2])

Eval(ctx, e, b) ==
    CASE e.k = "lit" -> e.v
      [] e.k = "var" -> IF e.x \in DOMAIN b THEN ValueOfBinding(b[e.x]) ELSE Err
      [] e.k = "prop" -> EvaluateProperty(ctx.g, b, e.x, e.p)
      [] e.k = "param" -> IF e.x \in DOMAIN ctx.params THEN ctx.params[e.x] ELSE Err
      [] e.k = "bin" ->
           LET vs == EvalAll(ctx, <<e.l, e.r>>, b) IN
           IF AnyFailure(vs) THEN FirstFailure(vs) ELSE ApplyBinaryOp(vs[1], e.op, vs[2])
      [] e.k = "un" ->
           LET v == Eval(ctx, e.e, b) IN IF Failed(v) THEN v ELSE ApplyUnaryOp(e.op, v)
      [] e.k = "list" ->
           LET vs == EvalAll(ctx, e.es, b) IN
           IF AnyFailure(vs) THEN FirstFailure(vs) ELSE ListV(vs)
      [] e.k = "index" ->
           LET vs == EvalAll(ctx, <<e.e, e.i>>, b) IN
           IF AnyFailure(vs) THEN FirstFailure(vs) ELSE IndexAccess(vs[1], vs[2])
      [] e.k = "slice" ->
           LET vs == EvalAll(ctx, <<e.e, e.i, e.j>>, b) IN
           IF AnyFailure(vs) THEN FirstFailure(vs) ELSE ListSlice(vs[1], vs[2], vs[3])
      [] e.k = "exists?" ->
           LET v == Eval(ctx, e.e, b) IN IF Failed(v) THEN v ELSE BoolV(v # Null)
      [] e.k = "isempty" ->
           LET v == Eval(ctx, e.e, b) IN IF Failed(v) THEN v ELSE IsEmptyValue(v)
      [] e.k = "case" -> EvaluateCase(ctx, e, b)
      [] e.k = "comp" -> ListComprehension(ctx, e, b)
      [] e.k = "quant" -> ListPredicate(ctx, e, b)
      [] e.k = "exists" -> BoolV(SubqueryRows(ctx, e, b) # <<>>)
      [] e.k = "count" -> IntV(Len(SubqueryRows(ctx, e, b)))
      [] e.k = "collect" ->
           LET vs == Mapped(SubqueryRows(ctx, e, b), LAMBDA r : Eval(ctx, e.e, r)) IN
           IF AnyFailure(vs) THEN FirstFailure(vs) ELSE ListV(vs)
      [] e.k = "fn" ->
           LET vs == EvalAll(ctx, e.args, b) IN
           IF AnyFailure(vs) THEN FirstFailure(vs) ELSE ApplyFunction(e.f, vs)
      [] e.k = "varfn" ->
           IF Range(e.vars) \subseteq DOMAIN b
           THEN ApplyVarFunction(ctx.g, e.f, Mapped(e.vars, LAMBDA x : b[x])) ELSE Err
      [] e.k = "coalesce" -> Coalesce(ctx, e, b)
      [] e.k = "reduce" -> Reduce(ctx, e, b)
      [] OTHER -> PatternPredicate(ctx, e, b)
=============================================================================
