------------------------------ MODULE MCEngine ------------------------------
(* An instance of the query engine.  A behaviour either writes, statements     *)
(* one after another from the empty store, or reads, questions about one of    *)
(* the graphs, texts and statements below: `scene` says which.                 *)
EXTENDS Database, LanguageReads

(* The engine and the answers are the ones of Store and LanguageReads. *)
MCExecute(kind, d, s) == LET done == Execute(kind, d, s) IN done
MCReply(g, q) == LET a == LanguageReply(g, q) IN a

VARIABLE scene

MCInit ==
    \/ scene = "write" /\ Init /\ GraphInit /\ graph = EmptyGraph
    \/ scene = "read" /\ Init /\ GraphInit /\ ddl = "index"
WriteScene == scene = "write" /\ Next /\ UNCHANGED <<gvars, scene>>
ReadScene == scene = "read" /\ (AskAny \/ Forget) /\ UNCHANGED <<vars, scene>>
MCSpec == MCInit /\ [][WriteScene \/ ReadScene]_<<vars, gvars, scene>>

-----------------------------------------------------------------------------
(* Digraphs on three nodes, with loops, and some with parallel edges. *)
Arcs == {0, 1, 2} \X {0, 1, 2}
MaxArcs == 4
Made(g, ls) == CreateNodeWithLabels(g, ls)
ThreeNodes == Made(Made(Made(EmptyGraph, <<"A">>), <<"A", "B">>), <<"B">>)
WeightOfArc(a) ==
    LET w == 1 + (a[1] - a[2]) * (a[1] - a[2]) IN IF a[1] % 2 = 0 THEN IntV(w) ELSE FloatV(w)
AddArc(g, a) ==
    SetEdgeProperty(CreateEdge(g, a[1], a[2], "R"), NextEdgeSlot(g), "w", WeightOfArc(a))
GraphOf(S) == FoldLeft(AddArc, ThreeNodes, SetToSeq(S))
Parallel(S) == AddArc(AddArc(GraphOf(S), <<0, 1>>), <<1, 2>>)
Few == {{}, {<<0, 1>>, <<1, 2>>}, {<<0, 1>>, <<0, 2>>, <<2, 0>>, <<1, 1>>}}

(* The nodes have the numbers a, b, c, or none where the number is 0. *)
Numbered(g, ns) ==
    FoldLeft(LAMBDA acc, i : IF ns[i] = 0 THEN acc
                             ELSE SetNodeProperty(acc, i - 1, "p", IntV(ns[i])), g, Upto(3))
MCQueryGraphs ==
    {Numbered(GraphOf(S), ns) : S \in Few, ns \in {<<1, 2, 1>>, <<2, 0, 1>>, <<1, 1, 1>>}}
      \cup {Numbered(Parallel({<<0, 2>>}), <<3, 1, 2>>)}
MCGraphs ==
    {GraphOf(S) : S \in {S \in SUBSET Arcs : Cardinality(S) <= MaxArcs}}
      \cup {Parallel(S) : S \in Few} \cup MCQueryGraphs \cup {EmptyGraph}

Lit(v) == [k |-> "lit", v |-> v]
I(n) == Lit(IntV(n))
VarE(x) == [k |-> "var", x |-> x]
P(x) == [k |-> "prop", x |-> x, p |-> "p"]
Bin(l, op, r) == [k |-> "bin", op |-> op, l |-> l, r |-> r]
Un(op, e) == [k |-> "un", op |-> op, e |-> e]
ListE(es) == [k |-> "list", es |-> es]
Fn(f, args) == [k |-> "fn", f |-> f, args |-> args]
Plain == [p \in {} |-> p]
Node(x, ls) == [var |-> x, labels |-> ls, props |-> Plain]
Hop(dir, r, node) ==
    [dir |-> dir, type |-> "R", range |-> <<>>, evar |-> r, node |-> node, eprops |-> Plain]
Path(start, segs) == [start |-> start, segs |-> segs, shortest |-> "no", pvar |-> NoVar]
Clause(pats) == [pats |-> pats, optional |-> FALSE]
Maybe(pats) == [pats |-> pats, optional |-> TRUE]
Item(x) == [k |-> "prop", x |-> x, p |-> "p"]
Var(x) == [k |-> "var", x |-> x]
Agg(f, x) == [k |-> "agg", f |-> f, of |-> <<Item(x)>>, p |-> <<1, 2>>]
CountAll == [k |-> "agg", f |-> "count", of |-> <<>>, p |-> <<1, 2>>]
Ret(items) == [distinct |-> FALSE, items |-> items, order |-> <<>>, skip |-> <<>>, limit |-> <<>>]
Query(clauses, where, ret) ==
    [segs |-> <<[clauses |-> clauses, where |-> where, with |-> <<>>]>>, call |-> <<>>, ret |-> ret]
By(x, dir) == <<[item |-> Item(x), dir |-> dir, nulls |-> "default"]>>

Cut(ret, s, l) == [ret EXCEPT !.skip = <<I(s)>>, !.limit = <<I(l)>>]
RowsAB == Ret(<<Item("a"), Var("a"), Var("b")>>)
Step == <<Clause(<<Path(Node("a", <<"A">>), <<Hop("out", "r", Node("b", <<>>))>>)>>)>>
Wheres ==
    {<<>>, <<Bin(P("a"), "=", I(1))>>, <<Bin(P("a"), "=", Lit(FloatV(2)))>>, <<Bin(I(2), ">", P("a"))>>,
     <<Bin(Bin(P("a"), "=", I(1)), "and", Bin(P("a"), "<", I(3)))>>,
     <<Bin(Bin(P("a"), "=", I(2)), "or", Bin(P("a"), "=", I(1)))>>}
TwoSteps(ret) ==
    [segs |-> <<[clauses |-> <<Clause(<<Node("a", <<"A">>)>>)>>, where |-> <<>>, with |-> <<Ret(<<Var("a")>>)>>],
                [clauses |-> Step, where |-> <<>>, with |-> <<>>]>>, call |-> <<>>, ret |-> ret]
MCMatchQueries ==
    {Query(<<Clause(<<Node("a", <<"A">>)>>)>>, w, Ret(<<Item("a"), Var("a")>>)) : w \in Wheres}
    \cup {Query(Step, w, Cut(RowsAB, 1, 2)) : w \in Wheres}
    \cup {Query(<<Clause(<<Node("a", <<>>)>>), Maybe(<<Path(Node("a", <<>>), <<Hop("both", "r", Node("b", <<"B">>))>>)>>)>>,
                <<>>, r) : r \in {RowsAB, [RowsAB EXCEPT !.order = By("a", "asc")],
                                  Cut([RowsAB EXCEPT !.order = By("a", "desc")], 1, 2),
                                  Cut([RowsAB EXCEPT !.order = By("a", "asc")], 0, 2)}}
    \cup {Query(<<Clause(<<Node("a", <<"A">>), Node("b", <<"B">>)>>)>>, <<>>,
                [Ret(<<Item("a")>>) EXCEPT !.distinct = TRUE]),
          Query(Step, <<>>, Ret(<<Item("a"), CountAll, Agg("sum", "b"), Agg("max", "b"),
                                  Agg("percentileDisc", "b"), Agg("collect", "b")>>)),
          Query(<<Clause(<<Node("a", <<"A">>)>>)>>, <<>>, Ret(<<CountAll>>))}
    \cup {Query(Step, <<>>, Cut([Ret(<<Item("a")>>) EXCEPT !.distinct = TRUE], 0, 2))}
    \cup {TwoSteps(r) : r \in {RowsAB, Cut(RowsAB, 0, 2), Cut(RowsAB, 1, 2)}}

Far(range, shortest, to) ==
    [Path(Node("a", <<"A">>), <<[Hop("out", "r", Node("b", to)) EXCEPT !.range = range]>>)
        EXCEPT !.shortest = shortest]
MCPathPatterns ==
    {Far(r, "no", to) : r \in {<<0, 1>>, <<1, 2>>, <<2, 2>>, <<0, NoMax>>}, to \in {<<>>, <<"B">>}}
    \cup {Far(<<1, m>>, s, <<>>) : m \in {1, NoMax}, s \in {"one", "all"}}

Numbers == {I(0), I(1), I(-2), Lit(FloatV(3))}
OneTwoThree == ListE(<<I(1), I(2), I(3)>>)
HopPats == <<Path(Node("n", <<>>), <<Hop("out", "_1", Node("_2", <<>>))>>)>>
CountSub == [k |-> "count", pats |-> HopPats, where |-> <<>>]
CollectSub == [k |-> "collect", pats |-> HopPats, where |-> <<>>, e |-> VarE("n")]
ExistsSub == [k |-> "exists", pats |-> HopPats, where |-> <<>>]
Comp(pred, e) == [k |-> "comp", x |-> "x", list |-> OneTwoThree, pred |-> pred, result |-> e]
Quant(kind, pred) == [k |-> "quant", kind |-> kind, x |-> "x", list |-> OneTwoThree, pred |-> pred]
Slice(i, j) == [k |-> "slice", e |-> OneTwoThree, i |-> i, j |-> j]
Above(n) == Bin(VarE("x"), ">", I(n))
MCLaws ==
    {<<Bin(a, "<", b), Un("not", Bin(a, ">=", b))>> : a, b \in Numbers}
    \cup {<<Bin(a, "+", b), Bin(b, "+", a)>> : a, b \in Numbers}
    \cup {<<Bin(Bin(a, "-", b), "+", b), Bin(Bin(a, "+", b), "-", b)>> : a, b \in Numbers}
    \cup {<<ExistsSub, Bin(CountSub, ">", I(0))>>, <<CountSub, Fn("size", <<CollectSub>>)>>,
          <<[k |-> "pattern", pats |-> HopPats], ExistsSub>>}
    \cup {<<Quant("all", Above(n)), Un("not", Quant("any", Un("not", Above(n))))>> : n \in 0 .. 3}
    \cup {<<Quant("single", Above(n)),
            Bin(Fn("size", <<Comp(<<Above(n)>>, VarE("x"))>>), "=", I(1))>> : n \in 0 .. 3}
    \cup {<<Bin(Slice(I(0), I(k)), "+", Slice(I(k), I(3))), OneTwoThree>> : k \in -3 .. 4}
    \cup {<<Fn("range", <<I(a), I(b), I(s)>>), Fn("reverse", <<Fn("range", <<I(b), I(a), I(-s)>>)>>)>> :
              a \in {0}, b \in {4, -4}, s \in {-2, 1}}
    \cup {<<[k |-> "reduce", acc |-> "s", init |-> I(0), x |-> "x", list |-> OneTwoThree,
             body |-> Bin(VarE("s"), "+", VarE("x"))], I(6)>>,
          <<[k |-> "case", operand |-> <<>>, else |-> <<I(0)>>,
             whens |-> <<[cond |-> Un("isnull", P("n")), result |-> I(0)],
                         [cond |-> Bin(P("n"), ">", I(0)), result |-> P("n")]>>],
            [k |-> "coalesce", args |-> <<P("n"), I(0)>>]>>}
    \cup {<<Fn("toInteger", <<Fn("toString", <<I(k)>>)>>), I(k)>> : k \in {-12, 0, 7, 10}}
    \cup {<<Fn("head", <<[k |-> "list", es |-> <<e>>]>>), [k |-> "index", e |-> ListE(<<I(9), e>>), i |-> I(-1)]>> :
              e \in Numbers}

MCTexts == {<<>>, <<1, 0, 12>>, <<2, 1, 0, 1, 2>>, <<1, 2, 0, 0, 1>>, <<12, 0, 1, 0, 2>>}
MCTerms == {<<>>, <<1>>, <<2>>, <<1, 2>>, <<2, 1>>, <<1, 1, 2>>}
MCDays == {-719162, -25567, -1, 0, 58, 59, 60, 364, 365, 788, 789, 790, 10957, 11015, 11016, 11017,
           18321, 18322, 47540, 47541} \cup 19700 .. 19760
MCMonths == {-13, -1, 0, 1, 11, 12, 25}

(* Trees of the operators of every level, two deep, and of every form. *)
Leaves == {VarE("a"), [k |-> "prop", x |-> "a", p |-> "b"], I(1)}
Operators == {"or", "and", "=", "in", "starts", "-", "*"}
Deeper(E, F) ==
    {Bin(l, op, r) : l \in E, op \in Operators, r \in F}
      \cup {Un(op, e) : op \in {"not", "neg", "isnull", "notnull"}, e \in E}
      \cup {[k |-> "index", e |-> e, i |-> f] : e \in E, f \in F}
OneDeep == Deeper({VarE("a")}, {I(1)})
Forms ==
    {ListE(<<>>), ListE(<<VarE("a"), I(1)>>), Fn("size", <<Bin(VarE("a"), "+", I(1))>>),
     Fn("coalesce", <<VarE("a"), I(1), VarE("b")>>), Fn("pi", <<>>),
     [k |-> "slice", e |-> VarE("a"), i |-> I(0), j |-> I(1)],
     [k |-> "quant", kind |-> "any", x |-> "x", list |-> VarE("a"), pred |-> Bin(VarE("x"), "<", I(1))],
     [k |-> "case", operand |-> <<>>, else |-> <<I(0)>>,
      whens |-> <<[cond |-> Bin(VarE("a"), "or", VarE("b")), result |-> I(1)]>>]}
MCSyntax == Leaves \cup Forms \cup Deeper(OneDeep \cup Forms \cup Leaves, OneDeep \cup Leaves)

ClauseNames ==
    {"match", "optional", "where", "set", "remove", "delete", "with", "create", "merge", "foreach",
     "call", "union", "unionall", "return"}
MaxClauses == 4
MCClauseLists ==
    {<<"match">> \o t : t \in UNION {[1 .. k -> ClauseNames] : k \in 1 .. MaxClauses - 1}}
    \cup {<<"match", a, "with", b, c, "return">> : a, b, c \in ClauseNames}

(* A statement from its words: a name is in capital letters. *)
Names == {"A", "B", "p", "N", "M", "T", "P", "Q", "L", "X"}
Word(w) == CASE w \in Names -> Ident(w) [] w = "1" -> <<"int", 1>> [] w = "2" -> <<"int", 2>>
             [] w = "3" -> <<"int", 3>> [] w = "S" -> <<"str", "S">>
             [] w \in {"date", "max", "constraints", "each", "exists", "boolean"} -> Ident(w)
             [] OTHER -> <<w, w>>
Words(ws) == [i \in DOMAIN ws |-> Word(ws[i])]
NodeP == <<"(", "N", ":", "L", ")">>
NodeA == <<"(", "N", ":", "A", ")">>
NodeB == <<"(", "N", ":", "B", ")">>
MCStatements == {Words(ws) : ws \in {
    <<"create", "(", "N", ":", "L", "{", "P", ":", "1", ",", "Q", ":", "S", "}", ")", "return", "N">>,
    <<"match", "X", "=", "(", "N", ")", "-", "[", "M", ":", "T", "*", "2", ".", ".", "3", "]", "->", "(", ")",
      "return", "distinct", "*", "order", "by", "N", ".", "P", "desc", "nulls", "last", "skip", "1", "limit", "1">>,
    <<"match", "(", "N", ")", "<-", "[", ":", "T", "{", "P", ":", "1", "}", "]", "-", "(", "M", ")", "set", "N",
      "+=", "{", "P", ":", "1", "}", ",", "N", ":", "L", "remove", "M", ".", "P", "return", "N", "as", "X">>,
    <<"match", "(", "N", ")", "where", "exists", "{", "(", "N", ")", "-", "-", "(", ")", "}", "detach", "delete", "N">>,
    <<"merge", "(", "N", ")", "on", "create", "set", "N", ".", "P", "=", "1", "on", "match", "set", "N", ".", "P",
      "=", "date", "(", "S", ")">>,
    <<"unwind", "[", "1", ",", "1", "]", "as", "X", "create", "(", "N", ")", "set", "N", ".", "P", "=", "X">>,
    <<"foreach", "(", "X", "in", "[", "]", "|", "merge", "(", "N", ")", "delete", "M", "foreach", "(", "N", "in", "X",
      "|", "remove", "N", ":", "L", ")", ")">>,
    <<"call", "{", "with", "N", "match", "(", "M", ")", "return", "M", "union", "all", "match", "(", "X", ")", "return",
      "X", "as", "M", "}", "return", "max", "(", "M", ".", "P", ")">>,
    <<"call", "X", ".", "P", "(", "1", ")", "yield", "N", "as", "M", "where", "M", "match", "(", "X", ")", "with", "N",
      ",", "X", "where", "X", "return", "N">>,
    <<"create", "constraint", "X", "for">> \o NodeP \o <<"require", "(", "N", ".", "P", ",", "N", ".", "Q", ")", "is",
      "unique">>,
    <<"create", "constraint", "X", "for">> \o NodeP \o <<"require", "N", ".", "P", "is", ":", ":", "boolean">>,
    <<"create", "constraint", "X", "for">> \o NodeP \o <<"require", "N", ":", "M">>,
    <<"create", "fulltext", "index", "X", "for">> \o NodeP \o <<"on", "each", "[", "N", ".", "P", ",", "N", ".", "Q",
      "]">>,
    <<"create", "index", "on", ":", "L", "(", "P", ")">>, <<"drop", "index", "on", ":", "L", "(", "P", ")">>,
    <<"drop", "fulltext", "index", "X">>, <<"drop", "constraint", "X">>, <<"show", "constraints">>,
    <<"create", "user", "N", "set", "password", "S", "role", "X">>,
    <<"alter", "user", "N", "set", "password", "S", "role", "X">>, <<"drop", "user", "N">>,
    <<"explain", "profile", "return", "last", "(", "[", "1", "]", ")">>}}

MCExplained == {Words(ws) : ws \in {
    <<"match">> \o NodeA \o <<"where", "N", ".", "p", "=", "1", "return", "N">>,
    <<"match">> \o NodeA \o <<"return", "N", ".", "p">>,
    <<"match">> \o NodeB \o <<"where", "N", ".", "p", "=", "1", "return", "N">>,
    <<"match">> \o NodeA \o <<"where", "2", ">", "N", ".", "p", "and", "N", ".", "Q", "=", "1",
      "return", "max", "(", "N", ".", "p", ")">>,
    <<"match">> \o NodeA \o <<",", "(", "M", ")", "where", "N", ".", "p", "+", "1", "=", "2", "return", "N", ".", "p">>,
    <<"match", "(", "N", ")", ",">> \o NodeA \o <<"-", "-", "(", "M", ")", "where", "N", ".", "p", "=", "1",
      "return", "N", "order", "by", "N", "limit", "1">>,
    <<"match", "(", "N", ")", "where", "N", ".", "Q", "=", "1", "with", "N", "match", "(", "N", ")", "-", "-">> \o NodeB
      \o <<"where", "N", ".", "p", "<", "1", "return", "N", ",", "max", "(", "N", ".", "p", ")">>,
    <<"match", "(", "N", ")", "where", "N", ".", "Q", "=", "1", "with", "N", "where", "N", "with", "N", "return", "*">>,
    <<"match", "(", "N", ")", "call", "{", "match", "(", "M", ")", "return", "M", "}", "return", "N">>,
    <<"match">> \o NodeA \o <<"return", "N", "union", "match", "(", "N", ")", "return", "N">>,
    <<"match">> \o NodeA \o <<"where", "N", ".", "p", "=", "1", "set", "N", ".", "p", "=", "2">>}}
MCSamples ==
    UNION {[1 .. k -> {Null, IntV(0), FloatV(0), IntV(1), FloatV(3), IntV(3), StrV("s")}] : k \in 0 .. 3}
      \cup {<<IntV(a), IntV(b), IntV(c), IntV(5)>> : a, b, c \in 1 .. 5}

NewLineChar == "NL"
Alphabet == {"a", "1", ".", "/", "*", "<", "-", "'", "\\", NewLineChar, "$"}
MaxText == 4
MCCharTexts ==
    UNION {[1 .. k -> Alphabet] : k \in 0 .. MaxText}
    \cup {<<"1", "2", ".", "1", ".", "2">>, <<"/", "*", "a", "*", "/", "A", "s">>, <<"1", "2", "2", "1">>,
          <<"a", "<", ">", "s", "=", "~", "1">>, <<"/", "*", "/", "a", "*", "/">>,
          <<"\"", "a", "'", "\"", "a">>, <<"/", "/", "a", NewLineChar, " ", "/", "/">>}
MCStrings == UNION {[1 .. k -> {"a", "n", "t", "'", "\"", "\\", NewLineChar, "TAB"}] : k \in 0 .. 3}

-----------------------------------------------------------------------------
(* Statements over labels A and B, an integer property p, a text t. *)
PropE(x, p) == [k |-> "prop", x |-> x, p |-> p]
Eq(l, r) == [k |-> "bin", op |-> "=", l |-> l, r |-> r]
One == Lit(IntV(1))
Two == Lit(IntV(2))
Of(p, e) == [q \in {p} |-> e]
NodeWith(x, ls, props) == [var |-> x, labels |-> ls, props |-> props]
HopWith(evar, node, eprops) ==
    [dir |-> "out", type |-> "R", range |-> <<>>, evar |-> evar, node |-> node,
     eprops |-> eprops]
Seg(pats, where) ==
    [clauses |-> <<[pats |-> pats, optional |-> FALSE]>>, where |-> where, with |-> <<>>]
A(x) == NodeWith(x, <<"A">>, Plain)
B(x) == NodeWith(x, <<"B">>, Plain)
Text == Lit(StrV(<<1, 0, 12>>))
OtherText == Lit(StrV(<<2>>))

(* Paths beside constraints, a second text beside full-text indexes. *)
Single(ls, props) == [pats |-> <<NodeWith("n", ls, props)>>, ret |-> <<>>]
OnePath(path) == [pats |-> <<path>>, ret |-> <<>>]
MCCreate(schema) ==
    {Single(<<"B", "A">>, Of("p", One))} \cup
    CASE schema = "index" -> {Single(<<"A">>, Of("p", One)), Single(<<"B">>, Of("p", Two))}
      [] schema = "fulltext" -> {Single(<<"A">>, Of("t", Text)), Single(<<"A">>, Of("t", OtherText))}
      [] OTHER ->
           {Single(<<"A">>, Of("t", Text)),
            OnePath(Path(NodeWith("_1", <<"A">>, Of("p", One)), <<HopWith("_3", B("_2"), Plain)>>)),
            OnePath(Path(B("_1"), <<HopWith("_3", B("_2"), Of("w", ListE(<<One>>)))>>))}
MCDelete ==
    {[pats |-> <<A("n")>>, where |-> <<>>, set |-> <<>>, vars |-> <<"n">>, detach |-> FALSE],
     [pats |-> <<A("n")>>, where |-> <<Eq(PropE("n", "p"), One)>>, set |-> <<>>,
      vars |-> <<"n">>, detach |-> TRUE],
     [pats |-> <<Path(A("n"), <<HopWith("r", B("_2"), Plain)>>)>>, where |-> <<>>, set |-> <<>>,
      vars |-> <<"r", "n">>, detach |-> FALSE]}
MCMatchCreate ==
    {[segs |-> <<Seg(<<A("a"), B("b")>>, <<>>)>>,
      pats |-> <<Path(A("a"), <<HopWith("e", B("b"), Plain)>>)>>, ret |-> <<>>]}
SetP(x, e) == [k |-> "prop", x |-> x, p |-> "p", e |-> e]
Updates(pat, isSet, items) ==
    [segs |-> <<Seg(<<pat>>, <<>>)>>, ret |-> <<>>, updates |-> <<[set |-> isSet, items |-> items]>>]
SetText == [k |-> "prop", x |-> "n", p |-> "t", e |-> OtherText]
LabelN(l) == [k |-> "label", x |-> "n", l |-> l]

(* Labels that come and go, and what matters to a schema: the other type   *)
(* of number to indexes, another text to full-text indexes, two properties *)
(* at once to constraints on both.                                         *)
MCUpdate(schema) ==
    {Updates(B("n"), TRUE, <<LabelN("A")>>)}
    \cup (CASE schema = "index" -> {Updates(A("n"), TRUE, <<SetP("n", Lit(FloatV(2)))>>),
                                    Updates(A("n"), FALSE, <<LabelN("B")>>)}
           [] schema = "fulltext" -> {Updates(A("n"), TRUE, <<SetText>>),
                                      Updates(A("n"), FALSE, <<LabelN("B")>>)}
           [] schema = "key" -> {Updates(A("n"), TRUE, <<[k |-> "merge", x |-> "n",
                                    props |-> [q \in {"p", "t"} |-> IF q = "p" THEN One ELSE Text]]>>)}
           [] OTHER -> {})
    \cup
    {[segs |-> <<Seg(<<A("n")>>, <<>>)>>, ret |-> <<>>,
      updates |-> <<[set |-> TRUE, items |-> <<SetP("n", One)>>]>>],
     [segs |-> <<Seg(<<A("n")>>, <<Eq(PropE("n", "p"), One)>>)>>, ret |-> <<>>,
      updates |-> <<[set |-> TRUE, items |-> <<[k |-> "merge", x |-> "n", props |-> Of("p", Two)],
                                               [k |-> "label", x |-> "n", l |-> "B"]>>]>>],
     [segs |-> <<Seg(<<A("n")>>, <<Eq(PropE("n", "p"), Two)>>)>>, ret |-> <<>>,
      updates |-> <<[set |-> FALSE, items |-> <<[k |-> "label", x |-> "n", l |-> "B"],
                                                [k |-> "prop", x |-> "n", p |-> "p"]>>]>>]}
MCMerge(schema) ==
    {[clauses |-> <<>>, where |-> <<>>, onCreate |-> <<>>, onMatch |-> <<>>,
      pats |-> <<NodeWith("n", <<"A">>, Of("p", Two))>>]}
    \cup IF schema # "constraint" THEN {} ELSE
    {[clauses |-> <<>>, where |-> <<>>, onCreate |-> <<>>, onMatch |-> <<>>,
      pats |-> <<Path(NodeWith("a", <<"A">>, Of("p", One)), <<HopWith("_3", B("_2"), Plain)>>)>>]}
MCUnwind ==
    {[e |-> ListE(<<One, Two>>), x |-> "x", pats |-> <<NodeWith("n", <<"A">>, Of("p", VarE("x")))>>,
      set |-> <<>>, ret |-> <<>>]}
MCForeach ==
    {[segs |-> <<Seg(<<A("n")>>, <<>>)>>,
      foreach |-> [e |-> ListE(<<VarE("n")>>), x |-> "x",
                   clauses |-> <<[k |-> "delete", vars |-> <<"x">>, detach |-> TRUE]>>]]}
OnA(kind, props) == [kind |-> kind, label |-> "A", props |-> props, arg |-> ""]
MCConstraint(schema) ==
    CASE schema = "constraint" -> {[name |-> "u", c |-> OnA("unique", {"p"})],
                                   [name |-> "nn", c |-> OnA("notnull", {"p"})]}
      [] schema = "key" -> {[name |-> "key", c |-> OnA("unique", {"p", "t"})]}
      [] OTHER -> {}
MCIndex == {[l |-> "A", p |-> "p"]}
MCFulltext == {[name |-> "f", l |-> "A", props |-> {"t"}]}
MCSchemas == {"constraint", "key", "index", "fulltext"}
MCStmts(kind, schema) ==
    CASE kind = "create" -> MCCreate(schema) [] kind = "delete" -> MCDelete
      [] kind = "matchcreate" -> IF schema = "constraint" THEN MCMatchCreate ELSE {}
      [] kind = "matchupdate" -> MCUpdate(schema) [] kind = "merge" -> MCMerge(schema)
      [] kind = "unwind" -> MCUnwind [] kind = "foreach" -> MCForeach
      [] kind \in {"createconstraint", "dropconstraint"} -> MCConstraint(schema)
      [] kind \in {"createindex", "dropindex"} -> IF schema = "index" THEN MCIndex ELSE {}
      [] kind \in {"createfulltext", "dropfulltext"} -> IF schema = "fulltext" THEN MCFulltext ELSE {}
MCProbes ==
    {NodeWith("n", <<"A">>, Of("p", [lit |-> TRUE, v |-> v])) : v \in {IntV(1), IntV(2), FloatV(2)}}
=============================================================================
