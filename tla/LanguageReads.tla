--------------------------- MODULE LanguageReads ---------------------------
(***************************************************************************)
(* Questions about the query language itself, as further steps of the      *)
(* reader: texts for the lexer, expressions, clause lists and statements   *)
(* for the parser.                                                         *)
(***************************************************************************)
EXTENDS QueryReads

CONSTANTS
    CharTexts,      \* texts, as sequences of characters
    Strings,        \* values of string literals
    Syntax,         \* expression trees
    ClauseLists,    \* sequences of clause names that start with MATCH
    Statements,     \* statements, as sequences of tokens
    Explained,      \* statements to explain
    Samples         \* sequences of property values, one for each node

PX == INSTANCE Parser
PL == INSTANCE Planner

Sym(s) == [i \in DOMAIN s |-> <<s[i], s[i]>>]
Ident(x) == <<"id", x>>
Call(x, inside) == <<Ident(x)>> \o Sym(<<"(">>) \o inside \o Sym(<<")">>)

-----------------------------------------------------------------------------
(* How an expression is written: the table of precedences, from 1 for OR   *)
(* to 8 for what never needs parentheses, and the least precedence that    *)
(* each operand may have without parentheses.                              *)

Precedence(e) ==
    CASE e.k = "bin" -> (CASE e.op = "or" -> 1 [] e.op = "and" -> 2
                           [] e.op \in {"+", "-"} -> 4 [] e.op \in {"*", "/"} -> 5 [] OTHER -> 3)
      [] e.k = "un" -> IF e.op \in {"not", "neg"} THEN 6 ELSE 3
      [] e.k \in {"index", "slice"} -> 7
      [] OTHER -> 8

RECURSIVE Written(_, _, _)
Joined(es, style) ==
    FlattenSeq([i \in DOMAIN es |-> (IF i = 1 THEN <<>> ELSE Sym(<<",">>)) \o Written(es[i], 1, style)])

(* Written with no parentheses but the needed ones, or with all of them. *)
Written(e, least, style) ==
    LET p == Precedence(e)
        sub(x, l) == Written(x, l, style)
        none == sub(e, 1)
        text ==
          CASE e.k = "bin" ->
                 sub(e.l, IF p = 3 THEN 4 ELSE p)
                   \o Sym(IF e.op \in {"starts", "ends"} THEN <<e.op, "with">> ELSE <<e.op>>)
                   \o sub(e.r, IF p = 3 THEN 4 ELSE p + 1)
            [] e.k = "un" ->
                 (CASE e.op = "not" -> Sym(<<"not">>) \o sub(e.e, 6)
                    [] e.op = "neg" -> Sym(<<"-">>) \o sub(e.e, 6)
                    [] e.op = "isnull" -> sub(e.e, 4) \o Sym(<<"is", "null">>)
                    [] OTHER -> sub(e.e, 4) \o Sym(<<"is", "not", "null">>))
            [] e.k = "index" -> sub(e.e, 7) \o Sym(<<"[">>) \o sub(e.i, 1) \o Sym(<<"]">>)
            [] e.k = "slice" -> sub(e.e, 7) \o Sym(<<"[">>) \o sub(e.i, 1) \o Sym(<<".", ".">>)
                                  \o sub(e.j, 1) \o Sym(<<"]">>)
            [] e.k = "var" -> <<Ident(e.x)>>
            [] e.k = "prop" -> <<Ident(e.x)>> \o Sym(<<".">>) \o <<Ident(e.p)>>
            [] e.k = "lit" -> <<e.v>>
            [] e.k = "list" -> Sym(<<"[">>) \o Joined(e.es, style) \o Sym(<<"]">>)
            [] e.k = "fn" -> Call(e.f, Joined(e.args, style))
            [] e.k = "quant" -> Call(e.kind, <<Ident(e.x)>> \o Sym(<<"in">>) \o sub(e.list, 1)
                                               \o Sym(<<"where">>) \o sub(e.pred, 1))
            [] e.k = "case" ->
                 Sym(<<"case">>)
                   \o FlattenSeq([i \in DOMAIN e.whens |->
                        Sym(<<"when">>) \o sub(e.whens[i].cond, 1)
                          \o Sym(<<"then">>) \o sub(e.whens[i].result, 1)])
                   \o (IF e.else = <<>> THEN <<>> ELSE Sym(<<"else">>) \o sub(e.else[1], 1))
                   \o Sym(<<"end">>)
    IN IF p < least \/ (style = "all" /\ p < 8) THEN Sym(<<"(">>) \o text \o Sym(<<")">>) ELSE text

-----------------------------------------------------------------------------
(* Clauses, each with one pattern, variable or item. *)

Paren(x) == Sym(<<"(">>) \o <<Ident(x)>> \o Sym(<<")">>)
Assigned(x) == <<Ident(x)>> \o Sym(<<".">>) \o <<Ident("p")>> \o Sym(<<"=">>) \o <<<<"int", 1>>>>
Spelled(c) ==
    CASE c \in {"match", "create", "merge"} -> Sym(<<c>>) \o Paren("n")
      [] c = "optional" -> Sym(<<"optional", "match">>) \o Paren("n")
      [] c = "set" -> Sym(<<"set">>) \o Assigned("n")
      [] c = "remove" -> Sym(<<"remove">>) \o <<Ident("n")>> \o Sym(<<":">>) \o <<Ident("L")>>
      [] c \in {"where", "with", "delete", "return"} -> Sym(<<c>>) \o <<Ident("n")>>
      [] c = "foreach" -> Sym(<<"foreach", "(">>) \o <<Ident("n")>> \o Sym(<<"in">>) \o <<Ident("n")>>
                            \o Sym(<<"|", "set">>) \o Assigned("n") \o Sym(<<")">>)
      [] c = "call" -> Sym(<<"call", "{", "match">>) \o Paren("n") \o Sym(<<"return">>)
                         \o <<Ident("n")>> \o Sym(<<"}">>)
      [] c = "union" -> Sym(<<"union">>)
      [] c = "unionall" -> Sym(<<"union", "all">>)
SpelledAll(cs) == FlattenSeq([i \in DOMAIN cs |-> Spelled(cs[i])])

If(part, name) == IF part = <<>> THEN <<>> ELSE <<name>>
Matches(clauses) ==
    [i \in DOMAIN clauses |-> IF clauses[i].optional THEN "optional" ELSE "match"]
Clauses(segs) ==
    FlattenSeq([i \in DOMAIN segs |->
        Matches(segs[i].clauses) \o If(segs[i].where, "where") \o If(segs[i].with, "with")])
Queried(s) == Clauses(s.segs) \o If(s.call, "call") \o <<"return">>

(* The clauses a statement's tree holds, in the order they are carried out.*)
ClausesOf(s) ==
    CASE s.k = "match" -> Queried(s)
      [] s.k = "matchcreate" -> Clauses(s.segs) \o <<"create">> \o If(s.ret, "return")
      [] s.k = "matchupdate" ->
           Clauses(s.segs) \o [i \in DOMAIN s.updates |-> s.updates[i].k] \o If(s.ret, "return")
      [] s.k = "matchforeach" -> Clauses(s.segs) \o <<"foreach">>
      [] s.k = "delete" ->
           [i \in DOMAIN s.pats |-> "match"] \o If(s.where, "where") \o If(s.set, "set") \o <<"delete">>
      [] s.k = "merge" ->
           Matches(s.clauses) \o If(s.where, "where") \o <<"merge">> \o If(s.ret, "return")
      [] s.k = "union" ->
           FlattenSeq([i \in DOMAIN s.queries |->
             (IF i = 1 THEN <<>> ELSE IF s.all THEN <<"unionall">> ELSE <<"union">>)
                \o Queried(s.queries[i])])

-----------------------------------------------------------------------------
(* Texts and string literals *)

(* A value written as a literal: quotes, backslashes and controls escaped. *)
Escaped(c) ==
    CASE c = PX!NewLine -> <<"\\", "n">> [] c = "TAB" -> <<"\\", "t">>
      [] c \in {"\\", "'", "\""} -> <<"\\", c>> [] OTHER -> <<c>>
Quoted(v, quote) == <<quote>> \o FlattenSeq([i \in DOMAIN v |-> Escaped(v[i])]) \o <<quote>>

-----------------------------------------------------------------------------
(* Plans, with statistics and without, and histograms *)

Planned(g, s, pi) ==
    [s |-> s.of, stats |-> PL!BuildPlanWithStats(s, PL!FromGraphWithIndexes(g, pi)),
     plain |-> PL!BuildPlan(s, g.ncount, g.ecount)]

Sampled(vs) ==
    FoldLeft(LAMBDA g, v : LET h == CreateNodeWithLabels(g, <<"A">>)
                           IN IF v = Null THEN h ELSE SetNodeProperty(h, NextNodeSlot(g), "p", v),
             EmptyGraph, vs)

-----------------------------------------------------------------------------
LanguageQuestions ==
    IF graph \in QueryGraphs THEN [kind : {"plan"}, ts : Explained, pi : {EmptyIndex, Index(graph)}]
    ELSE IF graph = EmptyGraph
    THEN [kind : {"tokens"}, cs : CharTexts]
           \cup [kind : {"string"}, v : Strings, quote : {"'", "\""}]
           \cup [kind : {"expression"}, e : Syntax, style : {"few", "all"}]
           \cup [kind : {"clauses"}, cs : ClauseLists]
           \cup [kind : {"statement"}, ts : Statements]
           \cup [kind : {"histogram"}, vs : Samples, k : 0 .. 4]
    ELSE {}

(* The statement that a question is about. *)
StatementOf(q) ==
    CASE q.kind = "statement" -> q.ts
      [] q.kind = "clauses" -> SpelledAll(q.cs)
      [] q.kind = "plan" -> Sym(<<"explain">>) \o q.ts
      [] q.kind = "expression" -> Sym(<<"return">>) \o Written(q.e, 1, q.style)

(* What comes of its tree: an expression is read on its own as well as in  *)
(* a return item.                                                          *)
OfParsed(g, q, parsed) ==
    CASE q.kind = "plan" -> Planned(g, parsed.v[1], q.pi)
      [] q.kind = "expression" ->
           [item |-> parsed, ts |-> Written(q.e, 1, q.style),
            whole |-> PX!Parse(PX!Start(Written(q.e, 1, q.style)), "expression")]
      [] OTHER -> parsed

(* What the lexer, the parser and the planner answer. *)
LanguageReply(g, q) ==
    CASE q.kind = "tokens" -> PX!Tokenize(q.cs)
      [] q.kind = "string" -> PX!Tokenize(Quoted(q.v, q.quote))
      [] q.kind = "histogram" -> PL!BuildHistogram(Sampled(q.vs), "A", "p", q.k)
      [] q.kind \in {"statement", "clauses", "plan", "expression"} ->
           OfParsed(g, q, PX!ParseQuery(StatementOf(q)))
      [] OTHER -> QueryReply(g, q)

AskAny == AskFrom(GraphQuestions \cup QueryQuestions \cup LanguageQuestions)

-----------------------------------------------------------------------------
(* An expression is read back as it was meant, with the least parentheses  *)
(* that the precedences call for and with all of them, on its own and as a *)
(* return item.  A return item that starts with a list ends with it.       *)
Unwrapped(item) == IF item.k = "expr" THEN item.e ELSE item
PrecedencesKept ==
    ask.kind = "expression" =>
        /\ answer.whole.ok /\ answer.whole.ts = <<>> /\ Last(answer.whole.v) = ask.e
        /\ (answer.ts[1][1] = "[" /\ ask.e.k # "list")
             \/ (answer.item.ok /\ Unwrapped(answer.item.v[1].ret.items[1].item) = ask.e)

Follows(cs, a, b) == \E i \in 1 .. Len(cs) - 1 : cs[i] = a /\ cs[i + 1] = b
Holds(cs, c) == c \in Range(cs)

(* The forms whose tree is known to differ from what is written: a SET     *)
(* before CREATE and a WITH before MERGE are lost, a SET before WITH is    *)
(* carried out after it, OPTIONAL is lost before DELETE, and the first     *)
(* UNION decides for all.                                                  *)
KnownLoss(cs) ==
    \/ Follows(cs, "set", "create") \/ Follows(cs, "set", "with") \/ Follows(cs, "with", "merge")
    \/ Holds(cs, "optional") /\ Holds(cs, "delete")
    \/ Holds(cs, "union") /\ Holds(cs, "unionall")

(* An accepted list of clauses loses none of them and keeps their order. *)
ClausesKept ==
    (ask.kind = "clauses" /\ answer.ok /\ ~ KnownLoss(ask.cs)) => ClausesOf(answer.v[1]) = ask.cs

(* Every token of these statements matters: without any one of them the    *)
(* statement is refused or becomes another one.                            *)
EveryTokenMatters ==
    ask.kind = "statement" =>
        /\ answer.ok /\ Len(answer.v) = 1
        /\ \A i \in DOMAIN ask.ts :
             LET less == Reply(graph, [ask EXCEPT !.ts = RemoveAt(@, i)])
             IN less.ok => less.v # answer.v

(* What may be a token on its own, without looking at how it is read. *)
IsLexeme(s, atEnd) ==
    LET dots == {i \in DOMAIN s : s[i] = "."}
    IN \/ s[1] \in PX!Letters \cup {"_"} /\ Range(s) \subseteq PX!WordChars
       \/ /\ s[1] \in PX!Digits /\ Range(s) \subseteq PX!Digits \cup {"."} /\ Cardinality(dots) <= 1
          /\ (s[Len(s)] = "." => atEnd)
       \/ Len(s) = 1 /\ s[1] \in PX!OneCharSymbols
       \/ s \in PX!TwoCharSymbols
       \/ s[1] = "$" /\ Len(s) > 1 /\ Range(Tail(s)) \subseteq PX!WordChars
       \/ /\ Len(s) > 1 /\ s[1] \in PX!Quotes /\ s[Len(s)] = s[1]
          /\ \A i \in 2 .. Len(s) : s[i] = s[1] =>
               LET run == {k \in 0 .. i - 2 : \A m \in i - k .. i - 1 : s[m] = "\\"}
               IN (i = Len(s)) <=> (Cardinality(run) % 2 = 1)

(* Blanks and comments. *)
RECURSIVE IsGap(_, _)
IsGap(s, atEnd) ==
    LET comment(n) ==
          LET c == SubSeq(s, 1, n)
          IN /\ n >= 2
             /\ \/ /\ c[1] = "/" /\ c[2] = "/" /\ PX!NewLine \notin Range(c)
                   /\ (IF n = Len(s) THEN atEnd ELSE s[n + 1] = PX!NewLine)
                \/ /\ c[1] = "/" /\ c[2] = "*"
                   /\ \A i \in 3 .. n - 2 : ~ (c[i] = "*" /\ c[i + 1] = "/")
                   /\ \/ n >= 4 /\ c[n - 1] = "*" /\ c[n] = "/"
                      \/ n = Len(s) /\ atEnd
    IN \/ s = <<>>
       \/ s[1] \in PX!Blanks /\ IsGap(Tail(s), atEnd)
       \/ \E n \in 1 .. Len(s) : comment(n) /\ IsGap(SubSeq(s, n + 1, Len(s)), atEnd)

(* The tokens of a text are, from left to right, the longest pieces that   *)
(* can be tokens, and nothing but blanks and comments is between them.     *)
TokensTile ==
    (ask.kind = "tokens" /\ answer.ok) =>
        LET ts == answer.tokens
            cs == ask.cs
            start(i) == IF i = 1 THEN 1 ELSE ts[i - 1].to
            n == Len(cs)
        IN /\ \A i \in DOMAIN ts :
                /\ ts[i].from < ts[i].to
                /\ IsGap(SubSeq(cs, start(i), ts[i].from - 1), FALSE)
                /\ IsLexeme(SubSeq(cs, ts[i].from, ts[i].to - 1), ts[i].to = n + 1)
                /\ \A j \in ts[i].to .. n : ~ IsLexeme(SubSeq(cs, ts[i].from, j), j = n)
           /\ IsGap(SubSeq(cs, start(Len(ts) + 1), n), TRUE)

(* A string value comes back from its literal, whatever it holds. *)
StringsRoundTrip ==
    ask.kind = "string" =>
        answer.ok /\ Len(answer.tokens) = 1 /\ answer.tokens[1].kind = "str"
          /\ answer.tokens[1].value = ask.v

(* The plan with statistics has the operators of the plan without them,    *)
(* but for the ways it reads a pattern; it leaves CALL { } out.  Every     *)
(* WHERE is in it: each segment's filter is an operator or a part of one.  *)
(* An index in it is one that exists, under a label of the pattern, and a  *)
(* scan that nothing narrows counts the nodes that are there.              *)
Reading == [IndexSeek |-> "scan", IndexRangeScan |-> "scan", NodeByLabelScan |-> "scan",
            ExpandReverse |-> "Expand"]
OpOf(o) == CASE o.op = "NodeByLabelScan+Filter" -> "scan"
             [] o.op \in DOMAIN Reading -> Reading[o.op] [] OTHER -> o.op
Skeleton(plan) ==
    LET kept == SelectSeq(plan, LAMBDA o : o.op \notin {"Filter", "CallSubquery"})
    IN [i \in DOMAIN kept |-> OpOf(kept[i])]
Filtering == {"Filter", "NodeByLabelScan+Filter", "IndexSeek", "IndexRangeScan"}
(* The operators of each segment end with its EagerAggregation. *)
SegmentOps(plan, j) ==
    LET ends == {i \in DOMAIN plan : plan[i].op = "EagerAggregation"}
        nth(n) == IF n = 0 THEN 0 ELSE
                  CHOOSE i \in ends : Cardinality({h \in ends : h <= i}) = n
    IN {plan[i].op : i \in nth(j - 1) + 1 .. (IF j > Cardinality(ends) THEN Len(plan) ELSE nth(j))}
PlanFaithful ==
    (ask.kind = "plan" /\ answer.s.k = "match") =>
        LET first == answer.s.segs[1].clauses[1].pats[1]
            plan == answer.stats
        IN /\ Skeleton(plan) = Skeleton(answer.plain)
           /\ \A j \in DOMAIN answer.s.segs :
                answer.s.segs[j].where # <<>> => SegmentOps(plan, j) \cap Filtering # {}
           /\ \A i \in DOMAIN plan :
                plan[i].op \in {"IndexSeek", "IndexRangeScan"} =>
                    plan[i].of \in ask.pi.defs /\ i = 1 /\ plan[i].of[1] \in Range(first.labels)
           /\ (plan[1].op = "NodeByLabelScan" /\ plan[2].op # "ExpandReverse" /\ "labels" \in DOMAIN first) =>
                plan[1].rows = Cardinality({n \in Nodes :
                                 first.labels = <<>> \/ HasLabel(graph, n, first.labels[1])})

(* The buckets of a histogram lie side by side from the least value to the *)
(* greatest, each holds as many as there are values in it, the last one    *)
(* with its upper end, and no node is forgotten.                           *)
HistogramExact ==
    ask.kind = "histogram" =>
        LET numbers == SelectSeq(ask.vs, LAMBDA v : IsNumber(v))
            k == Len(answer[1].buckets)
            b(i) == answer[1].buckets[i]
            holds(i) == Cardinality({j \in DOMAIN numbers :
                          LET v == Doubled(numbers[j]) * k
                          IN b(i).lower <= v /\ (v < b(i).upper \/ (i = k /\ v = b(i).upper))})
            total == FoldLeft(LAMBDA acc, x : acc + x.count, 0, answer[1].buckets)
        IN IF answer = <<>> THEN ask.k = 0 \/ numbers = <<>>
           ELSE /\ total = Len(numbers) /\ answer[1].nulls = Len(ask.vs) - Len(numbers)
                /\ k <= ask.k /\ \A i \in 1 .. k - 1 : b(i).upper = b(i + 1).lower
                /\ b(1).lower # b(k).upper => \A i \in 1 .. k : b(i).count = holds(i)

(* Nothing of a text is lost on the way to a plan: characters are tokens,  *)
(* tokens matter to the statement, clauses and precedences are kept, the   *)
(* plan does what the statement says, and its estimates are histograms of  *)
(* the values there are.                                                   *)
LanguageExact ==
    /\ TokensTile /\ StringsRoundTrip
    /\ EveryTokenMatters /\ PrecedencesKept /\ ClausesKept
    /\ PlanFaithful /\ HistogramExact
=============================================================================
