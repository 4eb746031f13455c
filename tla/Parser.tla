------------------------------- MODULE Parser -------------------------------
(***************************************************************************)
(* The lexer and the recursive-descent parser of maharit-query/src.        *)
(*                                                                         *)
(* The parser works on the tokens of the lexer, numbers and names as       *)
(* values.  A token is <<kind, payload>>: <<"id", name>>,                  *)
(* <<"int", n>>, <<"str", s>>, <<"param", name>>, and <<t, t>> for a       *)
(* keyword or a symbol t.  Keywords and function names are in lower case.  *)
(*                                                                         *)
(* A parser state is [ts, ok, v]: the tokens left, whether parsing goes    *)
(* on, and the results so far.  Every operation pushes what the Rust       *)
(* function returns; a failed state is passed on unchanged.                *)
(***************************************************************************)
EXTENDS Integers, Sequences, SequencesExt

(***************************************************************************)
(* The lexer of maharit-query/src/lexer.rs.  A text is a sequence of       *)
(* characters, each a string; two letters in both cases, two digits and    *)
(* one keyword stand for all of them.  A token is [kind, value, from, to]: *)
(* from and to are its place, the character to itself not included.        *)
(***************************************************************************)

Digits == {"1", "2"}
Upper == [a |-> "A", s |-> "S", A |-> "A", S |-> "S", n |-> "N", t |-> "T"]
Letters == DOMAIN Upper
WordChars == Letters \cup Digits \cup {"_"}
Quotes == {"'", "\""}
NewLine == "NL"
Blanks == {" ", NewLine}
KeywordWords == {<<"A", "S">>}
MaxDigits == 3      \* integers of more digits do not fit

(* Symbols of two characters go before their first character alone. *)
TwoCharSymbols ==
    {<<"=", "~">>, <<"<", ">">>, <<"<", "=">>, <<"<", "-">>, <<">", "=">>, <<"+", "=">>, <<"-", ">">>}
OneCharSymbols ==
    {"=", "<", ">", "+", "-", "*", "/", "(", ")", "[", "]", "{", "}", ":", ",", ".", "|"}

-----------------------------------------------------------------------------
(* Reading at place i of the text cs: i - 1 characters have been consumed. *)

CharAt(cs, i) == IF i \in DOMAIN cs THEN cs[i] ELSE "EOF"
StartsWithAt(cs, i, s) == \A k \in DOMAIN s : CharAt(cs, i + k - 1) = s[k]
(* The first place from i on that holds no character of C. *)
After(cs, i, C) ==
    CHOOSE j \in i .. Len(cs) + 1 : CharAt(cs, j) \notin C /\ \A k \in i .. j - 1 : cs[k] \in C
(* Two characters on, or the end. *)
AdvanceTwo(cs, i) == IF i + 2 > Len(cs) + 1 THEN Len(cs) + 1 ELSE i + 2

RECURSIVE SkipWhitespace(_, _)
SkipWhitespace(cs, i) ==
    LET j == After(cs, i, Blanks)
        line == CHOOSE k \in j .. Len(cs) + 1 :
                  CharAt(cs, k) \in {NewLine, "EOF"} /\ \A m \in j .. k - 1 : cs[m] # NewLine
        body == AdvanceTwo(cs, j)
        closing == {k \in body .. Len(cs) : StartsWithAt(cs, k, <<"*", "/">>)}
        block == IF closing = {} THEN Len(cs) + 1
                 ELSE AdvanceTwo(cs, CHOOSE k \in closing : \A m \in closing : k <= m)
    IN CASE StartsWithAt(cs, j, <<"/", "/">>) -> SkipWhitespace(cs, line)
         [] StartsWithAt(cs, j, <<"/", "*">>) -> SkipWhitespace(cs, block)
         [] OTHER -> j

TokenOf(kind, value, i, j) == [kind |-> kind, value |-> value, from |-> i, to |-> j]
LexError(i) == TokenOf("error", <<>>, i, i)

ReadIdent(cs, i) ==
    LET j == After(cs, i, WordChars)
        word == SubSeq(cs, i, j - 1)
        upper == [k \in DOMAIN word |-> IF word[k] \in Letters THEN Upper[word[k]] ELSE word[k]]
    IN TokenOf(IF upper \in KeywordWords THEN "keyword" ELSE "id", word, i, j)

(* A dot belongs to the number when a digit or the end of the text follows *)
(* it: 2..5 is 2, two dots and 5.                                          *)
ReadNumber(cs, i) ==
    LET j == After(cs, i, Digits)
        dot == CharAt(cs, j) = "." /\ CharAt(cs, j + 1) \in Digits \cup {"EOF"}
        end == IF dot THEN After(cs, j + 1, Digits) ELSE j
        text == SubSeq(cs, i, end - 1)
    IN IF dot THEN TokenOf("float", text, i, end)
       ELSE IF Len(text) > MaxDigits THEN LexError(i) ELSE TokenOf("int", text, i, end)

Unescaped(c) == CASE c = "n" -> NewLine [] c = "t" -> "TAB" [] OTHER -> c
RECURSIVE StringFrom(_, _, _, _)
StringFrom(cs, i, j, value) ==
    CASE CharAt(cs, j) = "EOF" -> LexError(i)
      [] CharAt(cs, j) = cs[i] -> TokenOf("str", value, i, j + 1)
      [] CharAt(cs, j) = "\\" ->
           IF CharAt(cs, j + 1) = "EOF" THEN LexError(i)
           ELSE StringFrom(cs, i, j + 2, Append(value, Unescaped(cs[j + 1])))
      [] OTHER -> StringFrom(cs, i, j + 1, Append(value, cs[j]))
ReadString(cs, i) == StringFrom(cs, i, i + 1, <<>>)

ReadParameter(cs, i) ==
    LET j == After(cs, i + 1, WordChars)
    IN IF j = i + 1 THEN LexError(i) ELSE TokenOf("param", SubSeq(cs, i + 1, j - 1), i, j)

NextToken(cs, i) ==
    LET c == CharAt(cs, i)
        two == <<c, CharAt(cs, i + 1)>>
    IN CASE c \in Letters \cup {"_"} -> ReadIdent(cs, i)
         [] c \in Digits -> ReadNumber(cs, i)
         [] c \in Quotes -> ReadString(cs, i)
         [] two \in TwoCharSymbols -> TokenOf("symbol", two, i, i + 2)
         [] c \in OneCharSymbols -> TokenOf("symbol", <<c>>, i, i + 1)
         [] c = "$" -> ReadParameter(cs, i)
         [] OTHER -> LexError(i)

RECURSIVE TokensFrom(_, _, _)
TokensFrom(cs, i, tokens) ==
    LET j == SkipWhitespace(cs, i)
        t == NextToken(cs, j)
    IN IF j > Len(cs) THEN [ok |-> TRUE, tokens |-> tokens]
       ELSE IF t.kind = "error" THEN [ok |-> FALSE, tokens |-> tokens]
       ELSE TokensFrom(cs, t.to, Append(tokens, t))
Tokenize(cs) == TokensFrom(cs, 1, <<>>)

-----------------------------------------------------------------------------

NoName == "-"       \* an absent variable or relationship type
NoBound == 99       \* an open length range

Keywords ==
    {"create", "match", "where", "return", "delete", "set", "detach", "and", "or", "not", "true",
     "false", "null", "order", "by", "asc", "desc", "limit", "skip", "distinct", "nulls", "first",
     "last", "optional", "with", "as", "case", "when", "then", "else", "end", "union", "all",
     "merge", "remove", "unwind", "on", "constraint", "require", "unique", "show", "drop", "for",
     "foreach", "is", "explain", "profile", "contains", "fulltext", "index", "user", "password",
     "role", "alter", "starts", "ends", "normalized", "in", "call", "yield"}

-----------------------------------------------------------------------------
(* Tokens and results *)

Start(ts) == [ts |-> ts, ok |-> TRUE, v |-> <<>>]
Fail(p) == [p EXCEPT !.ok = FALSE]
KindAt(p, i) == IF p.ok /\ Len(p.ts) >= i THEN p.ts[i][1] ELSE "eof"
At(p, k) == KindAt(p, 1) = k
AtAny(p, K) == KindAt(p, 1) \in K
Advance(p) == IF p.ok /\ p.ts # <<>> THEN [p EXCEPT !.ts = Tail(@)] ELSE p
Expect(p, k) == IF At(p, k) THEN Advance(p) ELSE Fail(p)
ExpectAll(p, ks) == FoldLeft(Expect, p, ks)
Push(p, x) == IF p.ok THEN [p EXCEPT !.v = Append(@, x)] ELSE p
Top(p) == Last(p.v)
PushToken(p) == Push(Advance(p), p.ts[1][2])
ExpectIdent(p) == IF At(p, "id") THEN PushToken(p) ELSE Fail(p)
ExpectString(p) == IF At(p, "str") THEN PushToken(p) ELSE Fail(p)
ExpectIdentOrKeyword(p) == IF AtAny(p, Keywords \cup {"id"}) THEN PushToken(p) ELSE Fail(p)
ExpectDotProperty(p) == ExpectIdentOrKeyword(Expect(p, "."))

(* Replaces the last n results by one made of them. *)
Build(p, n, Make(_)) ==
    IF ~ p.ok THEN p
    ELSE LET k == Len(p.v) - n
         IN [p EXCEPT !.v = Append(SubSeq(@, 1, k), Make(SubSeq(@, k + 1, Len(@))))]
Some(p) == Build(p, 1, LAMBDA a : <<a[1]>>)
Flag(p, k) == IF At(p, k) THEN Push(Advance(p), TRUE) ELSE Push(p, FALSE)
OptIdent(p) == IF At(p, "id") THEN ExpectIdent(p) ELSE Push(p, NoName)

(* Every rule that occurs in a list or an option, by its name. *)
RECURSIVE Parse(_, _), More(_, _), Ops(_, _, _)

CommaList(p, rule) == More(Some(Parse(p, rule)), rule)
More(p, rule) ==
    IF At(p, ",")
    THEN More(Build(Parse(Advance(p), rule), 2, LAMBDA a : Append(a[1], a[2])), rule)
    ELSE p
Opt(p, k, rule) == IF At(p, k) THEN Some(Parse(Advance(p), rule)) ELSE Push(p, <<>>)
OptHere(p, k, rule) == IF At(p, k) THEN Some(Parse(p, rule)) ELSE Push(p, <<>>)

-----------------------------------------------------------------------------
(* Expressions, from the weakest operator to the strongest *)

BinaryOf(op, a) == [k |-> "bin", op |-> op, l |-> a[1], r |-> a[2]]
UnaryOf(op, e) == [k |-> "un", op |-> op, e |-> e]
Comparisons == {"=", "<>", "<", ">", "<=", ">=", "=~", "contains", "in"}

(* Left-associative operators of one level over the next rule. *)
Ops(p, rule, ops) ==
    IF AtAny(p, ops)
    THEN Ops(Build(Parse(Advance(p), rule), 2, LAMBDA a : BinaryOf(KindAt(p, 1), a)), rule, ops)
    ELSE p

ParseOrExpression(p) == Ops(Parse(p, "and"), "and", {"or"})
ParseAndExpression(p) == Ops(Parse(p, "comparison"), "comparison", {"and"})

(* One comparison at most: a < b < c ends after the second operand. *)
ParseIs(p) ==
    LET negated == At(p, "not")
        q == IF negated THEN Advance(p) ELSE p
        test(op) == Build(Advance(q), 1, LAMBDA a : UnaryOf(op, a[1]))
    IN CASE At(q, "null") -> test(IF negated THEN "notnull" ELSE "isnull")
         [] At(q, "normalized") /\ ~ negated -> test("normalized")
         [] OTHER -> Fail(q)
ParseComparison(p) ==
    LET q == Parse(p, "additive")
        op == KindAt(q, 1)
        right(r) == Build(Parse(r, "additive"), 2, LAMBDA a : BinaryOf(op, a))
    IN CASE op \in Comparisons -> right(Advance(q))
         [] op \in {"starts", "ends"} -> right(Expect(Advance(q), "with"))
         [] op = "is" -> ParseIs(Advance(q))
         [] OTHER -> q

ParseAdditive(p) == Ops(Parse(p, "multiplicative"), "multiplicative", {"+", "-"})
ParseMultiplicative(p) == Ops(Parse(p, "unary"), "unary", {"*", "/"})

ParseUnary(p) ==
    CASE At(p, "not") -> Build(Parse(Advance(p), "unary"), 1, LAMBDA a : UnaryOf("not", a[1]))
      [] At(p, "-") -> Build(Parse(Advance(p), "unary"), 1, LAMBDA a : UnaryOf("neg", a[1]))
      [] OTHER -> Parse(p, "postfix")

(* A slice skips two tokens after its start without looking at the second. *)
RECURSIVE Subscripts(_)
Subscripts(p) ==
    LET i == Parse(Advance(p), "expression")
        j == Expect(Parse(Advance(Advance(i)), "expression"), "]")
    IN IF ~ At(p, "[") THEN p
       ELSE Subscripts(
              IF At(i, ".")
              THEN Build(j, 3, LAMBDA a : [k |-> "slice", e |-> a[1], i |-> a[2], j |-> a[3]])
              ELSE Build(Expect(i, "]"), 2, LAMBDA a : [k |-> "index", e |-> a[1], i |-> a[2]]))
ParsePostfix(p) == Subscripts(Parse(p, "primary"))

-----------------------------------------------------------------------------
(* Primary expressions *)

LiteralOf(t) ==
    [k |-> "lit", v |-> CASE t[1] \in {"true", "false"} -> <<"bool", t[1] = "true">>
                          [] t[1] = "null" -> <<"null">>
                          [] OTHER -> t]
Literals == {"int", "float", "str", "true", "false", "null"}
ParseLiteral(p) == Push(Advance(p), LiteralOf(p.ts[1]))

(* all(x IN list WHERE pred), any, none and single, after the name. *)
ParseListPredicate(p, kind) ==
    LET list == Parse(Expect(ExpectIdent(Expect(p, "(")), "in"), "expression")
    IN Build(Expect(Parse(Expect(list, "where"), "expression"), ")"), 3, LAMBDA a :
         [k |-> "quant", kind |-> kind, x |-> a[1], list |-> a[2], pred |-> a[3]])

ParseListExpression(p) ==
    LET q == Expect(p, "[")
        list == Opt(Parse(Advance(ExpectIdent(q)), "expression"), "where", "expression")
        comp == Expect(Parse(Expect(list, "|"), "expression"), "]")
        items == IF At(q, "]") THEN Push(q, <<>>) ELSE CommaList(q, "expression")
    IN IF At(q, "id") /\ KindAt(q, 2) = "in"
       THEN Build(comp, 4, LAMBDA a :
              [k |-> "comp", x |-> a[1], list |-> a[2], pred |-> a[3], result |-> a[4]])
       ELSE Build(Expect(items, "]"), 1, LAMBDA a : [k |-> "list", es |-> a[1]])

RECURSIVE Whens(_)
Whens(p) ==
    LET cond == Parse(Expect(p, "when"), "expression")
        one == Parse(Expect(cond, "then"), "expression")
    IN IF ~ At(p, "when") THEN p
       ELSE Whens(Build(one, 3, LAMBDA a : Append(a[1], [cond |-> a[2], result |-> a[3]])))
ParseCaseExpression(p) ==
    LET q == Expect(p, "case")
        operand == IF At(q, "when") THEN Push(q, <<>>) ELSE Some(Parse(q, "expression"))
        whens == Whens(Push(operand, <<>>))
        checked == IF whens.ok /\ Top(whens) = <<>> THEN Fail(whens) ELSE whens
    IN Build(Expect(Opt(checked, "else", "expression"), "end"), 3, LAMBDA a :
         [k |-> "case", operand |-> a[1], whens |-> a[2], else |-> a[3]])

(* EXISTS { }, COUNT { } and COLLECT { }; only COLLECT has a RETURN. *)
ParseSubqueryPattern(p) ==
    Opt(CommaList(IF At(p, "match") THEN Advance(p) ELSE p, "pattern"), "where", "expression")
ParseCollectBody(p) ==
    Parse(Expect(Opt(CommaList(Expect(p, "match"), "pattern"), "where", "expression"), "return"),
          "item")
Subqueries == {"exists", "count", "collect"}
ParseSubquery(p, name) ==
    LET q == Expect(p, "{")
    IN IF name = "collect"
       THEN Build(Expect(ParseCollectBody(q), "}"), 3, LAMBDA a :
              [k |-> name, pats |-> a[1], where |-> a[2], item |-> a[3]])
       ELSE Build(Expect(ParseSubqueryPattern(q), "}"), 2, LAMBDA a :
              [k |-> name, pats |-> a[1], where |-> a[2]])

PlainVariable(p) ==
    IF At(p, ".") THEN Build(ExpectDotProperty(p), 2, LAMBDA a : [k |-> "prop", x |-> a[1], p |-> a[2]])
    ELSE Build(p, 1, LAMBDA a : [k |-> "var", x |-> a[1]])

-----------------------------------------------------------------------------
(* Function calls *)

Quantifiers == {"all", "any", "none", "single"}
VarFunctions ==
    {"nodes", "relationships", "length", "id", "elementid", "type", "startnode", "endnode",
     "labels", "properties", "keys"}
PathFunctions == {"shortestpath", "allshortestpaths"}
Temporals == {"date", "datetime", "duration"}
Percentiles == {"percentilecont", "percentiledisc"}
Deviations == {"stdev", "stdevp"}
Aggregates == {"count", "sum", "avg", "min", "max", "collect"}
AnyNumber == 99

(* The least and the largest number of arguments. *)
Arity(f) ==
    CASE f \in {"trim", "ltrim", "rtrim", "tolower", "toupper", "reverse", "tostring", "size", "abs",
                "ceil", "floor", "sign", "isnan", "log", "log10", "sqrt", "toboolean", "tofloat",
                "tointeger", "head", "tail", "last", "duration"} -> <<1, 1>>
      [] f \in {"left", "right", "split", "nullif"} -> <<2, 2>>
      [] f \in {"substring", "range"} -> <<2, 3>>
      [] f = "replace" -> <<3, 3>>
      [] f \in {"rand", "e", "pi", "timestamp", "randomuuid"} -> <<0, 0>>
      [] f = "round" -> <<1, 2>>
      [] f \in {"date", "datetime"} -> <<0, 1>>
      [] f = "coalesce" -> <<1, AnyNumber>>
      [] OTHER -> <<-1, -1>>

ExprItem(p) == Build(p, 1, LAMBDA a : [k |-> "expr", e |-> a[1]])
FunctionOf(f, args) == [k |-> "fn", f |-> f, args |-> args]

Arguments(p, f) ==
    LET q == IF At(p, ")") THEN Push(p, <<>>) ELSE CommaList(p, "expression")
    IN IF q.ok /\ Len(Top(q)) \in Arity(f)[1] .. Arity(f)[2] THEN Expect(q, ")") ELSE Fail(q)

ParseReduce(p) ==
    LET init == Parse(Expect(ExpectIdent(p), "="), "expression")
        list == Parse(Expect(ExpectIdent(Expect(init, ",")), "in"), "expression")
    IN Build(Expect(Parse(Expect(list, "|"), "expression"), ")"), 5, LAMBDA a :
         [k |-> "reduce", acc |-> a[1], init |-> a[2], x |-> a[3], list |-> a[4], body |-> a[5]])

AggregateOf(f, distinct, of, p) == [k |-> "agg", f |-> f, distinct |-> distinct, of |-> of, p |-> p]

(* COUNT alone may be without an argument, and only when not DISTINCT; the *)
(* word DISTINCT is read and forgotten for MIN and MAX.                    *)
ParseAggregate(p, f) ==
    LET q == Flag(p, "distinct")
        inner == CASE At(q, "*") -> Push(Advance(q), <<>>)
                   [] At(q, ")") -> Push(q, <<>>)
                   [] OTHER -> Some(Parse(q, "item"))
        r == Expect(inner, ")")
    IN IF \/ ~ r.ok \/ f \notin Aggregates
          \/ Top(r) = <<>> /\ (f # "count" \/ r.v[Len(r.v) - 1])
       THEN Fail(r)
       ELSE Build(r, 2, LAMBDA a : AggregateOf(f, a[1] /\ f \notin {"min", "max"}, a[2], <<>>))

(* A name and "(" as a return item. *)
ParseAggregateFunction(p, f) ==
    LET q == Expect(p, "(")
        e == Parse(q, "expression")
        pair == ExpectIdent(Expect(ExpectIdent(q), ","))
    IN CASE f \in Quantifiers -> ExprItem(ParseListPredicate(p, f))
         [] f \in {"exists", "isempty"} ->
              ExprItem(Build(Expect(e, ")"), 1, LAMBDA a : [k |-> f, e |-> a[1]]))
         [] f \in VarFunctions ->
              ExprItem(Build(Expect(ExpectIdent(q), ")"), 1, LAMBDA a :
                         [k |-> "varfn", f |-> f, vars |-> <<a[1]>>]))
         [] f \in PathFunctions ->
              ExprItem(Build(Expect(pair, ")"), 2, LAMBDA a : [k |-> "varfn", f |-> f, vars |-> a]))
         [] f = "reduce" -> ExprItem(ParseReduce(q))
         [] f \in Percentiles ->
              Build(Expect(Parse(Expect(Parse(q, "item"), ","), "expression"), ")"), 2, LAMBDA a :
                AggregateOf(f, FALSE, <<a[1]>>, <<a[2]>>))
         [] f \in Deviations ->
              Build(Expect(Parse(q, "item"), ")"), 1, LAMBDA a : AggregateOf(f, FALSE, <<a[1]>>, <<>>))
         [] Arity(f)[1] >= 0 ->
              ExprItem(Build(Arguments(q, f), 1, LAMBDA a : FunctionOf(f, a[1])))
         [] OTHER -> ParseAggregate(q, f)

(* A function inside an expression is never an aggregate. *)
ParseFunction(p, f) ==
    LET q == ParseAggregateFunction(p, f)
    IN IF ~ q.ok \/ Top(q).k = "agg" THEN Fail(q) ELSE Build(q, 1, LAMBDA a : a[1].e)

-----------------------------------------------------------------------------
(* Patterns *)

EdgeStart(p) == AtAny(p, {"-", "<-"})

RECURSIVE PairsOf(_), LabelsFrom(_), Hops(_)

AddPair(f, key, e) == [x \in DOMAIN f \cup {key} |-> IF x = key THEN e ELSE f[x]]
PairsOf(p) ==
    LET key == IF At(p, "str") THEN ExpectString(p) ELSE ExpectIdentOrKeyword(p)
        one == Build(Parse(Expect(key, ":"), "expression"), 3, LAMBDA a : AddPair(a[1], a[2], a[3]))
    IN IF At(one, ",") THEN PairsOf(Advance(one)) ELSE one
NoPairs == [x \in {} |-> x]
ParseProperties(p) ==
    LET q == Push(Expect(p, "{"), NoPairs)
    IN Expect(IF At(q, "}") THEN q ELSE PairsOf(q), "}")
OptProperties(p) == IF At(p, "{") THEN ParseProperties(p) ELSE Push(p, NoPairs)

LabelsFrom(p) ==
    IF At(p, ":")
    THEN LabelsFrom(Build(ExpectIdentOrKeyword(Advance(p)), 2, LAMBDA a : Append(a[1], a[2])))
    ELSE p
ParseNodePattern(p) ==
    Build(Expect(OptProperties(LabelsFrom(Push(OptIdent(Expect(p, "(")), <<>>))), ")"), 3,
          LAMBDA a : [var |-> a[1], labels |-> a[2], props |-> a[3]])

(* [*], [*2], [*2..], [*..3] and [*2..3]. *)
ParseLengthRange(p) ==
    LET hasMin == At(p, "int")
        low == IF hasMin THEN PushToken(p) ELSE Push(p, 1)
        dots == Expect(Expect(low, "."), ".")
    IN Build(CASE At(low, ".") -> IF At(dots, "int") THEN PushToken(dots) ELSE Push(dots, NoBound)
               [] hasMin -> Push(low, Top(low))
               [] OTHER -> Push(low, NoBound), 2, LAMBDA a : a)

ParseEdgePattern(p) ==
    LET incoming == At(p, "<-")
        q == IF incoming THEN Advance(p) ELSE Expect(p, "-")
        named == OptIdent(Advance(q))
        typed == IF At(named, ":") THEN ExpectIdentOrKeyword(Advance(named)) ELSE Push(named, NoName)
        ranged == IF At(typed, "*") THEN ParseLengthRange(Advance(typed)) ELSE Push(typed, <<>>)
        inside == Expect(OptProperties(ranged), "]")
        bare == Push(Push(Push(Push(q, NoName), NoName), <<>>), NoPairs)
        body == IF At(q, "[") THEN inside ELSE bare
        closed == CASE incoming -> Push(Expect(body, "-"), "in")
                    [] At(body, "->") -> Push(Advance(body), "out")
                    [] At(body, "-") -> Push(Advance(body), "both")
                    [] OTHER -> Fail(body)
    IN closed

Hops(p) ==
    IF ~ EdgeStart(p) THEN p
    ELSE Hops(Build(ParseNodePattern(ParseEdgePattern(p)), 7, LAMBDA a :
           Append(a[1], [evar |-> a[2], type |-> a[3], range |-> a[4], eprops |-> a[5],
                         dir |-> a[6], node |-> a[7]])))
PathOf(a, pvar) == [start |-> a[1], segs |-> a[2], shortest |-> "no", pvar |-> pvar]

(* shortestPath((a)-[*]-(b)): one relationship, no name inside. *)
ParseShortest(p, pvar) ==
    LET kind == IF p.ts[1][2] = "shortestpath" THEN "one" ELSE "all"
        q == Expect(Parse(Expect(Advance(p), "("), "pattern"), ")")
    IN IF q.ok /\ "segs" \in DOMAIN Top(q) /\ Top(q).pvar = NoName /\ Len(Top(q).segs) = 1
       THEN Build(q, 1, LAMBDA a : [a[1] EXCEPT !.pvar = pvar, !.shortest = kind])
       ELSE Fail(q)

ParsePattern(p) ==
    LET named == At(p, "id") /\ KindAt(p, 2) = "="
        pvar == IF named THEN p.ts[1][2] ELSE NoName
        q == IF named THEN Advance(Advance(p)) ELSE p
        start == ParseNodePattern(q)
    IN IF At(q, "id") /\ KindAt(q, 2) = "(" /\ q.ts[1][2] \in PathFunctions
       THEN ParseShortest(q, pvar)
       ELSE IF EdgeStart(start) \/ named
       THEN Build(Hops(Push(start, <<>>)), 2, LAMBDA a : PathOf(a, pvar))
       ELSE start

(* "(" starts a pattern when a node pattern with labels, properties or a   *)
(* relationship behind it can be read there, else an expression.           *)
ParseParen(p) ==
    LET n == ParseNodePattern(p)
        rich == n.ok /\ (Top(n).labels # <<>> \/ DOMAIN Top(n).props # {})
        path == Build(Hops(Push(n, <<>>)), 2, LAMBDA a : PathOf(a, NoName))
        predicate(q) == Build(q, 1, LAMBDA a : [k |-> "pattern", pats |-> a])
    IN CASE n.ok /\ EdgeStart(n) -> predicate(path)
         [] rich -> predicate(n)
         [] OTHER -> Expect(Parse(Advance(p), "expression"), ")")

ParsePrimary(p) ==
    LET name == p.ts[1][2]
        q == ExpectIdent(p)
        after == [q EXCEPT !.v = p.v]   \* the name is not a result of its own
    IN CASE At(p, "(") -> ParseParen(p)
         [] At(p, "[") -> ParseListExpression(p)
         [] At(p, "{") -> Build(ParseProperties(p), 1, LAMBDA a : [k |-> "map", props |-> a[1]])
         [] At(p, "case") -> ParseCaseExpression(p)
         [] At(p, "all") -> ParseListPredicate(Advance(p), "all")
         [] At(p, "id") /\ At(q, "(") -> ParseFunction(after, name)
         [] At(p, "id") /\ At(q, "{") /\ name \in Subqueries -> ParseSubquery(after, name)
         [] At(p, "id") -> PlainVariable(q)
         [] AtAny(p, Literals) -> ParseLiteral(p)
         [] At(p, "param") -> Push(Advance(p), [k |-> "param", x |-> name])
         [] OTHER -> Fail(p)

-----------------------------------------------------------------------------
(* Return items and the clauses made of them *)

ExpressionStarts == Literals \cup {"not", "-", "case", "param", "(", "{"}
AtExpressionOperator(p) ==
    AtAny(p, Comparisons \cup {"+", "-", "*", "/", "starts", "ends", "is", "and", "or", "["})

ParseSimpleReturnItem(p) ==
    LET name == p.ts[1][2]
        q == ExpectIdent(p)
        after == [q EXCEPT !.v = p.v]
    IN CASE ~ q.ok -> q
         [] name \in Temporals /\ At(q, "(") -> ExprItem(Parse(p, "expression"))
         [] name \in Subqueries /\ At(q, "{") -> ExprItem(ParseSubquery(after, name))
         [] At(q, "(") -> ParseAggregateFunction(after, name)
         [] OTHER -> PlainVariable(q)

(* A simple item followed by an operator is read again as an expression,   *)
(* unless it is an aggregate.                                              *)
ParseReturnItem(p) ==
    LET simple == ParseSimpleReturnItem(p)
    IN CASE At(p, "*") -> Push(Advance(p), [k |-> "all"])
         [] At(p, "[") -> ExprItem(ParseListExpression(p))
         [] At(p, "last") ->
              IF KindAt(p, 2) = "(" THEN ParseAggregateFunction(Advance(p), "last") ELSE Fail(p)
         [] At(p, "all") -> ExprItem(ParseListPredicate(Advance(p), "all"))
         [] AtAny(p, ExpressionStarts) -> ExprItem(Parse(p, "expression"))
         [] OTHER -> IF simple.ok /\ Top(simple).k # "agg" /\ AtExpressionOperator(simple)
                     THEN ExprItem(Parse(p, "expression")) ELSE simple

Aliased(p) == IF At(p, "as") THEN ExpectIdent(Advance(p)) ELSE Push(p, NoName)
ParseAliasedItem(p) == Build(Aliased(ParseReturnItem(p)), 2, LAMBDA a : [item |-> a[1], as |-> a[2]])

ParseOrderByItem(p) ==
    LET q == ParseReturnItem(p)
        dir == IF At(q, "asc") THEN Push(Advance(q), FALSE) ELSE Flag(q, "desc")
        nulls == IF At(dir, "nulls")
                 THEN IF KindAt(dir, 2) \in {"first", "last"} THEN PushToken(Advance(dir)) ELSE Fail(dir)
                 ELSE Push(dir, "default")
    IN Build(nulls, 3, LAMBDA a : [item |-> a[1], desc |-> a[2], nulls |-> a[3]])
ParseOrderByClause(p) == CommaList(ExpectAll(p, <<"order", "by">>), "orderitem")
ParseSkipLimitExpr(p) ==
    CASE At(p, "int") -> ParseLiteral(p)
      [] At(p, "param") -> Push(Advance(p), [k |-> "param", x |-> p.ts[1][2]])
      [] OTHER -> Fail(p)

(* DISTINCT, items, ORDER BY, SKIP and LIMIT, of RETURN and of WITH. *)
ParseReturnClause(p) ==
    LET items == CommaList(Flag(p, "distinct"), "aliased")
        sliced == Opt(Opt(OptHere(items, "order", "orderby"), "skip", "count"), "limit", "count")
    IN Build(sliced, 5, LAMBDA a :
         [distinct |-> a[1], items |-> a[2], order |-> a[3], skip |-> a[4], limit |-> a[5]])
ParseWithClause(p) == ParseReturnClause(Expect(p, "with"))
ParseOptionalReturn(p) == Opt(p, "return", "returns")

-----------------------------------------------------------------------------
(* Updating clauses *)

ParseSetItem(p) ==
    LET q == ExpectIdent(p)
        assigned == Parse(Expect(ExpectDotProperty(q), "="), "expression")
    IN CASE At(q, "+=") ->
              Build(ParseProperties(Advance(q)), 2, LAMBDA a : [k |-> "merge", x |-> a[1], props |-> a[2]])
         [] At(q, ":") ->
              Build(ExpectIdentOrKeyword(Advance(q)), 2, LAMBDA a :
                [k |-> "label", x |-> a[1], label |-> a[2]])
         [] OTHER ->
              Build(assigned, 3, LAMBDA a : [k |-> "prop", x |-> a[1], p |-> a[2], e |-> a[3]])
ParseSetClause(p) ==
    Build(CommaList(Expect(p, "set"), "setitem"), 1, LAMBDA a : [k |-> "set", items |-> a[1]])

ParseRemoveItem(p) ==
    LET q == ExpectIdent(p)
    IN IF At(q, ".")
       THEN Build(ExpectDotProperty(q), 2, LAMBDA a : [k |-> "prop", x |-> a[1], p |-> a[2]])
       ELSE Build(ExpectIdentOrKeyword(Expect(q, ":")), 2, LAMBDA a :
              [k |-> "label", x |-> a[1], label |-> a[2]])
ParseRemoveClause(p) ==
    Build(CommaList(Expect(p, "remove"), "removeitem"), 1, LAMBDA a : [k |-> "remove", items |-> a[1]])

RECURSIVE ParseTrailingUpdates(_)
ParseTrailingUpdates(p) ==
    LET more(q) == ParseTrailingUpdates(Build(q, 2, LAMBDA a : Append(a[1], a[2])))
    IN CASE At(p, "set") -> more(ParseSetClause(p))
         [] At(p, "remove") -> more(ParseRemoveClause(p))
         [] OTHER -> p

ParseDeleteClause(p) ==
    Build(CommaList(Expect(Flag(p, "detach"), "delete"), "name"), 2, LAMBDA a :
      [k |-> "delete", detach |-> a[1], vars |-> a[2]])
ParseCreateClause(p) ==
    Build(CommaList(Expect(p, "create"), "pattern"), 1, LAMBDA a : [k |-> "create", pats |-> a[1]])

RECURSIVE ParseForeachClauses(_)
ParseForeachStatement(p) ==
    LET q == ExpectIdent(ExpectAll(p, <<"foreach", "(">>))
        list == Expect(Parse(Expect(q, "in"), "expression"), "|")
        r == ParseForeachClauses(Push(list, <<>>))
    IN IF r.ok /\ Top(r) = <<>> THEN Fail(r)
       ELSE Build(Expect(r, ")"), 3, LAMBDA a :
              [k |-> "foreach", x |-> a[1], list |-> a[2], clauses |-> a[3]])
ParseForeachClauses(p) ==
    LET more(q) == ParseForeachClauses(Build(q, 2, LAMBDA a : Append(a[1], a[2])))
        merge == CommaList(Advance(p), "pattern")
    IN CASE At(p, "create") -> more(ParseCreateClause(p))
         [] At(p, "set") -> more(ParseSetClause(p))
         [] At(p, "remove") -> more(ParseRemoveClause(p))
         [] AtAny(p, {"delete", "detach"}) -> more(ParseDeleteClause(p))
         [] At(p, "merge") -> more(Build(merge, 1, LAMBDA a : [k |-> "merge", pats |-> a[1]]))
         [] At(p, "foreach") -> more(ParseForeachStatement(p))
         [] OTHER -> p

-----------------------------------------------------------------------------
(* MATCH and what may follow it *)

ParseMatchClause(p, optional) ==
    Build(CommaList(p, "pattern"), 1, LAMBDA a : [pats |-> a[1], optional |-> optional])
RECURSIVE OptionalMatches(_)
OptionalMatches(p) ==
    IF At(p, "optional")
    THEN OptionalMatches(Build(ParseMatchClause(ExpectAll(p, <<"optional", "match">>), TRUE), 2,
                               LAMBDA a : Append(a[1], a[2])))
    ELSE p

Segment(clauses, where, with) == [clauses |-> clauses, where |-> where, with |-> with]
(* [seg, set, del]: a SET is read before DELETE and before WITH. *)
ParseQuerySegment(p) ==
    LET first == Build(ParseMatchClause(Expect(p, "match"), FALSE), 1, LAMBDA a : a)
        clauses == IF At(p, "match") THEN OptionalMatches(first) ELSE Push(p, <<>>)
        updated == OptHere(Opt(clauses, "where", "expression"), "set", "setclause")
        deleted == Some(ParseDeleteClause(updated))
    IN IF AtAny(updated, {"delete", "detach"})
       THEN Build(deleted, 4, LAMBDA a :
              [seg |-> Segment(a[1], a[2], <<>>), set |-> a[3], del |-> a[4]])
       ELSE Build(OptHere(updated, "with", "with"), 4, LAMBDA a :
              [seg |-> Segment(a[1], a[2], a[4]), set |-> a[3], del |-> <<>>])

(* The statements that change what the segments bound. *)
MatchCreate(p, segs) ==
    Build(ParseOptionalReturn(ParseCreateClause(p)), 2, LAMBDA a :
      [k |-> "matchcreate", segs |-> segs, create |-> a[1], ret |-> a[2]])
MatchUpdate(p, segs, first) ==
    Build(ParseOptionalReturn(ParseTrailingUpdates(Push(p, <<first>>))), 2, LAMBDA a :
      [k |-> "matchupdate", segs |-> segs, updates |-> a[1], ret |-> a[2]])
MatchRemove(p, segs) ==
    LET q == ParseRemoveClause(p)
    IN IF q.ok THEN MatchUpdate([q EXCEPT !.v = p.v], segs, Top(q)) ELSE q

RECURSIVE OnSets(_)
OnSets(p) ==
    LET q == Advance(p)
        r == ParseSetClause(Advance(q))
    IN CASE ~ At(p, "on") -> p
         [] At(q, "create") -> OnSets(Build(r, 2, LAMBDA a : [a[1] EXCEPT !.create = <<a[2]>>]))
         [] At(q, "match") -> OnSets(Build(r, 2, LAMBDA a : [a[1] EXCEPT !.match = <<a[2]>>]))
         [] OTHER -> Fail(q)
(* A WITH before MERGE is read and not kept. *)
ParseMerge(p, clauses, where) ==
    LET q == CommaList(Expect(p, "merge"), "pattern")
        r == OnSets(Push(q, [create |-> <<>>, match |-> <<>>]))
    IN Build(ParseOptionalReturn(r), 3, LAMBDA a :
         [k |-> "merge", clauses |-> clauses, where |-> where, pats |-> a[1], on |-> a[2],
          ret |-> a[3]])

RECURSIVE ParseCallSubqueryBranch(_)
ParseCallSubqueryBranch(p) ==
    LET body == Opt(ParseMatchClause(Expect(Opt(p, "with", "names"), "match"), FALSE),
                    "where", "expression")
        items == CommaList(Expect(body, "return"), "aliased")
        union == ParseCallSubqueryBranch(Flag(Advance(items), "all"))
        branches == IF At(items, "union") THEN Build(union, 2, LAMBDA a : a) ELSE Push(items, <<>>)
    IN Build(branches, 5, LAMBDA a :
         [with |-> a[1], match |-> a[2], where |-> a[3], items |-> a[4], union |-> a[5]])
ParseCallSubquery(p) == Expect(ParseCallSubqueryBranch(ExpectAll(p, <<"call", "{">>)), "}")

(* FOREACH, or CALL { } and the RETURN. *)
MatchEnd(p, segs) ==
    IF At(p, "foreach")
    THEN Build(ParseForeachStatement(p), 1, LAMBDA a :
           [k |-> "matchforeach", segs |-> segs, foreach |-> a[1]])
    ELSE Build(ParseReturnClause(Expect(OptHere(p, "call", "callsubquery"), "return")), 2, LAMBDA a :
           [k |-> "match", segs |-> segs, call |-> a[1], ret |-> a[2]])

(* After a segment that ends in WITH; a SET goes before a CREATE here. *)
RECURSIVE AfterWith(_, _)
AfterWith(p, segs) ==
    LET q == CASE AtAny(p, {"match", "optional"}) -> ParseQuerySegment(p)
               [] At(p, "where") -> OptHere(Parse(Advance(p), "expression"), "with", "with")
               [] OTHER -> ParseWithClause(p)
        top == Top(q)
        r == [q EXCEPT !.v = p.v]
        filter == Segment(<<>>, <<q.v[Len(q.v) - 1]>>, top)
        chained == Segment(<<>>, <<>>, <<top>>)
    IN CASE Last(segs).with = <<>> \/ ~ AtAny(p, {"match", "optional", "with", "where"}) ->
              MatchEnd(p, segs)
         [] ~ q.ok -> q
         [] At(p, "with") -> AfterWith(r, Append(segs, chained))
         [] At(p, "where") -> AfterWith(r, Append(segs, filter))
         [] top.del # <<>> -> Fail(q)
         [] top.set # <<>> -> MatchUpdate(r, Append(segs, top.seg), top.set[1])
         [] At(q, "create") -> MatchCreate(r, Append(segs, top.seg))
         [] At(q, "remove") -> MatchRemove(r, Append(segs, top.seg))
         [] OTHER -> AfterWith(r, Append(segs, top.seg))

(* A DELETE keeps the patterns of all clauses, optional or not.            *)
FirstSegment(q, r) ==
    LET top == Top(q)
        segs == <<top.seg>>
    IN CASE ~ q.ok -> q
         [] top.del # <<>> ->
              Push(r, [k |-> "delete", pats |-> FlattenSeq([i \in DOMAIN top.seg.clauses |->
                                                              top.seg.clauses[i].pats]),
                       where |-> top.seg.where, set |-> top.set, del |-> top.del[1]])
         [] At(q, "create") -> MatchCreate(r, segs)
         [] top.set # <<>> -> MatchUpdate(r, segs, top.set[1])
         [] At(q, "remove") -> MatchRemove(r, segs)
         [] At(q, "merge") -> ParseMerge(r, top.seg.clauses, top.seg.where)
         [] OTHER -> AfterWith(r, segs)
ParseMatchOrDelete(p) == LET q == ParseQuerySegment(p) IN FirstSegment(q, [q EXCEPT !.v = p.v])

(* Only the first UNION decides whether duplicates stay. *)
RECURSIVE UnionBranches(_)
UnionBranches(p) ==
    LET q == Advance(p)
        r == ParseMatchOrDelete(IF At(q, "all") THEN Advance(q) ELSE q)
    IN CASE ~ At(p, "union") -> p
         [] r.ok /\ Top(r).k # "match" -> Fail(r)
         [] OTHER -> UnionBranches(Build(r, 2, LAMBDA a : Append(a[1], a[2])))
ParseUnion(p) ==
    IF Top(p).k # "match" THEN Fail(p)
    ELSE Build(UnionBranches(Some(p)), 1, LAMBDA a :
           [k |-> "union", queries |-> a[1], all |-> KindAt(p, 2) = "all"])

-----------------------------------------------------------------------------
(* The other statements *)

ParseCreate(p) ==
    Build(ParseOptionalReturn(ParseCreateClause(p)), 2, LAMBDA a :
      [k |-> "create", create |-> a[1], ret |-> a[2]])
ParseUnwind(p) ==
    LET q == ExpectIdent(Expect(Parse(Expect(p, "unwind"), "expression"), "as"))
        r == OptHere(OptHere(q, "create", "createclause"), "set", "setclause")
    IN Build(ParseOptionalReturn(r), 5, LAMBDA a :
         [k |-> "unwind", list |-> a[1], x |-> a[2], create |-> a[3], set |-> a[4], ret |-> a[5]])
ParseStandaloneReturn(p) ==
    Build(ParseReturnClause(Expect(p, "return")), 1, LAMBDA a : [k |-> "return", ret |-> a[1]])

(* CALL proc(args) YIELD cols, then WHERE, MATCH and WITH segments. *)
RECURSIVE ProcedureParts(_), ProcedureSegments(_)
ProcedureParts(p) ==
    IF At(p, ".") THEN ProcedureParts(Build(ExpectDotProperty(p), 2, LAMBDA a : Append(a[1], a[2])))
    ELSE p
WhereOnly(q) == Build(q, 2, LAMBDA a : Append(a[1], Segment(<<>>, <<a[2]>>, <<>>)))
ProcedureSegments(p) ==
    LET segment == ParseQuerySegment(p)
        opt == Opt(ParseMatchClause(ExpectAll(p, <<"optional", "match">>), TRUE), "where", "expression")
        afterWith == p.ok /\ Top(p) # <<>> /\ Last(Top(p)).with # <<>>
    IN CASE At(p, "match") ->
              IF ~ segment.ok \/ Top(segment).del # <<>> \/ Top(segment).set # <<>> THEN Fail(segment)
              ELSE ProcedureSegments(Build(segment, 2, LAMBDA a : Append(a[1], a[2].seg)))
         [] At(p, "optional") ->
              ProcedureSegments(Build(opt, 3, LAMBDA a : Append(a[1], Segment(<<a[2]>>, a[3], <<>>))))
         [] At(p, "with") ->
              ProcedureSegments(Build(ParseWithClause(p), 2, LAMBDA a :
                                  Append(a[1], Segment(<<>>, <<>>, <<a[2]>>))))
         [] At(p, "where") /\ afterWith ->
              ProcedureSegments(WhereOnly(Parse(Advance(p), "expression")))
         [] OTHER -> p
ParseProcedureContinuation(p, hasYield) ==
    LET q == Push(p, <<>>)
    IN CASE ~ AtAny(p, {"where", "match", "optional", "with"}) -> q
         [] ~ hasYield -> Fail(q)
         [] At(p, "where") -> ProcedureSegments(WhereOnly(Parse(Advance(q), "expression")))
         [] OTHER -> ProcedureSegments(q)
ParseYieldItem(p) ==
    Build(Aliased(ExpectIdentOrKeyword(p)), 2, LAMBDA a : [column |-> a[1], as |-> a[2]])
ParseProcedureCall(p) ==
    LET q == Expect(ProcedureParts(Some(ExpectIdent(Expect(p, "call")))), "(")
        args == Expect(IF At(q, ")") THEN Push(q, <<>>) ELSE CommaList(q, "expression"), ")")
        yields == IF At(args, "yield") THEN CommaList(Advance(args), "yielditem") ELSE Push(args, <<>>)
        segs == ParseProcedureContinuation(yields, yields.ok /\ Top(yields) # <<>>)
        looped == OptHere(segs, "foreach", "foreach")
        r == IF looped.ok /\ Top(looped) = <<>> THEN ParseOptionalReturn(looped)
             ELSE Push(looped, <<>>)
        reads == \E i \in DOMAIN Top(segs) : Top(segs)[i].clauses # <<>> \/ Top(segs)[i].with # <<>>
    IN IF r.ok /\ reads /\ Top(r) = <<>> /\ Top(looped) = <<>> THEN Fail(r)
       ELSE Build(r, 6, LAMBDA a :
              [k |-> "call", proc |-> a[1], args |-> a[2], yields |-> a[3], segs |-> a[4],
               foreach |-> a[5], ret |-> a[6]])

-----------------------------------------------------------------------------
(* Constraints, indexes and users *)

(* x.p where x must be the variable declared in the FOR pattern. *)
RECURSIVE PropertiesOf(_, _)
OwnProperty(p, x) ==
    LET q == ExpectDotProperty(ExpectIdent(p))
    IN IF q.ok /\ q.v[Len(q.v) - 1] = x THEN Build(q, 2, LAMBDA a : a[2]) ELSE Fail(q)
PropertiesOf(p, x) ==
    IF At(p, ",") THEN PropertiesOf(Build(OwnProperty(Advance(p), x), 2, LAMBDA a : Append(a[1], a[2])), x)
    ELSE p
ParseOwnProperties(p, x) == PropertiesOf(Some(OwnProperty(p, x)), x)

LabelledNode(p) ==
    Expect(ExpectIdentOrKeyword(Expect(ExpectIdent(Expect(p, "(")), ":")), ")")

TypeNames ==
    [integer |-> "integer", int |-> "integer", float |-> "float", double |-> "float",
     string |-> "string", boolean |-> "boolean", bool |-> "boolean"]
ParseConstraintType(p) ==
    LET type == ExpectIdent(ExpectAll(p, <<":", ":">>))
    IN CASE At(p, "unique") -> Push(Advance(p), <<"unique">>)
         [] At(p, "not") -> Push(ExpectAll(p, <<"not", "null">>), <<"notnull">>)
         [] At(p, ":") -> IF type.ok /\ Top(type) \in DOMAIN TypeNames
                          THEN Build(type, 1, LAMBDA a : <<"type", TypeNames[a[1]]>>) ELSE Fail(type)
         [] OTHER -> Fail(p)

ConstraintOf(name, label, type, props) ==
    [k |-> "createconstraint", name |-> name, label |-> label, type |-> type, props |-> props]

(* (s:S)-[r:T]->(t:T2); the direction of the arrow is not kept. *)
ParseEndpointLabelConstraint(p) ==
    LET q == Advance(p)
        open == Expect(IF At(q, "-") THEN Advance(q) ELSE q, "[")
        type == Expect(ExpectIdentOrKeyword(Expect(OptIdent(open), ":")), "]")
        target == Expect(IF AtAny(type, {"->", "-"}) THEN Advance(type) ELSE type, "(")
        closed == Expect(ExpectIdentOrKeyword(Expect(OptIdent(target), ":")), ")")
    IN Build(closed, 7, LAMBDA a : ConstraintOf(a[1], a[5], <<"endpoint", a[3], a[7]>>, <<>>))

ParseCreateConstraint(p) ==
    LET q == LabelledNode(Expect(ExpectIdent(ExpectAll(p, <<"create", "constraint">>)), "for"))
        r == Expect(q, "require")
        var == q.v[Len(q.v) - 1]
        labelled == ExpectIdentOrKeyword(Expect(ExpectIdent(r), ":"))
        props == IF At(r, "(") THEN Expect(ParseOwnProperties(Advance(r), var), ")")
                 ELSE Some(OwnProperty(r, var))
        typed == ParseConstraintType(Expect(props, "is"))
    IN CASE ~ q.ok -> q
         [] EdgeStart(q) -> ParseEndpointLabelConstraint(q)
         [] At(r, "id") /\ KindAt(r, 2) = ":" ->
              IF labelled.ok /\ labelled.v[Len(labelled.v) - 1] = var
              THEN Build(labelled, 5, LAMBDA a : ConstraintOf(a[1], a[3], <<"label", a[5]>>, <<>>))
              ELSE Fail(labelled)
         [] OTHER -> Build(typed, 5, LAMBDA a : ConstraintOf(a[1], a[3], a[5], a[4]))

ParseCreateFulltextIndex(p) ==
    LET q == Expect(ExpectIdent(ExpectAll(p, <<"create", "fulltext", "index">>)), "for")
        node == Expect(LabelledNode(q), "on")
        var == node.v[Len(node.v) - 1]
        each == At(node, "id") /\ node.ts[1][2] = "each"
        props == IF each THEN Expect(ParseOwnProperties(Expect(Advance(node), "["), var), "]")
                 ELSE Expect(ParseOwnProperties(Expect(node, "("), var), ")")
    IN IF ~ node.ok THEN node
       ELSE Build(props, 4, LAMBDA a :
              [k |-> "createfulltext", name |-> a[1], label |-> a[3], props |-> a[4]])

ParsePropertyIndex(p, word) ==
    LET label == Expect(ExpectIdentOrKeyword(ExpectAll(p, <<word, "index", "on", ":">>)), "(")
    IN Build(Expect(ExpectIdentOrKeyword(label), ")"), 2, LAMBDA a :
         [k |-> word \o "index", label |-> a[1], p |-> a[2]])

DropNamed(p, words, k) == Build(ExpectIdent(ExpectAll(p, words)), 1, LAMBDA a : [k |-> k, name |-> a[1]])

ParseShow(p) ==
    LET q == Expect(p, "show")
        named == At(q, "id") /\ q.ts[1][2] \in {"constraints", "users", "indexes"}
    IN CASE At(q, "user") -> Push(Advance(q), [k |-> "show", of |-> "users"])
         [] At(q, "index") -> Push(Advance(q), [k |-> "show", of |-> "indexes"])
         [] named -> Push(Advance(q), [k |-> "show", of |-> q.ts[1][2]])
         [] OTHER -> Fail(q)

ParseRoleValue(p) == IF At(p, "str") THEN ExpectString(p) ELSE ExpectIdent(p)
SkipSet(p) == IF At(p, "set") THEN Advance(p) ELSE p
ParseCreateUser(p) ==
    LET name == ExpectIdent(ExpectAll(p, <<"create", "user">>))
        password == ExpectString(ExpectAll(name, <<"set", "password">>))
    IN Build(ParseRoleValue(Expect(SkipSet(password), "role")), 3, LAMBDA a :
         [k |-> "createuser", name |-> a[1], password |-> a[2], role |-> a[3]])
ParseAlterUser(p) ==
    LET q == Expect(ExpectIdent(ExpectAll(p, <<"alter", "user">>)), "set")
        password == SkipSet(Some(ExpectString(Advance(q))))
    IN Build(CASE At(q, "password") -> Opt(password, "role", "role")
               [] At(q, "role") -> Some(ParseRoleValue(Advance(Push(q, <<>>))))
               [] OTHER -> Fail(q), 3, LAMBDA a :
         [k |-> "alteruser", name |-> a[1], password |-> a[2], role |-> a[3]])

-----------------------------------------------------------------------------
(* A whole statement *)

Prefixed(p, word) == Build(Parse(Advance(p), "statement"), 1, LAMBDA a : [k |-> word, of |-> a[1]])
OrUnion(p) == IF At(p, "union") THEN ParseUnion(p) ELSE p

ParseStatement(p) ==
    LET first == KindAt(p, 1)
        second == KindAt(p, 2)
        standalone == ParseReturnClause(Expect(Some(ParseCallSubquery(p)), "return"))
    IN CASE first \in {"explain", "profile"} -> Prefixed(p, first)
         [] first = "create" ->
              (CASE second = "constraint" -> ParseCreateConstraint(p)
                 [] second = "fulltext" -> ParseCreateFulltextIndex(p)
                 [] second = "index" -> ParsePropertyIndex(p, "create")
                 [] second = "user" -> ParseCreateUser(p)
                 [] OTHER -> OrUnion(ParseCreate(p)))
         [] first = "match" -> OrUnion(ParseMatchOrDelete(p))
         [] first = "merge" -> ParseMerge(p, <<>>, <<>>)
         [] first = "unwind" -> ParseUnwind(p)
         [] first = "foreach" -> ParseForeachStatement(p)
         [] first = "return" -> ParseStandaloneReturn(p)
         [] first = "drop" ->
              (CASE second = "fulltext" -> DropNamed(p, <<"drop", "fulltext", "index">>, "dropfulltext")
                 [] second = "index" -> ParsePropertyIndex(p, "drop")
                 [] second = "user" -> DropNamed(p, <<"drop", "user">>, "dropuser")
                 [] OTHER -> DropNamed(p, <<"drop", "constraint">>, "dropconstraint"))
         [] first = "alter" -> ParseAlterUser(p)
         [] first = "show" -> ParseShow(p)
         [] first = "call" ->
              (CASE second = "id" -> ParseProcedureCall(p)
                 [] second = "{" ->
                      OrUnion(Build(standalone, 2, LAMBDA a :
                                [k |-> "match", segs |-> <<>>, call |-> a[1], ret |-> a[2]]))
                 [] OTHER -> Fail(p))
         [] OTHER -> Fail(p)

(* Everything must have been read. *)
ParseQuery(ts) ==
    LET p == ParseStatement(Start(ts)) IN IF p.ts = <<>> THEN p ELSE Fail(p)

Parse(p, rule) ==
    IF ~ p.ok THEN p
    ELSE CASE rule = "expression" -> ParseOrExpression(p)
           [] rule = "and" -> ParseAndExpression(p)
           [] rule = "comparison" -> ParseComparison(p)
           [] rule = "additive" -> ParseAdditive(p)
           [] rule = "multiplicative" -> ParseMultiplicative(p)
           [] rule = "unary" -> ParseUnary(p)
           [] rule = "postfix" -> ParsePostfix(p)
           [] rule = "primary" -> ParsePrimary(p)
           [] rule = "pattern" -> ParsePattern(p)
           [] rule = "item" -> ParseReturnItem(p)
           [] rule = "aliased" -> ParseAliasedItem(p)
           [] rule = "orderitem" -> ParseOrderByItem(p)
           [] rule = "orderby" -> ParseOrderByClause(p)
           [] rule = "count" -> ParseSkipLimitExpr(p)
           [] rule = "returns" -> ParseReturnClause(p)
           [] rule = "with" -> ParseWithClause(p)
           [] rule = "setitem" -> ParseSetItem(p)
           [] rule = "setclause" -> ParseSetClause(p)
           [] rule = "removeitem" -> ParseRemoveItem(p)
           [] rule = "createclause" -> ParseCreateClause(p)
           [] rule = "foreach" -> ParseForeachStatement(p)
           [] rule = "callsubquery" -> ParseCallSubquery(p)
           [] rule = "yielditem" -> ParseYieldItem(p)
           [] rule = "name" -> ExpectIdent(p)
           [] rule = "names" -> CommaList(p, "name")
           [] rule = "role" -> ParseRoleValue(p)
           [] rule = "statement" -> ParseStatement(p)
=============================================================================
