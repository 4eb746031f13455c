------------------------------- MODULE Store -------------------------------
(***************************************************************************)
(* The writing statements of maharit-query/src/executor.rs on one database *)
(* db = [g, pi, cs, ft]: the graph, its property indexes, its constraints  *)
(* and its full-text indexes.                                              *)
(*                                                                         *)
(* A statement works on w = [db, b, cur, ok]: b are the bindings so far,   *)
(* cur the node a path has reached.  Nothing is undone when a later part   *)
(* fails: w.db keeps what was done, and the statement returns an error.    *)
(*                                                                         *)
(* The properties of a pattern are expressions; a hidden variable stands   *)
(* for an anonymous node or relationship.                                  *)
(***************************************************************************)
EXTENDS Queries

FX == INSTANCE Fulltext

Work(db, b) == [db |-> db, b |-> b, cur |-> 0, ok |-> TRUE]
Stop(w) == [w EXCEPT !.ok = FALSE]
Ctx(db) == [g |-> db.g, pi |-> db.pi, params |-> Nothing, ties |-> "first"]
IsNamed(x) == x \notin Hidden \cup {NoVar}
BindNamed(b, x, v) == IF IsNamed(x) THEN With(b, x, v) ELSE b

(* Runs Op over a sequence until one step fails. *)
Each(s, Op(_, _), w) == FoldLeft(LAMBDA acc, x : IF acc.ok THEN Op(acc, x) ELSE acc, w, s)

-----------------------------------------------------------------------------
(* The constraint manager of maharit-core/src/constraint.rs, a function from *)
(* names to constraints [kind, label, props, arg]: kind is "unique",         *)
(* "notnull", "type", "required" or "endpoint"; props is a set of            *)
(* properties; arg is the value type, the required label, or the labels of   *)
(* the two endpoints.                                                        *)

TypeOf(v) == v[1]

(* No other node of the label has all the given values. *)
UniqueAmong(g, c, props, except) ==
    ~ \E n \in DOMAIN g.nodes \ except :
        /\ HasLabel(g, n, c.label)
        /\ \A p \in c.props : HasProp(g, n, p) /\ ValueOf(g, n, p) = props[p]

(* Does not apply while one of the properties is missing. *)
CheckUnique(g, c, props, except) ==
    c.props \subseteq DOMAIN props => UniqueAmong(g, c, props, except)

CheckType(v, t) == v = Null \/ TypeOf(v) = t

ValidateNodeCreate(cs, g, label, props) ==
    \A name \in DOMAIN cs :
        LET c == cs[name] IN
        c.label = label =>
            CASE c.kind = "unique" -> CheckUnique(g, c, props, {})
              [] c.kind = "notnull" -> \A p \in c.props : p \in DOMAIN props /\ props[p] # Null
              [] c.kind = "type" ->
                   \A p \in c.props \cap DOMAIN props : CheckType(props[p], c.arg)
              [] c.kind = "required" -> label = c.arg
              [] OTHER -> TRUE

ValidateEdgeCreate(cs, g, label, a, b) ==
    \A name \in DOMAIN cs :
        LET c == cs[name] IN
        (c.kind = "endpoint" /\ c.label = label) =>
            HasLabel(g, a, c.arg[1]) /\ HasLabel(g, b, c.arg[2])

(* The other properties of a composite key are read from the node as it is. *)
PropsAfterSet(g, n, c, p, v) ==
    [q \in {q \in c.props : q = p \/ HasProp(g, n, q)} |->
        IF q = p THEN v ELSE ValueOf(g, n, q)]

(* A variant of ValidatePropertySet: a SET is not checked for uniqueness. *)
ValidateSetNoUnique(cs, g, n, p, v) ==
    \A name \in DOMAIN cs :
        LET c == cs[name] IN
        (HasLabel(g, n, c.label) /\ p \in c.props) =>
            CASE c.kind = "notnull" -> v # Null
              [] c.kind = "type" -> CheckType(v, c.arg)
              [] OTHER -> TRUE

ValidatePropertySet(cs, g, n, p, v) ==
    \A name \in DOMAIN cs :
        LET c == cs[name] IN
        (HasLabel(g, n, c.label) /\ p \in c.props) =>
            CASE c.kind = "unique" -> CheckUnique(g, c, PropsAfterSet(g, n, c, p, v), {n})
              [] c.kind = "notnull" -> v # Null
              [] c.kind = "type" -> CheckType(v, c.arg)
              [] OTHER -> TRUE

ValidatePropertyRemove(cs, g, n, p) ==
    \A name \in DOMAIN cs :
        ~ (cs[name].kind = "notnull" /\ HasLabel(g, n, cs[name].label) /\ p \in cs[name].props)

(* AlreadyExists and NotFound leave the manager as it is. *)
CreateConstraint(cs, name, c) == IF name \in DOMAIN cs THEN cs ELSE With(cs, name, c)
DropConstraint(cs, name) == Without(cs, {name})

-----------------------------------------------------------------------------
(* Property values *)

ValueToProperty(v) ==
    IF v[1] \in {"null", "bool", "int", "float", "str", "date", "dur"} THEN v ELSE Err

EvalProps(db, props, b) ==
    [p \in DOMAIN props |-> ValueToProperty(Eval(Ctx(db), props[p], b))]
Evaluated(vals) == \A p \in DOMAIN vals : ~ Failed(vals[p])

(* The pattern as MATCH reads it. *)
MatchForm(ctx, pat) ==
    LET node(n) == [n EXCEPT !.props = [p \in DOMAIN @ |-> PatternValue(ctx, @[p])]]
    IN IF "segs" \notin DOMAIN pat THEN node(pat)
       ELSE [pat EXCEPT !.start = node(@),
                        !.segs = Mapped(@, LAMBDA s : [s EXCEPT !.node = node(@)])]

MatchAll(db, pats, bs) ==
    MatchPatterns(db.g, db.pi, <<>>, Mapped(pats, LAMBDA p : MatchForm(Ctx(db), p)), bs)

(* A variant of ReindexNodeProperty: the old value goes, the new one is not entered. *)
UnindexOnly(db, n, p, old, new) ==
    IF ~ HasIndex(db.pi, PrimaryLabel(db.g, n), p) \/ old = <<>> THEN db
    ELSE [db EXCEPT !.pi = UnindexProperty(@, n, p, old[1])]

(* The index follows a property when the primary label is indexed. *)
ReindexNodeProperty(db, n, p, old, new) ==
    IF ~ HasIndex(db.pi, PrimaryLabel(db.g, n), p) THEN db
    ELSE LET gone == IF old = <<>> THEN db.pi ELSE UnindexProperty(db.pi, n, p, old[1])
         IN [db EXCEPT !.pi = IF new = <<>> THEN gone ELSE IndexProperty(gone, n, p, new[1])]

OldValue(g, n, p) == IF HasProp(g, n, p) THEN <<ValueOf(g, n, p)>> ELSE <<>>

SetAndReindex(db, n, p, v) ==
    ReindexNodeProperty([db EXCEPT !.g = SetNodeProperty(@, n, p, v)], n, p,
                        OldValue(db.g, n, p), <<v>>)

-----------------------------------------------------------------------------
(* CREATE *)

TextsOf(vals) ==
    [p \in {p \in DOMAIN vals : vals[p][1] = "str"} |-> vals[p][2]]

(* Constraints and indexes look at the first label alone. *)
CreateNode(w, pat) ==
    LET vals == EvalProps(w.db, pat.props, w.b)
        label == IF pat.labels = <<>> THEN NoLabel ELSE pat.labels[1]
        n == NextNodeSlot(w.db.g)
        props == SetToSeq(DOMAIN vals)
        g == FoldLeft(LAMBDA acc, p : SetNodeProperty(acc, n, p, vals[p]),
                      CreateNodeWithLabels(w.db.g, pat.labels), props)
        pi == FoldLeft(LAMBDA acc, p : IF HasIndex(acc, label, p)
                                       THEN IndexProperty(acc, n, p, vals[p]) ELSE acc,
                       w.db.pi, props)
    IN IF ~ Evaluated(vals) \/ ~ ValidateNodeCreate(w.db.cs, w.db.g, label, vals) THEN Stop(w)
       ELSE [w EXCEPT !.db = [g |-> g, pi |-> pi, cs |-> w.db.cs,
                              ft |-> FX!FtIndexNode(w.db.ft, n, label, TextsOf(vals))],
                      !.b = BindNamed(@, pat.var, <<"node", n>>),
                      !.cur = n]

(* A bound variable is the end of the path; it must be a node. *)
PathNode(w, pat) ==
    IF ~ (IsNamed(pat.var) /\ pat.var \in DOMAIN w.b) THEN CreateNode(w, pat)
    ELSE IF w.b[pat.var][1] # "node" THEN Stop(w)
    ELSE [w EXCEPT !.cur = w.b[pat.var][2]]

(* The edge exists before its properties are evaluated, and stays when     *)
(* that fails.  bindEdge is FALSE for MERGE.                               *)
CreateHop(w, seg, bindEdge) ==
    LET w1 == PathNode(w, seg.node)
        from == IF seg.dir = "in" THEN w1.cur ELSE w.cur
        to == IF seg.dir = "in" THEN w.cur ELSE w1.cur
        label == IF seg.type = AnyType THEN NoLabel ELSE seg.type
        e == NextEdgeSlot(w1.db.g)
        made == CreateEdge(w1.db.g, from, to, label)
        vals == EvalProps([w1.db EXCEPT !.g = made], seg.eprops, w1.b)
        g == FoldLeft(LAMBDA acc, p : SetEdgeProperty(acc, e, p, vals[p]), made,
                      SetToSeq(DOMAIN vals))
    IN IF ~ w1.ok THEN w1
       ELSE IF \/ ~ ValidateEdgeCreate(w1.db.cs, w1.db.g, label, from, to)
               \/ ~ CanCreateEdge(w1.db.g, from, to)
       THEN Stop(w1)
       ELSE IF ~ Evaluated(vals) THEN Stop([w1 EXCEPT !.db.g = made])
       ELSE [w1 EXCEPT !.db.g = g,
                       !.b = IF bindEdge THEN BindNamed(@, seg.evar, <<"edge", e>>) ELSE @]

(* A variant of CreatePattern: only the first node of the path. *)
CreatePatternStart(w, pat, bindEdge) ==
    IF "segs" \notin DOMAIN pat THEN CreateNode(w, pat) ELSE PathNode(w, pat.start)

CreatePattern(w, pat, bindEdge) ==
    IF "segs" \notin DOMAIN pat
    THEN IF IsNamed(pat.var) /\ pat.var \in DOMAIN w.b THEN w ELSE CreateNode(w, pat)
    ELSE LET start == PathNode(w, pat.start)
         IN IF start.ok THEN Each(pat.segs, LAMBDA acc, s : CreateHop(acc, s, bindEdge), start)
            ELSE start

CreateWithBindings(w, pats) ==
    Each(pats, LAMBDA acc, pat : CreatePattern(acc, pat, TRUE), w)

(* Every row in turn; rows collects the bindings with what was created. *)
CreateRows(db, pats, bs) ==
    FoldLeft(LAMBDA acc, b :
                IF ~ acc.ok THEN acc
                ELSE LET w == CreateWithBindings(Work(acc.db, b), pats)
                     IN [db |-> w.db, ok |-> w.ok, rows |-> Append(acc.rows, w.b)],
             [db |-> db, ok |-> TRUE, rows |-> <<>>], bs)

-----------------------------------------------------------------------------
(* SET and REMOVE.  A set item is [k |-> "prop" | "merge" | "label", x,    *)
(* ...]; a remove item [k |-> "prop" | "label", x, ...].                   *)

Kind(w, x) == IF x \in DOMAIN w.b THEN w.b[x][1] ELSE "unbound"
Id(w, x) == w.b[x][2]

SetProperties(w, x, vals) ==
    LET keys == SetToSeq(DOMAIN vals) IN
    CASE Kind(w, x) = "node" ->
           IF \E p \in DOMAIN vals :
                 /\ ContainsNode(w.db.g, Id(w, x))
                 /\ ~ ValidatePropertySet(w.db.cs, w.db.g, Id(w, x), p, vals[p])
           THEN Stop(w)
           ELSE [w EXCEPT !.db =
                   FoldLeft(LAMBDA db, p : SetAndReindex(db, Id(w, x), p, vals[p]), @, keys)]
      [] Kind(w, x) = "edge" ->
           [w EXCEPT !.db.g =
              FoldLeft(LAMBDA g, p : SetEdgeProperty(g, Id(w, x), p, vals[p]), @, keys)]
      [] OTHER -> Stop(w)

(* Every property of a SET += is checked against the values before it. *)
ApplySetItem(w, item) ==
    IF Kind(w, item.x) = "unbound" THEN Stop(w)
    ELSE CASE item.k = "prop" ->
                LET vals == EvalProps(w.db, [p \in {item.p} |-> item.e], w.b)
                IN IF Evaluated(vals) THEN SetProperties(w, item.x, vals) ELSE Stop(w)
           [] item.k = "merge" ->
                LET vals == EvalProps(w.db, item.props, w.b)
                IN IF Evaluated(vals) THEN SetProperties(w, item.x, vals) ELSE Stop(w)
           [] OTHER ->
                IF Kind(w, item.x) = "node"
                THEN [w EXCEPT !.db.g = AddNodeLabel(@, Id(w, item.x), item.l)]
                ELSE Stop(w)

RemoveProperty(w, x, p) ==
    CASE Kind(w, x) = "node" ->
           LET n == Id(w, x)
               old == OldValue(w.db.g, n, p)
               db == [w.db EXCEPT !.g = RemoveNodeProperty(@, n, p)]
           IN IF ContainsNode(w.db.g, n) /\ ~ ValidatePropertyRemove(w.db.cs, w.db.g, n, p)
              THEN Stop(w)
              ELSE [w EXCEPT !.db = IF old = <<>> THEN db
                                    ELSE ReindexNodeProperty(db, n, p, old, <<>>)]
      [] Kind(w, x) = "edge" -> [w EXCEPT !.db.g = RemoveEdgeProperty(@, Id(w, x), p)]
      [] OTHER -> Stop(w)

ApplyRemoveItem(w, item) ==
    IF item.k = "prop" THEN RemoveProperty(w, item.x, item.p)
    ELSE IF Kind(w, item.x) = "node"
    THEN [w EXCEPT !.db.g = RemoveNodeLabel(@, Id(w, item.x), item.l)]
    ELSE Stop(w)

(* One clause, [set |-> BOOLEAN, items], over all rows: row by row, and    *)
(* item by item within a row.                                              *)
ApplyClause(db, clause, bs) ==
    FoldLeft(LAMBDA acc, b :
                IF ~ acc.ok THEN acc
                ELSE Each(clause.items,
                          LAMBDA w, i : IF clause.set THEN ApplySetItem(w, i)
                                        ELSE ApplyRemoveItem(w, i),
                          Work(acc.db, b)),
             Work(db, Nothing), bs)

ApplyUpdateClauses(db, clauses, bs) ==
    FoldLeft(LAMBDA acc, c : IF acc.ok THEN ApplyClause(acc.db, c, bs) ELSE acc,
             Work(db, Nothing), clauses)

-----------------------------------------------------------------------------
(* DELETE *)

BoundOf(bs, vars, kind) ==
    LET ids == Concat(Mapped(bs, LAMBDA b :
                 Mapped(SelectSeq(vars, LAMBDA x : x \in DOMAIN b /\ b[x][1] = kind),
                        LAMBDA x : b[x][2])))
    IN Picked(ids, DistinctBy(ids, LAMBDA i, j : i = j))

(* Edges first; without DETACH a node that still has one is passed over.   *)
(* Only the DELETE statement cleans the property index (clean); nothing    *)
(* cleans the full-text indexes.                                           *)
DeleteOne(db, n, detach, clean) ==
    IF ~ ContainsNode(db.g, n) \/ (~ detach /\ HasIncidentEdges(db.g, n)) THEN db
    ELSE [db EXCEPT !.g = GraphDeleteNode(@, n),
                    !.pi = IF clean THEN RemoveNodeEntries(@, n) ELSE @]

DeleteBound(db, bs, vars, detach, clean) ==
    LET edgeless == [db EXCEPT !.g = FoldLeft(DeleteEdge, @, BoundOf(bs, vars, "edge"))]
    IN FoldLeft(LAMBDA acc, n : DeleteOne(acc, n, detach, clean), edgeless,
                BoundOf(bs, vars, "node"))

-----------------------------------------------------------------------------
(* MERGE: match the patterns as a whole, or create all of them. *)

MergeRow(db, pats, b, onCreate, onMatch) ==
    LET found == MatchAll(db, pats, <<b>>)
        made == Each(pats, LAMBDA w, pat : CreatePattern(w, pat, FALSE), Work(db, b))
    IN IF found # <<>> THEN ApplyUpdateClauses(db, onMatch, found)
       ELSE IF ~ made.ok THEN made
       ELSE ApplyUpdateClauses(made.db, onCreate, <<made.b>>)

MergeRows(db, s, bs) ==
    FoldLeft(LAMBDA acc, b : IF acc.ok THEN MergeRow(acc.db, s.pats, b, s.onCreate, s.onMatch)
                             ELSE acc,
             Work(db, Nothing), bs)

-----------------------------------------------------------------------------
(* FOREACH: nodes of the list are bound as nodes. *)

ForeachBinding(b, x, v) == With(b, x, IF v[1] = "node" THEN v ELSE <<"val", v>>)

RECURSIVE Foreach(_, _, _)
ForeachClause(db, c, b) ==
    CASE c.k = "create" -> CreateWithBindings(Work(db, b), c.pats)
      [] c.k = "update" -> ApplyClause(db, c.clause, <<b>>)
      [] c.k = "delete" -> Work(DeleteBound(db, <<b>>, c.vars, c.detach, FALSE), b)
      [] c.k = "merge" -> MergeRow(db, c.pats, b, <<>>, <<>>)
      [] OTHER -> Foreach(db, c.foreach, b)

ForeachItem(db, f, b) ==
    FoldLeft(LAMBDA acc, c : IF acc.ok THEN ForeachClause(acc.db, c, b) ELSE acc,
             Work(db, b), f.clauses)

Foreach(db, f, outer) ==
    LET list == Eval(Ctx(db), f.e, outer)
    IN IF list[1] # "list" THEN Stop(Work(db, outer))
       ELSE FoldLeft(LAMBDA acc, v : IF acc.ok
                                     THEN ForeachItem(acc.db, f, ForeachBinding(outer, f.x, v))
                                     ELSE acc,
                     Work(db, outer), list[2])

-----------------------------------------------------------------------------
(* Statements.  What a statement leaves is [db, ok, res]. *)

Done(w, res) == [db |-> w.db, ok |-> w.ok, res |-> IF w.ok THEN res ELSE Failure]
Summary(names) == ResultSet(names, <<>>)

(* A RETURN runs after the updates, and its error undoes nothing. *)
Returning(w, s, rows, names) ==
    IF ~ w.ok THEN Done(w, Failure)
    ELSE IF s.ret = <<>> THEN Done(w, Summary(names))
    ELSE LET r == BuildResultSet(Ctx(w.db), s.ret[1], rows)
         IN [db |-> w.db, ok |-> r.ok, res |-> r]

SegmentRows(db, s) ==
    LET r == RunSegments(Ctx(db), s.segs, <<>>, <<NoRow>>)
    IN [ok |-> r.ok, bs |-> r.bs]

ExecuteCreate(db, s) ==
    LET w == CreateWithBindings(Work(db, NoRow), s.pats)
    IN Returning(w, s, <<w.b>>, <<<<"created_nodes">>, <<"created_edges">>>>)

ExecuteDelete(db, s) ==
    LET bs == Filter(Ctx(db), s.where, MatchAll(db, s.pats, <<NoRow>>))
        set == ApplyUpdateClauses(db, s.set, bs)
    IN IF ~ set.ok THEN Done(set, Failure)
       ELSE Done([set EXCEPT !.db = DeleteBound(@, bs, s.vars, s.detach, TRUE)],
                 Summary(<<<<"deleted_nodes">>, <<"deleted_edges">>>>))

ExecuteMatchCreate(db, s) ==
    LET seg == SegmentRows(db, s)
        w == CreateRows(db, s.pats, seg.bs)
    IN IF ~ seg.ok THEN Done(Stop(Work(db, NoRow)), Failure)
       ELSE Returning(w, s, w.rows, <<<<"created_nodes">>, <<"created_edges">>>>)

(* MATCH SET and MATCH REMOVE: the clauses in the order they are written. *)
ExecuteMatchUpdate(db, s) ==
    LET seg == SegmentRows(db, s)
    IN IF ~ seg.ok THEN Done(Stop(Work(db, NoRow)), Failure)
       ELSE Returning(ApplyUpdateClauses(db, s.updates, seg.bs), s, seg.bs, <<<<"properties">>>>)

(* MERGE has no RETURN here: the code builds its rows from the bindings    *)
(* after the last step and changes nothing by it.                          *)
ExecuteMerge(db, s) ==
    LET ctx == Ctx(db)
        bs == FoldLeft(LAMBDA acc, c : ExecuteMatchClause(db.g, db.pi, <<>>, c, acc),
                       <<NoRow>>, s.clauses)
    IN Done(MergeRows(db, s, Filter(ctx, s.where, bs)), Summary(<<<<"merge_result">>>>))

ExecuteUnwind(db, s) ==
    LET list == Eval(Ctx(db), s.e, NoRow)
        bs == Mapped(list[2], LAMBDA v : WithItem(NoRow, s.x, v))
        made == CreateRows(db, s.pats, bs)
        set == ApplyUpdateClauses(made.db, s.set, made.rows)
    IN IF list[1] # "list" THEN Done(Stop(Work(db, NoRow)), Failure)
       ELSE IF s.pats = <<>> THEN Returning(Work(db, NoRow), s, bs, <<<<"unwound_rows">>>>)
       ELSE IF ~ made.ok THEN Done(made, Failure)
       ELSE Returning(set, s, made.rows, <<<<"created_nodes">>, <<"created_edges">>>>)

(* FOREACH alone runs once, with no bindings. *)
ExecuteForeach(db, s) ==
    LET seg == SegmentRows(db, s)
        w == FoldLeft(LAMBDA acc, b : IF acc.ok THEN Foreach(acc.db, s.foreach, b) ELSE acc,
                      Work(db, NoRow), seg.bs)
    IN IF ~ seg.ok THEN Done(Stop(Work(db, NoRow)), Failure)
       ELSE Done(w, Summary(<<<<"foreach_result">>>>))

-----------------------------------------------------------------------------
(* Definitions of constraints and indexes *)

(* The data that is already there is not checked. *)
ExecuteCreateConstraint(db, s) ==
    [db |-> [db EXCEPT !.cs = CreateConstraint(@, s.name, s.c)],
     ok |-> s.name \notin DOMAIN db.cs, res |-> Summary(<<<<"result">>>>)]

ExecuteDropConstraint(db, s) ==
    [db |-> [db EXCEPT !.cs = DropConstraint(@, s.name)],
     ok |-> s.name \in DOMAIN db.cs, res |-> Summary(<<<<"result">>>>)]

NodesLabelled(g, l) == Ascending({n \in DOMAIN g.nodes : HasLabel(g, n, l)})

(* All nodes that carry the label, as a second one too. *)
ExecuteCreateIndex(db, s) ==
    LET have == SelectSeq(NodesLabelled(db.g, s.l), LAMBDA n : HasProp(db.g, n, s.p))
    IN [db |-> [db EXCEPT !.pi =
                  FoldLeft(LAMBDA acc, n : IndexProperty(acc, n, s.p, ValueOf(db.g, n, s.p)),
                           CreateIndexDef(@, s.l, s.p), have)],
        ok |-> TRUE, res |-> Summary(<<<<"result">>>>)]

ExecuteDropIndex(db, s) ==
    [db |-> [db EXCEPT !.pi = DropIndexDef(@, s.l, s.p)], ok |-> TRUE,
     res |-> Summary(<<<<"result">>>>)]

(* index_node writes to every full-text index of the label, not only to    *)
(* the new one.                                                            *)
ExecuteCreateFulltextIndex(db, s) ==
    LET made == FX!FtCreateIndex(db.ft, s.name, s.l, s.props)
        filled == FoldLeft(LAMBDA acc, n : FX!FtIndexNode(acc, n, s.l, TextsOf(db.g.nodes[n].props)),
                           made, NodesLabelled(db.g, s.l))
    IN IF s.name \in DOMAIN db.ft THEN [db |-> db, ok |-> FALSE, res |-> Failure]
       ELSE [db |-> [db EXCEPT !.ft = filled], ok |-> TRUE, res |-> Summary(<<<<"result">>>>)]

ExecuteDropFulltextIndex(db, s) ==
    [db |-> [db EXCEPT !.ft = FX!FtDropIndex(@, s.name)],
     ok |-> s.name \in DOMAIN db.ft, res |-> Summary(<<<<"result">>>>)]

-----------------------------------------------------------------------------
(* CALL changes nothing. *)
CallProcedure(db, s) ==
    LET r == ExecuteProcedureCall(Ctx(db), db.ft, s) IN [db |-> db, ok |-> r.ok, res |-> r]

(* Executor::execute: a statement goes to the part that carries it out.    *)
(* Statements that only read, and EXPLAIN, are answered in QueryReads and  *)
(* LanguageReads.                                                          *)
Execute(kind, db, s) ==
    CASE kind = "create" -> ExecuteCreate(db, s)
      [] kind = "delete" -> ExecuteDelete(db, s)
      [] kind = "matchcreate" -> ExecuteMatchCreate(db, s)
      [] kind = "matchupdate" -> ExecuteMatchUpdate(db, s)
      [] kind = "merge" -> ExecuteMerge(db, s)
      [] kind = "unwind" -> ExecuteUnwind(db, s)
      [] kind = "foreach" -> ExecuteForeach(db, s)
      [] kind = "createconstraint" -> ExecuteCreateConstraint(db, s)
      [] kind = "dropconstraint" -> ExecuteDropConstraint(db, s)
      [] kind = "createindex" -> ExecuteCreateIndex(db, s)
      [] kind = "dropindex" -> ExecuteDropIndex(db, s)
      [] kind = "createfulltext" -> ExecuteCreateFulltextIndex(db, s)
      [] kind = "dropfulltext" -> ExecuteDropFulltextIndex(db, s)
      [] kind = "call" -> CallProcedure(db, s)
=============================================================================
