------------------------------ MODULE Database ------------------------------
(***************************************************************************)
(* The statements of Store as the steps of one database.  The constants    *)
(* are the statements a client may send and the engine that carries them   *)
(* out, which is Store's Execute.                                          *)
(***************************************************************************)
EXTENDS Store

CONSTANTS
    Engine(_, _, _),    \* Execute(kind, db, s)
    Stmts(_, _),        \* the statements of a kind that clients send, by schema
    Schemas,            \* which definitions clients make in one behaviour
    Probes,             \* node patterns that a reader asks for
    MaxNodes, MaxEdges  \* bounds of this model on the slots in use

VARIABLES
    db,
    ddl,    \* the schema of this behaviour
    late    \* what no index was told: <<definition, node>>, for the properties alone
vars == <<db, ddl, late>>

(* The definitions of indexes, and what each would have to follow of a     *)
(* node: reindex_node_property is called where a property changes and not  *)
(* where a label does; a full-text index is written when a node or the     *)
(* index is created and at no other time.                                  *)
Defined(d) == d.pi.defs \cup {<<f>> : f \in DOMAIN d.ft}
Followed(d, def, n) ==
    [label |-> PrimaryLabel(d.g, n),
     texts |-> IF def \in d.pi.defs THEN Nothing
               ELSE [p \in d.ft[def[1]].props |-> OldValue(d.g, n, p)]]
Slipped(d, e) ==
    {x \in (Defined(d) \cap Defined(e)) \X (DOMAIN d.g.nodes \cap DOMAIN e.g.nodes) :
        Followed(d, x[1], x[2]) # Followed(e, x[1], x[2])}

Init ==
    /\ db = [g |-> EmptyGraph, pi |-> EmptyIndex, cs |-> Nothing, ft |-> FX!NoEntries]
    /\ ddl \in Schemas
    /\ late = {}

(* What a statement did stays, whether it succeeds or not. *)
Keep(r) ==
    /\ r.db.g.ncap <= MaxNodes /\ r.db.g.ecap <= MaxEdges
    /\ db' = r.db
    /\ late' = {x \in late \cup Slipped(db, r.db) :
                  x[1] \in Defined(r.db) /\ x[2] \in DOMAIN r.db.g.nodes}
    /\ UNCHANGED ddl

Carry(kind) == \E s \in Stmts(kind, ddl) : Keep(Engine(kind, db, s))

Create == Carry("create")
Delete == Carry("delete")
MatchCreate == Carry("matchcreate")
Update == Carry("matchupdate")
Merge == Carry("merge")
Unwind == Carry("unwind")
ForeachStmt == Carry("foreach")
AddConstraint == Carry("createconstraint")
RemoveConstraint == Carry("dropconstraint")
AddIndex == Carry("createindex")
RemoveIndex == Carry("dropindex")
AddFulltext == Carry("createfulltext")
RemoveFulltext == Carry("dropfulltext")

Next ==
    \/ Create \/ Delete \/ MatchCreate \/ Update \/ Merge \/ Unwind \/ ForeachStmt
    \/ AddConstraint \/ RemoveConstraint \/ AddIndex \/ RemoveIndex
    \/ AddFulltext \/ RemoveFulltext

Spec == Init /\ [][Next]_vars

-----------------------------------------------------------------------------
(* Every slot is in use or waits in its free list, once; the adjacency     *)
(* sets are exactly the edges of each end; the label index is exactly the  *)
(* labels of the nodes; the counters count.  graph.rs keeps these eight    *)
(* structures by hand in every operation.                                  *)
GraphConsistent ==
    LET g == db.g IN
    /\ Range(g.nfree) = (0 .. g.ncap - 1) \ DOMAIN g.nodes /\ IsInjective(g.nfree)
    /\ Range(g.efree) = (0 .. g.ecap - 1) \ DOMAIN g.edges /\ IsInjective(g.efree)
    /\ \A n \in DOMAIN g.nodes :
          /\ g.out[n] = {e \in DOMAIN g.edges : g.edges[e].from = n}
          /\ g.inc[n] = {e \in DOMAIN g.edges : g.edges[e].to = n}
    /\ \A e \in DOMAIN g.edges : {g.edges[e].from, g.edges[e].to} \subseteq DOMAIN g.nodes
    /\ \A l \in Labels : g.index[l] = {n \in DOMAIN g.nodes : HasLabel(g, n, l)}
    /\ g.ncount = Cardinality(DOMAIN g.nodes) /\ g.ecount = Cardinality(DOMAIN g.edges)

(* What an index does to the answer of a MATCH, whatever was created, set, *)
(* removed, deleted, dropped and created again: it adds no row, and it     *)
(* misses only a node whose primary label is not the one that is asked     *)
(* for, or was another one when the node was indexed, or whose number has  *)
(* the other type than the one that is looked up.  reindex_node_property   *)
(* keeps the entries of a primary label; docs/indexes/property-index.md    *)
(* promises an index of every node of the label.                           *)
IndexTransparent ==
    \A pat \in Probes :
        LET rows(pi) == MatchNodePattern(db.g, pi, <<>>, pat, <<NoRow>>)
            found(pi) == {rows(pi)[i][pat.var][2] : i \in DOMAIN rows(pi)}
            l == pat.labels[1]
        IN /\ IsInjective(rows(db.pi)) /\ found(db.pi) \subseteq found(EmptyIndex)
           /\ \A n \in found(EmptyIndex) \ found(db.pi) :
                \/ PrimaryLabel(db.g, n) # l
                \/ \E p \in IndexedProps(db.pi, pat) :
                      <<<<l, p>>, n>> \in late \/ ValueOf(db.g, n, p)[1] # pat.props[p].v[1]

(* CALL proc(...) YIELD col AS x RETURN x. *)
CallFor(col, pc) ==
    Engine("call", db,
        pc @@ [yield |-> <<[col |-> col, name |-> "x"]>>, segs |-> <<>>,
               ret |-> [distinct |-> FALSE, items |-> <<[k |-> "var", x |-> "x"]>>,
                        order |-> <<>>, skip |-> <<>>, limit |-> <<>>]]).res
Search(f, text) ==
    CallFor("node", [proc |-> "search", index |-> f,
                     query |-> [form |-> "words", text |-> text, max |-> 0]])

(* A node is found in a full-text index of its primary label by each word  *)
(* of its text, also when its slot was used by a node with another text,   *)
(* unless the text or the label changed since: no SET reaches a full-text  *)
(* index, whatever docs/indexes/fulltext-index.md says.  An index that was *)
(* dropped cannot be asked.                                                *)
FulltextFinds ==
    /\ \A f \in DOMAIN db.ft : \A n \in DOMAIN db.g.nodes : \A p \in db.ft[f].props :
          (PrimaryLabel(db.g, n) = db.ft[f].label /\ HasProp(db.g, n, p)
             /\ ValueOf(db.g, n, p)[1] = "str" /\ <<<<f>>, n>> \notin late) =>
            \A t \in Range(FX!Tokenize(ValueOf(db.g, n, p)[2])) :
               <<<<"node", n>>>> \in Range(Search(f, t).rows)
    /\ \A s \in Stmts("createfulltext", ddl) : Search(s.name, <<1>>).ok <=> s.name \in DOMAIN db.ft

(* MERGE is idempotent: after one that succeeds the same MERGE finds what   *)
(* it asked for, through whatever indexes there are, and changes nothing.  *)
MergeIdempotent ==
    \A s \in Stmts("merge", ddl) :
        LET r == Engine("merge", db, s) IN
        (r.ok /\ s.onMatch = <<>>) => Engine("merge", r.db, s) = r

(* The nodes, alone or two at a time, that break a constraint. *)
Breaks(d, c) ==
    LET of == {n \in DOMAIN d.g.nodes : HasLabel(d.g, n, c.label)}
        has(n, p) == HasProp(d.g, n, p)
    IN CASE c.kind = "unique" ->
              {N \in {{m, n} : m, n \in of} : Cardinality(N) = 2 /\
                 \A m, n \in N : \A p \in c.props :
                    has(m, p) /\ has(n, p) /\ ValueOf(d.g, m, p) = ValueOf(d.g, n, p)}
         [] c.kind = "notnull" ->
              {{n} : n \in {n \in of : \E p \in c.props : ~ has(n, p) \/ ValueOf(d.g, n, p) = Null}}
         [] OTHER -> {}

(* A node that comes under a constraint unseen: SET adds its label to it,  *)
(* or it is created with the label as one but the first.                   *)
Labelled(d, e, c, n) ==
    IF ContainsNode(d.g, n) THEN ~ HasLabel(d.g, n, c.label) ELSE PrimaryLabel(e.g, n) # c.label
(* SET += checks each property of a key beside the old values of the rest. *)
Rekeyed(d, e, c, n) ==
    /\ c.kind = "unique" /\ {n} \subseteq DOMAIN d.g.nodes \cap DOMAIN e.g.nodes
    /\ Cardinality({p \in c.props : OldValue(d.g, n, p) # OldValue(e.g, n, p)}) >= 2

(* No statement, one that fails halfway through its rows included, makes   *)
(* nodes break a constraint, unless one of them got the label unseen or    *)
(* had two properties of a key set at once: CREATE, SET of a property and  *)
(* REMOVE are checked, and nothing else is, whatever                       *)
(* docs/indexes/constraints.md says.                                       *)
KeepsConstraints ==
    [][\A name \in {name \in DOMAIN db.cs \cap DOMAIN db'.cs : db.cs[name] = db'.cs[name]} :
          LET c == db.cs[name] IN
          \A N \in Breaks(db', c) \ Breaks(db, c) :
              \E n \in N : Labelled(db, db', c, n) \/ Rekeyed(db, db', c, n)]_vars

(* The edges that fit a hop whose variable a DELETE names. *)
NamedEdges(s) ==
    {e \in DOMAIN db.g.edges : \E pat \in {p \in Range(s.pats) : "segs" \in DOMAIN p} :
        \E i \in DOMAIN pat.segs :
            LET seg == pat.segs[i]
                before == IF i = 1 THEN pat.start ELSE pat.segs[i - 1].node
                ends == {db.g.edges[e].from, db.g.edges[e].to}
            IN /\ seg.evar \in Range(s.vars) /\ seg.type \in {AnyType, db.g.edges[e].label}
               /\ \E m, n \in ends : {m, n} = ends /\ HasAllLabels(db.g, m, before.labels)
                                     /\ HasAllLabels(db.g, n, seg.node.labels)}

(* DELETE without DETACH removes no edge but the ones it names: a node     *)
(* that is deleted had none left.                                          *)
DeleteSparesEdges ==
    \A s \in Stmts("delete", ddl) : ~ s.detach =>
        DOMAIN db.g.edges \ DOMAIN Engine("delete", db, s).db.g.edges \subseteq NamedEdges(s)

(* A MERGE that is repeated changes nothing and a DELETE without DETACH    *)
(* takes no edge along (MergeIdempotent, DeleteSparesEdges).               *)
StatementsCareful == MergeIdempotent /\ DeleteSparesEdges

(* The graph's structures agree with each other, and the indexes with the  *)
(* graph: a property index adds no row, and neither it nor a full-text     *)
(* index misses a node that it was told of.                                *)
StoreSound == GraphConsistent /\ IndexTransparent /\ FulltextFinds
=============================================================================
