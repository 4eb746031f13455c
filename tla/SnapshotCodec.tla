--------------------------- MODULE SnapshotCodec ---------------------------
(***************************************************************************)
(* The database files of maharit-storage (persistence.rs and               *)
(* snapshot_codec.rs).  A file is a sequence of fields; a field has the    *)
(* kind that decides how many bytes it takes and the value written into    *)
(* it.  The fields that a reader finds are the ones the writer left, but   *)
(* a file may end anywhere: between two fields, or inside one ("torn").    *)
(*                                                                         *)
(* A reader is [rest, ok, v]: the fields that are left, whether everything *)
(* so far could be read, and the values read, the last one at the end.     *)
(***************************************************************************)
EXTENDS PropertyGraph, PropertyIndex

CONSTANT ColonParts     \* the labels that hold colons, with the parts between them

F(k, v) == <<k, v>>

(* The parts of the value of each type, in the order they are written.     *)
PartKinds ==
    [null |-> <<>>, bool |-> <<"bool">>, int |-> <<"i64">>, float |-> <<"i64">>,
     str |-> <<"str">>, date |-> <<"i32">>, datetime |-> <<"i64">>,
     duration |-> <<"i32", "i32", "i64">>]
PartsOf(v) ==
    CASE v[1] = "null" -> <<>>
      [] v[1] = "duration" -> v[2]
      [] OTHER -> <<v[2]>>

(* Bytes of a v4 field. Names and strings count as empty: the shortest     *)
(* file is the one that a bound on counts must still let through.          *)
Width == [u64 |-> 8, i64 |-> 8, i32 |-> 4, tag |-> 4, str |-> 8, bool |-> 1, torn |-> 1]
Bytes(f) == FoldLeft(LAMBDA n, x : n + Width[x[1]], 0, f)

-----------------------------------------------------------------------------
(* Encoding *)

PutValue(v) ==
    <<F("tag", v[1])>> \o
        [i \in DOMAIN PartKinds[v[1]] |-> F(PartKinds[v[1]][i], PartsOf(v)[i])]

PutEntries(props, keys) ==
    Concat([i \in DOMAIN keys |-> <<F("str", keys[i])>> \o PutValue(props[keys[i]])])
PutProps(props) == <<F("u64", Cardinality(DOMAIN props))>> \o PutEntries(props, SetToSeq(DOMAIN props))

PutStrs(ss) == [i \in DOMAIN ss |-> F("str", ss[i])]

PutNode(n) == <<F("u64", n.id), F("u64", Len(n.labels))>> \o PutStrs(n.labels) \o PutProps(n.props)

PutEdge(e) ==
    <<F("u64", e.id), F("str", e.label), F("u64", e.from), F("u64", e.to)>> \o PutProps(e.props)

PutIndex(x) == <<F("str", x.label), F("str", x.property), F("bool", x.unique)>>

PutList(s, Put(_)) == <<F("u64", Len(s))>> \o Concat([i \in DOMAIN s |-> Put(s[i])])

Encode(s) == PutList(s.nodes, PutNode) \o PutList(s.edges, PutEdge) \o PutList(s.indexes, PutIndex)

-----------------------------------------------------------------------------
(* Decoding *)

Reader(f) == [rest |-> f, ok |-> TRUE, v |-> <<>>]
Fail(r) == [r EXCEPT !.ok = FALSE]

Take(r, k) ==
    IF ~ r.ok \/ r.rest = <<>> THEN Fail(r)
    ELSE IF r.rest[1][1] # k THEN Fail(r)
    ELSE [rest |-> Tail(r.rest), ok |-> TRUE, v |-> Append(r.v, r.rest[1][2])]
TakeAll(r, ks) == FoldLeft(Take, r, ks)

(* The last n values become one: x, a sequence of them, or a record.       *)
Top(r, n) == SubSeq(r.v, Len(r.v) - n + 1, Len(r.v))
Instead(r, n, x) == [r EXCEPT !.v = Append(SubSeq(@, 1, Len(@) - n), x)]
Gather(r, n) == IF r.ok THEN Instead(r, n, Top(r, n)) ELSE r
AsRecord(r, fields) ==
    IF ~ r.ok THEN r
    ELSE Instead(r, Len(fields), [x \in Range(fields) |->
             Top(r, Len(fields))[CHOOSE i \in DOMAIN fields : fields[i] = x]])

(* n elements, each read by R; as many as the value read last says.        *)
ReadN(r, n, R(_)) == Gather(FoldLeft(LAMBDA acc, i : IF acc.ok THEN R(acc) ELSE acc, r, Upto(n)), n)
Many(r, R(_)) == IF r.ok THEN ReadN([r EXCEPT !.v = Front(@)], Last(r.v), R) ELSE r

(* A count, refused when that many elements of at least min bytes cannot   *)
(* follow.                                                                 *)
Bounded(r, min) == IF r.ok /\ Last(r.v) * min > Bytes(r.rest) THEN Fail(r) ELSE r
Count(r, min) == Bounded(Take(r, "u64"), min)

ValueFrom(t, parts) ==
    <<t, CASE t = "null" -> 0
           [] t = "duration" -> parts
           [] OTHER -> parts[1]>>
AsValue(r) == IF r.ok THEN Instead(r, 2, ValueFrom(Top(r, 2)[1], Top(r, 2)[2])) ELSE r
ReadParts(r, kinds) == Gather(TakeAll(r, kinds), Len(kinds))
Typed(r) == IF r.ok THEN AsValue(ReadParts(r, PartKinds[Last(r.v)])) ELSE r
ReadValue(r) == Typed(Take(r, "tag"))

ReadEntry(r) == AsRecord(ReadValue(Take(r, "str")), <<"key", "value">>)

AsProps(r) ==
    IF ~ r.ok THEN r
    ELSE Instead(r, 1, FoldLeft(LAMBDA f, x : With(f, x.key, x.value), Nothing, Last(r.v)))

ReadProps(r) == AsProps(Many(Count(r, 8 + 4), ReadEntry))

ReadStr(r) == Take(r, "str")

DecodeNode(r) ==
    AsRecord(ReadProps(Many(Count(Take(r, "u64"), 8), ReadStr)), <<"id", "labels", "props">>)

ReadEdge(r) ==
    AsRecord(ReadProps(TakeAll(r, <<"u64", "str", "u64", "u64">>)),
             <<"id", "label", "from", "to", "props">>)

ReadIndex(r) == AsRecord(TakeAll(r, <<"str", "str", "bool">>), <<"label", "property", "unique">>)

MinNode == 8 + 8 + 8
MinEdge == 8 + 8 + 8 + 8 + 8
MinIndex == 8 + 8 + 1

GraphFields == <<"nodes", "edges", "indexes">>

(* Bytes left over are an error too. *)
AtEnd(r) == IF r.rest = <<>> THEN r ELSE Fail(r)
Decode(f) ==
    AtEnd(AsRecord(Many(Count(Many(Count(Many(Count(Reader(f), MinNode), DecodeNode),
                                         MinEdge), ReadEdge),
                              MinIndex), ReadIndex), GraphFields))

-----------------------------------------------------------------------------
(* A graph out of what was read: the nodes and edges are numbered anew.    *)

BuildNode(acc, n) ==
    LET id == NextNodeSlot(acc.g)
        keys == SetToSeq(DOMAIN n.props)
        g == FoldLeft(LAMBDA h, k : SetNodeProperty(h, id, k, n.props[k]),
                      CreateNodeWithLabels(acc.g, n.labels), keys)
    IN [acc EXCEPT !.g = g, !.ids = With(@, n.id, id)]

(* A variant of BuildEdge: the ids of the file are used as they are. *)
BuildEdgeUnmapped(acc, e) ==
    IF ~ acc.ok \/ ~ {e.from, e.to} \subseteq DOMAIN acc.ids \/ ~ CanCreateEdge(acc.g, e.from, e.to)
    THEN [acc EXCEPT !.ok = FALSE]
    ELSE [acc EXCEPT !.g = FoldLeft(LAMBDA h, k : SetEdgeProperty(h, NextEdgeSlot(acc.g), k, e.props[k]),
                                    CreateEdge(acc.g, e.from, e.to, e.label),
                                    SetToSeq(DOMAIN e.props))]

BuildEdge(acc, e) ==
    IF ~ acc.ok \/ ~ {e.from, e.to} \subseteq DOMAIN acc.ids THEN [acc EXCEPT !.ok = FALSE]
    ELSE LET id == NextEdgeSlot(acc.g)
             g == FoldLeft(LAMBDA h, k : SetEdgeProperty(h, id, k, e.props[k]),
                           CreateEdge(acc.g, acc.ids[e.from], acc.ids[e.to], e.label),
                           SetToSeq(DOMAIN e.props))
         IN [acc EXCEPT !.g = g]

Build(nodes, edges) ==
    FoldLeft(BuildEdge, FoldLeft(BuildNode, [g |-> EmptyGraph, ids |-> Nothing, ok |-> TRUE], nodes), edges)

-----------------------------------------------------------------------------
(* Saving *)

NodeRecord(g, n) == [id |-> n, labels |-> g.nodes[n].labels, props |-> g.nodes[n].props]
EdgeRecord(g, e) ==
    [id |-> e, label |-> g.edges[e].label, from |-> g.edges[e].from, to |-> g.edges[e].to,
     props |-> g.edges[e].props]
NodeRecords(g) == Mapped(Ascending(DOMAIN g.nodes), LAMBDA n : NodeRecord(g, n))
EdgeRecords(g) == Mapped(Ascending(DOMAIN g.edges), LAMBDA e : EdgeRecord(g, e))

Framed(e) == <<F("magic", "MAHARITD"), F("u32", 4), F("u64", Bytes(e))>> \o e
SnapshotFile(s) == Framed(Encode(s))

SaveWithIndex(g, defs) ==
    SnapshotFile([nodes |-> NodeRecords(g), edges |-> EdgeRecords(g), indexes |-> defs])

-----------------------------------------------------------------------------
(* Loading *)

(* The payload is as long as the header says, or the file is refused.      *)
Payload(r) ==
    LET Cut(i) == SubSeq(r.rest, 1, i)
        whole == {i \in 0 .. Len(r.rest) : Bytes(Cut(i)) = Last(r.v)}
    IN IF r.ok /\ whole # {} THEN Decode(Cut(CHOOSE i \in whole : TRUE)) ELSE Fail(r)
ReadSnapshot(r) == Payload(Take(r, "u64"))

NotLoaded == [ok |-> FALSE]
Loaded(b, defs) == [ok |-> b.ok, g |-> b.g, indexes |-> defs]
GraphOfRead(s) == Loaded(Build(s.nodes, s.edges), s.indexes)
GraphRead(r) == IF r.ok THEN GraphOfRead(Last(r.v)) ELSE NotLoaded

LoadV4(r) == GraphRead(ReadSnapshot(r))

(* The nodes and the edges, after the two counts. *)
ReadLists(r, N(_), E(_)) ==
    IF r.ok THEN ReadN(ReadN(r, Top(r, 2)[1], N), Top(r, 2)[2], E) ELSE r

(* Versions 1 and 2 hold the labels of a node as one string with colons.   *)
PartsOfLabel(l) == IF l \in DOMAIN ColonParts THEN ColonParts[l] ELSE <<l>>
JoinLabels(ls) == Concat(Mapped(ls, PartsOfLabel))
ReadLabels(r, version) ==
    IF version < 3 THEN Take(r, "joined") ELSE Many(Take(r, "u32"), ReadStr)

ReadPropsU32(r) == AsProps(Many(Take(r, "u32"), ReadEntry))

ReadOldNode(r, version) ==
    AsRecord(ReadPropsU32(ReadLabels(Take(r, "u64"), version)), <<"id", "labels", "props">>)

ReadOldEdge(r) ==
    AsRecord(ReadPropsU32(TakeAll(r, <<"u64", "u64", "u64", "str">>)),
             <<"id", "from", "to", "label", "props">>)

ReadIndexSection(r, version) ==
    IF version >= 2 THEN Many(Take(r, "u32"), ReadIndex) ELSE Gather(r, 0)

LoadOld(r, version) ==
    GraphRead(AsRecord(
        ReadIndexSection(ReadLists(TakeAll(r, <<"u64", "u64">>),
                                   LAMBDA x : ReadOldNode(x, version), ReadOldEdge), version),
        GraphFields))

Opened(r, versions) == r.ok /\ r.v[1] = "MAHARITD" /\ r.v[2] \in versions
LoadByVersion(r) ==
    CASE Opened(r, {4}) -> LoadV4(r)
      [] Opened(r, 1 .. 3) -> LoadOld(r, r.v[2])
      [] OTHER -> NotLoaded
LoadWithIndex(f) == LoadByVersion(TakeAll(Reader(f), <<"magic", "u32">>))

(* The server's own start reads version 4 only. *)
LoadCurrent(r) == IF Opened(r, {4}) THEN LoadV4(r) ELSE NotLoaded
LoadConcurrent(f) == LoadCurrent(TakeAll(Reader(f), <<"magic", "u32">>))

(* The files of older releases, whose writers are gone from the code; the  *)
(* readers above say what was in them.                                     *)
OldProps(props) == <<F("u32", Cardinality(DOMAIN props))>> \o Tail(PutProps(props))
OldLabels(ls, version) ==
    IF version < 3 THEN <<F("joined", JoinLabels(ls))>>
    ELSE <<F("u32", Len(ls))>> \o PutStrs(ls)
OldNode(n, version) == <<F("u64", n.id)>> \o OldLabels(n.labels, version) \o OldProps(n.props)
OldEdge(e) ==
    <<F("u64", e.id), F("u64", e.from), F("u64", e.to), F("str", e.label)>> \o OldProps(e.props)
OldIndexes(defs) == <<F("u32", Len(defs))>> \o Concat(Mapped(defs, PutIndex))
OldFile(g, defs, version) ==
    <<F("magic", "MAHARITD"), F("u32", version),
      F("u64", Cardinality(DOMAIN g.nodes)), F("u64", Cardinality(DOMAIN g.edges))>>
    \o Concat(Mapped(NodeRecords(g), LAMBDA n : OldNode(n, version)))
    \o Concat(Mapped(EdgeRecords(g), OldEdge))
    \o (IF version >= 2 THEN OldIndexes(defs) ELSE <<>>)

-----------------------------------------------------------------------------
(* What a write that stopped early can leave of a file: its first i fields *)
(* and perhaps a part of the next.                                         *)
CutAt(f, i, torn) == SubSeq(f, 1, i) \o (IF torn THEN <<F("torn", 0)>> ELSE <<>>)
Cuts(f) == {CutAt(f, i, torn) : i \in 0 .. Len(f) - 1, torn \in BOOLEAN}

(* What numbering anew makes of a graph: the i-th node becomes i - 1.      *)
Position(S, x) == Cardinality({y \in S : y < x})
Renumbered(g) ==
    LET nid(n) == Position(DOMAIN g.nodes, n)
        eid(e) == Position(DOMAIN g.edges, e)
    IN [nodes |-> [i \in {nid(n) : n \in DOMAIN g.nodes} |->
                      g.nodes[CHOOSE n \in DOMAIN g.nodes : nid(n) = i]],
        edges |-> [i \in {eid(e) : e \in DOMAIN g.edges} |->
                      LET x == g.edges[CHOOSE e \in DOMAIN g.edges : eid(e) = i]
                      IN [x EXCEPT !.from = nid(@), !.to = nid(@)]]]
Content(g) == [nodes |-> g.nodes, edges |-> g.edges]

(* The graph with the labels that a colon-separated string keeps. *)
SplitLabels(g) ==
    [g EXCEPT !.nodes = [n \in DOMAIN @ |-> [@[n] EXCEPT !.labels = JoinLabels(@)]]]

-----------------------------------------------------------------------------
(***************************************************************************)
(* Backup files (maharit-storage/src/backup.rs): a header with the counts  *)
(* and the compression, then the graph, compressed or not.  A compressed   *)
(* section is one field of the file: half of one does not decompress.      *)
(***************************************************************************)

Compressions == {"none", "gzip", "zstd"}
ToByte == [none |-> 0, gzip |-> 1, zstd |-> 2]
FromByte(b) == CASE b = 1 -> "gzip" [] b = 2 -> "zstd" [] OTHER -> "none"

WriteProperties(props) == <<F("u32", Cardinality(DOMAIN props))>> \o Tail(PutProps(props))
BackupNode(n) == <<F("u64", n.id), F("joined", JoinLabels(n.labels))>> \o WriteProperties(n.props)
WriteEdge(e) ==
    <<F("u64", e.id), F("u64", e.from), F("u64", e.to), F("str", e.label)>> \o WriteProperties(e.props)
WriteIndexes(defs) == <<F("u32", Len(defs))>> \o Concat(Mapped(defs, PutIndex))

SerializeGraph(g, defs) ==
    <<F("u64", g.ncount), F("u64", g.ecount)>>
    \o Concat(Mapped(NodeRecords(g), BackupNode))
    \o Concat(Mapped(EdgeRecords(g), WriteEdge))
    \o WriteIndexes(defs)

WriteCompressed(data, c) == IF c = "none" THEN data ELSE <<F(c, data)>>

ReadCompressed(f, c) ==
    CASE c = "none" -> [ok |-> TRUE, data |-> f]
      [] c # "none" /\ f # <<>> /\ f[1][1] = c -> [ok |-> TRUE, data |-> f[1][2]]
      [] OTHER -> NotLoaded

Header(g, time, c) ==
    <<F("magic", "MHRTBKUP"), F("u32", 1), F("u64", time),
      F("u64", g.ncount), F("u64", g.ecount), F("byte", ToByte[c]), F("str", "description")>>

(* create is create_with_index with no definitions. *)
BackupFile(g, defs, time, c) == Header(g, time, c) \o WriteCompressed(SerializeGraph(g, defs), c)

-----------------------------------------------------------------------------
ReadPropertiesOf(r) == AsProps(Many(Take(r, "u32"), ReadEntry))

DeserializeNode(r) ==
    AsRecord(ReadPropertiesOf(TakeAll(r, <<"u64", "joined">>)), <<"id", "labels", "props">>)

DeserializeEdge(r) ==
    AsRecord(ReadPropertiesOf(TakeAll(r, <<"u64", "u64", "u64", "str">>)),
             <<"id", "from", "to", "label", "props">>)

(* No count of definitions (an old file, or one cut off there): none.      *)
ReadDefinitions(r) ==
    IF Take(r, "u32").ok THEN Many(Take(r, "u32"), ReadIndex) ELSE Gather(r, 0)

(* A variant of DeserializeGraph: edges that cannot be read end the list. *)
DeserializePartly(data) ==
    LET counts == TakeAll(Reader(data), <<"u64", "u64">>)
        nodes == ReadN(counts, counts.v[1], DeserializeNode)
        all == ReadLists(counts, DeserializeNode, DeserializeEdge)
    IN IF all.ok THEN GraphRead(AsRecord(ReadDefinitions(all), GraphFields))
       ELSE IF counts.ok /\ nodes.ok THEN Loaded(Build(Last(nodes.v), <<>>), <<>>)
       ELSE NotLoaded

DeserializeGraph(data) ==
    GraphRead(AsRecord(
        ReadDefinitions(ReadLists(TakeAll(Reader(data), <<"u64", "u64">>),
                                  DeserializeNode, DeserializeEdge)),
        GraphFields))

ReadMetadata(r) ==
    IF ~ r.ok THEN NotLoaded
    ELSE IF r.v[1] # "MHRTBKUP" \/ r.v[2] # 1 THEN NotLoaded
    ELSE [ok |-> TRUE, timestamp |-> r.v[3], nodes |-> r.v[4], edges |-> r.v[5],
          compression |-> FromByte(r.v[6]), rest |-> r.rest]
Metadata(f) ==
    ReadMetadata(TakeAll(Reader(f), <<"magic", "u32", "u64", "u64", "u64", "byte", "str">>))

RestoreData(d) == IF d.ok THEN DeserializeGraph(d.data) ELSE NotLoaded
RestoreAfter(h) == IF h.ok THEN RestoreData(ReadCompressed(h.rest, h.compression)) ELSE NotLoaded
Restore(f) == RestoreAfter(Metadata(f))

(* The definitions first, then every node that carries the label.          *)
RebuildIndex(g, defs) ==
    LET pi == FoldLeft(LAMBDA x, d : CreateIndexDef(x, d.label, d.property), EmptyIndex, defs)
        Entry(x, d, n) ==
            IF HasLabel(g, n, d.label) /\ HasProp(g, n, d.property)
            THEN IndexProperty(x, n, d.property, g.nodes[n].props[d.property]) ELSE x
    IN FoldLeft(LAMBDA x, d : FoldLeft(LAMBDA y, n : Entry(y, d, n), x, Ascending(DOMAIN g.nodes)),
                pi, defs)

Indexed(r) ==
    IF r.ok THEN [ok |-> TRUE, g |-> r.g, index |-> RebuildIndex(r.g, r.indexes)] ELSE NotLoaded
RestoreWithIndex(f) == Indexed(Restore(f))

Matches(r, h) == r.ok /\ r.g.ncount = h.nodes /\ r.g.ecount = h.edges
Verify(f) == Matches(Restore(f), Metadata(f))
=============================================================================
