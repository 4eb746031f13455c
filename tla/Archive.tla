------------------------------ MODULE Archive -------------------------------
(***************************************************************************)
(* A graph that is written to files: the whole of it as a database file or *)
(* a backup, what changed since a backup as an increment, and the log of   *)
(* its changes, from which a moment in between can be restored             *)
(* (backup.rs, with the records of wal.rs).                                *)
(*                                                                         *)
(* The clock counts milliseconds, the unit of the log's timestamps.        *)
(* Backups carry seconds.                                                  *)
(***************************************************************************)
EXTENDS SnapshotCodec

CONSTANTS
    PropValues,         \* property values
    MillisPerSecond,    \* 1000
    LoggedLabels,       \* the labels of nodes that are logged: without colons
    MaxNodes, MaxEdges, \* bounds: slots
    IncrCompressions,   \* the compressions of increments
    LoggedValues,       \* the property values that are logged
    MaxChanges,         \* bound: changes of a graph without a log
    MaxLogged,          \* bound: changes of a graph with a log
    MaxMillis           \* bound: the clock

ASSUME ClockAssumption == MillisPerSecond \in Nat \ {0, 1}
ASSUME LabelsAssumption == LoggedLabels \subseteq Labels \ DOMAIN ColonParts

VARIABLES
    live,       \* the graph
    logged,     \* whether the changes are recorded in a log
    log,        \* the records of the write-ahead log
    millis,
    changes,    \* history: how many changes were made
    base,       \* the full backup, or None
    incr,       \* the increment, or None
    past,       \* history: the graph at the end of each millisecond since the base
    sinceBase   \* history: what happened to the ids since the base

archiveVars == <<live, logged, log, millis, changes, base, incr, past, sinceBase>>

None == [g |-> EmptyGraph]
NoPayload == "none"
Prop == "p"
EdgeLabel == "R"

Seconds(t) == t \div MillisPerSecond

Fresh == [freed |-> {}, reused |-> FALSE, edges |-> 0]

ArchiveInit ==
    /\ live = EmptyGraph /\ logged \in BOOLEAN /\ log = <<>> /\ millis = MillisPerSecond /\ changes = 0
    /\ base = None /\ incr = None /\ past = Nothing /\ sinceBase = Fresh

-----------------------------------------------------------------------------
(* Changes, and their records *)

Rec(op, id, a, b, x) == [op |-> op, id |-> id, from |-> a, to |-> b, x |-> x, time |-> millis]

Change(g, r) ==
    /\ changes < (IF logged THEN MaxLogged ELSE MaxChanges)
    /\ incr = None      \* bound: the increment is taken last
    /\ changes' = changes + 1
    /\ live' = g
    /\ log' = IF logged THEN Append(log, r) ELSE log
    /\ past' = IF base = None THEN past ELSE With(past, millis, Content(g))
    /\ UNCHANGED <<logged, millis, base, incr>>

NoteFreed(ids) == sinceBase' = [sinceBase EXCEPT !.freed = @ \cup ids]
NoteTaken(id, new) ==
    sinceBase' = [sinceBase EXCEPT !.reused = @ \/ id \in sinceBase.freed, !.edges = @ + new]

NodeId(n) == <<"n", n>>
EdgeId(e) == <<"e", e>>

CreateNode(l) ==
    LET n == NextNodeSlot(live) IN
    /\ n < MaxNodes
    /\ Change(CreateNodeWithLabels(live, <<l>>), Rec("CreateNode", n, 0, 0, l))
    /\ NoteTaken(NodeId(n), 0)

RemoveNode(n) ==
    /\ ContainsNode(live, n)
    /\ Change(GraphDeleteNode(live, n), Rec("DeleteNode", n, 0, 0, NoPayload))
    /\ NoteFreed({NodeId(n)} \cup {EdgeId(e) : e \in OutEdges(live, n) \cup InEdges(live, n)})

SetProperty(n, v) ==
    /\ ContainsNode(live, n)
    /\ Change(SetNodeProperty(live, n, Prop, v), Rec("SetNodeProperty", n, 0, 0, v))
    /\ UNCHANGED sinceBase

Connect(a, b) ==
    LET e == NextEdgeSlot(live) IN
    /\ CanCreateEdge(live, a, b) /\ e < MaxEdges
    /\ Change(CreateEdge(live, a, b, EdgeLabel), Rec("CreateEdge", e, a, b, EdgeLabel))
    /\ NoteTaken(EdgeId(e), 1)

Disconnect(e) ==
    /\ ContainsEdge(live, e)
    /\ Change(DeleteEdge(live, e), Rec("DeleteEdge", e, 0, 0, NoPayload))
    /\ NoteFreed({EdgeId(e)})

SetOnEdge(e, v) ==
    /\ ContainsEdge(live, e)
    /\ Change(SetEdgeProperty(live, e, Prop, v), Rec("SetEdgeProperty", e, 0, 0, v))
    /\ UNCHANGED sinceBase

(* The log has no record for labels: only a graph without one changes them. *)
Relabel(n, l) ==
    /\ ~ logged /\ ContainsNode(live, n) /\ ~ HasLabel(live, n, l)
    /\ Change(AddNodeLabel(live, n, l), 0)
    /\ UNCHANGED sinceBase

Tick ==
    /\ millis < MaxMillis /\ logged /\ incr = None
    /\ millis' = millis + 1
    /\ past' = IF base = None THEN past ELSE With(past, millis + 1, Content(live))
    /\ UNCHANGED <<live, logged, log, changes, base, incr, sinceBase>>

(* A full backup. The log goes on, or is started anew after it.            *)
TakeBase(anew) ==
    /\ base = None /\ logged
    /\ base' = [file |-> BackupFile(live, <<>>, Seconds(millis), "none"), time |-> Seconds(millis),
                g |-> live, anew |-> anew \/ log = <<>>]
    /\ log' = IF anew THEN <<>> ELSE log
    /\ past' = millis :> Content(live)
    /\ sinceBase' = Fresh
    /\ UNCHANGED <<live, logged, millis, changes, incr>>

-----------------------------------------------------------------------------
(* Increments *)

(* A record newer than the base backup. *)
ReadAllForIncremental(after) == SelectSeq(log, LAMBDA r : r.time > after)

(* A variant of Mark: what is deleted is not noted. *)
MarkChangedOnly(acc, r) ==
    CASE r.op \in {"CreateNode", "SetNodeProperty"} -> [acc EXCEPT !.cn = @ \cup {r.id}]
      [] r.op = "DeleteNode" -> [acc EXCEPT !.cn = @ \ {r.id}]
      [] r.op \in {"CreateEdge", "SetEdgeProperty"} -> [acc EXCEPT !.ce = @ \cup {r.id}]
      [] OTHER -> [acc EXCEPT !.ce = @ \ {r.id}]

Mark(acc, r) ==
    CASE r.op \in {"CreateNode", "SetNodeProperty"} -> [acc EXCEPT !.cn = @ \cup {r.id}]
      [] r.op = "DeleteNode" -> [acc EXCEPT !.cn = @ \ {r.id}, !.dn = @ \cup {r.id}]
      [] r.op \in {"CreateEdge", "SetEdgeProperty"} -> [acc EXCEPT !.ce = @ \cup {r.id}]
      [] OTHER -> [acc EXCEPT !.ce = @ \ {r.id}, !.de = @ \cup {r.id}]

Marks(records) == FoldLeft(Mark, [cn |-> {}, dn |-> {}, ce |-> {}, de |-> {}], records)

OrdersOf(S) == SetToSeqs(S)
Ids(s) == <<F("u64", Len(s))>> \o Mapped(s, LAMBDA id : F("u64", id))

(* The sets are hash sets: their members are written in some order.        *)
CreateIncremental(c) ==
    LET m == Marks(ReadAllForIncremental(base.time))
        ns == {n \in m.cn : ContainsNode(live, n)}
        es == {e \in m.ce : ContainsEdge(live, e)}
    IN /\ base # None /\ incr = None
       /\ \E nodes \in OrdersOf(ns), edges \in OrdersOf(es) :
            incr' = [file |-> <<F("magic", "MHRTINCR"), F("u32", 1), F("u64", base.time),
                                F("u64", Seconds(millis)), F("byte", ToByte[c]), F("str", "description")>>
                              \o WriteCompressed(
                                     <<F("u64", Len(nodes))>>
                                     \o Concat(Mapped(nodes, LAMBDA n : BackupNode(NodeRecord(live, n))))
                                     \o <<F("u64", Len(edges))>>
                                     \o Concat(Mapped(edges, LAMBDA e : WriteEdge(EdgeRecord(live, e))))
                                     \o Ids(Ascending(m.dn)) \o Ids(Ascending(m.de)), c),
                     g |-> live, c |-> c, since |-> sinceBase]
       /\ UNCHANGED <<live, logged, log, millis, changes, base, past, sinceBase>>

ApplyNode(g, n) ==
    IF ~ ContainsNode(g, n.id)
    THEN FoldLeft(LAMBDA h, k : SetNodeProperty(h, n.id, k, n.props[k]),
                  CreateNodeWithIdAndLabels(g, n.id, n.labels), SetToSeq(DOMAIN n.props))
    ELSE [g EXCEPT !.nodes[n.id] = [labels |-> n.labels, props |-> n.props]]

(* A missing edge is created under the next id, not under its own. *)
ApplyEdge(g, e) ==
    IF ~ ContainsEdge(g, e.id) /\ CanCreateEdge(g, e.from, e.to)
    THEN LET id == NextEdgeSlot(g)
         IN FoldLeft(LAMBDA h, k : SetEdgeProperty(h, id, k, e.props[k]),
                     CreateEdge(g, e.from, e.to, e.label), SetToSeq(DOMAIN e.props))
    ELSE IF ContainsEdge(g, e.id)
         THEN [g EXCEPT !.edges[e.id].label = e.label, !.edges[e.id].props = e.props]
    ELSE g

HeaderRead(r) ==
    IF ~ r.ok THEN NotLoaded
    ELSE IF r.v[1] # "MHRTINCR" \/ r.v[2] # 1 THEN NotLoaded
    ELSE [ok |-> TRUE, byte |-> r.v[5], rest |-> r.rest]
IncrementHeader(f) ==
    HeaderRead(TakeAll(Reader(f), <<"magic", "u32", "u64", "u64", "byte", "str">>))

(* Any compression that is not "none" is read as gzip. *)
DataAfter(h) == IF h.ok THEN ReadCompressed(h.rest, IF h.byte # 0 THEN "gzip" ELSE "none") ELSE NotLoaded
IncrementData(f) == DataAfter(IncrementHeader(f))

ReadId(r) == Take(r, "u64")
ReadMany(r, R(_)) == Many(Take(r, "u64"), R)
ReadIncrement(d) ==
    IF d.ok THEN ReadMany(ReadMany(ReadMany(ReadMany(Reader(d.data), DeserializeNode),
                                            DeserializeEdge), ReadId), ReadId)
    ELSE Fail(Reader(<<>>))

(* r holds the nodes, the edges, the deleted nodes and the deleted edges.  *)
ApplyIncrement(start, r) ==
    IF ~ start.ok \/ ~ r.ok THEN NotLoaded
    ELSE [ok |-> TRUE,
          g |-> FoldLeft(DeleteEdge, FoldLeft(GraphDeleteNode,
                    FoldLeft(ApplyEdge, FoldLeft(ApplyNode, start.g, r.v[1]), r.v[2]), r.v[3]), r.v[4])]
RestoreIncremental(b, f) == ApplyIncrement(Restore(b), ReadIncrement(IncrementData(f)))

-----------------------------------------------------------------------------
(* A moment in between *)

Actual(ids, n) == IF n \in DOMAIN ids THEN ids[n] ELSE n

(* The log's ids of nodes are mapped to those of the graph; the ids of its *)
(* edges are not.                                                          *)
Replay(acc, r) ==
    CASE r.op = "CreateNode" ->
            [g |-> CreateNodeWithLabels(acc.g, <<r.x>>), ids |-> With(acc.ids, r.id, NextNodeSlot(acc.g))]
      [] r.op = "DeleteNode" ->
            [g |-> GraphDeleteNode(acc.g, Actual(acc.ids, r.id)), ids |-> Without(acc.ids, {r.id})]
      [] r.op = "CreateEdge" ->
            LET from == Actual(acc.ids, r.from)
                to == Actual(acc.ids, r.to)
            IN IF CanCreateEdge(acc.g, from, to) THEN [acc EXCEPT !.g = CreateEdge(@, from, to, r.x)]
               ELSE acc
      [] r.op = "DeleteEdge" -> [acc EXCEPT !.g = DeleteEdge(@, r.id)]
      [] r.op = "SetNodeProperty" ->
            [acc EXCEPT !.g = SetNodeProperty(@, Actual(acc.ids, r.id), Prop, r.x)]
      [] OTHER -> [acc EXCEPT !.g = SetEdgeProperty(@, r.id, Prop, r.x)]

ReplayOver(start, records) ==
    IF ~ start.ok THEN NotLoaded
    ELSE [ok |-> TRUE,
          g |-> FoldLeft(Replay, [g |-> start.g, ids |-> [n \in DOMAIN start.g.nodes |-> n]],
                         records).g]
RestoreToPointInTime(b, target) ==
    ReplayOver(Restore(b), SelectSeq(ReadAllForIncremental(0), LAMBDA r : r.time <= target))

ArchiveNext ==
    \/ \E l \in IF logged THEN LoggedLabels ELSE Labels : CreateNode(l)
    \/ \E n \in DOMAIN live.nodes : RemoveNode(n)
    \/ \E n \in DOMAIN live.nodes, v \in IF logged THEN LoggedValues ELSE PropValues : SetProperty(n, v)
    \/ \E a, b \in DOMAIN live.nodes : Connect(a, b)
    \/ \E e \in DOMAIN live.edges : Disconnect(e)
    \/ \E e \in DOMAIN live.edges, v \in IF logged THEN LoggedValues ELSE PropValues : SetOnEdge(e, v)
    \/ \E n \in DOMAIN live.nodes, l \in Labels : Relabel(n, l)
    \/ Tick
    \/ \E anew \in BOOLEAN : TakeBase(anew)
    \/ \E c \in IncrCompressions : CreateIncremental(c)

-----------------------------------------------------------------------------
(* Properties *)

CONSTANT Definitions    \* the property indexes that are saved with the graph

FileOf(version) ==
    IF version = 4 THEN SaveWithIndex(live, Definitions) ELSE OldFile(live, Definitions, version)
PayloadOf(f) == SubSeq(f, 4, Len(f))
GivesBack(r, g, defs) == r.ok /\ Content(r.g) = Renumbered(g) /\ r.indexes = defs

(* A database file gives back the graph that was saved, numbered anew      *)
(* without gaps, and the index definitions; and the files of the older     *)
(* releases are still read, where a label with colons comes back as        *)
(* several before version 3 (load_with_index, load_concurrent).            *)
SnapshotRoundTrips ==
    ~ logged =>
        /\ GivesBack(LoadConcurrent(FileOf(4)), live, Definitions)
        /\ \A version \in 1 .. 4 :
             GivesBack(LoadWithIndex(FileOf(version)),
                       IF version < 3 THEN SplitLabels(live) ELSE live,
                       IF version = 1 THEN <<>> ELSE Definitions)

(* A database file of any version that ends early is refused, wherever it  *)
(* ends, and so is a payload with anything after it (decode,               *)
(* read_snapshot, the readers of the older formats).                       *)
TornSnapshotRefused ==
    ~ logged =>
        /\ \A version \in 1 .. 4 : \A cut \in Cuts(FileOf(version)) : ~ LoadWithIndex(cut).ok
        /\ \A cut \in Cuts(PayloadOf(FileOf(4))) \cup {Append(PayloadOf(FileOf(4)), F("torn", 0))} :
             ~ Decode(cut).ok

BackupOf(c) == BackupFile(live, Definitions, Seconds(millis), c)
FindsLabelled(g, index, labels) ==
    \A v \in PropValues :
        FindByProperty(index, Prop, v) =
            {n \in DOMAIN g.nodes :
                /\ Range(LabelsOf(g, n)) \cap labels # {}
                /\ HasProp(g, n, Prop) /\ g.nodes[n].props[Prop] = v}
RestoredWhole(r) ==
    /\ r.ok /\ Content(r.g) = Renumbered(SplitLabels(live))
    /\ FindsLabelled(r.g, r.index, {d.label : d \in Range(Definitions)})

(* A backup, whatever its compression, restores the graph numbered anew    *)
(* (a label with colons as several), verifies, and its rebuilt index finds *)
(* exactly the nodes that carry the label of an index on the property.     *)
BackupRestores ==
    ~ logged => \A c \in Compressions :
        RestoredWhole(RestoreWithIndex(BackupOf(c))) /\ Verify(BackupOf(c))

(* The places where an uncompressed backup may end and still be accepted:  *)
(* just before the count of the index definitions, and within that count.  *)
BeforeDefinitions(c) ==
    IF c # "none" THEN {}
    ELSE {CutAt(BackupOf(c), Len(BackupOf(c)) - Len(WriteIndexes(Definitions)), torn) :
              torn \in BOOLEAN}

(* A backup that ends early is refused, except before its definitions and  *)
(* within their count: there it restores the whole graph, loses every      *)
(* index definition, and verifies.  The comment on read_u32_or_eof says    *)
(* that an end within the count can be told from a file without one; both  *)
(* are the same error there (deserialize_graph_internal).                  *)
TornBackupRefused ==
    ~ logged => \A c \in Compressions : \A cut \in Cuts(BackupOf(c)) :
        LET r == Restore(cut) IN
        /\ r.ok <=> cut \in BeforeDefinitions(c)
        /\ r.ok => Content(r.g) = Renumbered(SplitLabels(live)) /\ r.indexes = <<>>
        /\ Verify(cut) <=> r.ok

Gapless(g) == DOMAIN g.nodes = 0 .. g.ncap - 1 /\ DOMAIN g.edges = 0 .. g.ecap - 1

(* The same nodes under the same ids, and the same edges between them.     *)
SameGraph(g, h) ==
    LET Like(x, e) == Cardinality({f \in DOMAIN x.edges : x.edges[f] = e})
    IN /\ g.nodes = h.nodes
       /\ \A e \in Range(g.edges) \cup Range(h.edges) : Like(g, e) = Like(h, e)

IsSame(r, g) == r.ok /\ SameGraph(r.g, g)
RestoresItsGraph == IsSame(RestoreIncremental(base.file, incr.file), incr.g)

(* Applied to its base, an increment gives the graph it was taken from, in *)
(* whatever order the hash sets were written - provided that the base had  *)
(* no gaps, the log began with it, no id was reused and at most one edge   *)
(* was created since, and the payload is not zstd (create_incremental,     *)
(* restore_incremental).                                                   *)
IncrementRestores ==
    (incr # None /\ incr.c # "zstd" /\ base.anew /\ Gapless(base.g)
       /\ ~ incr.since.reused /\ incr.since.edges <= 1) => RestoresItsGraph

HasContent(r, content) == r.ok /\ Content(r.g) = content

(* Replayed up to a millisecond, the log gives the graph as it was at the  *)
(* end of that millisecond, ids included - provided that the base had no   *)
(* gaps and the log began with it (restore_to_point_in_time).              *)
MomentRestored ==
    (base # None /\ base.anew /\ Gapless(base.g)) =>
        \A t \in DOMAIN past : HasContent(RestoreToPointInTime(base.file, t), past[t])

(* What is written to a file is what is read back from it, whichever format,  *)
(* version and compression.                                                   *)
FilesRoundTrip == SnapshotRoundTrips /\ BackupRestores

(* A file that ends early is never taken for a smaller graph.  A database     *)
(* file is refused wherever it ends, a compressed backup too, and an          *)
(* uncompressed one everywhere but at the count of its index definitions,     *)
(* where it is taken for a backup of the same graph without indexes.          *)
TornFilesRefused == TornSnapshotRefused /\ TornBackupRefused

(* What happened after a full backup can be brought back from it, by an       *)
(* increment or by the log.                                                   *)
HistoryRestored == IncrementRestores /\ MomentRestored
=============================================================================
