----------------------------- MODULE Snapshots ------------------------------
(***************************************************************************)
(* The database file over the server's lives (maharit-server/src/main.rs   *)
(* with save_concurrent and load_concurrent of persistence.rs), and the    *)
(* backups that BackupScheduler keeps (backup.rs).                         *)
(*                                                                         *)
(* The server reads the file when it starts.  When a signal asks it to     *)
(* stop it collects the nodes and then the edges, entry by entry, while    *)
(* statements go on; it writes the file over the old one and exits.        *)
(* Statements hold the write gate, so there is one writer at a time, but   *)
(* the save does not take the gate: it sees a deletion half done.          *)
(***************************************************************************)
EXTENDS SnapshotCodec

CONSTANTS
    MaxStatements,                  \* bound: statements over all lives
    MaxLives,                       \* bound: starts of the server
    MaxBackups,                     \* max_backups
    MaxTicks                        \* bound: rounds of the scheduler

ASSUME BackupsAssumption == MaxBackups \in Nat

VARIABLES
    server,     \* phase: down, up, nodes, edges, write, refused
    graph,      \* nodes, edges, the edges a deletion has still to remove, the next ids
    collected,  \* what the save has collected, in order
    disk,       \* the fields of the database file; absent = <<>> with exists FALSE
    disturbed,  \* history: what statements did while the save collected
    asked,      \* history: the graph when the save began
    lives,      \* history: starts of the server, and statements
    backups,    \* the files of the output directory, by the time in their name
    round       \* the scheduler: phase and time

snapVars == <<server, graph, collected, disk, disturbed, asked, lives, backups, round>>

NoGraph == [nodes |-> Nothing, edges |-> Nothing, doomed |-> {}, nextNode |-> 0, nextEdge |-> 0]
NothingCollected == [nodes |-> <<>>, edges |-> <<>>, todo |-> {}]

SnapInit ==
    /\ server = "down" /\ graph = NoGraph /\ collected = NothingCollected
    /\ disk = [exists |-> FALSE, fields |-> <<>>, whole |-> TRUE, saved |-> NothingCollected,
               disturbed |-> {}, asked |-> NoGraph]
    /\ disturbed = {} /\ asked = NoGraph /\ lives = [starts |-> 0, statements |-> 0]
    /\ backups = Nothing /\ round = [phase |-> "wait", time |-> 0]

Serving == server \in {"up", "nodes", "edges", "write"}
Idle == graph.doomed = {}
KeepsBackups == UNCHANGED <<backups, round>>

-----------------------------------------------------------------------------
(* Starting *)

(* A file that cannot be read stops the server. *)
ServeFrom(r) ==
    CASE ~ disk.exists -> server' = "up" /\ graph' = NoGraph
      [] disk.exists /\ ~ r.ok -> server' = "refused" /\ graph' = NoGraph
      [] OTHER -> /\ server' = "up"
                  /\ graph' = [nodes |-> r.g.nodes, edges |-> r.g.edges, doomed |-> {},
                               nextNode |-> r.g.ncap, nextEdge |-> r.g.ecap]

StartServer ==
    /\ server = "down" /\ lives.starts < MaxLives
    /\ lives' = [lives EXCEPT !.starts = @ + 1]
    /\ ServeFrom(LoadConcurrent(disk.fields))
    /\ collected' = NothingCollected /\ disturbed' = {} /\ asked' = NoGraph
    /\ UNCHANGED disk /\ KeepsBackups

-----------------------------------------------------------------------------
(* Statements *)

Disturbs(what) ==
    disturbed' = IF server \in {"nodes", "edges"} THEN disturbed \cup {what} ELSE disturbed

Statement(g) ==
    /\ Serving /\ Idle /\ lives.statements < MaxStatements
    /\ lives' = [lives EXCEPT !.statements = @ + 1]
    /\ graph' = g
    /\ UNCHANGED <<server, collected, disk, asked>> /\ KeepsBackups

AddNode ==
    /\ Statement([graph EXCEPT !.nodes = With(@, graph.nextNode, FreshNode(<<>>)),
                               !.nextNode = @ + 1])
    /\ Disturbs("node created")

AddEdge(a, b) ==
    /\ Statement([graph EXCEPT !.edges = With(@, graph.nextEdge,
                                   [from |-> a, to |-> b, label |-> "R", props |-> Nothing]),
                               !.nextEdge = @ + 1])
    /\ Disturbs("edge created")

(* delete_node takes the node out first, and then its edges. *)
DropNode(n) ==
    /\ Statement([graph EXCEPT !.nodes = Without(@, {n}),
                               !.doomed = {e \in DOMAIN graph.edges :
                                              n \in {graph.edges[e].from, graph.edges[e].to}}])
    /\ Disturbs("node deleted")

DropDoomed(e) ==
    /\ Serving /\ e \in graph.doomed
    /\ graph' = [graph EXCEPT !.edges = Without(@, {e}), !.doomed = @ \ {e}]
    /\ UNCHANGED <<server, collected, disk, disturbed, asked, lives>> /\ KeepsBackups

DropEdge(e) ==
    /\ Statement([graph EXCEPT !.edges = Without(@, {e})])
    /\ Disturbs("edge deleted")

-----------------------------------------------------------------------------
(* Saving *)

StopSignal ==
    /\ server = "up"
    /\ server' = "nodes"
    /\ collected' = [NothingCollected EXCEPT !.todo = DOMAIN graph.nodes]
    /\ disturbed' = (IF Idle THEN {} ELSE {"node deleted"}) /\ asked' = graph
    /\ UNCHANGED <<graph, disk, lives>> /\ KeepsBackups

SeenNodes == {r.id : r \in Range(collected.nodes)}
SeenEdges == {r.id : r \in Range(collected.edges)}

(* The iteration meets every entry that stays; one that is inserted        *)
(* meanwhile it may meet or not.                                           *)
CollectNode(n) ==
    /\ server = "nodes" /\ n \in DOMAIN graph.nodes \ SeenNodes
    /\ collected' = [collected EXCEPT !.nodes = Append(@, NodeRecord(graph, n)), !.todo = @ \ {n}]
    /\ UNCHANGED <<server, graph, disk, disturbed, asked, lives>> /\ KeepsBackups

(* A variant of NodesCollected: the iteration ends before it met them all. *)
NodesCollectedEarly ==
    /\ server = "nodes"
    /\ server' = "edges"
    /\ collected' = [collected EXCEPT !.todo = DOMAIN graph.edges]
    /\ UNCHANGED <<graph, disk, disturbed, asked, lives>> /\ KeepsBackups

NodesCollected ==
    /\ server = "nodes" /\ collected.todo \cap DOMAIN graph.nodes = {}
    /\ server' = "edges"
    /\ collected' = [collected EXCEPT !.todo = DOMAIN graph.edges]
    /\ UNCHANGED <<graph, disk, disturbed, asked, lives>> /\ KeepsBackups

CollectEdge(e) ==
    /\ server = "edges" /\ e \in DOMAIN graph.edges \ SeenEdges
    /\ collected' = [collected EXCEPT !.edges = Append(@, EdgeRecord(graph, e)), !.todo = @ \ {e}]
    /\ UNCHANGED <<server, graph, disk, disturbed, asked, lives>> /\ KeepsBackups

Image == SnapshotFile([nodes |-> collected.nodes, edges |-> collected.edges, indexes |-> <<>>])

(* The old file is gone when File::create returns. *)
EdgesCollected ==
    /\ server = "edges" /\ collected.todo \cap DOMAIN graph.edges = {}
    /\ server' = "write"
    /\ disk' = [exists |-> TRUE, fields |-> <<>>, whole |-> FALSE, saved |-> collected,
                disturbed |-> disturbed, asked |-> asked]
    /\ UNCHANGED <<graph, collected, disturbed, asked, lives>> /\ KeepsBackups

Stop ==
    /\ server' = "down" /\ graph' = NoGraph /\ collected' = NothingCollected
    /\ UNCHANGED <<disturbed, asked, lives>> /\ KeepsBackups

FinishSave ==
    /\ server = "write"
    /\ disk' = [disk EXCEPT !.fields = Image, !.whole = TRUE]
    /\ Stop

(* A write that fails is reported, and the server exits all the same; a    *)
(* crash leaves the same. Part of the image may be there.                  *)
SaveCutShort(i, torn) ==
    /\ server = "write" /\ i < Len(Image)
    /\ disk' = [disk EXCEPT !.fields = CutAt(Image, i, torn)]
    /\ Stop

CrashServer ==
    /\ server \in {"up", "nodes", "edges"}
    /\ UNCHANGED disk
    /\ Stop

-----------------------------------------------------------------------------
(* The scheduler: a round takes a backup under a new name and then removes *)
(* the oldest files beyond the limit.                                      *)

KeepsServer == UNCHANGED <<server, graph, collected, disk, disturbed, asked, lives>>

(* create_async has the graph serialised and has created the file.  Its    *)
(* name holds the second: two rounds in one second, when ticks come late   *)
(* after a long backup, would share a file; here every round has its own.  *)
BeginBackup ==
    /\ round.phase = "wait" /\ round.time < MaxTicks
    /\ round' = [phase |-> "write", time |-> round.time + 1]
    /\ backups' = With(backups, round.time + 1, "torn")
    /\ KeepsServer

FinishBackup ==
    /\ round.phase = "write"
    /\ round' = [round EXCEPT !.phase = "prune"]
    /\ backups' = [backups EXCEPT ![round.time] = "whole"]
    /\ KeepsServer

(* It failed, or the process ended: what was written stays. *)
BackupFails ==
    /\ round.phase = "write"
    /\ round' = [round EXCEPT !.phase = "wait"]
    /\ UNCHANGED backups /\ KeepsServer

(* Files are sorted by the time of their last write, oldest first. *)
Excess == IF Cardinality(DOMAIN backups) <= MaxBackups THEN 0
          ELSE Cardinality(DOMAIN backups) - MaxBackups
Oldest(k) == {t \in DOMAIN backups : Cardinality({u \in DOMAIN backups : u < t}) < k}

(* A variant of PruneOldBackups: the newest files go. *)
PruneNewest(k) ==
    /\ round.phase = "prune" /\ k \in 0 .. Excess
    /\ backups' = Without(backups, {t \in DOMAIN backups :
                                       Cardinality({u \in DOMAIN backups : u > t}) < k})
    /\ round' = [round EXCEPT !.phase = "wait"]
    /\ KeepsServer

(* A file that cannot be removed ends the pruning of this round: then only *)
(* k of the excess are gone.                                               *)
PruneOldBackups(k) ==
    /\ round.phase = "prune" /\ k \in 0 .. Excess
    /\ backups' = Without(backups, Oldest(k))
    /\ round' = [round EXCEPT !.phase = "wait"]
    /\ KeepsServer

ServerMoves ==
    \/ StartServer \/ StopSignal \/ NodesCollected \/ EdgesCollected \/ FinishSave \/ CrashServer
    \/ AddNode
    \/ \E a, b \in DOMAIN graph.nodes : AddEdge(a, b)
    \/ \E n \in DOMAIN graph.nodes : DropNode(n)
    \/ \E e \in graph.doomed : DropDoomed(e)
    \/ \E e \in DOMAIN graph.edges : DropEdge(e)
    \/ \E n \in DOMAIN graph.nodes : CollectNode(n)
    \/ \E e \in DOMAIN graph.edges : CollectEdge(e)
    \/ server = "write" /\ \E i \in 0 .. Len(Image) - 1, torn \in BOOLEAN : SaveCutShort(i, torn)

SchedulerMoves ==
    BeginBackup \/ FinishBackup \/ BackupFails \/ \E k \in 0 .. Excess : PruneOldBackups(k)

SnapSpec == SnapInit /\ [][ServerMoves \/ SchedulerMoves]_snapVars

-----------------------------------------------------------------------------
(* Properties *)

(* The nodes and edges of the saved graph are there, whatever their new    *)
(* numbers.                                                                *)
HoldsSaved(g) ==
    LET ns == disk.saved.nodes
        es == disk.saved.edges
        Old(i) == ns[i + 1].id
    IN /\ {r.id : r \in Range(ns)} = DOMAIN disk.asked.nodes
       /\ {r.id : r \in Range(es)} = DOMAIN disk.asked.edges
       /\ DOMAIN g.nodes = 0 .. Len(ns) - 1 /\ DOMAIN g.edges = 0 .. Len(es) - 1
       /\ \A j \in DOMAIN g.edges :
            LET x == disk.asked.edges[es[j + 1].id]
            IN Old(g.edges[j].from) = x.from /\ Old(g.edges[j].to) = x.to

(* A start takes over the whole of what one save collected, never a part   *)
(* and never a mixture with an older file, wherever the write stopped.  The *)
(* next start after a completed save succeeds, unless a node was deleted or *)
(* both a node and an edge were created while the save collected; and if    *)
(* nothing at all was created or deleted then, it has the graph that was    *)
(* there when the signal came (spawn_shutdown_handler saves while           *)
(* statements go on; save_concurrent takes no lock).                        *)
SavedGraphRestored ==
    [][(server = "down" /\ server' # "down" /\ disk.exists) =>
          /\ server' = "up" =>
               /\ disk.whole
               /\ Content(LoadConcurrent(disk.fields).g)
                    = Content(Build(disk.saved.nodes, disk.saved.edges).g)
          /\ (disk.whole /\ "node deleted" \notin disk.disturbed
                /\ ~ {"node created", "edge created"} \subseteq disk.disturbed) => server' = "up"
          /\ (disk.whole /\ disk.disturbed = {}) => HoldsSaved(graph')]_snapVars

(* Once a backup was completed there is a complete one among the files, if *)
(* any are to be kept at all, through failures, crashes and prunings; and  *)
(* the newest complete one is never the one that goes (prune_old_backups). *)
NewestBackupKept ==
    [][\A t \in DOMAIN backups :
          (MaxBackups > 0 /\ backups[t] = "whole" /\ \A u \in DOMAIN backups : backups[u] = "whole" => u <= t)
             => t \in DOMAIN backups' \/ \E u \in DOMAIN backups' : u > t /\ backups'[u] = "whole"]_snapVars
=============================================================================
