------------------------------ MODULE Sharding ------------------------------
(* The shard map, the placement of nodes and the routing of queries           *)
(* (maharit-cluster/src/shard.rs, strategy.rs, router.rs, coordinator.rs).    *)
(* A strategy is a record: "hash" with a number of shards, "range" with its   *)
(* ranges in the order they were added, or "label" with its labels.           *)
EXTENDS Integers, Sequences, FiniteSets
LOCAL INSTANCE FiniteSetsExt
LOCAL INSTANCE SequencesExt

CONSTANTS ShardIds,    \* identifiers of shards, consecutive from 0
          NodeIds,     \* node ids, 0 and 1 among them
          ShardLabels, \* labels of nodes
          MaxCount,    \* bound on the nodes of a shard
          MaxRanges    \* bound on the ranges of a strategy

ASSUME ShardingAssumption ==
    /\ ShardIds \subseteq Nat /\ NodeIds \subseteq Nat /\ {0, 1} \subseteq NodeIds
    /\ MaxCount \in Nat /\ MaxRanges \in Nat

VARIABLES shards,   \* id -> [status, count]: ShardMap.shards
          strategy  \* the strategy of the router

shardVars == <<shards, strategy>>

Statuses == {"active", "inactive", "rebalancing"}
Drop(f, x) == [y \in DOMAIN f \ {x} |-> f[y]]
Put(f, x, v) == [y \in DOMAIN f \cup {x} |-> IF y = x THEN v ELSE f[y]]

AddShard(id) ==
    /\ id \notin DOMAIN shards
    /\ shards' = Put(shards, id, [status |-> "active", count |-> 0])
    /\ UNCHANGED strategy

RemoveShard(id) ==
    id \in DOMAIN shards /\ shards' = Drop(shards, id) /\ UNCHANGED strategy

(* get_shard_mut: the status and the number of nodes are written from outside. *)
SetShard(id, status, count) ==
    /\ id \in DOMAIN shards
    /\ shards' = [shards EXCEPT ![id] = [status |-> status, count |-> count]]
    /\ UNCHANGED strategy

ActiveShards(map) == {id \in DOMAIN map : map[id].status = "active"}

(* `times` copies of x.                                                       *)
Copies(x, times) == [i \in 1 .. times |-> x]

(* One entry for each node above (below) the ideal, the shards by their ids.  *)
Units(ids, map, ideal) ==
    LET sorted == SetToSortSeq(ids, <)
        weight(i) == IF map[i].count > ideal THEN map[i].count - ideal ELSE ideal - map[i].count
    IN FoldSeq(LAMBDA id, acc : acc \o Copies(id, weight(id)), <<>>, sorted)

Ideal(map) ==
    LET active == ActiveShards(map)
    IN FoldSet(LAMBDA id, acc : acc + map[id].count, 0, active) \div Cardinality(active)

(* The excess of the loaded shards and the room of the others are paired in   *)
(* the order of the ids until one of them runs out; each pair is a move.      *)
RebalancePlan(map) ==
    LET active == ActiveShards(map)
        ideal == Ideal(map)
        over == Units({id \in active : map[id].count > ideal}, map, ideal)
        under == Units({id \in active : map[id].count < ideal}, map, ideal)
    IN IF Cardinality(active) < 2 THEN <<>>
       ELSE [i \in 1 .. Min({Len(over), Len(under)}) |-> [from |-> over[i], to |-> under[i]]]
-----------------------------------------------------------------------------
(* Strategies and routing.                                                    *)

HashSharding(n) == [kind |-> "hash", shards |-> n, ranges |-> <<>>, labels |-> <<>>, default |-> 0]
RangeSharding(d) == [kind |-> "range", shards |-> 0, ranges |-> <<>>, labels |-> <<>>, default |-> d]
LabelSharding(d) == [kind |-> "label", shards |-> 0, ranges |-> <<>>, labels |-> <<>>, default |-> d]

AddRange(low, high, id) ==
    /\ strategy.kind = "range" /\ Len(strategy.ranges) < MaxRanges
    /\ strategy' = [strategy EXCEPT !.ranges = Append(@, [low |-> low, high |-> high, id |-> id])]
    /\ UNCHANGED shards

AddLabel(l, id) ==
    /\ strategy.kind = "label"
    /\ strategy' = [strategy EXCEPT !.labels = Put(@, l, id)]
    /\ UNCHANGED shards

(* The first range that holds the id; the shard of the label; the remainder.  *)
ShardForNode(st, n, l) ==
    LET hits == {i \in DOMAIN st.ranges : st.ranges[i].low <= n /\ n <= st.ranges[i].high}
    IN CASE st.kind = "hash" -> n % st.shards
         [] st.kind = "range" -> IF hits = {} THEN st.default ELSE st.ranges[Min(hits)].id
         [] st.kind = "label" -> IF l \in DOMAIN st.labels THEN st.labels[l] ELSE st.default

RouteAll(map) == ActiveShards(map)

(* A variant of RouteLabelQuery: one probe is taken for all nodes.            *)
RouteLabelQueryOneProbe(st, map, l) == {ShardForNode(st, 0, l)}

(* Nodes 0 and 1 are placed for a trial: if both go to one shard the strategy *)
(* is taken to place by label.                                                *)
RouteLabelQuery(st, map, l) ==
    LET a == ShardForNode(st, 0, l)
    IN IF a = ShardForNode(st, 1, l) THEN {a} ELSE RouteAll(map)

DecideForLabel(st, map, l) ==
    LET route == RouteLabelQuery(st, map, l)
    IN CASE route = {} -> [kind |-> "broadcast", shards |-> {}]
         [] Cardinality(route) = 1 -> [kind |-> "single", shards |-> route]
         [] OTHER -> [kind |-> "multi", shards |-> route]

(* Where an edge lives: with both ends on one shard, or across two.           *)
ClassifyEdge(st, n, ln, m, lm) ==
    IF ShardForNode(st, n, ln) = ShardForNode(st, m, lm) THEN "local" ELSE "remote"

ShardInit ==
    /\ shards = <<>>
    /\ strategy \in {HashSharding(n) : n \in 1 .. Cardinality(ShardIds)}
                    \cup {RangeSharding(d) : d \in ShardIds} \cup {LabelSharding(d) : d \in ShardIds}

ShardNext ==
    \/ \E id \in ShardIds : AddShard(id) \/ RemoveShard(id)
    \/ \E id \in ShardIds, status \in Statuses, count \in 0 .. MaxCount : SetShard(id, status, count)
    \/ \E low, high \in NodeIds, id \in ShardIds : AddRange(low, high, id)
    \/ \E l \in ShardLabels, id \in ShardIds : AddLabel(l, id)
-----------------------------------------------------------------------------
(* Properties.                                                                *)

(* The counts after the moves of a plan.                                      *)
Applied(map, plan) ==
    [id \in DOMAIN map |->
        [map[id] EXCEPT !.count = @ + Cardinality({i \in DOMAIN plan : plan[i].to = id})
                                    - Cardinality({i \in DOMAIN plan : plan[i].from = id})]]

(* Executing a rebalance plan leaves every active shard with at least the     *)
(* ideal number of nodes, gives none more than that, touches no other shard,  *)
(* and leaves nothing to plan: a plan made from the new counts is empty, so   *)
(* rebalancing does not move nodes back and forth.                            *)
PlanSettles ==
    LET plan == RebalancePlan(shards)
        after == Applied(shards, plan)
        active == ActiveShards(shards)
    IN Cardinality(active) >= 2 =>
         /\ \A id \in active : after[id].count >= Ideal(shards)
         /\ \A id \in active : after[id].count <= shards[id].count
                               \/ after[id].count = Ideal(shards)
         /\ \A id \in DOMAIN shards \ active : after[id] = shards[id]
         /\ RebalancePlan(after) = <<>>

(* A label scan asks every active shard that may hold a node of the label,    *)
(* unless the ranges place nodes 0 and 1 on one shard and others elsewhere,   *)
(* which the two probes cannot tell from placement by label. The decision     *)
(* made of the route broadcasts only when no shard is active, and placement   *)
(* by label keeps the edges within a label local.                             *)
LabelRouteCovers ==
    \A l \in ShardLabels :
        /\ \A n \in NodeIds :
             LET owner == ShardForNode(strategy, n, l)
             IN \/ owner \in RouteLabelQuery(strategy, shards, l)
                \/ owner \notin ActiveShards(shards)
                \/ strategy.kind = "range"
                   /\ ShardForNode(strategy, 0, l) = ShardForNode(strategy, 1, l)
        /\ LET d == DecideForLabel(strategy, shards, l)
           IN d.kind = "broadcast" => RouteAll(shards) = {}
        /\ strategy.kind = "label" =>
             \A n, m \in NodeIds : ClassifyEdge(strategy, n, l, m, l) = "local"

(* The shard map places and finds: rebalancing settles and label scans reach  *)
(* the shards that hold the label.                                            *)
MapSound == PlanSettles /\ LabelRouteCovers
=============================================================================
