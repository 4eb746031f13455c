------------------------------ MODULE MCPeers -------------------------------
(* An instance of the programs that talk to the server: a client on its       *)
(* connection, the connection pools, the shard map and the coordinator of the *)
(* shards. The parts share no state, so one run explores them one at a time:  *)
(* `scene` is chosen at the start and says which part moves.                  *)
EXTENDS ClientSession, Pool, Sharding, ShardCoordinator, TLC

VARIABLE scene

AskedRequests ==
    {[statement |-> "write", role |-> "read_write"], [statement |-> "write", role |-> "read_only"],
     [statement |-> "write_text", role |-> "read_write"], [statement |-> "text", role |-> "none"],
     [statement |-> "unparsable", role |-> "read_only"]}

Scenes == {"client", "pool", "shardmap", "routes", "coordinator"}

(* A part that does not move keeps one of its initial states.                 *)
MCInit ==
    /\ scene \in Scenes
    /\ SessionInit /\ (scene # "client" => kind = "rust")
    /\ PoolInit /\ (scene # "pool" => pool = "python")
    /\ ShardInit /\ (scene # "routes" => strategy = HashSharding(1))
    /\ CoordInit

ClientMoves == scene = "client" /\ SessionNext /\ UNCHANGED <<poolVars, shardVars, coordVars>>
PoolMoves == scene = "pool" /\ PoolNext /\ UNCHANGED <<sessionVars, shardVars, coordVars>>
MapMoves ==
    /\ scene = "shardmap" /\ ShardNext /\ strategy' = strategy
    /\ UNCHANGED <<sessionVars, poolVars, coordVars>>
RouteMoves ==
    /\ scene = "routes" /\ ShardNext /\ \A id \in DOMAIN shards' : shards'[id].count = 0
    /\ UNCHANGED <<sessionVars, poolVars, coordVars>>
CoordinatorMoves == scene = "coordinator" /\ CoordNext /\ UNCHANGED <<sessionVars, poolVars, shardVars>>

MCNext == (ClientMoves \/ PoolMoves \/ MapMoves \/ RouteMoves \/ CoordinatorMoves) /\ UNCHANGED scene

MCSpec ==
    /\ MCInit /\ [][MCNext]_<<sessionVars, poolVars, shardVars, coordVars, scene>>
    /\ PoolFairness /\ CoordFairness
=============================================================================
