-------------------------------- MODULE Pool --------------------------------
(* The connection pools: the Rust pool (mod pool of maharit-client/src/lib.rs)*)
(* with a semaphore and a stack of idle connections, and the Python pools     *)
(* (clients/python/maharit/pool.py, threads and asyncio) with a count under a *)
(* lock and a bounded queue. A connection is in order, or stale (an answer    *)
(* nobody waits for is on it), or dead; ClientSession tells how it comes to   *)
(* be so.                                                                     *)
EXTENDS Integers, Sequences, FiniteSets

CONSTANTS Users,      \* tasks that use the pool
          Pools,      \* the kinds of pool: "rust", "python", "async"
          MaxSize,    \* max_connections, max_size
          MinSizes,   \* min_connections of the Rust pool, which nothing holds against MaxSize
          Sockets,    \* connections that may be open at a time
          MaxUses     \* bound on the calls of the pool

None == "none"

ASSUME PoolAssumption ==
    /\ MaxSize \in Nat \ {0} /\ MinSizes \subseteq Nat
    /\ Pools \subseteq {"rust", "python", "async"}
    /\ IsFiniteSet(Users) /\ IsFiniteSet(Sockets) /\ None \notin Sockets

VARIABLES pool,      \* which pool
          opened,    \* the connections it was opened with
          idle,      \* the idle connections
          state,     \* socket -> "closed", "good", "stale" or "dead"
          pc, held,  \* user -> where it is in its call, and its connection
          waiters,   \* Rust: the users waiting for a permit, in order
          permits,   \* Rust: the free permits of the semaphore
          total,     \* Python: the connections counted as open
          lost,      \* permits or counts that nobody will give back
          uses       \* how many calls were made

poolVars == <<pool, opened, idle, state, pc, held, waiters, permits, total, lost, uses>>

Closed == {s \in Sockets : state[s] = "closed"}
Goto(u, l) == pc' = [pc EXCEPT ![u] = l]
Give(u, s, l) == held' = [held EXCEPT ![u] = s] /\ Goto(u, l)

(* A connection goes stale or dies, idle or in use.                           *)
Spoil(s, as) ==
    /\ state[s] = "good" /\ state' = [state EXCEPT ![s] = as]
    /\ UNCHANGED <<pool, opened, idle, pc, held, waiters, permits, total, lost, uses>>

Ask(u) ==
    /\ pc[u] = "out" /\ uses < MaxUses /\ uses' = uses + 1
    /\ IF pool = "rust" THEN Goto(u, "waiting") /\ waiters' = Append(waiters, u)
       ELSE Goto(u, "draining") /\ UNCHANGED waiters
    /\ UNCHANGED <<pool, opened, idle, state, held, permits, total, lost>>
-----------------------------------------------------------------------------
(* The Rust pool.                                                             *)

(* The first waiter takes a permit and forgets it, to be added again when the *)
(* connection is returned; the connection put back last is popped.            *)
GetPermit ==
    /\ waiters # <<>> /\ permits > 0
    /\ permits' = permits - 1 /\ waiters' = Tail(waiters)
    /\ Goto(Head(waiters), "popping")
    /\ UNCHANGED <<pool, opened, idle, state, held, total, lost, uses>>

GetPop(u) ==
    /\ pc[u] = "popping"
    /\ IF idle = <<>> THEN Goto(u, "connecting") /\ UNCHANGED <<idle, held>>
       ELSE Give(u, idle[Len(idle)], "using") /\ idle' = SubSeq(idle, 1, Len(idle) - 1)
    /\ UNCHANGED <<pool, opened, state, waiters, permits, total, lost, uses>>

(* A variant of GetConnect: the pool's limit is not held by a permit, which   *)
(* is given back as soon as the connection is made.                           *)
GetConnectReleases(u) ==
    /\ pc[u] = "connecting"
    /\ \E s \in Closed : Give(u, s, "using") /\ state' = [state EXCEPT ![s] = "good"]
    /\ permits' = permits + 1
    /\ UNCHANGED <<pool, opened, idle, waiters, total, lost, uses>>

(* A new connection; when it cannot be made the error returns to the caller   *)
(* and the forgotten permit does not come back.                               *)
GetConnect(u) ==
    /\ pc[u] = "connecting"
    /\ \/ /\ \E s \in Closed : Give(u, s, "using") /\ state' = [state EXCEPT ![s] = "good"]
          /\ UNCHANGED lost
       \/ Goto(u, "out") /\ lost' = lost + 1 /\ UNCHANGED <<held, state>>
    /\ UNCHANGED <<pool, opened, idle, waiters, permits, total, uses>>

(* A variant of DropConnection: only a connection in order is put back.       *)
DropConnectionInOrder(u) ==
    /\ pool = "rust" /\ pc[u] = "using" /\ state[held[u]] = "good" /\ Goto(u, "returning")
    /\ UNCHANGED <<pool, opened, idle, state, held, waiters, permits, total, lost, uses>>

(* Dropping the connection starts a task that puts it back, in whatever state *)
(* it is, and adds the permit.                                                *)
DropConnection(u) ==
    /\ pool = "rust" /\ pc[u] = "using" /\ Goto(u, "returning")
    /\ UNCHANGED <<pool, opened, idle, state, held, waiters, permits, total, lost, uses>>

(* The returned connection joins the idle ones, and the permit is added.      *)
ReturnConnection(u) ==
    /\ pc[u] = "returning"
    /\ IF Len(idle) < MaxSize THEN idle' = Append(idle, held[u]) /\ UNCHANGED state
       ELSE state' = [state EXCEPT ![held[u]] = "closed"] /\ UNCHANGED idle
    /\ permits' = permits + 1
    /\ Give(u, None, "out")
    /\ UNCHANGED <<pool, opened, waiters, total, lost, uses>>
-----------------------------------------------------------------------------
(* The Python pools.                                                          *)

(* The idle queue is drained; every connection taken from it is pinged.       *)
TakeIdle(u) ==
    /\ pc[u] \in {"draining", "exhausted"}
    /\ IF idle = <<>> THEN pc[u] = "draining" /\ Goto(u, "creating") /\ UNCHANGED <<idle, held>>
       ELSE Give(u, Head(idle), "checking") /\ idle' = Tail(idle)
    /\ UNCHANGED <<pool, opened, state, waiters, permits, total, lost, uses>>

(* A connection that answers the ping is handed out: one in order, a dead one *)
(* that Client._send connects anew (Python), and one on which an old pong is  *)
(* still unread. Any other is closed.                                         *)
CheckAlive(u) ==
    LET s == held[u] IN
    /\ pc[u] = "checking"
    /\ \/ /\ state[s] = "dead" => pool = "python"
          /\ Goto(u, "using") /\ UNCHANGED held
          /\ state' = IF state[s] = "dead" THEN [state EXCEPT ![s] = "good"] ELSE state
       \/ /\ state[s] # "good"
          /\ Give(u, None, "discounting") /\ state' = [state EXCEPT ![s] = "closed"]
    /\ UNCHANGED <<pool, opened, idle, waiters, permits, total, lost, uses>>

Discount(u) ==
    /\ pc[u] \in {"discounting", "failing"} /\ total' = total - 1
    /\ Goto(u, IF pc[u] = "discounting" THEN "draining" ELSE "out")
    /\ UNCHANGED <<pool, opened, idle, state, held, waiters, permits, lost, uses>>

(* Under the lock: a new connection if the count allows it, counted once it   *)
(* is made; otherwise the user waits for one to be released.                  *)
CreateConnection(u) ==
    /\ pc[u] = "creating"
    /\ IF total < MaxSize
       THEN \/ /\ \E s \in Closed : Give(u, s, "using") /\ state' = [state EXCEPT ![s] = "good"]
               /\ total' = total + 1
            \/ Goto(u, "out") /\ UNCHANGED <<held, state, total>>
       ELSE Goto(u, "exhausted") /\ UNCHANGED <<held, state, total>>
    /\ UNCHANGED <<pool, opened, idle, waiters, permits, lost, uses>>

WaitTimeout(u) ==
    /\ pc[u] = "exhausted" /\ Goto(u, "out")
    /\ UNCHANGED <<pool, opened, idle, state, held, waiters, permits, total, lost, uses>>

(* The block ended: the connection goes to the queue; a full queue closes it. *)
Release(u) ==
    /\ pool # "rust" /\ pc[u] = "using"
    /\ IF Len(idle) < MaxSize
       THEN idle' = Append(idle, held[u]) /\ Give(u, None, "out") /\ UNCHANGED state
       ELSE /\ Give(u, None, "failing") /\ UNCHANGED idle
            /\ state' = [state EXCEPT ![held[u]] = "closed"]
    /\ UNCHANGED <<pool, opened, waiters, permits, total, lost, uses>>

(* The block raised an exception: the connection is closed and discounted,    *)
(* and nobody who waits is told.                                              *)
BlockFails(u) ==
    /\ pool # "rust" /\ pc[u] = "using"
    /\ Give(u, None, "failing")
    /\ state' = [state EXCEPT ![held[u]] = "closed"]
    /\ UNCHANGED <<pool, opened, idle, waiters, permits, total, lost, uses>>

(* A task is cancelled, or a thread interrupted, while it holds or checks a   *)
(* connection or is about to discount one: `except Exception` does not see    *)
(* it, and the count stays.                                                   *)
Cancelled(u) ==
    /\ pool # "rust" /\ pc[u] \in {"using", "checking", "discounting", "failing"}
    /\ Give(u, None, "out") /\ lost' = lost + 1
    /\ state' = IF held[u] = None THEN state ELSE [state EXCEPT ![held[u]] = "closed"]
    /\ UNCHANGED <<pool, opened, idle, waiters, permits, total, uses>>

(* close_all empties the queue, one connection after the other.               *)
CloseIdle(u) ==
    /\ pool # "rust" /\ pc[u] = "out" /\ idle # <<>>
    /\ idle' = Tail(idle) /\ state' = [state EXCEPT ![Head(idle)] = "closed"]
    /\ Goto(u, "failing")
    /\ UNCHANGED <<pool, opened, held, waiters, permits, total, lost, uses>>
-----------------------------------------------------------------------------
(* ConnectionPool::new connects min_connections times; a Python pool is empty.*)
PoolInit ==
    /\ pool \in Pools /\ opened \in IF pool = "rust" THEN MinSizes ELSE {0}
    /\ \E first \in [1 .. opened -> Sockets] :
         /\ \A i, j \in 1 .. opened : first[i] = first[j] => i = j
         /\ idle = first
         /\ state = [s \in Sockets |-> IF \E i \in 1 .. opened : first[i] = s
                                       THEN "good" ELSE "closed"]
    /\ pc = [u \in Users |-> "out"] /\ held = [u \in Users |-> None]
    /\ waiters = <<>> /\ permits = MaxSize /\ total = 0 /\ lost = 0 /\ uses = 0

UserStep(u) ==
    \/ GetPop(u) \/ GetConnect(u) \/ DropConnection(u) \/ ReturnConnection(u)
    \/ TakeIdle(u) \/ CheckAlive(u) \/ Discount(u) \/ CreateConnection(u) \/ WaitTimeout(u)
    \/ Release(u) \/ BlockFails(u) \/ Cancelled(u)

PoolNext ==
    \/ GetPermit
    \/ \E s \in Sockets, as \in {"stale", "dead"} : Spoil(s, as)
    \/ \E u \in Users : Ask(u) \/ UserStep(u) \/ CloseIdle(u)

PoolSpec == PoolInit /\ [][PoolNext]_poolVars

(* The runtime polls every task, and a user gives its connection back.        *)
PoolFairness == WF_poolVars(GetPermit) /\ \A u \in Users : WF_poolVars(UserStep(u))
-----------------------------------------------------------------------------
(* Properties.                                                                *)

RustSteps == {"out", "waiting", "popping", "connecting", "using", "returning"}
PythonSteps ==
    {"out", "draining", "exhausted", "creating", "checking", "using", "discounting", "failing"}
StepsHere == IF pool = "rust" THEN RustSteps ELSE PythonSteps

(* What a pool may have: max_connections, or what it was opened with.         *)
Limit == IF opened > MaxSize THEN opened ELSE MaxSize

PoolTypeOK ==
    /\ pool \in Pools /\ opened \in Nat
    /\ state \in [Sockets -> {"closed", "good", "stale", "dead"}]
    /\ pc \in [Users -> StepsHere] /\ held \in [Users -> Sockets \cup {None}]
    /\ waiters \in Seq(Users)
    /\ permits \in 0 .. MaxSize /\ total \in Nat /\ lost \in Nat
    /\ idle \in Seq(Sockets) /\ Len(idle) <= Limit

Holding == {"checking", "using", "returning"}
Holders == {u \in Users : held[u] # None}
Open == {s \in Sockets : state[s] # "closed"}
Discounting == {u \in Users : pc[u] \in {"discounting", "failing"}}
Permitted == {u \in Users : pool = "rust" /\ pc[u] \in {"popping", "connecting", "using", "returning"}}
Connected == {u \in Users : pool = "rust" /\ pc[u] \in {"connecting", "using", "returning"}}

(* Every connection that is idle or held is open and in one place only, and a *)
(* user holds one just while it checks, uses or returns it.                   *)
PoolOwned ==
    /\ \A u \in Users : held[u] # None <=> pc[u] \in Holding
    /\ \A u \in Holders : state[held[u]] # "closed"
    /\ \A u, v \in Holders : held[u] = held[v] => u = v
    /\ \A i \in 1 .. Len(idle) : state[idle[i]] # "closed"
    /\ \A i, j \in 1 .. Len(idle) : idle[i] = idle[j] => i = j
    /\ \A i \in 1 .. Len(idle), u \in Users : idle[i] # held[u]

(* Nobody waits twice, and who is in the queue of the semaphore waits.        *)
PoolQueue ==
    /\ \A i \in 1 .. Len(waiters) : pc[waiters[i]] = "waiting"
    /\ \A i, j \in 1 .. Len(waiters) : waiters[i] = waiters[j] => i = j

(* There are never more connections than the pool may have, whatever the      *)
(* order in which they are made, returned, closed and discounted: MaxSize, or *)
(* min_connections where that was larger. A user of the Rust pool that is     *)
(* about to connect is already allowed for.                                   *)
PoolBound ==
    /\ Cardinality(Open) = Len(idle) + Cardinality(Holders)
    /\ Cardinality(Open) <= IF pool = "rust" THEN Limit ELSE MaxSize
    /\ Len(idle) + Cardinality(Connected) <= Limit
    /\ total <= MaxSize

(* The accounts balance: the Rust pool's permits with the calls that hold     *)
(* one, the Python pools' count with the connections and those about to be    *)
(* discounted; the rest is what failed connects and cancelled tasks lost.     *)
PoolBalance ==
    IF pool = "rust" THEN permits + Cardinality(Permitted) + lost = MaxSize
    ELSE total = Len(idle) + Cardinality(Holders) + Cardinality(Discounting) + lost

(* Who waits for a connection of the Rust pool gets one, or an error, unless  *)
(* permits were lost.                                                         *)
WaitersServed ==
    \A u \in Users : pc[u] = "waiting" ~> (pc[u] # "waiting" \/ lost > 0)

(* The pool never holds more connections than it may, never the same one      *)
(* twice, and its accounts explain every one of them.                         *)
PoolSound == PoolTypeOK /\ PoolOwned /\ PoolQueue /\ PoolBound /\ PoolBalance
=============================================================================
