----------------------------- MODULE PeersProofs -----------------------------
(* Proofs about the programs that talk to the server: the connection pools    *)
(* (Pool), the coordinator of the shards (ShardCoordinator), and a client on  *)
(* its connection (ClientSession).                                            *)
EXTENDS Pool, ShardCoordinator, ClientSession, FiniteSetTheorems, FunctionTheorems, SequenceTheorems, TLAPS

(* How many elements of D the function f takes into K.                        *)
Count(f, D, K) == Cardinality({x \in D : f[x] \in K})
One(v, K) == IF v \in K THEN 1 ELSE 0
Agree(f, g, D, x) == \A y \in D : y # x => g[y] = f[y]
Moved(n, m, v, w, K) == n \in Nat /\ m = n + One(w, K) - One(v, K)

(* Changing a function at one argument changes a count by at most one, and by *)
(* what the old and the new value say.                                        *)
LEMMA CountMove ==
    ASSUME NEW D, IsFiniteSet(D), NEW f, NEW g, NEW x \in D, NEW K, Agree(f, g, D, x)
    PROVE  Moved(Count(f, D, K), Count(g, D, K), f[x], g[x], K)
<1> USE DEF Agree, Moved
<1> DEFINE S == {y \in D : f[y] \in K}
           T == {y \in D : g[y] \in K}
<1>1. IsFiniteSet(S) /\ Cardinality(S) \in Nat
  BY FS_Subset, FS_CardinalityType
<1>2. x \in S <=> f[x] \in K
  OBVIOUS
<1>3. CASE g[x] \in K
  <2>1. T = S \cup {x}
    BY <1>3
  <2>2. Cardinality(T) = IF x \in S THEN Cardinality(S) ELSE Cardinality(S) + 1
    BY <2>1, <1>1, FS_AddElement
  <2> HIDE DEF S, T
  <2>3. Cardinality(T) = Cardinality(S) + 1 - (IF f[x] \in K THEN 1 ELSE 0)
    BY <1>1, <1>2, <2>2
  <2> USE DEF S, T
  <2> QED BY <1>1, <1>3, <2>3 DEF Count, One
<1>4. CASE g[x] \notin K
  <2>1. T = S \ {x}
    BY <1>4
  <2>2. Cardinality(T) = IF x \in S THEN Cardinality(S) - 1 ELSE Cardinality(S)
    BY <2>1, <1>1, FS_RemoveElement
  <2> HIDE DEF S, T
  <2>3. Cardinality(T) = Cardinality(S) + 0 - (IF f[x] \in K THEN 1 ELSE 0)
    BY <1>1, <1>2, <2>2
  <2> USE DEF S, T
  <2> QED BY <1>1, <1>4, <2>3 DEF Count, One
<1> QED BY <1>3, <1>4
-----------------------------------------------------------------------------
(* The accounts of a pool, as counts over the steps of its users.             *)

Alive == {"good", "stale", "dead"}
Leaving == {"discounting", "failing"}
PermitSteps == {"popping", "connecting", "using", "returning"}
ConnectSteps == {"connecting", "using", "returning"}

At(K) == Count(pc, Users, K)
Living == Count(state, Sockets, Alive)

PoolNumbers ==
    /\ Living = Len(idle) + At(Holding)
    /\ total <= MaxSize
    /\ pool = "rust" => /\ permits + At(PermitSteps) + lost = MaxSize
                        /\ Len(idle) + At(ConnectSteps) <= Limit
    /\ pool # "rust" => total = Len(idle) + At(Holding) + At(Leaving) + lost

(* The inductive invariant of the pools.                                      *)
PoolInv == PoolTypeOK /\ PoolOwned /\ PoolQueue /\ PoolNumbers

(* The counts are numbers.                                                    *)
LEMMA CountNat ==
    ASSUME NEW D, IsFiniteSet(D), NEW f, NEW K
    PROVE  Count(f, D, K) \in Nat
BY FS_Subset, FS_CardinalityType DEF Count

(* The accounts bound the open connections and explain every one of them.     *)
LEMMA NumbersSuffice == PoolInv => PoolSound
<1> SUFFICES ASSUME PoolInv PROVE PoolSound
  OBVIOUS
<1> USE PoolAssumption DEF PoolInv
<1>1. Holders = {u \in Users : pc[u] \in Holding}
  BY DEF Holders, PoolOwned
<1>2. Open = {s \in Sockets : state[s] \in Alive}
  BY DEF Open, Alive, PoolTypeOK
<1>3. Cardinality(Holders) = At(Holding) /\ Cardinality(Open) = Living
      /\ Cardinality(Discounting) = At(Leaving)
  BY <1>1, <1>2 DEF At, Living, Count, Discounting, Leaving
<1>4. At(Holding) \in Nat /\ At(Leaving) \in Nat /\ At(ConnectSteps) \in Nat
      /\ At(PermitSteps) \in Nat /\ Living \in Nat /\ Len(idle) \in Nat
  BY CountNat DEF At, Living, PoolTypeOK
<1>5. CASE pool = "rust"
  <2>1. Permitted = {u \in Users : pc[u] \in PermitSteps}
        /\ Connected = {u \in Users : pc[u] \in ConnectSteps}
    BY <1>5 DEF Permitted, Connected, PermitSteps, ConnectSteps
  <2>2. Cardinality(Permitted) = At(PermitSteps) /\ Cardinality(Connected) = At(ConnectSteps)
    BY <2>1 DEF At, Count
  <2>3. Holders \subseteq Connected /\ IsFiniteSet(Connected)
    <3>1. Holders \subseteq Connected
      BY <1>1, <1>5, <2>1 DEF Holding, ConnectSteps, PoolTypeOK, StepsHere, RustSteps
    <3>2. IsFiniteSet(Connected)
      BY FS_Subset DEF Connected
    <3> QED BY <3>1, <3>2
  <2>4. Cardinality(Holders) <= Cardinality(Connected)
    BY <2>3, FS_Subset
  <2>5. PoolBound
    BY <1>3, <1>4, <1>5, <2>2, <2>4 DEF PoolBound, PoolNumbers, PoolTypeOK, Limit
  <2>6. PoolBalance
    BY <1>5, <2>2 DEF PoolBalance, PoolNumbers
  <2> QED BY <2>5, <2>6 DEF PoolSound
<1>6. CASE pool # "rust"
  <2>1. Connected = {}
    BY <1>6 DEF Connected
  <2>2. Cardinality(Connected) = 0
    BY <2>1, FS_EmptySet
  <2>3. PoolBound
    BY <1>3, <1>4, <1>6, <2>2 DEF PoolBound, PoolNumbers, PoolTypeOK, Limit
  <2>4. PoolBalance
    BY <1>3, <1>6 DEF PoolBalance, PoolNumbers
  <2> QED BY <2>3, <2>4 DEF PoolSound
<1> QED BY <1>5, <1>6
-----------------------------------------------------------------------------
(* What a step does to the counts, the queue and the connections.             *)

(* A user goes from one step to another.                                      *)
LEMMA GotoCounts ==
    ASSUME PoolTypeOK, NEW u \in Users, NEW l, Goto(u, l), NEW K
    PROVE  /\ At(K) \in Nat
           /\ At(K)' = At(K) + One(l, K) - One(pc[u], K)
<1>1. At(K) = Count(pc, Users, K) /\ At(K)' = Count(pc', Users, K)
  BY DEF At, Count
<1>2. IsFiniteSet(Users) /\ pc'[u] = l /\ \A v \in Users : v # u => pc'[v] = pc[v]
  BY PoolAssumption DEF PoolTypeOK, Goto
<1>3. Agree(pc, pc', Users, u)
  BY <1>2 DEF Agree
<1>4. Moved(Count(pc, Users, K), Count(pc', Users, K), pc[u], pc'[u], K)
  BY <1>2, <1>3, CountMove
<1> QED BY <1>1, <1>2, <1>4 DEF Moved

LEMMA GotoType ==
    ASSUME PoolTypeOK, NEW u \in Users, NEW l \in StepsHere, Goto(u, l), pool' = pool /\ opened' = opened
    PROVE  pc' \in [Users -> StepsHere'] /\ pc'[u] = l /\ \A v \in Users \ {u} : pc'[v] = pc[v]
BY DEF Goto, PoolTypeOK, StepsHere, Limit

(* A user that does not wait leaves the queue alone.                          *)
LEMMA QueueKept ==
    ASSUME PoolTypeOK, PoolQueue, NEW u \in Users, NEW l, Goto(u, l), pc[u] # "waiting",
           waiters' = waiters
    PROVE  PoolQueue'
<1>1. \A i \in 1 .. Len(waiters) : waiters[i] \in Users /\ waiters[i] # u
  BY DEF PoolQueue, PoolTypeOK
<1> QED BY <1>1 DEF PoolQueue, PoolTypeOK, Goto

(* A socket changes its state.                                                *)
Becomes(s, as) == state' = [state EXCEPT ![s] = as]

LEMMA SocketCount ==
    ASSUME PoolTypeOK, NEW s \in Sockets, NEW as \in {"closed", "good", "stale", "dead"},
           Becomes(s, as)
    PROVE  /\ Living \in Nat
           /\ as # "closed" /\ state[s] = "closed" => Living' = Living + 1
           /\ as # "closed" /\ state[s] # "closed" => Living' = Living
           /\ as = "closed" /\ state[s] # "closed" => Living' = Living - 1
           /\ state' \in [Sockets -> {"closed", "good", "stale", "dead"}]
           /\ state'[s] = as /\ \A t \in Sockets : t # s => state'[t] = state[t]
<1> USE DEF Becomes
<1>1. /\ Living \in Nat
      /\ Living' = Living + One(as, Alive) - One(state[s], Alive)
  <2>1. Living = Count(state, Sockets, Alive) /\ Living' = Count(state', Sockets, Alive)
    BY DEF Living, Count
  <2>2. IsFiniteSet(Sockets) /\ state'[s] = as /\ \A t \in Sockets : t # s => state'[t] = state[t]
    BY PoolAssumption DEF PoolTypeOK
  <2>3. Agree(state, state', Sockets, s)
    BY <2>2 DEF Agree
  <2>4. Moved(Count(state, Sockets, Alive), Count(state', Sockets, Alive), state[s], state'[s], Alive)
    BY <2>2, <2>3, CountMove
  <2> QED BY <2>1, <2>2, <2>4 DEF Moved
<1>2. (as \in Alive <=> as # "closed") /\ (state[s] \in Alive <=> state[s] # "closed")
  BY DEF Alive, PoolTypeOK
<1>3. state' \in [Sockets -> {"closed", "good", "stale", "dead"}]
      /\ state'[s] = as /\ \A t \in Sockets : t # s => state'[t] = state[t]
  BY DEF PoolTypeOK
<1>4. /\ One(as, Alive) = IF as = "closed" THEN 0 ELSE 1
      /\ One(state[s], Alive) = IF state[s] = "closed" THEN 0 ELSE 1
  BY <1>2 DEF One
<1>5. as # "closed" /\ state[s] = "closed" => Living' = Living + 1
  BY <1>1, <1>4
<1>6. as # "closed" /\ state[s] # "closed" => Living' = Living
  BY <1>1, <1>4
<1>7. as = "closed" /\ state[s] # "closed" => Living' = Living - 1
  BY <1>1, <1>4
<1> QED BY <1>1, <1>3, <1>5, <1>6, <1>7

(* A count grows with the set it counts into.                                 *)
LEMMA CountGrows ==
    ASSUME NEW D, IsFiniteSet(D), NEW f, NEW K, NEW L, K \subseteq L
    PROVE  Count(f, D, K) <= Count(f, D, L)
<1>1. {x \in D : f[x] \in K} \subseteq {x \in D : f[x] \in L}
  OBVIOUS
<1>2. IsFiniteSet({x \in D : f[x] \in L})
  BY FS_Subset
<1> QED BY <1>1, <1>2, FS_Subset DEF Count

(* All the counts of users, before and after a user goes on.                  *)
LEMMA AllCounts ==
    ASSUME PoolTypeOK, NEW u \in Users, NEW l, Goto(u, l)
    PROVE  /\ At(Holding)' = At(Holding) + One(l, Holding) - One(pc[u], Holding)
           /\ At(Leaving)' = At(Leaving) + One(l, Leaving) - One(pc[u], Leaving)
           /\ At(PermitSteps)' = At(PermitSteps) + One(l, PermitSteps) - One(pc[u], PermitSteps)
           /\ At(ConnectSteps)' = At(ConnectSteps) + One(l, ConnectSteps) - One(pc[u], ConnectSteps)
           /\ At(Holding) \in Nat /\ At(Leaving) \in Nat
           /\ At(PermitSteps) \in Nat /\ At(ConnectSteps) \in Nat
           /\ At(Holding)' \in Nat /\ At(Leaving)' \in Nat
           /\ At(PermitSteps)' \in Nat /\ At(ConnectSteps)' \in Nat
           /\ At(ConnectSteps)' <= At(PermitSteps)'
<1>1. Holding' = Holding /\ Leaving' = Leaving /\ PermitSteps' = PermitSteps
      /\ ConnectSteps' = ConnectSteps
  BY DEF Holding, Leaving, PermitSteps, ConnectSteps
<1>2. \A K : At(K) \in Nat /\ At(K)' = At(K) + One(l, K) - One(pc[u], K)
  BY GotoCounts
<1>3. \A K : Count(pc', Users, K) \in Nat
  BY CountNat, PoolAssumption
<1>4. \A K : At(K)' = Count(pc', Users, K)
  BY DEF At, Count
<1>5. ConnectSteps \subseteq PermitSteps
  BY DEF ConnectSteps, PermitSteps
<1>6. Count(pc', Users, ConnectSteps) <= Count(pc', Users, PermitSteps)
  BY <1>5, CountGrows, PoolAssumption
<1> QED BY <1>1, <1>2, <1>3, <1>4, <1>6

(* A user goes on, and keeps what it has.                                     *)
LEMMA OwnedMove ==
    ASSUME PoolTypeOK, PoolOwned, NEW u \in Users, NEW l, Goto(u, l),
           l \in Holding <=> pc[u] \in Holding,
           held' = held, idle' = idle, state' = state
    PROVE  PoolOwned'
BY DEF PoolTypeOK, PoolOwned, Holders, Goto, Holding

(* A sequence that lost its first or its last element.                        *)
Shorter(t, q, d) ==
    /\ t \in Seq(Sockets) /\ Len(t) = Len(q) - 1
    /\ \A i \in 1 .. Len(q) - 1 : t[i] = q[i + d]

LEMMA EndsTaken ==
    ASSUME NEW q \in Seq(Sockets), q # <<>>
    PROVE  /\ Shorter(Tail(q), q, 1) /\ Shorter(SubSeq(q, 1, Len(q) - 1), q, 0)
           /\ Len(q) \in Nat \ {0} /\ Head(q) = q[1]
<1>1. Len(q) \in Nat \ {0} /\ Head(q) = q[1]
  OBVIOUS
<1>2. Shorter(Tail(q), q, 1)
  BY <1>1 DEF Shorter
<1>3. Shorter(SubSeq(q, 1, Len(q) - 1), q, 0)
  <2> DEFINE n == Len(q) - 1
  <2>1. n \in Nat /\ \A i \in 1 .. n : q[i] \in Sockets
    BY <1>1
  <2> HIDE DEF n
  <2>2. SubSeq(q, 1, n) \in Seq(Sockets)
    BY <2>1, SubSeqProperties
  <2>3. /\ Len(SubSeq(q, 1, n)) = IF 1 <= n THEN n - 1 + 1 ELSE 0
        /\ \A i \in 1 .. n - 1 + 1 : SubSeq(q, 1, n)[i] = q[1 + i - 1]
    BY <2>1, SubSeqProperties
  <2>4. Len(SubSeq(q, 1, n)) = n /\ \A i \in 1 .. n : SubSeq(q, 1, n)[i] = q[i + 0]
    BY <2>1, <2>3
  <2> USE DEF n
  <2> QED BY <2>2, <2>4 DEF Shorter
<1> QED BY <1>1, <1>2, <1>3

(* A user takes a connection from one of the two ends of the idle ones.       *)
LEMMA OwnedTake ==
    ASSUME PoolTypeOK, PoolOwned, NEW u \in Users, NEW l \in Holding, pc[u] \notin Holding,
           idle # <<>>, NEW d \in {0, 1}, NEW k, k = IF d = 1 THEN 1 ELSE Len(idle),
           Shorter(idle', idle, d), Give(u, idle[k], l), state' = state
    PROVE  PoolOwned' /\ held' \in [Users -> Sockets \cup {None}]
<1> USE PoolAssumption
<1>1. Len(idle) \in Nat \ {0} /\ k \in 1 .. Len(idle)
  BY DEF PoolTypeOK
<1>2. Len(idle') = Len(idle) - 1
      /\ \A i \in 1 .. Len(idle') : i + d \in 1 .. Len(idle) /\ i + d # k /\ idle'[i] = idle[i + d]
  BY <1>1 DEF Shorter
<1>3. idle[k] \in Sockets /\ idle[k] # None
  BY <1>1 DEF PoolTypeOK
<1>4. held' \in [Users -> Sockets \cup {None}] /\ held'[u] = idle[k]
      /\ \A v \in Users : v # u => held'[v] = held[v]
  BY <1>3 DEF Give, PoolTypeOK
<1>5. pc'[u] = l /\ \A v \in Users : v # u => pc'[v] = pc[v]
  BY DEF Give, Goto, PoolTypeOK
<1>6. \A v \in Users : held'[v] # None <=> pc'[v] \in Holding
  BY <1>3, <1>4, <1>5 DEF PoolOwned
<1>7. \A v \in Users : held'[v] # None => state'[held'[v]] # "closed"
  BY <1>1, <1>3, <1>4 DEF PoolOwned, Holders
<1>8. \A v, w \in Users : held'[v] # None /\ held'[v] = held'[w] => v = w
  BY <1>1, <1>3, <1>4 DEF PoolOwned, Holders
<1>9. \A i \in 1 .. Len(idle') : state'[idle'[i]] # "closed"
  BY <1>2 DEF PoolOwned
<1>10. \A i, j \in 1 .. Len(idle') : idle'[i] = idle'[j] => i = j
  <2> SUFFICES ASSUME NEW i \in 1 .. Len(idle'), NEW j \in 1 .. Len(idle'), idle'[i] = idle'[j]
               PROVE  i = j
    OBVIOUS
  <2>1. idle[i + d] = idle[j + d] /\ i + d \in 1 .. Len(idle) /\ j + d \in 1 .. Len(idle)
    BY <1>2
  <2>2. i + d = j + d
    BY <2>1 DEF PoolOwned
  <2> QED BY <2>2, <1>1
<1>11. \A i \in 1 .. Len(idle'), v \in Users : idle'[i] # held'[v]
  BY <1>1, <1>2, <1>4 DEF PoolOwned
<1> QED BY <1>4, <1>6, <1>7, <1>8, <1>9, <1>10, <1>11 DEF PoolOwned, Holders, Holding

(* A user opens a connection.                                                 *)
LEMMA OwnedNew ==
    ASSUME PoolTypeOK, PoolOwned, NEW u \in Users, NEW l \in Holding, pc[u] \notin Holding,
           NEW s \in Closed, Give(u, s, l), Becomes(s, "good"), idle' = idle
    PROVE  /\ PoolOwned' /\ held' \in [Users -> Sockets \cup {None}]
           /\ state' \in [Sockets -> {"closed", "good", "stale", "dead"}]
           /\ Living' = Living + 1
<1> USE PoolAssumption
<1>1. s \in Sockets /\ state[s] = "closed" /\ s # None
  BY DEF Closed
<1>2. /\ state' \in [Sockets -> {"closed", "good", "stale", "dead"}]
      /\ Living' = Living + 1
  BY <1>1, SocketCount
<1>3. state'[s] = "good" /\ \A t \in Sockets : t # s => state'[t] = state[t]
  BY <1>1, SocketCount
<1>4. held' \in [Users -> Sockets \cup {None}] /\ held'[u] = s
      /\ \A v \in Users : v # u => held'[v] = held[v]
  BY <1>1 DEF Give, PoolTypeOK
<1>5. pc'[u] = l /\ \A v \in Users : v # u => pc'[v] = pc[v]
  BY DEF Give, Goto, PoolTypeOK
<1>6. \A v \in Users : held[v] # s
  BY <1>1 DEF PoolOwned, Holders
<1>7. \A i \in 1 .. Len(idle) : idle[i] # s /\ idle[i] \in Sockets
  BY <1>1 DEF PoolOwned, PoolTypeOK
<1>8. \A v \in Users : held'[v] # None <=> pc'[v] \in Holding
  BY <1>1, <1>4, <1>5 DEF PoolOwned
<1>9. \A v \in Users : held'[v] # None => state'[held'[v]] # "closed"
  BY <1>1, <1>3, <1>4 DEF PoolOwned, Holders, PoolTypeOK
<1>10. \A v, w \in Users : held'[v] # None /\ held'[v] = held'[w] => v = w
  BY <1>4, <1>6 DEF PoolOwned, Holders
<1>11. \A i \in 1 .. Len(idle) : state'[idle[i]] # "closed"
  BY <1>3, <1>7 DEF PoolOwned
<1>12. \A i \in 1 .. Len(idle), v \in Users : idle[i] # held'[v]
  BY <1>4, <1>7 DEF PoolOwned
<1> QED BY <1>2, <1>4, <1>8, <1>9, <1>10, <1>11, <1>12 DEF PoolOwned, Holders, Holding

(* A user puts its connection among the idle ones.                            *)
LEMMA OwnedPut ==
    ASSUME PoolTypeOK, PoolOwned, NEW u \in Users, NEW l, l \notin Holding, pc[u] \in Holding,
           Give(u, None, l), idle' = Append(idle, held[u]), state' = state
    PROVE  /\ PoolOwned' /\ held' \in [Users -> Sockets \cup {None}]
           /\ idle' \in Seq(Sockets) /\ Len(idle') = Len(idle) + 1
<1> USE PoolAssumption
<1>1. held[u] \in Sockets /\ held[u] # None /\ u \in Holders
  BY DEF PoolOwned, PoolTypeOK, Holders
<1>2. /\ idle' \in Seq(Sockets) /\ Len(idle') = Len(idle) + 1 /\ Len(idle) \in Nat
      /\ idle'[Len(idle) + 1] = held[u]
      /\ \A i \in 1 .. Len(idle) : idle'[i] = idle[i]
  BY <1>1 DEF PoolTypeOK
<1>3. held' \in [Users -> Sockets \cup {None}] /\ held'[u] = None
      /\ \A v \in Users : v # u => held'[v] = held[v]
  BY DEF Give, PoolTypeOK
<1>4. pc'[u] = l /\ \A v \in Users : v # u => pc'[v] = pc[v]
  BY DEF Give, Goto, PoolTypeOK
<1>5. \A v \in Users : held'[v] # None <=> pc'[v] \in Holding
  BY <1>3, <1>4 DEF PoolOwned
<1>6. \A v \in Users : held'[v] # None => state'[held'[v]] # "closed"
  BY <1>3 DEF PoolOwned, Holders
<1>7. \A v, w \in Users : held'[v] # None /\ held'[v] = held'[w] => v = w
  BY <1>3 DEF PoolOwned, Holders
<1>8. \A i \in 1 .. Len(idle') : i \in 1 .. Len(idle) \/ i = Len(idle) + 1
  BY <1>2
<1>9. \A i \in 1 .. Len(idle') : state'[idle'[i]] # "closed"
  BY <1>1, <1>2, <1>8 DEF PoolOwned
<1>10. \A i \in 1 .. Len(idle) : idle[i] # held[u]
  BY DEF PoolOwned
<1>11. \A i, j \in 1 .. Len(idle') : idle'[i] = idle'[j] => i = j
  BY <1>2, <1>8, <1>10 DEF PoolOwned
<1>12. \A v \in Users : held'[v] # held[u]
  BY <1>1, <1>3 DEF PoolOwned, Holders
<1>13. \A i \in 1 .. Len(idle'), v \in Users : idle'[i] # held'[v]
  <2> SUFFICES ASSUME NEW i \in 1 .. Len(idle'), NEW v \in Users PROVE idle'[i] # held'[v]
    OBVIOUS
  <2>1. CASE i = Len(idle) + 1
    BY <2>1, <1>2, <1>12
  <2>2. CASE i \in 1 .. Len(idle)
    <3>1. idle'[i] = idle[i] /\ idle[i] \in Sockets
      BY <2>2, <1>2 DEF PoolTypeOK
    <3>2. idle[i] # held[v]
      BY <2>2 DEF PoolOwned
    <3> QED BY <3>1, <3>2, <1>3
  <2> QED BY <2>1, <2>2, <1>8
<1> QED BY <1>2, <1>3, <1>5, <1>6, <1>7, <1>9, <1>11, <1>13 DEF PoolOwned, Holders, Holding

(* A user closes its connection.                                              *)
LEMMA OwnedDrop ==
    ASSUME PoolTypeOK, PoolOwned, NEW u \in Users, NEW l, l \notin Holding, pc[u] \in Holding,
           Give(u, None, l), Becomes(held[u], "closed"), idle' = idle
    PROVE  /\ PoolOwned' /\ held' \in [Users -> Sockets \cup {None}]
           /\ state' \in [Sockets -> {"closed", "good", "stale", "dead"}]
           /\ Living' = Living - 1
<1> USE PoolAssumption
<1>0. held[u] \in Sockets /\ held[u] # None /\ u \in Holders
  BY DEF PoolOwned, PoolTypeOK, Holders
<1>1. PICK s \in Sockets : s = held[u] /\ state[s] # "closed" /\ Becomes(s, "closed")
  BY <1>0 DEF PoolOwned
<1>2. /\ state' \in [Sockets -> {"closed", "good", "stale", "dead"}]
      /\ Living' = Living - 1
  BY <1>1, SocketCount
<1>3. \A t \in Sockets : t # s => state'[t] = state[t]
  BY <1>1, SocketCount
<1>4. held' \in [Users -> Sockets \cup {None}] /\ held'[u] = None
      /\ \A v \in Users : v # u => held'[v] = held[v]
  BY DEF Give, PoolTypeOK
<1>5. pc'[u] = l /\ \A v \in Users : v # u => pc'[v] = pc[v]
  BY DEF Give, Goto, PoolTypeOK
<1>6. \A v \in Users : held'[v] # s /\ held'[v] \in Sockets \cup {None}
  BY <1>0, <1>1, <1>4 DEF PoolOwned, Holders
<1>7. \A i \in 1 .. Len(idle) : idle[i] # s /\ idle[i] \in Sockets
  BY <1>1 DEF PoolOwned, PoolTypeOK
<1>8. \A v \in Users : held'[v] # None <=> pc'[v] \in Holding
  BY <1>4, <1>5 DEF PoolOwned
<1>9. \A v \in Users : held'[v] # None => state'[held'[v]] # "closed"
  BY <1>3, <1>4, <1>6 DEF PoolOwned, Holders
<1>10. \A v, w \in Users : held'[v] # None /\ held'[v] = held'[w] => v = w
  BY <1>4 DEF PoolOwned, Holders
<1>11. \A i \in 1 .. Len(idle) : state'[idle[i]] # "closed"
  BY <1>3, <1>7 DEF PoolOwned
<1>12. \A i \in 1 .. Len(idle), v \in Users : idle[i] # held'[v]
  BY <1>4, <1>7 DEF PoolOwned
<1> QED BY <1>2, <1>4, <1>8, <1>9, <1>10, <1>11, <1>12 DEF PoolOwned, Holders, Holding

(* The first idle connection is closed.                                       *)
LEMMA OwnedClose ==
    ASSUME PoolTypeOK, PoolOwned, NEW u \in Users, NEW l, l \notin Holding, pc[u] \notin Holding,
           Goto(u, l), idle # <<>>, Shorter(idle', idle, 1), Becomes(idle[1], "closed"), held' = held
    PROVE  /\ PoolOwned' /\ state' \in [Sockets -> {"closed", "good", "stale", "dead"}]
           /\ Living' = Living - 1
<1> USE PoolAssumption
<1>0. Len(idle) \in Nat \ {0} /\ idle[1] \in Sockets /\ 1 \in 1 .. Len(idle)
  BY DEF PoolTypeOK
<1>1. PICK s \in Sockets : s = idle[1] /\ state[s] # "closed" /\ Becomes(s, "closed")
  BY <1>0 DEF PoolOwned
<1>2. /\ state' \in [Sockets -> {"closed", "good", "stale", "dead"}]
      /\ Living' = Living - 1
  BY <1>1, SocketCount
<1>3. \A t \in Sockets : t # s => state'[t] = state[t]
  BY <1>1, SocketCount
<1>4. \A i \in 1 .. Len(idle') :
        i + 1 \in 1 .. Len(idle) /\ idle'[i] = idle[i + 1] /\ idle'[i] \in Sockets /\ idle'[i] # s
  <2> SUFFICES ASSUME NEW i \in 1 .. Len(idle')
               PROVE  i + 1 \in 1 .. Len(idle) /\ idle'[i] = idle[i + 1]
                      /\ idle'[i] \in Sockets /\ idle'[i] # s
    OBVIOUS
  <2>1. i + 1 \in 1 .. Len(idle) /\ idle'[i] = idle[i + 1] /\ i + 1 # 1
    BY <1>0 DEF Shorter
  <2> QED BY <2>1, <1>0, <1>1 DEF PoolOwned, PoolTypeOK
<1>5. pc'[u] = l /\ \A v \in Users : v # u => pc'[v] = pc[v]
  BY DEF Goto, PoolTypeOK
<1>6. \A v \in Users : held[v] # s /\ held[v] \in Sockets \cup {None}
  BY <1>0, <1>1 DEF PoolOwned, PoolTypeOK
<1>7. \A v \in Users : held[v] # None <=> pc'[v] \in Holding
  BY <1>5 DEF PoolOwned
<1>8. \A v \in Users : held[v] # None => state'[held[v]] # "closed"
  BY <1>3, <1>6 DEF PoolOwned, Holders
<1>9. \A i \in 1 .. Len(idle') : state'[idle'[i]] # "closed"
  BY <1>3, <1>4 DEF PoolOwned
<1>10. \A i, j \in 1 .. Len(idle') : idle'[i] = idle'[j] => i = j
  <2> SUFFICES ASSUME NEW i \in 1 .. Len(idle'), NEW j \in 1 .. Len(idle'), idle'[i] = idle'[j]
               PROVE  i = j
    OBVIOUS
  <2>1. i + 1 = j + 1
    BY <1>4 DEF PoolOwned
  <2> QED BY <2>1
<1>11. \A i \in 1 .. Len(idle'), v \in Users : idle'[i] # held[v]
  BY <1>4 DEF PoolOwned
<1> QED BY <1>2, <1>7, <1>8, <1>9, <1>10, <1>11 DEF PoolOwned, Holders, Holding

(* The socket states and the number of open connections stay.                 *)
LEMMA LivingKept == state' = state => Living' = Living
BY DEF Living, Count, Alive

-----------------------------------------------------------------------------
(* Every step of the pools keeps the invariant. The steps of a user that      *)
(* keeps its connection.                                                      *)
LEMMA PoolMoves ==
    ASSUME PoolInv, NEW u \in Users,
           \/ Ask(u) \/ DropConnection(u) \/ Discount(u) \/ WaitTimeout(u)
    PROVE  PoolInv'
<1> USE PoolAssumption DEF PoolInv
<1>1. CASE Ask(u)
  <2>1. PICK l \in StepsHere : Goto(u, l) /\ l = IF pool = "rust" THEN "waiting" ELSE "draining"
    BY <1>1 DEF Ask, StepsHere, RustSteps, PythonSteps
  <2>2. PoolTypeOK'
    <3>1. pc' \in [Users -> StepsHere'] /\ pool' = pool /\ opened' = opened
      BY <1>1, <2>1, GotoType DEF Ask
    <3>2. waiters' = waiters \/ waiters' = Append(waiters, u)
      BY <1>1 DEF Ask
    <3>3. waiters' \in Seq(Users)
      BY <3>2 DEF PoolTypeOK
    <3> QED BY <1>1, <3>1, <3>3 DEF Ask, PoolTypeOK, Limit
  <2>3. PoolOwned'
    BY <1>1, <2>1, OwnedMove DEF Ask, Holding
  <2>4. PoolQueue'
    <3>1. CASE pool # "rust"
      BY <1>1, <2>1, <3>1, QueueKept DEF Ask
    <3>2. CASE pool = "rust"
      <4>1. \A i \in 1 .. Len(waiters) : waiters[i] \in Users /\ waiters[i] # u
        BY <1>1 DEF PoolQueue, PoolTypeOK, Ask
      <4>2. waiters' = Append(waiters, u) /\ Len(waiters) \in Nat
        BY <1>1, <3>2 DEF Ask, PoolTypeOK
      <4>3. /\ Len(waiters') = Len(waiters) + 1 /\ waiters'[Len(waiters) + 1] = u
            /\ \A i \in 1 .. Len(waiters) : waiters'[i] = waiters[i]
            /\ \A i \in 1 .. Len(waiters') : i \in 1 .. Len(waiters) \/ i = Len(waiters) + 1
        BY <4>2 DEF PoolTypeOK
      <4>4. pc'[u] = "waiting" /\ \A v \in Users \ {u} : pc'[v] = pc[v]
        BY <1>1, <3>2 DEF Ask, Goto, PoolTypeOK
      <4>5. \A i \in 1 .. Len(waiters') : pc'[waiters'[i]] = "waiting"
        BY <4>1, <4>3, <4>4 DEF PoolQueue
      <4>6. \A i, j \in 1 .. Len(waiters') : waiters'[i] = waiters'[j] => i = j
        BY <4>1, <4>3 DEF PoolQueue
      <4> QED BY <4>5, <4>6 DEF PoolQueue
    <3> QED BY <3>1, <3>2
  <2>5. PoolNumbers'
    <3>1. /\ At(Holding)' = At(Holding) /\ At(Leaving)' = At(Leaving)
          /\ At(PermitSteps)' = At(PermitSteps) /\ At(ConnectSteps)' = At(ConnectSteps)
          /\ At(Holding) \in Nat /\ At(Leaving) \in Nat
          /\ At(PermitSteps) \in Nat /\ At(ConnectSteps) \in Nat
      <4>1. l \notin Holding /\ l \notin Leaving /\ l \notin PermitSteps /\ l \notin ConnectSteps
        BY <2>1 DEF Holding, Leaving, PermitSteps, ConnectSteps
      <4>2. pc[u] \notin Holding /\ pc[u] \notin Leaving /\ pc[u] \notin PermitSteps
            /\ pc[u] \notin ConnectSteps
        BY <1>1 DEF Ask, Holding, Leaving, PermitSteps, ConnectSteps
      <4> QED BY <2>1, <4>1, <4>2, AllCounts DEF One
    <3>2. Living' = Living /\ idle' = idle /\ lost' = lost /\ total' = total /\ pool' = pool /\ opened' = opened
          /\ permits' = permits
      BY <1>1, LivingKept DEF Ask
    <3> QED BY <3>1, <3>2 DEF PoolNumbers, PoolTypeOK, Limit
  <2> QED BY <2>2, <2>3, <2>4, <2>5
<1>2. CASE DropConnection(u)
  <2>1. Goto(u, "returning") /\ "returning" \in StepsHere
    BY <1>2 DEF DropConnection, StepsHere, RustSteps
  <2>2. PoolTypeOK'
    BY <1>2, <2>1, GotoType DEF DropConnection, PoolTypeOK, StepsHere, Limit
  <2>3. PoolOwned'
    BY <1>2, <2>1, OwnedMove DEF DropConnection, Holding
  <2>4. PoolQueue'
    BY <1>2, <2>1, QueueKept DEF DropConnection
  <2>5. PoolNumbers'
    <3>1. /\ At(Holding)' = At(Holding) /\ At(Leaving)' = At(Leaving)
          /\ At(PermitSteps)' = At(PermitSteps) /\ At(ConnectSteps)' = At(ConnectSteps)
          /\ At(Holding) \in Nat /\ At(Leaving) \in Nat
          /\ At(PermitSteps) \in Nat /\ At(ConnectSteps) \in Nat
      BY <1>2, <2>1, AllCounts DEF DropConnection, One, Holding, Leaving, PermitSteps, ConnectSteps
    <3>2. Living' = Living /\ idle' = idle /\ lost' = lost /\ total' = total /\ pool' = pool /\ opened' = opened
          /\ permits' = permits
      BY <1>2, LivingKept DEF DropConnection
    <3> QED BY <3>1, <3>2 DEF PoolNumbers, PoolTypeOK, Limit
  <2> QED BY <2>2, <2>3, <2>4, <2>5
<1>3. CASE Discount(u)
  <2>1. PICK l \in StepsHere : Goto(u, l) /\ l = IF pc[u] = "discounting" THEN "draining" ELSE "out"
    BY <1>3 DEF Discount, StepsHere, RustSteps, PythonSteps, PoolTypeOK
  <2>2. pool # "rust"
    BY <1>3 DEF Discount, StepsHere, RustSteps, PoolTypeOK
  <2>3. PoolNumbers' /\ total' \in Nat
    <3>1. At(Leaving)' = At(Leaving) - 1 /\ At(Holding)' = At(Holding)
          /\ At(Leaving)' \in Nat /\ At(Leaving) \in Nat /\ At(Holding) \in Nat
      BY <1>3, <2>1, AllCounts DEF Discount, One, Leaving, Holding
    <3>2. Living' = Living /\ idle' = idle /\ lost' = lost /\ total' = total - 1 /\ pool' = pool /\ opened' = opened
      BY <1>3, LivingKept DEF Discount
    <3>3. total \in Nat /\ lost \in Nat /\ Len(idle) \in Nat
      BY DEF PoolTypeOK
    <3>4. Living = Len(idle) + At(Holding) /\ total <= MaxSize
      BY DEF PoolNumbers
    <3>5. total = Len(idle) + At(Holding) + At(Leaving) + lost
      BY <2>2 DEF PoolNumbers
    <3>6. Living' = Len(idle') + At(Holding)' /\ pool' # "rust"
      BY <2>2, <3>1, <3>2, <3>4
    <3>7. PICK a \in Nat, b \in Nat, c \in Nat, n \in Nat, h \in Nat, o \in Nat :
             /\ a = At(Leaving) /\ b = At(Holding) /\ c = At(Leaving)'
             /\ n = total /\ h = Len(idle) /\ o = lost
      BY <3>1, <3>3
    <3>8. c = a - 1 /\ n = h + b + a + o
      BY <3>1, <3>5, <3>7
    <3>9. n - 1 = h + b + c + o /\ n - 1 \in Nat
      BY <3>8
    <3>10. total' = Len(idle') + At(Holding)' + At(Leaving)' + lost' /\ total' \in Nat
      BY <3>1, <3>2, <3>7, <3>9
    <3>11. total' <= MaxSize
      BY <3>2, <3>3, <3>4, PoolAssumption
    <3> QED BY <3>6, <3>10, <3>11 DEF PoolNumbers
  <2>4. PoolTypeOK'
    BY <1>3, <2>1, <2>3, GotoType DEF Discount, PoolTypeOK, StepsHere, Limit
  <2>5. PoolOwned'
    BY <1>3, <2>1, OwnedMove DEF Discount, Holding
  <2>6. PoolQueue'
    BY <1>3, <2>1, QueueKept DEF Discount
  <2> QED BY <2>3, <2>4, <2>5, <2>6
<1>4. CASE WaitTimeout(u)
  <2>1. Goto(u, "out") /\ "out" \in StepsHere
    BY <1>4 DEF WaitTimeout, StepsHere, RustSteps, PythonSteps
  <2>2. PoolTypeOK'
    BY <1>4, <2>1, GotoType DEF WaitTimeout, PoolTypeOK, StepsHere, Limit
  <2>3. PoolOwned'
    BY <1>4, <2>1, OwnedMove DEF WaitTimeout, Holding
  <2>4. PoolQueue'
    BY <1>4, <2>1, QueueKept DEF WaitTimeout
  <2>5. PoolNumbers'
    <3>1. /\ At(Holding)' = At(Holding) /\ At(Leaving)' = At(Leaving)
          /\ At(PermitSteps)' = At(PermitSteps) /\ At(ConnectSteps)' = At(ConnectSteps)
          /\ At(Holding) \in Nat /\ At(Leaving) \in Nat
          /\ At(PermitSteps) \in Nat /\ At(ConnectSteps) \in Nat
      BY <1>4, <2>1, AllCounts DEF WaitTimeout, One, Holding, Leaving, PermitSteps, ConnectSteps
    <3>2. Living' = Living /\ idle' = idle /\ lost' = lost /\ total' = total /\ pool' = pool /\ opened' = opened
          /\ permits' = permits
      BY <1>4, LivingKept DEF WaitTimeout
    <3> QED BY <3>1, <3>2 DEF PoolNumbers, PoolTypeOK, Limit
  <2> QED BY <2>2, <2>3, <2>4, <2>5
<1> QED BY <1>1, <1>2, <1>3, <1>4

(* What holds whenever a user that does not wait goes on.                     *)
Onward(u) ==
    /\ pool \in Pools /\ pc' \in [Users -> StepsHere'] /\ waiters' \in Seq(Users) /\ PoolQueue'
    /\ Limit' = Limit

Sizes ==
    /\ At(Holding) \in Nat /\ At(Leaving) \in Nat /\ At(Leaving)' \in Nat
    /\ At(PermitSteps) \in Nat /\ At(PermitSteps)' \in Nat
    /\ At(ConnectSteps) \in Nat /\ At(ConnectSteps)' <= At(PermitSteps)'
    /\ Len(idle) \in Nat /\ Len(idle) <= Limit /\ Living \in Nat
    /\ permits \in 0 .. MaxSize /\ total \in Nat /\ lost \in Nat /\ MaxSize \in Nat
    /\ Limit \in Nat /\ MaxSize <= Limit

(* A permit that is given back is the returning user's.                       *)
LEMMA PermitReturned ==
    ASSUME NEW p \in Nat, NEW a \in Nat, NEW b \in Nat, NEW l \in Nat, NEW q, NEW k,
           p + a + l = MaxSize, q = p + 1, b = a - 1, k = l
    PROVE  q + b + k = MaxSize /\ q \in 0 .. MaxSize
  BY PoolAssumption

LEMMA GoesOnward ==
    ASSUME PoolInv, NEW u \in Users, NEW l \in StepsHere, Goto(u, l), pc[u] # "waiting",
           pool' = pool, opened' = opened, waiters' = waiters
    PROVE  Onward(u) /\ Sizes
<1>1. Onward(u)
  <2>1. Limit' = Limit
    BY DEF Limit
  <2> QED BY <2>1, GotoType, QueueKept DEF PoolInv, Onward, PoolTypeOK
<1>2. Len(idle) \in Nat /\ Living \in Nat
  BY CountNat, PoolAssumption DEF PoolInv, PoolTypeOK, Living
<1>3. Len(idle) <= Limit /\ permits \in 0 .. MaxSize /\ total \in Nat /\ lost \in Nat
  BY DEF PoolInv, PoolTypeOK
<1>4. MaxSize \in Nat /\ Limit \in Nat /\ MaxSize <= Limit
  BY PoolAssumption DEF PoolInv, PoolTypeOK, Limit
<1>5. Sizes
  BY <1>2, <1>3, <1>4, AllCounts DEF PoolInv, Sizes
<1> QED BY <1>1, <1>5

(* The steps of a user of the Rust pool that has its permit.                  *)
LEMMA PermitMoves ==
    ASSUME PoolInv, NEW u \in Users, GetPop(u) \/ GetConnect(u) \/ ReturnConnection(u)
    PROVE  PoolInv'
<1> USE PoolAssumption DEF PoolInv
<1>1. CASE GetPop(u) /\ idle = <<>>
  <2>1. pc[u] \in {"popping"} /\ pool = "rust" /\ "connecting" \in StepsHere
    BY <1>1 DEF GetPop, PoolTypeOK, StepsHere, RustSteps, PythonSteps
  <2>2. Goto(u, "connecting") /\ pool' = pool /\ opened' = opened /\ waiters' = waiters
    BY <1>1 DEF GetPop, Give
  <2>3. permits' = permits /\ total' = total /\ lost' = lost
    BY <1>1 DEF GetPop
  <2>4. /\ PoolOwned' /\ held' \in [Users -> Sockets \cup {None}]
        /\ state' \in [Sockets -> {"closed", "good", "stale", "dead"}]
        /\ idle' \in Seq(Sockets) /\ Len(idle') = Len(idle) /\ Living' = Living
    BY <1>1, <2>1, <2>2, OwnedMove, LivingKept DEF GetPop, Holding, PoolTypeOK
  <2>5. Len(idle') = Len(idle) /\ Living' = Living
    BY <2>4
  <2>6. Onward(u) /\ Sizes
    BY <2>1, <2>2, GoesOnward
  <2>7. At(Holding)' = At(Holding) /\ At(PermitSteps)' = At(PermitSteps)
        /\ At(ConnectSteps)' = At(ConnectSteps) + 1
    BY <2>1, <2>2, AllCounts DEF One, Holding, PermitSteps, ConnectSteps
  <2>8. /\ PoolNumbers' /\ permits' \in 0 .. MaxSize /\ total' \in Nat /\ lost' \in Nat
        /\ Len(idle') <= Limit
    <3>1. Living' = Len(idle') + At(Holding)'
      BY <2>6, <2>7, <2>5 DEF PoolNumbers, Sizes
    <3>2. total' <= MaxSize /\ total' \in Nat /\ lost' \in Nat /\ Len(idle') <= Limit
      BY <1>1, <2>3, <2>6, <2>5 DEF PoolNumbers, Sizes
    <3>3. permits' + At(PermitSteps)' + lost' = MaxSize /\ permits' \in 0 .. MaxSize
      BY <2>1, <2>3, <2>6, <2>7 DEF PoolNumbers, Sizes
    <3>4. Len(idle') + At(ConnectSteps)' <= Limit
      <4>1. Len(idle') = 0
        BY <1>1, <2>5
      <4>2. At(ConnectSteps)' <= At(PermitSteps)' /\ At(PermitSteps)' \in Nat
            /\ At(ConnectSteps)' \in Nat
        BY <2>6, <2>7 DEF Sizes
      <4>3. At(PermitSteps)' <= MaxSize
        BY <3>2, <3>3, <4>2
      <4>4. MaxSize <= Limit /\ MaxSize \in Nat /\ Limit \in Nat
        BY <2>6 DEF Sizes
      <4> QED BY <4>1, <4>2, <4>3, <4>4
    <3> QED BY <2>1, <2>2, <2>6, <3>1, <3>2, <3>3, <3>4 DEF PoolNumbers, Onward
  <2>9. PoolTypeOK'
    BY <2>2, <2>4, <2>6, <2>8 DEF PoolTypeOK, Onward
  <2> QED BY <2>4, <2>6, <2>8, <2>9 DEF Onward
<1>2. CASE GetPop(u) /\ idle # <<>>
  <2>1. pc[u] \in {"popping"} /\ pool = "rust" /\ "using" \in StepsHere
    BY <1>2 DEF GetPop, PoolTypeOK, StepsHere, RustSteps, PythonSteps
  <2>2. Goto(u, "using") /\ pool' = pool /\ opened' = opened /\ waiters' = waiters
    BY <1>2 DEF GetPop, Give
  <2>3. permits' = permits /\ total' = total /\ lost' = lost
    BY <1>2 DEF GetPop
  <2>4. /\ PoolOwned' /\ held' \in [Users -> Sockets \cup {None}]
        /\ state' \in [Sockets -> {"closed", "good", "stale", "dead"}]
        /\ idle' \in Seq(Sockets) /\ Len(idle') = Len(idle) - 1 /\ Living' = Living
    <3>1. Shorter(idle', idle, 0) /\ Give(u, idle[Len(idle)], "using") /\ state' = state
      BY <1>2, EndsTaken DEF GetPop, PoolTypeOK
    <3>2. PoolOwned' /\ held' \in [Users -> Sockets \cup {None}]
      BY <1>2, <2>1, <3>1, OwnedTake DEF Holding
    <3> QED BY <3>1, <3>2, LivingKept DEF Shorter, PoolTypeOK
  <2>5. Len(idle') = Len(idle) - 1 /\ Living' = Living
    BY <2>4
  <2>6. Onward(u) /\ Sizes
    BY <2>1, <2>2, GoesOnward
  <2>7. At(Holding)' = At(Holding) + 1 /\ At(PermitSteps)' = At(PermitSteps)
        /\ At(ConnectSteps)' = At(ConnectSteps) + 1
    BY <2>1, <2>2, AllCounts DEF One, Holding, PermitSteps, ConnectSteps
  <2>8. /\ PoolNumbers' /\ permits' \in 0 .. MaxSize /\ total' \in Nat /\ lost' \in Nat
        /\ Len(idle') <= Limit
    <3>1. Living' = Len(idle') + At(Holding)'
      BY <2>6, <2>7, <2>5 DEF PoolNumbers, Sizes
    <3>2. total' <= MaxSize /\ total' \in Nat /\ lost' \in Nat /\ Len(idle') <= Limit
      BY <2>3, <2>6, <2>5 DEF PoolNumbers, Sizes
    <3>3. permits' + At(PermitSteps)' + lost' = MaxSize /\ permits' \in 0 .. MaxSize
      BY <2>1, <2>3, <2>6, <2>7 DEF PoolNumbers, Sizes
    <3>4. Len(idle') + At(ConnectSteps)' <= Limit
      <4>1. Len(idle) + At(ConnectSteps) <= Limit
        BY <2>1 DEF PoolNumbers, Sizes
      <4>2. Len(idle') + At(ConnectSteps)' <= Len(idle) + At(ConnectSteps)
        BY <2>6, <2>7, <2>5 DEF Sizes
      <4> QED BY <4>1, <4>2, <2>6, <2>7, <2>5 DEF Sizes
    <3> QED BY <2>1, <2>2, <2>6, <3>1, <3>2, <3>3, <3>4 DEF PoolNumbers, Onward
  <2>9. PoolTypeOK'
    BY <2>2, <2>4, <2>6, <2>8 DEF PoolTypeOK, Onward
  <2> QED BY <2>4, <2>6, <2>8, <2>9 DEF Onward
<1>3. CASE /\ GetConnect(u) /\ lost' = lost
           /\ \E s \in Closed : Give(u, s, "using") /\ state' = [state EXCEPT ![s] = "good"]
  <2>1. pc[u] \in {"connecting"} /\ pool = "rust" /\ "using" \in StepsHere
    BY <1>3 DEF GetConnect, PoolTypeOK, StepsHere, RustSteps, PythonSteps
  <2>2. /\ \E s \in Closed : Give(u, s, "using") /\ Becomes(s, "good")
        /\ Goto(u, "using") /\ pool' = pool /\ opened' = opened /\ waiters' = waiters
    BY <1>3 DEF GetConnect, Give, Becomes
  <2>3. permits' = permits /\ total' = total /\ lost' = lost
    BY <1>3 DEF GetConnect
  <2>4. /\ PoolOwned' /\ held' \in [Users -> Sockets \cup {None}]
        /\ state' \in [Sockets -> {"closed", "good", "stale", "dead"}]
        /\ idle' \in Seq(Sockets) /\ Len(idle') = Len(idle) /\ Living' = Living + 1
    <3>1. idle' = idle
      BY <1>3 DEF GetConnect
    <3> QED BY <2>1, <2>2, <3>1, OwnedNew DEF Holding, PoolTypeOK
  <2>5. Len(idle') = Len(idle) /\ Living' = Living + 1
    BY <2>4
  <2>6. Onward(u) /\ Sizes
    BY <2>1, <2>2, GoesOnward
  <2>7. At(Holding)' = At(Holding) + 1 /\ At(PermitSteps)' = At(PermitSteps)
        /\ At(ConnectSteps)' = At(ConnectSteps)
    BY <2>1, <2>2, AllCounts DEF One, Holding, PermitSteps, ConnectSteps
  <2>8. /\ PoolNumbers' /\ permits' \in 0 .. MaxSize /\ total' \in Nat /\ lost' \in Nat
        /\ Len(idle') <= Limit
    <3>1. Living' = Len(idle') + At(Holding)'
      BY <2>6, <2>7, <2>5 DEF PoolNumbers, Sizes
    <3>2. total' <= MaxSize /\ total' \in Nat /\ lost' \in Nat /\ Len(idle') <= Limit
      BY <2>3, <2>6, <2>5 DEF PoolNumbers, Sizes
    <3>3. permits' + At(PermitSteps)' + lost' = MaxSize /\ permits' \in 0 .. MaxSize
      BY <2>1, <2>3, <2>6, <2>7 DEF PoolNumbers, Sizes
    <3>4. Len(idle') + At(ConnectSteps)' <= Limit
      <4>1. Len(idle) + At(ConnectSteps) <= Limit
        BY <2>1 DEF PoolNumbers, Sizes
      <4>2. Len(idle') + At(ConnectSteps)' <= Len(idle) + At(ConnectSteps)
        BY <2>6, <2>7, <2>5 DEF Sizes
      <4> QED BY <4>1, <4>2, <2>6, <2>7, <2>5 DEF Sizes
    <3> QED BY <2>1, <2>2, <2>6, <3>1, <3>2, <3>3, <3>4 DEF PoolNumbers, Onward
  <2>9. PoolTypeOK'
    BY <2>2, <2>4, <2>6, <2>8 DEF PoolTypeOK, Onward
  <2> QED BY <2>4, <2>6, <2>8, <2>9 DEF Onward
<1>4. CASE GetConnect(u) /\ Goto(u, "out") /\ lost' = lost + 1 /\ held' = held /\ state' = state
  <2>1. pc[u] \in {"connecting"} /\ pool = "rust" /\ "out" \in StepsHere
    BY <1>4 DEF GetConnect, PoolTypeOK, StepsHere, RustSteps, PythonSteps
  <2>2. Goto(u, "out") /\ pool' = pool /\ opened' = opened /\ waiters' = waiters
    BY <1>4 DEF GetConnect, Give
  <2>3. permits' = permits /\ total' = total /\ lost' = lost + 1
    BY <1>4 DEF GetConnect
  <2>4. /\ PoolOwned' /\ held' \in [Users -> Sockets \cup {None}]
        /\ state' \in [Sockets -> {"closed", "good", "stale", "dead"}]
        /\ idle' \in Seq(Sockets) /\ Len(idle') = Len(idle) /\ Living' = Living
    BY <1>4, <2>1, <2>2, OwnedMove, LivingKept DEF GetConnect, Holding, PoolTypeOK
  <2>5. Len(idle') = Len(idle) /\ Living' = Living
    BY <2>4
  <2>6. Onward(u) /\ Sizes
    BY <2>1, <2>2, GoesOnward
  <2>7. At(Holding)' = At(Holding) /\ At(PermitSteps)' = At(PermitSteps) - 1
        /\ At(ConnectSteps)' = At(ConnectSteps) - 1
    BY <2>1, <2>2, AllCounts DEF One, Holding, PermitSteps, ConnectSteps
  <2>8. /\ PoolNumbers' /\ permits' \in 0 .. MaxSize /\ total' \in Nat /\ lost' \in Nat
        /\ Len(idle') <= Limit
    <3>1. Living' = Len(idle') + At(Holding)'
      BY <2>6, <2>7, <2>5 DEF PoolNumbers, Sizes
    <3>2. total' <= MaxSize /\ total' \in Nat /\ lost' \in Nat /\ Len(idle') <= Limit
      BY <2>3, <2>6, <2>5 DEF PoolNumbers, Sizes
    <3>3. permits' + At(PermitSteps)' + lost' = MaxSize /\ permits' \in 0 .. MaxSize
      <4>1. permits + At(PermitSteps) + lost = MaxSize
        BY <2>1 DEF PoolNumbers
      <4>2. At(PermitSteps)' + lost' = At(PermitSteps) + lost /\ permits' = permits
        BY <2>3, <2>6, <2>7 DEF Sizes
      <4>3. permits' + At(PermitSteps)' + lost' = MaxSize
        <5>1. PICK b \in Nat, c \in Nat : b = At(PermitSteps) /\ c = lost
          BY <2>6 DEF Sizes
        <5>2. At(PermitSteps)' = b - 1 /\ lost' = c + 1 /\ permits' = permits
          BY <5>1, <2>3, <2>7
        <5>3. permits + b + c = MaxSize /\ permits \in Nat
          BY <4>1, <5>1, <2>6 DEF Sizes
        <5> HIDE DEF PoolInv
        <5> QED BY <5>2, <5>3
      <4> QED BY <4>3, <2>3, <2>6 DEF Sizes
    <3>4. Len(idle') + At(ConnectSteps)' <= Limit
      <4>1. Len(idle) + At(ConnectSteps) <= Limit
        BY <2>1 DEF PoolNumbers, Sizes
      <4>2. Len(idle') + At(ConnectSteps)' <= Len(idle) + At(ConnectSteps)
        BY <2>6, <2>7, <2>5 DEF Sizes
      <4> QED BY <4>1, <4>2, <2>6, <2>7, <2>5 DEF Sizes
    <3> QED BY <2>1, <2>2, <2>6, <3>1, <3>2, <3>3, <3>4 DEF PoolNumbers, Onward
  <2>9. PoolTypeOK'
    BY <2>2, <2>4, <2>6, <2>8 DEF PoolTypeOK, Onward
  <2> QED BY <2>4, <2>6, <2>8, <2>9 DEF Onward
<1>5. CASE ReturnConnection(u) /\ Len(idle) < MaxSize
  <2>1. pc[u] \in {"returning"} /\ pool = "rust" /\ "out" \in StepsHere
    BY <1>5 DEF ReturnConnection, PoolTypeOK, StepsHere, RustSteps, PythonSteps
  <2>2. Goto(u, "out") /\ pool' = pool /\ opened' = opened /\ waiters' = waiters
    BY <1>5 DEF ReturnConnection, Give
  <2>3. permits' = permits + 1 /\ total' = total /\ lost' = lost
    BY <1>5 DEF ReturnConnection
  <2>4. /\ PoolOwned' /\ held' \in [Users -> Sockets \cup {None}]
        /\ state' \in [Sockets -> {"closed", "good", "stale", "dead"}]
        /\ idle' \in Seq(Sockets) /\ Len(idle') = Len(idle) + 1 /\ Living' = Living
    <3>1. Give(u, None, "out") /\ idle' = Append(idle, held[u]) /\ state' = state
      BY <1>5 DEF ReturnConnection
    <3>2. PoolOwned' /\ held' \in [Users -> Sockets \cup {None}]
          /\ idle' \in Seq(Sockets) /\ Len(idle') = Len(idle) + 1
      BY <2>1, <3>1, OwnedPut DEF Holding
    <3> QED BY <3>1, <3>2, LivingKept DEF PoolTypeOK
  <2>5. Len(idle') = Len(idle) + 1 /\ Living' = Living
    BY <2>4
  <2>6. Onward(u) /\ Sizes
    BY <2>1, <2>2, GoesOnward
  <2>7. At(Holding)' = At(Holding) - 1 /\ At(PermitSteps)' = At(PermitSteps) - 1
        /\ At(ConnectSteps)' = At(ConnectSteps) - 1
    BY <2>1, <2>2, AllCounts DEF One, Holding, PermitSteps, ConnectSteps
  <2>8. /\ PoolNumbers' /\ permits' \in 0 .. MaxSize /\ total' \in Nat /\ lost' \in Nat
        /\ Len(idle') <= Limit
    <3>1. Living' = Len(idle') + At(Holding)'
      BY <2>6, <2>7, <2>5 DEF PoolNumbers, Sizes
    <3>2. total' <= MaxSize /\ total' \in Nat /\ lost' \in Nat /\ Len(idle') <= Limit
      BY <1>5, <2>3, <2>6, <2>5 DEF PoolNumbers, Sizes
    <3>3. permits' + At(PermitSteps)' + lost' = MaxSize /\ permits' \in 0 .. MaxSize
      <4>1. permits + At(PermitSteps) + lost = MaxSize
        BY <2>1 DEF PoolNumbers
      <4>2. permits \in Nat /\ At(PermitSteps) \in Nat /\ At(PermitSteps)' \in Nat /\ lost \in Nat
        BY <2>6 DEF Sizes
      <4>3. permits' = permits + 1 /\ At(PermitSteps)' = At(PermitSteps) - 1 /\ lost' = lost
        BY <2>3, <2>7
      <4> HIDE DEF PoolInv
      <4> QED BY <4>1, <4>2, <4>3, PermitReturned
    <3>4. Len(idle') + At(ConnectSteps)' <= Limit
      <4>1. Len(idle) + At(ConnectSteps) <= Limit
        BY <2>1 DEF PoolNumbers, Sizes
      <4>2. Len(idle') + At(ConnectSteps)' <= Len(idle) + At(ConnectSteps)
        BY <2>6, <2>7, <2>5 DEF Sizes
      <4> QED BY <4>1, <4>2, <2>6, <2>7, <2>5 DEF Sizes
    <3> QED BY <2>1, <2>2, <2>6, <3>1, <3>2, <3>3, <3>4 DEF PoolNumbers, Onward
  <2>9. PoolTypeOK'
    BY <2>2, <2>4, <2>6, <2>8 DEF PoolTypeOK, Onward
  <2> QED BY <2>4, <2>6, <2>8, <2>9 DEF Onward
<1>6. CASE ReturnConnection(u) /\ ~(Len(idle) < MaxSize)
  <2>1. pc[u] \in {"returning"} /\ pool = "rust" /\ "out" \in StepsHere
    BY <1>6 DEF ReturnConnection, PoolTypeOK, StepsHere, RustSteps, PythonSteps
  <2>2. Goto(u, "out") /\ pool' = pool /\ opened' = opened /\ waiters' = waiters
    BY <1>6 DEF ReturnConnection, Give
  <2>3. permits' = permits + 1 /\ total' = total /\ lost' = lost
    BY <1>6 DEF ReturnConnection
  <2>4. /\ PoolOwned' /\ held' \in [Users -> Sockets \cup {None}]
        /\ state' \in [Sockets -> {"closed", "good", "stale", "dead"}]
        /\ idle' \in Seq(Sockets) /\ Len(idle') = Len(idle) /\ Living' = Living - 1
    <3>1. Give(u, None, "out") /\ Becomes(held[u], "closed") /\ idle' = idle
      BY <1>6 DEF ReturnConnection, Becomes
    <3> QED BY <2>1, <3>1, OwnedDrop DEF Holding, PoolTypeOK
  <2>5. Len(idle') = Len(idle) /\ Living' = Living - 1
    BY <2>4
  <2>6. Onward(u) /\ Sizes
    BY <2>1, <2>2, GoesOnward
  <2>7. At(Holding)' = At(Holding) - 1 /\ At(PermitSteps)' = At(PermitSteps) - 1
        /\ At(ConnectSteps)' = At(ConnectSteps) - 1
    BY <2>1, <2>2, AllCounts DEF One, Holding, PermitSteps, ConnectSteps
  <2>8. /\ PoolNumbers' /\ permits' \in 0 .. MaxSize /\ total' \in Nat /\ lost' \in Nat
        /\ Len(idle') <= Limit
    <3>1. Living' = Len(idle') + At(Holding)'
      BY <2>6, <2>7, <2>5 DEF PoolNumbers, Sizes
    <3>2. total' <= MaxSize /\ total' \in Nat /\ lost' \in Nat /\ Len(idle') <= Limit
      BY <1>6, <2>3, <2>6, <2>5 DEF PoolNumbers, Sizes
    <3>3. permits' + At(PermitSteps)' + lost' = MaxSize /\ permits' \in 0 .. MaxSize
      <4>1. permits + At(PermitSteps) + lost = MaxSize
        BY <2>1 DEF PoolNumbers
      <4>2. permits \in Nat /\ At(PermitSteps) \in Nat /\ At(PermitSteps)' \in Nat /\ lost \in Nat
        BY <2>6 DEF Sizes
      <4>3. permits' = permits + 1 /\ At(PermitSteps)' = At(PermitSteps) - 1 /\ lost' = lost
        BY <2>3, <2>7
      <4> HIDE DEF PoolInv
      <4> QED BY <4>1, <4>2, <4>3, PermitReturned
    <3>4. Len(idle') + At(ConnectSteps)' <= Limit
      <4>1. Len(idle) + At(ConnectSteps) <= Limit
        BY <2>1 DEF PoolNumbers, Sizes
      <4>2. Len(idle') + At(ConnectSteps)' <= Len(idle) + At(ConnectSteps)
        BY <2>6, <2>7, <2>5 DEF Sizes
      <4> QED BY <4>1, <4>2, <2>6, <2>7, <2>5 DEF Sizes
    <3> QED BY <2>1, <2>2, <2>6, <3>1, <3>2, <3>3, <3>4 DEF PoolNumbers, Onward
  <2>9. PoolTypeOK'
    BY <2>2, <2>4, <2>6, <2>8 DEF PoolTypeOK, Onward
  <2> QED BY <2>4, <2>6, <2>8, <2>9 DEF Onward
<1> QED BY <1>1, <1>2, <1>3, <1>4, <1>5, <1>6 DEF GetPop, GetConnect, ReturnConnection, Give

(* The steps of a user of a Python pool that looks for a connection.          *)
LEMMA PythonGets ==
    ASSUME PoolInv, NEW u \in Users, TakeIdle(u) \/ CheckAlive(u) \/ CreateConnection(u)
    PROVE  PoolInv'
<1> USE PoolAssumption DEF PoolInv
<1>1. CASE TakeIdle(u) /\ idle = <<>>
  <2>1. pc[u] \in {"draining"} /\ pool # "rust" /\ "creating" \in StepsHere
    BY <1>1 DEF TakeIdle, PoolTypeOK, StepsHere, RustSteps, PythonSteps
  <2>2. Goto(u, "creating") /\ pool' = pool /\ opened' = opened /\ waiters' = waiters
    BY <1>1 DEF TakeIdle, Give
  <2>3. permits' = permits /\ total' = total /\ lost' = lost
    BY <1>1 DEF TakeIdle
  <2>4. /\ PoolOwned' /\ held' \in [Users -> Sockets \cup {None}]
        /\ state' \in [Sockets -> {"closed", "good", "stale", "dead"}]
        /\ idle' \in Seq(Sockets) /\ Len(idle') = Len(idle) /\ Living' = Living
    BY <1>1, <2>1, <2>2, OwnedMove, LivingKept DEF TakeIdle, Holding, PoolTypeOK
  <2>5. Len(idle') = Len(idle) /\ Living' = Living
    BY <2>4
  <2>6. Onward(u) /\ Sizes
    BY <2>1, <2>2, GoesOnward
  <2>7. At(Holding)' = At(Holding) /\ At(Leaving)' = At(Leaving)
    BY <2>1, <2>2, AllCounts DEF One, Holding, Leaving
  <2>8. /\ PoolNumbers' /\ permits' \in 0 .. MaxSize /\ total' \in Nat /\ lost' \in Nat
        /\ Len(idle') <= Limit
    <3>1. Living' = Len(idle') + At(Holding)'
      BY <2>6, <2>7, <2>5 DEF PoolNumbers, Sizes
    <3>2. total' <= MaxSize /\ total' \in Nat /\ lost' \in Nat /\ Len(idle') <= Limit
      BY <1>1, <2>1, <2>3, <2>6, <2>7, <2>5 DEF PoolNumbers, Sizes
    <3>3. total' = Len(idle') + At(Holding)' + At(Leaving)' + lost' /\ permits' \in 0 .. MaxSize
      <4>1. total = Len(idle) + At(Holding) + At(Leaving) + lost
        BY <2>1 DEF PoolNumbers, Sizes
      <4> QED BY <4>1, <2>3, <2>6, <2>7, <2>5 DEF Sizes
    <3> QED BY <2>1, <2>2, <2>6, <3>1, <3>2, <3>3 DEF PoolNumbers, Onward
  <2>9. PoolTypeOK'
    BY <2>2, <2>4, <2>6, <2>8 DEF PoolTypeOK, Onward
  <2> QED BY <2>4, <2>6, <2>8, <2>9 DEF Onward
<1>2. CASE TakeIdle(u) /\ idle # <<>>
  <2>1. pc[u] \in {"draining", "exhausted"} /\ pool # "rust" /\ "checking" \in StepsHere
    BY <1>2 DEF TakeIdle, PoolTypeOK, StepsHere, RustSteps, PythonSteps
  <2>2. Goto(u, "checking") /\ pool' = pool /\ opened' = opened /\ waiters' = waiters
    BY <1>2 DEF TakeIdle, Give
  <2>3. permits' = permits /\ total' = total /\ lost' = lost
    BY <1>2 DEF TakeIdle
  <2>4. /\ PoolOwned' /\ held' \in [Users -> Sockets \cup {None}]
        /\ state' \in [Sockets -> {"closed", "good", "stale", "dead"}]
        /\ idle' \in Seq(Sockets) /\ Len(idle') = Len(idle) - 1 /\ Living' = Living
    <3>1. Shorter(idle', idle, 1) /\ Give(u, idle[1], "checking") /\ state' = state
      BY <1>2, EndsTaken DEF TakeIdle, PoolTypeOK
    <3>2. PoolOwned' /\ held' \in [Users -> Sockets \cup {None}]
      BY <1>2, <2>1, <3>1, OwnedTake DEF Holding
    <3> QED BY <3>1, <3>2, LivingKept DEF Shorter, PoolTypeOK
  <2>5. Len(idle') = Len(idle) - 1 /\ Living' = Living
    BY <2>4
  <2>6. Onward(u) /\ Sizes
    BY <2>1, <2>2, GoesOnward
  <2>7. At(Holding)' = At(Holding) + 1 /\ At(Leaving)' = At(Leaving)
    BY <2>1, <2>2, AllCounts DEF One, Holding, Leaving
  <2>8. /\ PoolNumbers' /\ permits' \in 0 .. MaxSize /\ total' \in Nat /\ lost' \in Nat
        /\ Len(idle') <= Limit
    <3>1. Living' = Len(idle') + At(Holding)'
      BY <2>6, <2>7, <2>5 DEF PoolNumbers, Sizes
    <3>2. total' <= MaxSize /\ total' \in Nat /\ lost' \in Nat /\ Len(idle') <= Limit
      BY <2>1, <2>3, <2>6, <2>7, <2>5 DEF PoolNumbers, Sizes
    <3>3. total' = Len(idle') + At(Holding)' + At(Leaving)' + lost' /\ permits' \in 0 .. MaxSize
      <4>1. total = Len(idle) + At(Holding) + At(Leaving) + lost
        BY <2>1 DEF PoolNumbers, Sizes
      <4> QED BY <4>1, <2>3, <2>6, <2>7, <2>5 DEF Sizes
    <3> QED BY <2>1, <2>2, <2>6, <3>1, <3>2, <3>3 DEF PoolNumbers, Onward
  <2>9. PoolTypeOK'
    BY <2>2, <2>4, <2>6, <2>8 DEF PoolTypeOK, Onward
  <2> QED BY <2>4, <2>6, <2>8, <2>9 DEF Onward
<1>3. CASE CheckAlive(u) /\ Goto(u, "using")
  <2>1. pc[u] \in {"checking"} /\ pool # "rust" /\ "using" \in StepsHere
    BY <1>3 DEF CheckAlive, PoolTypeOK, StepsHere, RustSteps, PythonSteps
  <2>2. Goto(u, "using") /\ pool' = pool /\ opened' = opened /\ waiters' = waiters
    BY <1>3 DEF CheckAlive, Give
  <2>3. permits' = permits /\ total' = total /\ lost' = lost
    BY <1>3 DEF CheckAlive
  <2>4. /\ PoolOwned' /\ held' \in [Users -> Sockets \cup {None}]
        /\ state' \in [Sockets -> {"closed", "good", "stale", "dead"}]
        /\ idle' \in Seq(Sockets) /\ Len(idle') = Len(idle) /\ Living' = Living
    <3>1. held' = held /\ idle' = idle
      BY <1>3, <2>1, GotoType DEF CheckAlive, Give, Goto, PoolTypeOK
    <3>2. CASE state' = state
      BY <2>1, <2>2, <3>1, <3>2, OwnedMove, LivingKept DEF Holding, PoolTypeOK
    <3>3. CASE state' # state
      <4>1. held[u] \in Sockets /\ held[u] # None
        BY <2>1 DEF PoolOwned, PoolTypeOK, Holding
      <4>2. state[held[u]] = "dead" /\ Becomes(held[u], "good")
        BY <1>3, <2>1, <3>3 DEF CheckAlive, Give, Goto, Becomes, PoolTypeOK
      <4>3. /\ Living' = Living /\ state' \in [Sockets -> {"closed", "good", "stale", "dead"}]
            /\ \A t \in Sockets : state[t] # "closed" => state'[t] # "closed"
        BY <4>1, <4>2, SocketCount
      <4>4. pc' \in [Users -> StepsHere] /\ \A v \in Users : pc'[v] \in Holding <=> pc[v] \in Holding
        BY <2>1, <2>2 DEF Goto, Holding, PoolTypeOK
      <4>5. PoolOwned'
        <5>1. \A v \in Users : held[v] # None => state'[held[v]] # "closed"
          BY <4>3 DEF PoolOwned, Holders, PoolTypeOK
        <5>2. \A i \in 1 .. Len(idle) : state'[idle[i]] # "closed"
          BY <4>3 DEF PoolOwned, PoolTypeOK
        <5> QED BY <3>1, <4>4, <5>1, <5>2 DEF PoolOwned, Holders
      <4> QED BY <3>1, <4>3, <4>5 DEF PoolTypeOK
    <3> QED BY <3>2, <3>3
  <2>5. Len(idle') = Len(idle) /\ Living' = Living
    BY <2>4
  <2>6. Onward(u) /\ Sizes
    BY <2>1, <2>2, GoesOnward
  <2>7. At(Holding)' = At(Holding) /\ At(Leaving)' = At(Leaving)
    BY <2>1, <2>2, AllCounts DEF One, Holding, Leaving
  <2>8. /\ PoolNumbers' /\ permits' \in 0 .. MaxSize /\ total' \in Nat /\ lost' \in Nat
        /\ Len(idle') <= Limit
    <3>1. Living' = Len(idle') + At(Holding)'
      BY <2>6, <2>7, <2>5 DEF PoolNumbers, Sizes
    <3>2. total' <= MaxSize /\ total' \in Nat /\ lost' \in Nat /\ Len(idle') <= Limit
      BY <2>1, <2>3, <2>6, <2>7, <2>5 DEF PoolNumbers, Sizes
    <3>3. total' = Len(idle') + At(Holding)' + At(Leaving)' + lost' /\ permits' \in 0 .. MaxSize
      <4>1. total = Len(idle) + At(Holding) + At(Leaving) + lost
        BY <2>1 DEF PoolNumbers, Sizes
      <4> QED BY <4>1, <2>3, <2>6, <2>7, <2>5 DEF Sizes
    <3> QED BY <2>1, <2>2, <2>6, <3>1, <3>2, <3>3 DEF PoolNumbers, Onward
  <2>9. PoolTypeOK'
    BY <2>2, <2>4, <2>6, <2>8 DEF PoolTypeOK, Onward
  <2> QED BY <2>4, <2>6, <2>8, <2>9 DEF Onward
<1>4. CASE /\ CheckAlive(u) /\ Give(u, None, "discounting")
           /\ state' = [state EXCEPT ![held[u]] = "closed"]
  <2>1. pc[u] \in {"checking"} /\ pool # "rust" /\ "discounting" \in StepsHere
    BY <1>4 DEF CheckAlive, PoolTypeOK, StepsHere, RustSteps, PythonSteps
  <2>2. Goto(u, "discounting") /\ pool' = pool /\ opened' = opened /\ waiters' = waiters
    BY <1>4 DEF CheckAlive, Give
  <2>3. permits' = permits /\ total' = total /\ lost' = lost
    BY <1>4 DEF CheckAlive
  <2>4. /\ PoolOwned' /\ held' \in [Users -> Sockets \cup {None}]
        /\ state' \in [Sockets -> {"closed", "good", "stale", "dead"}]
        /\ idle' \in Seq(Sockets) /\ Len(idle') = Len(idle) /\ Living' = Living - 1
    <3>1. Give(u, None, "discounting") /\ Becomes(held[u], "closed") /\ idle' = idle
      BY <1>4 DEF CheckAlive, Becomes
    <3> QED BY <2>1, <3>1, OwnedDrop DEF Holding, PoolTypeOK
  <2>5. Len(idle') = Len(idle) /\ Living' = Living - 1
    BY <2>4
  <2>6. Onward(u) /\ Sizes
    BY <2>1, <2>2, GoesOnward
  <2>7. At(Holding)' = At(Holding) - 1 /\ At(Leaving)' = At(Leaving) + 1
    BY <2>1, <2>2, AllCounts DEF One, Holding, Leaving
  <2>8. /\ PoolNumbers' /\ permits' \in 0 .. MaxSize /\ total' \in Nat /\ lost' \in Nat
        /\ Len(idle') <= Limit
    <3>1. Living' = Len(idle') + At(Holding)'
      BY <2>6, <2>7, <2>5 DEF PoolNumbers, Sizes
    <3>2. total' <= MaxSize /\ total' \in Nat /\ lost' \in Nat /\ Len(idle') <= Limit
      BY <2>1, <2>3, <2>6, <2>7, <2>5 DEF PoolNumbers, Sizes
    <3>3. total' = Len(idle') + At(Holding)' + At(Leaving)' + lost' /\ permits' \in 0 .. MaxSize
      <4>1. total = Len(idle) + At(Holding) + At(Leaving) + lost
        BY <2>1 DEF PoolNumbers, Sizes
      <4> QED BY <4>1, <2>3, <2>6, <2>7, <2>5 DEF Sizes
    <3> QED BY <2>1, <2>2, <2>6, <3>1, <3>2, <3>3 DEF PoolNumbers, Onward
  <2>9. PoolTypeOK'
    BY <2>2, <2>4, <2>6, <2>8 DEF PoolTypeOK, Onward
  <2> QED BY <2>4, <2>6, <2>8, <2>9 DEF Onward
<1>5. CASE /\ CreateConnection(u) /\ total < MaxSize /\ total' = total + 1
           /\ \E s \in Closed : Give(u, s, "using") /\ state' = [state EXCEPT ![s] = "good"]
  <2>1. pc[u] \in {"creating"} /\ pool # "rust" /\ "using" \in StepsHere
    BY <1>5 DEF CreateConnection, PoolTypeOK, StepsHere, RustSteps, PythonSteps
  <2>2. /\ \E s \in Closed : Give(u, s, "using") /\ Becomes(s, "good")
        /\ Goto(u, "using") /\ pool' = pool /\ opened' = opened /\ waiters' = waiters
    BY <1>5 DEF CreateConnection, Give, Becomes
  <2>3. permits' = permits /\ total' = total + 1 /\ lost' = lost
    BY <1>5 DEF CreateConnection
  <2>4. /\ PoolOwned' /\ held' \in [Users -> Sockets \cup {None}]
        /\ state' \in [Sockets -> {"closed", "good", "stale", "dead"}]
        /\ idle' \in Seq(Sockets) /\ Len(idle') = Len(idle) /\ Living' = Living + 1
    <3>1. idle' = idle
      BY <1>5 DEF CreateConnection
    <3> QED BY <2>1, <2>2, <3>1, OwnedNew DEF Holding, PoolTypeOK
  <2>5. Len(idle') = Len(idle) /\ Living' = Living + 1
    BY <2>4
  <2>6. Onward(u) /\ Sizes
    BY <2>1, <2>2, GoesOnward
  <2>7. At(Holding)' = At(Holding) + 1 /\ At(Leaving)' = At(Leaving)
    BY <2>1, <2>2, AllCounts DEF One, Holding, Leaving
  <2>8. /\ PoolNumbers' /\ permits' \in 0 .. MaxSize /\ total' \in Nat /\ lost' \in Nat
        /\ Len(idle') <= Limit
    <3>1. Living' = Len(idle') + At(Holding)'
      BY <2>6, <2>7, <2>5 DEF PoolNumbers, Sizes
    <3>2. total' <= MaxSize /\ total' \in Nat /\ lost' \in Nat /\ Len(idle') <= Limit
      BY <1>5, <2>3, <2>6, <2>5 DEF PoolNumbers, Sizes
    <3>3. total' = Len(idle') + At(Holding)' + At(Leaving)' + lost' /\ permits' \in 0 .. MaxSize
      <4>1. total = Len(idle) + At(Holding) + At(Leaving) + lost
        BY <2>1 DEF PoolNumbers, Sizes
      <4> QED BY <4>1, <2>3, <2>6, <2>7, <2>5 DEF Sizes
    <3> QED BY <2>1, <2>2, <2>6, <3>1, <3>2, <3>3 DEF PoolNumbers, Onward
  <2>9. PoolTypeOK'
    BY <2>2, <2>4, <2>6, <2>8 DEF PoolTypeOK, Onward
  <2> QED BY <2>4, <2>6, <2>8, <2>9 DEF Onward
<1>6. CASE CreateConnection(u) /\ Goto(u, "out") /\ held' = held /\ state' = state /\ total' = total
  <2>1. pc[u] \in {"creating"} /\ pool # "rust" /\ "out" \in StepsHere
    BY <1>6 DEF CreateConnection, PoolTypeOK, StepsHere, RustSteps, PythonSteps
  <2>2. Goto(u, "out") /\ pool' = pool /\ opened' = opened /\ waiters' = waiters
    BY <1>6 DEF CreateConnection, Give
  <2>3. permits' = permits /\ total' = total /\ lost' = lost
    BY <1>6 DEF CreateConnection
  <2>4. /\ PoolOwned' /\ held' \in [Users -> Sockets \cup {None}]
        /\ state' \in [Sockets -> {"closed", "good", "stale", "dead"}]
        /\ idle' \in Seq(Sockets) /\ Len(idle') = Len(idle) /\ Living' = Living
    BY <1>6, <2>1, <2>2, OwnedMove, LivingKept DEF CreateConnection, Holding, PoolTypeOK
  <2>5. Len(idle') = Len(idle) /\ Living' = Living
    BY <2>4
  <2>6. Onward(u) /\ Sizes
    BY <2>1, <2>2, GoesOnward
  <2>7. At(Holding)' = At(Holding) /\ At(Leaving)' = At(Leaving)
    BY <2>1, <2>2, AllCounts DEF One, Holding, Leaving
  <2>8. /\ PoolNumbers' /\ permits' \in 0 .. MaxSize /\ total' \in Nat /\ lost' \in Nat
        /\ Len(idle') <= Limit
    <3>1. Living' = Len(idle') + At(Holding)'
      BY <2>6, <2>7, <2>5 DEF PoolNumbers, Sizes
    <3>2. total' <= MaxSize /\ total' \in Nat /\ lost' \in Nat /\ Len(idle') <= Limit
      BY <2>1, <2>3, <2>6, <2>7, <2>5 DEF PoolNumbers, Sizes
    <3>3. total' = Len(idle') + At(Holding)' + At(Leaving)' + lost' /\ permits' \in 0 .. MaxSize
      <4>1. total = Len(idle) + At(Holding) + At(Leaving) + lost
        BY <2>1 DEF PoolNumbers, Sizes
      <4> QED BY <4>1, <2>3, <2>6, <2>7, <2>5 DEF Sizes
    <3> QED BY <2>1, <2>2, <2>6, <3>1, <3>2, <3>3 DEF PoolNumbers, Onward
  <2>9. PoolTypeOK'
    BY <2>2, <2>4, <2>6, <2>8 DEF PoolTypeOK, Onward
  <2> QED BY <2>4, <2>6, <2>8, <2>9 DEF Onward
<1>7. CASE CreateConnection(u) /\ Goto(u, "exhausted") /\ held' = held /\ state' = state /\ total' = total
  <2>1. pc[u] \in {"creating"} /\ pool # "rust" /\ "exhausted" \in StepsHere
    BY <1>7 DEF CreateConnection, PoolTypeOK, StepsHere, RustSteps, PythonSteps
  <2>2. Goto(u, "exhausted") /\ pool' = pool /\ opened' = opened /\ waiters' = waiters
    BY <1>7 DEF CreateConnection, Give
  <2>3. permits' = permits /\ total' = total /\ lost' = lost
    BY <1>7 DEF CreateConnection
  <2>4. /\ PoolOwned' /\ held' \in [Users -> Sockets \cup {None}]
        /\ state' \in [Sockets -> {"closed", "good", "stale", "dead"}]
        /\ idle' \in Seq(Sockets) /\ Len(idle') = Len(idle) /\ Living' = Living
    BY <1>7, <2>1, <2>2, OwnedMove, LivingKept DEF CreateConnection, Holding, PoolTypeOK
  <2>5. Len(idle') = Len(idle) /\ Living' = Living
    BY <2>4
  <2>6. Onward(u) /\ Sizes
    BY <2>1, <2>2, GoesOnward
  <2>7. At(Holding)' = At(Holding) /\ At(Leaving)' = At(Leaving)
    BY <2>1, <2>2, AllCounts DEF One, Holding, Leaving
  <2>8. /\ PoolNumbers' /\ permits' \in 0 .. MaxSize /\ total' \in Nat /\ lost' \in Nat
        /\ Len(idle') <= Limit
    <3>1. Living' = Len(idle') + At(Holding)'
      BY <2>6, <2>7, <2>5 DEF PoolNumbers, Sizes
    <3>2. total' <= MaxSize /\ total' \in Nat /\ lost' \in Nat /\ Len(idle') <= Limit
      BY <2>1, <2>3, <2>6, <2>7, <2>5 DEF PoolNumbers, Sizes
    <3>3. total' = Len(idle') + At(Holding)' + At(Leaving)' + lost' /\ permits' \in 0 .. MaxSize
      <4>1. total = Len(idle) + At(Holding) + At(Leaving) + lost
        BY <2>1 DEF PoolNumbers, Sizes
      <4> QED BY <4>1, <2>3, <2>6, <2>7, <2>5 DEF Sizes
    <3> QED BY <2>1, <2>2, <2>6, <3>1, <3>2, <3>3 DEF PoolNumbers, Onward
  <2>9. PoolTypeOK'
    BY <2>2, <2>4, <2>6, <2>8 DEF PoolTypeOK, Onward
  <2> QED BY <2>4, <2>6, <2>8, <2>9 DEF Onward
<1> QED BY <1>1, <1>2, <1>3, <1>4, <1>5, <1>6, <1>7 DEF TakeIdle, CheckAlive, CreateConnection, Give

(* The steps of a user of a Python pool that is done with its connection.     *)
LEMMA PythonGives ==
    ASSUME PoolInv, NEW u \in Users, Release(u) \/ BlockFails(u) \/ Cancelled(u) \/ CloseIdle(u)
    PROVE  PoolInv'
<1> USE PoolAssumption DEF PoolInv
<1>1. CASE Release(u) /\ Len(idle) < MaxSize
  <2>1. pc[u] \in {"using"} /\ pool # "rust" /\ "out" \in StepsHere
    BY <1>1 DEF Release, PoolTypeOK, StepsHere, RustSteps, PythonSteps
  <2>2. Goto(u, "out") /\ pool' = pool /\ opened' = opened /\ waiters' = waiters
    BY <1>1 DEF Release, Give
  <2>3. permits' = permits /\ total' = total /\ lost' = lost
    BY <1>1 DEF Release
  <2>4. /\ PoolOwned' /\ held' \in [Users -> Sockets \cup {None}]
        /\ state' \in [Sockets -> {"closed", "good", "stale", "dead"}]
        /\ idle' \in Seq(Sockets) /\ Len(idle') = Len(idle) + 1 /\ Living' = Living
    <3>1. Give(u, None, "out") /\ idle' = Append(idle, held[u]) /\ state' = state
      BY <1>1 DEF Release
    <3>2. PoolOwned' /\ held' \in [Users -> Sockets \cup {None}]
          /\ idle' \in Seq(Sockets) /\ Len(idle') = Len(idle) + 1
      BY <2>1, <3>1, OwnedPut DEF Holding
    <3> QED BY <3>1, <3>2, LivingKept DEF PoolTypeOK
  <2>5. Len(idle') = Len(idle) + 1 /\ Living' = Living
    BY <2>4
  <2>6. Onward(u) /\ Sizes
    BY <2>1, <2>2, GoesOnward
  <2>7. At(Holding)' = At(Holding) - 1 /\ At(Leaving)' = At(Leaving)
    <3>1. /\ One("out", Holding) = 0 /\ One(pc[u], Holding) = 1
          /\ One("out", Leaving) = 0 /\ One(pc[u], Leaving) = 0
      BY <2>1 DEF One, Holding, Leaving
    <3>2. /\ At(Holding)' = At(Holding) + One("out", Holding) - One(pc[u], Holding)
          /\ At(Leaving)' = At(Leaving) + One("out", Leaving) - One(pc[u], Leaving)
          /\ At(Holding) \in Nat /\ At(Leaving) \in Nat
      BY <2>2, AllCounts
    <3> QED BY <3>1, <3>2
  <2>8. /\ PoolNumbers' /\ permits' \in 0 .. MaxSize /\ total' \in Nat /\ lost' \in Nat
        /\ Len(idle') <= Limit
    <3>1. Living' = Len(idle') + At(Holding)'
      BY <2>6, <2>7, <2>5 DEF PoolNumbers, Sizes
    <3>2. total' <= MaxSize /\ total' \in Nat /\ lost' \in Nat /\ Len(idle') <= Limit
      BY <1>1, <2>3, <2>6, <2>5 DEF PoolNumbers, Sizes
    <3>3. total' = Len(idle') + At(Holding)' + At(Leaving)' + lost' /\ permits' \in 0 .. MaxSize
      <4>1. total = Len(idle) + At(Holding) + At(Leaving) + lost
        BY <2>1 DEF PoolNumbers, Sizes
      <4> QED BY <4>1, <2>3, <2>6, <2>7, <2>5 DEF Sizes
    <3> QED BY <2>1, <2>2, <2>6, <3>1, <3>2, <3>3 DEF PoolNumbers, Onward
  <2>9. PoolTypeOK'
    BY <2>2, <2>4, <2>6, <2>8 DEF PoolTypeOK, Onward
  <2> QED BY <2>4, <2>6, <2>8, <2>9 DEF Onward
<1>2. CASE Release(u) /\ ~(Len(idle) < MaxSize)
  <2>1. pc[u] \in {"using"} /\ pool # "rust" /\ "failing" \in StepsHere
    BY <1>2 DEF Release, PoolTypeOK, StepsHere, RustSteps, PythonSteps
  <2>2. Goto(u, "failing") /\ pool' = pool /\ opened' = opened /\ waiters' = waiters
    BY <1>2 DEF Release, Give
  <2>3. permits' = permits /\ total' = total /\ lost' = lost
    BY <1>2 DEF Release
  <2>4. /\ PoolOwned' /\ held' \in [Users -> Sockets \cup {None}]
        /\ state' \in [Sockets -> {"closed", "good", "stale", "dead"}]
        /\ idle' \in Seq(Sockets) /\ Len(idle') = Len(idle) /\ Living' = Living - 1
    <3>1. Give(u, None, "failing") /\ Becomes(held[u], "closed") /\ idle' = idle
      BY <1>2 DEF Release, Becomes
    <3> QED BY <2>1, <3>1, OwnedDrop DEF Holding, PoolTypeOK
  <2>5. Len(idle') = Len(idle) /\ Living' = Living - 1
    BY <2>4
  <2>6. Onward(u) /\ Sizes
    BY <2>1, <2>2, GoesOnward
  <2>7. At(Holding)' = At(Holding) - 1 /\ At(Leaving)' = At(Leaving) + 1
    BY <2>1, <2>2, AllCounts DEF One, Holding, Leaving
  <2>8. /\ PoolNumbers' /\ permits' \in 0 .. MaxSize /\ total' \in Nat /\ lost' \in Nat
        /\ Len(idle') <= Limit
    <3>1. Living' = Len(idle') + At(Holding)'
      BY <2>6, <2>7, <2>5 DEF PoolNumbers, Sizes
    <3>2. total' <= MaxSize /\ total' \in Nat /\ lost' \in Nat /\ Len(idle') <= Limit
      BY <1>2, <2>1, <2>3, <2>6, <2>7, <2>5 DEF PoolNumbers, Sizes
    <3>3. total' = Len(idle') + At(Holding)' + At(Leaving)' + lost' /\ permits' \in 0 .. MaxSize
      <4>1. total = Len(idle) + At(Holding) + At(Leaving) + lost
        BY <2>1 DEF PoolNumbers, Sizes
      <4> QED BY <4>1, <2>3, <2>6, <2>7, <2>5 DEF Sizes
    <3> QED BY <2>1, <2>2, <2>6, <3>1, <3>2, <3>3 DEF PoolNumbers, Onward
  <2>9. PoolTypeOK'
    BY <2>2, <2>4, <2>6, <2>8 DEF PoolTypeOK, Onward
  <2> QED BY <2>4, <2>6, <2>8, <2>9 DEF Onward
<1>3. CASE BlockFails(u)
  <2>1. pc[u] \in {"using"} /\ pool # "rust" /\ "failing" \in StepsHere
    BY <1>3 DEF BlockFails, PoolTypeOK, StepsHere, RustSteps, PythonSteps
  <2>2. Goto(u, "failing") /\ pool' = pool /\ opened' = opened /\ waiters' = waiters
    BY <1>3 DEF BlockFails, Give
  <2>3. permits' = permits /\ total' = total /\ lost' = lost
    BY <1>3 DEF BlockFails
  <2>4. /\ PoolOwned' /\ held' \in [Users -> Sockets \cup {None}]
        /\ state' \in [Sockets -> {"closed", "good", "stale", "dead"}]
        /\ idle' \in Seq(Sockets) /\ Len(idle') = Len(idle) /\ Living' = Living - 1
    <3>1. Give(u, None, "failing") /\ Becomes(held[u], "closed") /\ idle' = idle
      BY <1>3 DEF BlockFails, Becomes
    <3> QED BY <2>1, <3>1, OwnedDrop DEF Holding, PoolTypeOK
  <2>5. Len(idle') = Len(idle) /\ Living' = Living - 1
    BY <2>4
  <2>6. Onward(u) /\ Sizes
    BY <2>1, <2>2, GoesOnward
  <2>7. At(Holding)' = At(Holding) - 1 /\ At(Leaving)' = At(Leaving) + 1
    BY <2>1, <2>2, AllCounts DEF One, Holding, Leaving
  <2>8. /\ PoolNumbers' /\ permits' \in 0 .. MaxSize /\ total' \in Nat /\ lost' \in Nat
        /\ Len(idle') <= Limit
    <3>1. Living' = Len(idle') + At(Holding)'
      BY <2>6, <2>7, <2>5 DEF PoolNumbers, Sizes
    <3>2. total' <= MaxSize /\ total' \in Nat /\ lost' \in Nat /\ Len(idle') <= Limit
      BY <2>1, <2>3, <2>6, <2>7, <2>5 DEF PoolNumbers, Sizes
    <3>3. total' = Len(idle') + At(Holding)' + At(Leaving)' + lost' /\ permits' \in 0 .. MaxSize
      <4>1. total = Len(idle) + At(Holding) + At(Leaving) + lost
        BY <2>1 DEF PoolNumbers, Sizes
      <4> QED BY <4>1, <2>3, <2>6, <2>7, <2>5 DEF Sizes
    <3> QED BY <2>1, <2>2, <2>6, <3>1, <3>2, <3>3 DEF PoolNumbers, Onward
  <2>9. PoolTypeOK'
    BY <2>2, <2>4, <2>6, <2>8 DEF PoolTypeOK, Onward
  <2> QED BY <2>4, <2>6, <2>8, <2>9 DEF Onward
<1>4. CASE Cancelled(u) /\ pc[u] \in {"using", "checking"}
  <2>1. pc[u] \in {"using", "checking"} /\ pool # "rust" /\ "out" \in StepsHere
    BY <1>4 DEF Cancelled, PoolTypeOK, StepsHere, RustSteps, PythonSteps
  <2>2. Goto(u, "out") /\ pool' = pool /\ opened' = opened /\ waiters' = waiters
    BY <1>4 DEF Cancelled, Give
  <2>3. permits' = permits /\ total' = total /\ lost' = lost + 1
    BY <1>4 DEF Cancelled
  <2>4. /\ PoolOwned' /\ held' \in [Users -> Sockets \cup {None}]
        /\ state' \in [Sockets -> {"closed", "good", "stale", "dead"}]
        /\ idle' \in Seq(Sockets) /\ Len(idle') = Len(idle) /\ Living' = Living - 1
    <3>1. Give(u, None, "out") /\ Becomes(held[u], "closed") /\ idle' = idle
      <4>1. held[u] # None
        BY <2>1 DEF PoolOwned, Holding
      <4> QED BY <1>4, <4>1 DEF Cancelled, Becomes
    <3> QED BY <2>1, <3>1, OwnedDrop DEF Holding, PoolTypeOK
  <2>5. Len(idle') = Len(idle) /\ Living' = Living - 1
    BY <2>4
  <2>6. Onward(u) /\ Sizes
    BY <2>1, <2>2, GoesOnward
  <2>7. At(Holding)' = At(Holding) - 1 /\ At(Leaving)' = At(Leaving)
    BY <2>1, <2>2, AllCounts DEF One, Holding, Leaving
  <2>8. /\ PoolNumbers' /\ permits' \in 0 .. MaxSize /\ total' \in Nat /\ lost' \in Nat
        /\ Len(idle') <= Limit
    <3>1. Living' = Len(idle') + At(Holding)'
      BY <2>6, <2>7, <2>5 DEF PoolNumbers, Sizes
    <3>2. total' <= MaxSize /\ total' \in Nat /\ lost' \in Nat /\ Len(idle') <= Limit
      BY <2>1, <2>3, <2>6, <2>7, <2>5 DEF PoolNumbers, Sizes
    <3>3. total' = Len(idle') + At(Holding)' + At(Leaving)' + lost' /\ permits' \in 0 .. MaxSize
      <4>1. total = Len(idle) + At(Holding) + At(Leaving) + lost
        BY <2>1 DEF PoolNumbers, Sizes
      <4>3. permits' \in 0 .. MaxSize /\ Len(idle') = Len(idle) /\ total' = total
        BY <2>3, <2>6, <2>5 DEF Sizes
      <4>4. total' = Len(idle') + At(Holding)' + At(Leaving)' + lost'
        <5>1. PICK b \in Nat, c \in Nat : b = At(Holding) /\ c = lost
          BY <2>6 DEF Sizes
        <5>2. At(Holding)' = b - 1 /\ lost' = c + 1 /\ At(Leaving)' = At(Leaving)
          BY <5>1, <2>3, <2>7
        <5>3. total = Len(idle) + b + At(Leaving) + c
          BY <4>1, <5>1
        <5> HIDE DEF PoolInv
        <5> QED BY <5>2, <5>3, <4>3, <2>6 DEF Sizes
      <4> QED BY <4>3, <4>4
    <3> QED BY <2>1, <2>2, <2>6, <3>1, <3>2, <3>3 DEF PoolNumbers, Onward
  <2>9. PoolTypeOK'
    BY <2>2, <2>4, <2>6, <2>8 DEF PoolTypeOK, Onward
  <2> QED BY <2>4, <2>6, <2>8, <2>9 DEF Onward
<1>6. CASE Cancelled(u) /\ pc[u] \in {"discounting", "failing"}
  <2>1. pc[u] \in {"discounting", "failing"} /\ pool # "rust" /\ "out" \in StepsHere
    BY <1>6 DEF Cancelled, PoolTypeOK, StepsHere, RustSteps, PythonSteps
  <2>2. Goto(u, "out") /\ pool' = pool /\ opened' = opened /\ waiters' = waiters
    BY <1>6 DEF Cancelled, Give
  <2>3. permits' = permits /\ total' = total /\ lost' = lost + 1
    BY <1>6 DEF Cancelled
  <2>4. /\ PoolOwned' /\ held' \in [Users -> Sockets \cup {None}]
        /\ state' \in [Sockets -> {"closed", "good", "stale", "dead"}]
        /\ idle' \in Seq(Sockets) /\ Len(idle') = Len(idle) /\ Living' = Living
    <3>1. held[u] = None
      BY <2>1 DEF PoolOwned, Holding
    <3>2. held' = held /\ idle' = idle /\ state' = state
      BY <1>6, <3>1 DEF Cancelled, Give, PoolTypeOK
    <3> QED BY <2>1, <2>2, <3>2, OwnedMove, LivingKept DEF Holding, PoolTypeOK
  <2>5. Len(idle') = Len(idle) /\ Living' = Living
    BY <2>4
  <2>6. Onward(u) /\ Sizes
    BY <2>1, <2>2, GoesOnward
  <2>7. At(Holding)' = At(Holding) /\ At(Leaving)' = At(Leaving) - 1
    BY <2>1, <2>2, AllCounts DEF One, Holding, Leaving
  <2>8. /\ PoolNumbers' /\ permits' \in 0 .. MaxSize /\ total' \in Nat /\ lost' \in Nat
        /\ Len(idle') <= Limit
    <3>1. Living' = Len(idle') + At(Holding)'
      BY <2>6, <2>7, <2>5 DEF PoolNumbers, Sizes
    <3>2. total' <= MaxSize /\ total' \in Nat /\ lost' \in Nat /\ Len(idle') <= Limit
      BY <2>1, <2>3, <2>6, <2>7, <2>5 DEF PoolNumbers, Sizes
    <3>3. total' = Len(idle') + At(Holding)' + At(Leaving)' + lost' /\ permits' \in 0 .. MaxSize
      <4>1. total = Len(idle) + At(Holding) + At(Leaving) + lost
        BY <2>1 DEF PoolNumbers, Sizes
      <4>3. permits' \in 0 .. MaxSize /\ Len(idle') = Len(idle) /\ total' = total
        BY <2>3, <2>6, <2>5 DEF Sizes
      <4>4. total' = Len(idle') + At(Holding)' + At(Leaving)' + lost'
        <5>1. PICK a \in Nat, b \in Nat, c \in Nat, d \in Nat :
                /\ a = At(Holding) /\ b = At(Leaving) /\ c = lost /\ d = Len(idle)
          BY <2>6 DEF Sizes
        <5>2. At(Leaving)' = b - 1 /\ lost' = c + 1 /\ At(Holding)' = a /\ Len(idle') = d
          BY <5>1, <2>3, <2>7, <4>3
        <5>3. total' = d + a + b + c
          BY <4>1, <4>3, <5>1
        <5>4. d + a + b + c = d + a + (b - 1) + (c + 1)
          BY <5>1
        <5> HIDE DEF PoolInv
        <5> QED BY <5>2, <5>3, <5>4
      <4> QED BY <4>3, <4>4
    <3> QED BY <2>1, <2>2, <2>6, <3>1, <3>2, <3>3 DEF PoolNumbers, Onward
  <2>9. PoolTypeOK'
    BY <2>2, <2>4, <2>6, <2>8 DEF PoolTypeOK, Onward
  <2> QED BY <2>4, <2>6, <2>8, <2>9 DEF Onward
<1>5. CASE CloseIdle(u)
  <2>1. pc[u] \in {"out"} /\ pool # "rust" /\ "failing" \in StepsHere
    BY <1>5 DEF CloseIdle, PoolTypeOK, StepsHere, RustSteps, PythonSteps
  <2>2. Goto(u, "failing") /\ pool' = pool /\ opened' = opened /\ waiters' = waiters
    BY <1>5 DEF CloseIdle, Give
  <2>3. permits' = permits /\ total' = total /\ lost' = lost
    BY <1>5 DEF CloseIdle
  <2>4. /\ PoolOwned' /\ held' \in [Users -> Sockets \cup {None}]
        /\ state' \in [Sockets -> {"closed", "good", "stale", "dead"}]
        /\ idle' \in Seq(Sockets) /\ Len(idle') = Len(idle) - 1 /\ Living' = Living - 1
    <3>1. Shorter(idle', idle, 1) /\ Becomes(idle[1], "closed") /\ held' = held /\ idle # <<>>
      BY <1>5, EndsTaken DEF CloseIdle, PoolTypeOK, Becomes
    <3>2. PoolOwned' /\ state' \in [Sockets -> {"closed", "good", "stale", "dead"}]
          /\ Living' = Living - 1
      BY <2>1, <2>2, <3>1, OwnedClose DEF Holding
    <3> QED BY <3>1, <3>2 DEF PoolTypeOK, Shorter
  <2>5. Len(idle') = Len(idle) - 1 /\ Living' = Living - 1
    BY <2>4
  <2>6. Onward(u) /\ Sizes
    BY <2>1, <2>2, GoesOnward
  <2>7. At(Holding)' = At(Holding) /\ At(Leaving)' = At(Leaving) + 1
    BY <2>1, <2>2, AllCounts DEF One, Holding, Leaving
  <2>8. /\ PoolNumbers' /\ permits' \in 0 .. MaxSize /\ total' \in Nat /\ lost' \in Nat
        /\ Len(idle') <= Limit
    <3>1. Living' = Len(idle') + At(Holding)'
      BY <2>6, <2>7, <2>5 DEF PoolNumbers, Sizes
    <3>2. total' <= MaxSize /\ total' \in Nat /\ lost' \in Nat /\ Len(idle') <= Limit
      BY <2>1, <2>3, <2>6, <2>7, <2>5 DEF PoolNumbers, Sizes
    <3>3. total' = Len(idle') + At(Holding)' + At(Leaving)' + lost' /\ permits' \in 0 .. MaxSize
      <4>1. total = Len(idle) + At(Holding) + At(Leaving) + lost
        BY <2>1 DEF PoolNumbers, Sizes
      <4> QED BY <4>1, <2>3, <2>6, <2>7, <2>5 DEF Sizes
    <3> QED BY <2>1, <2>2, <2>6, <3>1, <3>2, <3>3 DEF PoolNumbers, Onward
  <2>9. PoolTypeOK'
    BY <2>2, <2>4, <2>6, <2>8 DEF PoolTypeOK, Onward
  <2> QED BY <2>4, <2>6, <2>8, <2>9 DEF Onward
<1> QED BY <1>1, <1>2, <1>3, <1>4, <1>5, <1>6 DEF Release, BlockFails, Cancelled, CloseIdle, Give

(* The first waiter gets its permit; there are no waiters in a Python pool.   *)
LEMMA PermitGiven ==
    ASSUME PoolInv, GetPermit
    PROVE  PoolInv'
<1> USE PoolAssumption DEF PoolInv
<1>1. Len(waiters) \in Nat \ {0} /\ Head(waiters) = waiters[1] /\ waiters[1] \in Users
  BY DEF GetPermit, PoolTypeOK
<1>2. PICK u \in Users : u = waiters[1] /\ Goto(u, "popping")
  BY <1>1 DEF GetPermit
<1>3. pc[u] = "waiting" /\ pool = "rust" /\ "popping" \in StepsHere
  BY <1>1, <1>2 DEF PoolQueue, PoolTypeOK, StepsHere, RustSteps, PythonSteps
<1>4. /\ pool' = pool /\ opened' = opened /\ idle' = idle /\ state' = state /\ held' = held /\ total' = total
      /\ lost' = lost /\ permits' = permits - 1 /\ permits > 0 /\ waiters' = Tail(waiters)
  BY DEF GetPermit
<1>5. pc' \in [Users -> StepsHere'] /\ pc'[u] = "popping" /\ \A v \in Users \ {u} : pc'[v] = pc[v]
  BY <1>2, <1>3, <1>4, GotoType
<1>6. PoolOwned'
  BY <1>2, <1>3, <1>4, OwnedMove DEF Holding
<1>7. /\ waiters' \in Seq(Users) /\ Len(waiters') = Len(waiters) - 1
      /\ \A i \in 1 .. Len(waiters') : i + 1 \in 1 .. Len(waiters) /\ waiters'[i] = waiters[i + 1]
  BY <1>1, <1>4 DEF PoolTypeOK
<1>8. PoolQueue'
  <2>1. \A i \in 1 .. Len(waiters') : pc'[waiters'[i]] = "waiting"
    <3> SUFFICES ASSUME NEW i \in 1 .. Len(waiters') PROVE pc'[waiters'[i]] = "waiting"
      OBVIOUS
    <3>1. i + 1 \in 1 .. Len(waiters) /\ waiters'[i] = waiters[i + 1] /\ i + 1 # 1 /\ 1 \in 1 .. Len(waiters)
      BY <1>1, <1>7
    <3>2. waiters[i + 1] # u /\ waiters[i + 1] \in Users /\ pc[waiters[i + 1]] = "waiting"
      BY <3>1, <1>2 DEF PoolQueue, PoolTypeOK
    <3> QED BY <3>1, <3>2, <1>5
  <2>2. \A i, j \in 1 .. Len(waiters') : waiters'[i] = waiters'[j] => i = j
    <3> SUFFICES ASSUME NEW i \in 1 .. Len(waiters'), NEW j \in 1 .. Len(waiters'),
                        waiters'[i] = waiters'[j]
                 PROVE  i = j
      OBVIOUS
    <3>1. i + 1 = j + 1
      BY <1>7 DEF PoolQueue
    <3> QED BY <3>1
  <2> QED BY <2>1, <2>2 DEF PoolQueue
<1>9. /\ At(Holding)' = At(Holding) /\ At(PermitSteps)' = At(PermitSteps) + 1
      /\ At(ConnectSteps)' = At(ConnectSteps) /\ At(PermitSteps) \in Nat /\ At(ConnectSteps) \in Nat
  <2>1. /\ One("popping", Holding) = 0 /\ One(pc[u], Holding) = 0
        /\ One("popping", PermitSteps) = 1 /\ One(pc[u], PermitSteps) = 0
        /\ One("popping", ConnectSteps) = 0 /\ One(pc[u], ConnectSteps) = 0
    BY <1>3 DEF One, Holding, PermitSteps, ConnectSteps
  <2> QED BY <1>2, <2>1, AllCounts
<1>10. permits \in Nat /\ lost \in Nat /\ MaxSize \in Nat /\ permits <= MaxSize
  BY DEF PoolTypeOK
<1>11. permits' + At(PermitSteps)' + lost' = MaxSize /\ permits' \in 0 .. MaxSize
  <2>1. permits + At(PermitSteps) + lost = MaxSize
    BY <1>3 DEF PoolNumbers
  <2> HIDE DEF PoolInv
  <2> QED BY <1>4, <1>9, <1>10, <2>1
<1>12. PoolNumbers'
  <2>1. Living' = Living
    BY <1>4, LivingKept
  <2>2. Limit' = Limit
    BY <1>4 DEF Limit
  <2> QED BY <1>3, <1>4, <1>9, <1>11, <2>1, <2>2 DEF PoolNumbers
<1>13. PoolTypeOK'
  BY <1>4, <1>5, <1>7, <1>11 DEF PoolTypeOK, Limit
<1> QED BY <1>6, <1>8, <1>12, <1>13

(* A connection goes stale or dies where it is.                               *)
LEMMA Spoils ==
    ASSUME PoolInv, NEW s \in Sockets, NEW as \in {"stale", "dead"}, Spoil(s, as)
    PROVE  PoolInv'
<1> USE PoolAssumption DEF PoolInv
<1>1. /\ pool' = pool /\ opened' = opened /\ idle' = idle /\ pc' = pc /\ held' = held /\ total' = total
      /\ lost' = lost /\ permits' = permits /\ waiters' = waiters
      /\ Becomes(s, as) /\ state[s] = "good"
  BY DEF Spoil, Becomes
<1>2. /\ as # "closed" /\ state[s] # "closed" => Living' = Living
      /\ state' \in [Sockets -> {"closed", "good", "stale", "dead"}]
      /\ state'[s] = as /\ \A t \in Sockets : t # s => state'[t] = state[t]
  BY <1>1, SocketCount
<1>3. Living' = Living
  BY <1>1, <1>2
<1>4. \A t \in Sockets : state[t] # "closed" => state'[t] # "closed"
  BY <1>2
<1>5. PoolOwned'
  <2>1. \A v \in Users : held[v] # None => state'[held[v]] # "closed"
    BY <1>4 DEF PoolOwned, Holders, PoolTypeOK
  <2>2. \A i \in 1 .. Len(idle) : state'[idle[i]] # "closed"
    BY <1>4 DEF PoolOwned, PoolTypeOK
  <2> QED BY <1>1, <2>1, <2>2 DEF PoolOwned, Holders
<1>6. At(Holding)' = At(Holding) /\ At(Leaving)' = At(Leaving)
      /\ At(PermitSteps)' = At(PermitSteps) /\ At(ConnectSteps)' = At(ConnectSteps)
  BY <1>1 DEF At, Count, Holding, Leaving, PermitSteps, ConnectSteps
<1>7. PoolNumbers'
  BY <1>1, <1>3, <1>6 DEF PoolNumbers, Limit
<1>8. PoolTypeOK' /\ PoolQueue'
  BY <1>1, <1>2 DEF PoolTypeOK, PoolQueue, StepsHere, Limit
<1> QED BY <1>5, <1>7, <1>8

(* A pool starts with its first connections, each of them open and idle.      *)
LEMMA PoolStarts == PoolInit => PoolInv
<1> SUFFICES ASSUME PoolInit PROVE PoolInv
  OBVIOUS
<1> USE PoolAssumption
<1>0. opened \in Nat /\ MaxSize \in Nat
  BY DEF PoolInit
<1>1. PICK first \in [1 .. opened -> Sockets] :
        /\ \A i, j \in 1 .. opened : first[i] = first[j] => i = j
        /\ idle = first
        /\ state = [s \in Sockets |-> IF \E i \in 1 .. opened : first[i] = s THEN "good" ELSE "closed"]
  BY DEF PoolInit
<1>2. /\ pool \in Pools /\ pc = [u \in Users |-> "out"] /\ held = [u \in Users |-> None]
      /\ waiters = <<>> /\ permits = MaxSize /\ total = 0 /\ lost = 0
      /\ pool # "rust" => opened = 0
  BY DEF PoolInit
<1>3. first \in Seq(Sockets) /\ Len(first) = opened /\ opened <= Limit /\ Limit \in Nat
  BY <1>0 DEF Limit
<1>4. idle \in Seq(Sockets) /\ Len(idle) = opened
  BY <1>1, <1>3
<1>5. PoolTypeOK
  BY <1>0, <1>1, <1>2, <1>3, <1>4 DEF PoolTypeOK, StepsHere, RustSteps, PythonSteps
<1>6. PoolQueue
  BY <1>2 DEF PoolQueue
<1>7. \A i \in 1 .. Len(idle) : idle[i] \in Sockets /\ state[idle[i]] # "closed"
  BY <1>1, <1>3, <1>4
<1>8. PoolOwned
  <2>1. \A i, j \in 1 .. Len(idle) : idle[i] = idle[j] => i = j
    BY <1>1, <1>4
  <2>2. Holders = {}
    BY <1>2 DEF Holders
  <2>3. \A i \in 1 .. Len(idle), u \in Users : idle[i] # held[u]
    BY <1>2, <1>7
  <2>4. \A u \in Users : held[u] # None <=> pc[u] \in Holding
    BY <1>2 DEF Holding
  <2> QED BY <1>7, <2>1, <2>2, <2>3, <2>4 DEF PoolOwned
<1>9. At(Holding) = 0 /\ At(Leaving) = 0 /\ At(PermitSteps) = 0 /\ At(ConnectSteps) = 0
  <2>1. \A u \in Users : pc[u] \notin Holding /\ pc[u] \notin Leaving /\ pc[u] \notin PermitSteps
                         /\ pc[u] \notin ConnectSteps
    BY <1>2 DEF Holding, Leaving, PermitSteps, ConnectSteps
  <2>2. /\ {x \in Users : pc[x] \in Holding} = {} /\ {x \in Users : pc[x] \in Leaving} = {}
        /\ {x \in Users : pc[x] \in PermitSteps} = {} /\ {x \in Users : pc[x] \in ConnectSteps} = {}
    BY <2>1
  <2> QED BY <2>2, FS_EmptySet DEF At, Count
<1>10. Living = Len(idle)
  <2> DEFINE S == {s \in Sockets : state[s] \in Alive}
  <2>1. S = {s \in Sockets : \E i \in 1 .. opened : first[i] = s}
    BY <1>1 DEF Alive
  <2>2. first \in Bijection(1 .. opened, S)
    <3>1. first \in [1 .. opened -> S]
      BY <2>1
    <3>2. first \in Injection(1 .. opened, S)
      BY <3>1, <1>1 DEF Injection, IsInjective
    <3>3. first \in Surjection(1 .. opened, S)
      BY <3>1, <2>1 DEF Surjection
    <3> QED BY <3>2, <3>3 DEF Bijection
  <2>3. Cardinality(1 .. opened) = opened /\ IsFiniteSet(1 .. opened)
    BY <1>0, FS_Interval
  <2>4. Cardinality(S) = opened
    BY <2>2, <2>3, FS_Bijection DEF ExistsBijection
  <2> QED BY <2>4, <1>4 DEF Living, Count
<1>11. PoolNumbers
  BY <1>0, <1>2, <1>3, <1>4, <1>9, <1>10 DEF PoolNumbers
<1> QED BY <1>5, <1>6, <1>8, <1>11 DEF PoolInv

(* Every step of the pools keeps the inductive invariant.                     *)
LEMMA PoolKept == PoolInv /\ [PoolNext]_poolVars => PoolInv'
<1> SUFFICES ASSUME PoolInv, [PoolNext]_poolVars PROVE PoolInv'
  OBVIOUS
<1>1. CASE GetPermit
  BY <1>1, PermitGiven
<1>2. ASSUME NEW s \in Sockets, NEW as \in {"stale", "dead"}, Spoil(s, as) PROVE PoolInv'
  BY <1>2, Spoils
<1>3. ASSUME NEW u \in Users, Ask(u) \/ UserStep(u) \/ CloseIdle(u) PROVE PoolInv'
  BY <1>3, PoolMoves, PermitMoves, PythonGets, PythonGives DEF UserStep
<1>4. CASE UNCHANGED poolVars
  BY <1>4 DEF poolVars, PoolInv, PoolTypeOK, Limit, StepsHere, PoolOwned, Holders, PoolQueue, PoolNumbers,
              Living, At, Count, Holding, Leaving, PermitSteps, ConnectSteps, Alive
<1> QED BY <1>1, <1>2, <1>3, <1>4 DEF PoolNext

(* The pools of maharit-client/src/lib.rs and pool.py keep their promises for *)
(* any number of users, connections and sizes: a connection is in one place,  *)
(* there are never more of them than the pool may have, and permits and       *)
(* counts explain every one of them, whatever fails or is cancelled.          *)
THEOREM PoolAlwaysSound == PoolSpec => []PoolSound
BY PoolStarts, PoolKept, NumbersSuffice, PTL DEF PoolSpec
-----------------------------------------------------------------------------
(* How often a query stands in a sequence of requests.                        *)

Places(q, w) == {i \in DOMAIN w : w[i] = q}
Occurs(q, w) == Cardinality(Places(q, w))

(* A query stands in a sequence a finite number of times.                     *)
LEMMA PlacesFinite ==
    ASSUME NEW X, NEW w \in Seq(X), NEW q
    PROVE  IsFiniteSet(Places(q, w)) /\ Occurs(q, w) \in Nat
<1>1. IsFiniteSet(1 .. Len(w))
  BY FS_Interval
<1>2. Places(q, w) \subseteq 1 .. Len(w)
  BY DEF Places
<1>3. IsFiniteSet(Places(q, w))
  BY <1>1, <1>2, FS_Subset
<1> QED BY <1>3, FS_CardinalityType DEF Occurs

(* A query that stands nowhere occurs no time.                                *)
LEMMA OccursNever ==
    ASSUME NEW w, NEW q, \A i \in DOMAIN w : w[i] # q
    PROVE  Occurs(q, w) = 0
<1>1. Places(q, w) = {}
  BY DEF Places
<1> QED BY <1>1, FS_EmptySet DEF Occurs

(* The same places, moved by a distance, are as many.                         *)
Displaced(S, T, k) ==
    k \in Int /\ S \subseteq Int /\ T \subseteq Int /\ \A i \in Int : i \in S <=> i + k \in T

LEMMA PlacesMoved ==
    ASSUME NEW S, NEW T, IsFiniteSet(S), NEW k, Displaced(S, T, k)
    PROVE  IsFiniteSet(T) /\ Cardinality(T) = Cardinality(S)
<1> USE DEF Displaced
<1> DEFINE shift == [i \in S |-> i + k]
<1>1. shift \in [S -> T]
  OBVIOUS
<1>2. \A a, b \in S : shift[a] = shift[b] => a = b
  <2> SUFFICES ASSUME NEW a \in S, NEW b \in S, a + k = b + k PROVE a = b
    OBVIOUS
  <2>1. a \in Int /\ b \in Int
    OBVIOUS
  <2> QED BY <2>1
<1>3. \A b \in T : \E a \in S : shift[a] = b
  <2> SUFFICES ASSUME NEW b \in T PROVE \E a \in S : shift[a] = b
    OBVIOUS
  <2>1. b \in Int
    OBVIOUS
  <2>2. b - k \in Int /\ (b - k) + k = b
    BY <2>1
  <2>3. b - k \in S
    BY <2>2
  <2> QED BY <2>2, <2>3
<1>4. shift \in Bijection(S, T)
  BY <1>1, <1>2, <1>3, Fun_IsBij
<1> QED BY <1>4, FS_Bijection DEF ExistsBijection

(* Appending a request adds one to its own count alone.                       *)
LEMMA OccursAppend ==
    ASSUME NEW X, NEW w \in Seq(X), NEW x \in X, NEW q
    PROVE  Occurs(q, Append(w, x)) = Occurs(q, w) + IF x = q THEN 1 ELSE 0
<1> DEFINE n == Len(w) + 1
<1>0. Len(w) \in Nat /\ n \notin Places(q, w)
  BY DEF Places
<1>1. IsFiniteSet(Places(q, w)) /\ Occurs(q, w) \in Nat
  BY PlacesFinite
<1>2. CASE x = q
  <2>1. Places(q, Append(w, x)) = Places(q, w) \cup {n}
    BY <1>2 DEF Places
  <2>2. Cardinality(Places(q, w) \cup {n}) = Cardinality(Places(q, w)) + 1
    BY <1>0, <1>1, FS_AddElement
  <2> QED BY <1>2, <2>1, <2>2 DEF Occurs
<1>3. CASE x # q
  <2>1. Places(q, Append(w, x)) = Places(q, w)
    BY <1>3 DEF Places
  <2> QED BY <1>1, <1>3, <2>1 DEF Occurs
<1> QED BY <1>2, <1>3

(* Taking the first request off takes one from its own count alone.           *)
LEMMA OccursTail ==
    ASSUME NEW X, NEW w \in Seq(X), w # <<>>, NEW q
    PROVE  Occurs(q, w) = Occurs(q, Tail(w)) + IF w[1] = q THEN 1 ELSE 0
<1> DEFINE S == Places(q, Tail(w))
           T == Places(q, w) \ {1}
<1>0. Tail(w) \in Seq(X) /\ Len(w) \in Nat /\ Len(Tail(w)) = Len(w) - 1
      /\ \A i \in 1 .. Len(w) - 1 : Tail(w)[i] = w[i + 1]
  OBVIOUS
<1>1. IsFiniteSet(S) /\ IsFiniteSet(Places(q, w)) /\ Occurs(q, w) \in Nat /\ Occurs(q, Tail(w)) \in Nat
  BY <1>0, PlacesFinite
<1>2. \A i \in Int : i \in S <=> i + 1 \in T
  BY <1>0 DEF Places
<1>3. S \subseteq Int /\ T \subseteq Int
  BY DEF Places
<1>4. Cardinality(T) = Cardinality(S)
  <2>1. Displaced(S, T, 1)
    BY <1>2, <1>3 DEF Displaced
  <2> HIDE DEF S, T
  <2> QED BY <1>1, <2>1, PlacesMoved
<1>5. CASE w[1] = q
  <2>1. 1 \in Places(q, w)
    BY <1>5 DEF Places
  <2>2. Cardinality(T) = Cardinality(Places(q, w)) - 1
    BY <1>1, <2>1, FS_RemoveElement
  <2>3. Occurs(q, w) = Cardinality(Places(q, w)) /\ Occurs(q, Tail(w)) = Cardinality(S)
    BY DEF Occurs
  <2> HIDE DEF S, T
  <2>4. Occurs(q, w) = Occurs(q, Tail(w)) + 1
    BY <1>1, <1>4, <2>2, <2>3
  <2> QED BY <1>5, <2>4
<1>6. CASE w[1] # q
  <2>1. T = Places(q, w)
    BY <1>6 DEF Places
  <2>2. Occurs(q, w) = Occurs(q, Tail(w))
    BY <1>4, <2>1 DEF Occurs
  <2> QED BY <1>1, <1>6, <2>2
<1> QED BY <1>5, <1>6

(* The counts of two sequences add up in their concatenation.                 *)
LEMMA OccursBoth ==
    ASSUME NEW X, NEW v \in Seq(X), NEW w \in Seq(X), NEW q
    PROVE  Occurs(q, v \o w) = Occurs(q, v) + Occurs(q, w)
<1> DEFINE T == {i \in (Len(v) + 1) .. (Len(v) + Len(w)) : w[i - Len(v)] = q}
<1>0. Len(v) \in Nat /\ Len(w) \in Nat
  OBVIOUS
<1>1. IsFiniteSet(Places(q, v)) /\ IsFiniteSet(Places(q, w)) /\ Occurs(q, v) \in Nat /\ Occurs(q, w) \in Nat
  BY PlacesFinite
<1>2. \A i \in Int : i \in Places(q, w) <=> i + Len(v) \in T
  <2> SUFFICES ASSUME NEW i \in Int PROVE i \in Places(q, w) <=> i + Len(v) \in T
    OBVIOUS
  <2>1. (i + Len(v)) - Len(v) = i
    BY <1>0
  <2>2. i \in DOMAIN w <=> i + Len(v) \in (Len(v) + 1) .. (Len(v) + Len(w))
    BY <1>0
  <2> QED BY <2>1, <2>2 DEF Places
<1>3. Places(q, w) \subseteq Int /\ T \subseteq Int
  BY <1>0 DEF Places
<1>4. IsFiniteSet(T) /\ Cardinality(T) = Cardinality(Places(q, w))
  <2>1. Displaced(Places(q, w), T, Len(v))
    BY <1>0, <1>2, <1>3 DEF Displaced
  <2> HIDE DEF T
  <2> QED BY <1>1, <2>1, PlacesMoved
<1>5. Places(q, v \o w) = Places(q, v) \cup T
  BY <1>0 DEF Places
<1>6. Places(q, v) \cap T = {}
  BY <1>0 DEF Places
<1>7. Cardinality(Places(q, v) \cup T) = Cardinality(Places(q, v)) + Cardinality(T) - Cardinality({})
  <2> HIDE DEF T
  <2> QED BY <1>1, <1>4, <1>6, FS_Union
<1>8. Cardinality({}) = 0
  BY FS_EmptySet
<1> HIDE DEF T
<1> QED BY <1>1, <1>4, <1>5, <1>7, <1>8 DEF Occurs

-----------------------------------------------------------------------------
(* One shard: the tasks T of the queries at it, the queue Q for its client,   *)
(* the connection W, the requests O on connections left, the executions R.    *)

Busy == {"sending", "reading"}
Task == [pc : {"none", "locking", "sending", "reading", "ended"}, tries : 0 .. 1, rows : SUBSET (Nat \X Shards)]
Reply == [to : Nat, type : {"text", "typed", "error"}]
Connection ==
    [open : BOOLEAN, made : BOOLEAN, up : Seq(QueryIds), down : Seq(Reply), clean : BOOLEAN]
Column == [QueryIds -> Task]
Replied(q, st) ==
    [to |-> q, type |-> IF st[q].statement = "unparsable" THEN "error"
                        ELSE RowTypes(st[q].statement)]
Typical(q, st) == Replied(q, st).type = "typed"

(* Who asked for the mutex queues for it, once, and who reads holds it.       *)
Mutex(T, Q) ==
    /\ \A i, j \in DOMAIN Q : Q[i] = Q[j] => i = j
    /\ \A q \in QueryIds : T[q].pc \in Busy <=> \E i \in DOMAIN Q : Q[i] = q
    /\ \A q \in QueryIds : T[q].pc = "reading" => Q # <<>> /\ Q[1] = q

Wired(W) == (~W.made => W = NoWire) /\ (W.open => W.made)

(* A connection without an idle timeout carries nothing, or the request or    *)
(* the response of the query that reads.                                      *)
Silent(W) == W.up = <<>> /\ W.down = <<>>
Asking(W, q) == W.up = <<q>> /\ W.down = <<>>
Answering(W, q, st) == W.up = <<>> /\ W.down = <<Replied(q, st)>>
Talking(T, W, st) ==
    W.clean => \/ Silent(W)
               \/ \E q \in QueryIds : T[q].pc = "reading" /\ (Asking(W, q) \/ Answering(W, q, st))

(* How often a task has sent its request, at most.                            *)
Sends(t) == IF t.pc \in {"none", "locking"} THEN 0 ELSE IF t.pc = "sending" THEN t.tries ELSE t.tries + 1

(* What was executed and what may yet be was sent.                            *)
Attempts(T, W, O, R) ==
    \A q \in QueryIds : R[q] + Occurs(q, W.up) + Occurs(q, O) <= Sends(T[q])

(* Who has a task was let through, and who has none has tried nothing.        *)
Allowed(T, st) ==
    \A q \in QueryIds :
        IF T[q].pc = "none" THEN T[q].tries = 0
        ELSE q \in DOMAIN st /\ CheckQueryAuth(st[q].statement, st[q].role)

(* Without faults every attempt is executed once and answered, and there is   *)
(* one, or two if the rows are not understood.                                *)
Once(t, W, n, q, st, s) ==
    /\ ~Typical(q, st) => t.tries = 0
    /\ t.pc \in {"none", "locking"} => t.tries = 0 /\ n = 0
    /\ t.pc = "sending" => n = t.tries
    /\ t.pc = "reading" => (Asking(W, q) /\ n = t.tries) \/ (Answering(W, q, st) /\ n = t.tries + 1)
    /\ t.pc = "ended" => /\ n = t.tries + 1 /\ (Typical(q, st) => t.tries = 1)
                         /\ Replied(q, st).type = "text" => <<q, s>> \in t.rows
Calm(T, W, O, R, st, s) ==
    /\ W.clean /\ (W.made => W.open) /\ O = <<>>
    /\ \A q \in DOMAIN st : Once(T[q], W, R[q], q, st, s)

Typed(T, Q, W, O, R) ==
    /\ T \in Column /\ Q \in Seq(QueryIds) /\ W \in Connection /\ O \in Seq(QueryIds)
    /\ R \in [QueryIds -> Nat]
Sound(T, Q, W, O, R, st) ==
    Mutex(T, Q) /\ Wired(W) /\ Talking(T, W, st) /\ Attempts(T, W, O, R) /\ Allowed(T, st)

TasksAt(s) == [q \in QueryIds |-> task[q][s]]
RunsAt(s) == [q \in QueryIds |-> ran[q][s]]
ShardInv(s) ==
    /\ Typed(TasksAt(s), queue[s], wire[s], orphans[s], RunsAt(s))
    /\ Sound(TasksAt(s), queue[s], wire[s], orphans[s], RunsAt(s), sent)
    /\ troubles = 0 => Calm(TasksAt(s), wire[s], orphans[s], RunsAt(s), sent, s)
AnswersInv ==
    \A q \in QueryIds :
        /\ answers[q].status # "none" => q \in Sent
        /\ answers[q].status = "rows" =>
             \A s \in Shards : task[q][s].pc = "ended" /\ task[q][s].rows \subseteq answers[q].rows
TablesInv ==
    /\ sent \in Seq(Asked) /\ Len(sent) <= MaxQueries
    /\ task \in [QueryIds -> [Shards -> Task]] /\ ran \in [QueryIds -> [Shards -> Nat]]
    /\ queue \in [Shards -> Seq(QueryIds)] /\ wire \in [Shards -> Connection]
    /\ orphans \in [Shards -> Seq(QueryIds)]
    /\ answers \in [QueryIds -> [status : {"none", "refused", "rows"}, rows : SUBSET (Nat \X Shards)]]
    /\ troubles \in 0 .. MaxShardFaults
CoordInv == TablesInv /\ AnswersInv /\ \A s \in Shards : ShardInv(s)
-----------------------------------------------------------------------------
(* The mutex.                                                                 *)

Puts(T, U, q, t) ==
    /\ T \in Column /\ U \in Column /\ q \in QueryIds /\ t \in Task /\ U[q] = t
    /\ \A p \in QueryIds \ {q} : U[p] = T[p]

LEMMA PutsPcs ==
    ASSUME NEW T, NEW U, NEW q, NEW t, Puts(T, U, q, t)
    PROVE  /\ \A p \in QueryIds : U[p].pc = IF p = q THEN t.pc ELSE T[p].pc
           /\ q \in QueryIds
BY DEF Puts

(* A task that asked goes on without leaving the queue.                       *)
LEMMA MutexStays ==
    ASSUME NEW T, NEW U, NEW q, NEW t, Puts(T, U, q, t), NEW Q \in Seq(QueryIds), Mutex(T, Q),
           T[q].pc \in Busy, t.pc \in Busy, t.pc = "reading" => Q[1] = q
    PROVE  Mutex(U, Q)
<1>1. /\ \A p \in QueryIds : U[p].pc = IF p = q THEN t.pc ELSE T[p].pc
      /\ q \in QueryIds
  BY PutsPcs
<1>2. \E i \in DOMAIN Q : Q[i] = q
  BY <1>1 DEF Mutex
<1>3. Q # <<>>
  BY <1>2
<1> QED BY <1>1, <1>2, <1>3 DEF Mutex

(* A task that neither asked nor asks is no matter of the mutex.              *)
LEMMA MutexFree ==
    ASSUME NEW T, NEW U, NEW q, NEW t, Puts(T, U, q, t), NEW Q \in Seq(QueryIds), Mutex(T, Q),
           T[q].pc \notin Busy, t.pc \notin Busy
    PROVE  Mutex(U, Q)
<1>1. /\ \A p \in QueryIds : U[p].pc = IF p = q THEN t.pc ELSE T[p].pc
      /\ q \in QueryIds
  BY PutsPcs
<1> QED BY <1>1 DEF Mutex, Busy

(* A task asks for the mutex: it queues at the end.                           *)
LEMMA MutexAsked ==
    ASSUME NEW T, NEW U, NEW q, NEW t, Puts(T, U, q, t), NEW Q \in Seq(QueryIds), Mutex(T, Q),
           T[q].pc \notin Busy, t.pc = "sending"
    PROVE  Mutex(U, Append(Q, q))
<1>1. /\ \A p \in QueryIds : U[p].pc = IF p = q THEN t.pc ELSE T[p].pc
      /\ q \in QueryIds
  BY PutsPcs
<1>2. \A i \in DOMAIN Q : Q[i] # q
  BY <1>1 DEF Mutex
<1> DEFINE A == Append(Q, q)
<1>3. /\ Len(Q) \in Nat /\ DOMAIN Q = 1 .. Len(Q) /\ DOMAIN A = 1 .. Len(Q) + 1
      /\ A[Len(Q) + 1] = q /\ \A i \in 1 .. Len(Q) : A[i] = Q[i]
  BY <1>1
<1> HIDE DEF A
<1>4. \A i \in DOMAIN A : i \in DOMAIN Q \/ i = Len(Q) + 1
  BY <1>3
<1>5. \A i, j \in DOMAIN A : A[i] = A[j] => i = j
  BY <1>2, <1>3, <1>4 DEF Mutex
<1>6. \A p \in QueryIds : (\E i \in DOMAIN A : A[i] = p) <=> p = q \/ \E i \in DOMAIN Q : Q[i] = p
  <2>1. ASSUME NEW p \in QueryIds, NEW i \in DOMAIN A, A[i] = p
        PROVE  p = q \/ \E j \in DOMAIN Q : Q[j] = p
    BY <1>3, <1>4, <2>1
  <2>2. ASSUME NEW p \in QueryIds, NEW i \in DOMAIN Q, Q[i] = p PROVE \E j \in DOMAIN A : A[j] = p
    <3>1. i \in DOMAIN A /\ A[i] = p
      BY <1>3, <2>2
    <3> QED BY <3>1
  <2>3. \E j \in DOMAIN A : A[j] = q
    BY <1>3
  <2> QED BY <2>1, <2>2, <2>3
<1>7. \A p \in QueryIds : U[p].pc \in Busy <=> \E i \in DOMAIN A : A[i] = p
  BY <1>1, <1>6 DEF Mutex, Busy
<1>8. ASSUME NEW p \in QueryIds, U[p].pc = "reading" PROVE A # <<>> /\ A[1] = p
  <2>1. p # q /\ T[p].pc = "reading"
    BY <1>1, <1>8
  <2>2. Q # <<>> /\ Q[1] = p
    BY <2>1 DEF Mutex
  <2>3. 1 \in 1 .. Len(Q) /\ A # <<>>
    BY <1>3, <2>2
  <2> QED BY <1>3, <2>2, <2>3
<1> QED BY <1>5, <1>7, <1>8 DEF Mutex, A

(* The holder lets the mutex go: the next in the queue has it.                *)
LEMMA MutexLeft ==
    ASSUME NEW T, NEW U, NEW q, NEW t, Puts(T, U, q, t), NEW Q \in Seq(QueryIds), Mutex(T, Q),
           Q # <<>>, Q[1] = q, t.pc \notin Busy
    PROVE  Mutex(U, Tail(Q)) /\ Tail(Q) \in Seq(QueryIds)
<1>1. /\ \A p \in QueryIds : U[p].pc = IF p = q THEN t.pc ELSE T[p].pc
      /\ q \in QueryIds
  BY PutsPcs
<1> DEFINE A == Tail(Q)
<1>2. /\ Len(Q) \in Nat /\ DOMAIN Q = 1 .. Len(Q) /\ DOMAIN A = 1 .. Len(Q) - 1
      /\ \A i \in 1 .. Len(Q) - 1 : A[i] = Q[i + 1]
      /\ A \in Seq(QueryIds)
  OBVIOUS
<1> HIDE DEF A
<1>3. \A i \in DOMAIN A : i + 1 \in DOMAIN Q /\ i + 1 # 1 /\ A[i] = Q[i + 1]
  BY <1>2
<1>4. \A i, j \in DOMAIN A : A[i] = A[j] => i = j
  <2> SUFFICES ASSUME NEW i \in DOMAIN A, NEW j \in DOMAIN A, A[i] = A[j] PROVE i = j
    OBVIOUS
  <2>1. i + 1 = j + 1
    BY <1>3 DEF Mutex
  <2> QED BY <1>2, <2>1
<1>5. \A i \in DOMAIN A : A[i] # q
  <2> SUFFICES ASSUME NEW i \in DOMAIN A, A[i] = q PROVE FALSE
    OBVIOUS
  <2>1. Q[i + 1] = Q[1] /\ 1 \in DOMAIN Q /\ i + 1 \in DOMAIN Q /\ i + 1 # 1
    BY <1>2, <1>3
  <2> QED BY <2>1 DEF Mutex
<1>6. \A p \in QueryIds : p # q => ((\E i \in DOMAIN A : A[i] = p) <=> \E i \in DOMAIN Q : Q[i] = p)
  <2>1. ASSUME NEW p \in QueryIds, p # q, NEW i \in DOMAIN Q, Q[i] = p PROVE \E j \in DOMAIN A : A[j] = p
    <3>1. i # 1
      BY <2>1
    <3>2. i - 1 \in 1 .. Len(Q) - 1 /\ (i - 1) + 1 = i
      BY <1>2, <3>1
    <3> QED BY <1>2, <2>1, <3>2
  <2> QED BY <1>3, <2>1
<1>7. \A p \in QueryIds : U[p].pc \in Busy <=> \E i \in DOMAIN A : A[i] = p
  <2> SUFFICES ASSUME NEW p \in QueryIds PROVE U[p].pc \in Busy <=> \E i \in DOMAIN A : A[i] = p
    OBVIOUS
  <2>1. CASE p = q
    BY <1>1, <1>5, <2>1
  <2>2. CASE p # q
    BY <1>1, <1>6, <2>2 DEF Mutex
  <2> QED BY <2>1, <2>2
<1>8. \A p \in QueryIds : U[p].pc # "reading"
  BY <1>1 DEF Mutex, Busy
<1> QED BY <1>2, <1>4, <1>7, <1>8 DEF Mutex, A

(* Only the holder of the mutex reads.                                        *)
LEMMA OnlyHolderReads ==
    ASSUME NEW T, NEW Q, Mutex(T, Q), NEW q, Q[1] = q
    PROVE  \A p \in QueryIds : T[p].pc = "reading" => p = q
BY DEF Mutex
-----------------------------------------------------------------------------
(* Steps at one shard.                                                        *)

Fine(T, Q, W, O, R, st) == Typed(T, Q, W, O, R) /\ Sound(T, Q, W, O, R, st)

LEMMA SendsNat == ASSUME NEW t \in Task PROVE Sends(t) \in Nat
BY DEF Sends, Task

(* Others than q are as they were, unless they read.                          *)
LEMMA OnceKept ==
    ASSUME NEW t, NEW W, NEW V, NEW n, NEW q, NEW st, NEW s, Once(t, W, n, q, st, s), t.pc # "reading"
    PROVE  Once(t, V, n, q, st, s)
BY DEF Once

(* Asking for the mutex keeps the invariant of the shard.                     *)
LEMMA LockFine ==
    ASSUME NEW T, NEW U, NEW q, NEW t, Puts(T, U, q, t), NEW Q, NEW W, NEW O, NEW R, NEW st,
           Fine(T, Q, W, O, R, st), NEW s,
           T[q].pc = "locking", t.pc = "sending", t.tries = T[q].tries
    PROVE  /\ Fine(U, Append(Q, q), W, O, R, st)
           /\ Calm(T, W, O, R, st, s) /\ DOMAIN st \subseteq QueryIds => Calm(U, W, O, R, st, s)
<1> USE DEF Fine, Typed, Sound
<1>1. /\ \A p \in QueryIds : U[p].pc = IF p = q THEN t.pc ELSE T[p].pc
      /\ q \in QueryIds /\ T[q] \in Task /\ t \in Task
      /\ \A p \in QueryIds : p # q => U[p] = T[p]
      /\ U[q] = t /\ U \in Column /\ T \in Column
  BY PutsPcs DEF Puts, Column
<1>2. Mutex(U, Append(Q, q))
  BY MutexAsked DEF Busy
<1>3. Append(Q, q) \in Seq(QueryIds)
  BY <1>1
<1>4. Talking(U, W, st)
  BY <1>1 DEF Talking
<1>5. Attempts(U, W, O, R)
  <2> SUFFICES ASSUME NEW p \in QueryIds
               PROVE  R[p] + Occurs(p, W.up) + Occurs(p, O) <= Sends(U[p])
    BY DEF Attempts
  <2>1. R[p] + Occurs(p, W.up) + Occurs(p, O) <= Sends(T[p])
    BY DEF Attempts
  <2>2. CASE p # q
    BY <1>1, <2>1, <2>2
  <2>3. CASE p = q
    <3>1. Sends(T[p]) = 0 /\ Sends(U[p]) \in Nat
      BY <1>1, <2>3, SendsNat DEF Sends
    <3>2. R[p] \in Nat /\ Occurs(p, W.up) \in Nat /\ Occurs(p, O) \in Nat
      BY PlacesFinite DEF Connection
    <3> QED BY <2>1, <3>1, <3>2
  <2> QED BY <2>2, <2>3
<1>6. Allowed(U, st)
  BY <1>1 DEF Allowed
<1>7. ASSUME Calm(T, W, O, R, st, s), DOMAIN st \subseteq QueryIds PROVE Calm(U, W, O, R, st, s)
  <2> SUFFICES ASSUME NEW p \in DOMAIN st PROVE Once(U[p], W, R[p], p, st, s)
    BY <1>7 DEF Calm
  <2>1. Once(T[p], W, R[p], p, st, s) /\ p \in QueryIds
    BY <1>7 DEF Calm
  <2>2. CASE p = q
    BY <1>1, <2>1, <2>2 DEF Once
  <2>3. CASE p # q
    BY <1>1, <2>1, <2>3
  <2> QED BY <2>2, <2>3
<1> QED BY <1>1, <1>2, <1>3, <1>4, <1>5, <1>6, <1>7

(* Writing the request: it is the only thing on a clean connection, because   *)
(* only the holder of the mutex reads, and it is one more attempt.            *)
LEMMA SendFine ==
    ASSUME NEW T, NEW U, NEW q, NEW t, Puts(T, U, q, t), NEW Q, NEW W, NEW O, NEW R, NEW st,
           Fine(T, Q, W, O, R, st), NEW s,
           T[q].pc = "sending", Q # <<>>, Q[1] = q, t.pc = "reading", t.tries = T[q].tries,
           NEW w, w = IF W.made THEN W ELSE NewWire,
           NEW V \in Connection, V.open = w.open, V.made = w.made, V.clean = w.clean, V.down = w.down,
           V.up = IF w.open THEN Append(w.up, q) ELSE w.up
    PROVE  /\ Fine(U, Q, V, O, R, st)
           /\ Calm(T, W, O, R, st, s) /\ DOMAIN st \subseteq QueryIds => Calm(U, V, O, R, st, s)
<1> USE DEF Fine, Typed, Sound
<1>1. /\ \A p \in QueryIds : U[p].pc = IF p = q THEN t.pc ELSE T[p].pc
      /\ q \in QueryIds /\ T[q] \in Task /\ t \in Task
      /\ \A p \in QueryIds : p # q => U[p] = T[p]
      /\ U[q] = t /\ U \in Column /\ T \in Column
  BY PutsPcs DEF Puts, Column
<1>2. Mutex(U, Q)
  BY MutexStays DEF Busy
<1>3. \A p \in QueryIds : T[p].pc # "reading"
  BY OnlyHolderReads
<1>4. W.clean => Silent(W)
  BY <1>3 DEF Talking
<1>5. w.made /\ w.up \in Seq(QueryIds) /\ (w.clean => Silent(w)) /\ (w = W \/ w = NewWire)
      /\ \A p \in QueryIds : Occurs(p, w.up) = Occurs(p, W.up)
  <2>1. CASE W.made
    BY <1>4, <2>1 DEF Connection
  <2>2. CASE ~W.made
    <3>1. W.up = <<>> /\ w = NewWire
      BY <2>2 DEF Wired, NoWire
    <3>2. NewWire.made /\ NewWire.up = <<>> /\ NewWire.down = <<>>
      BY DEF NewWire
    <3>3. w.up = W.up /\ w.up = <<>> /\ w.down = <<>> /\ w.made
      BY <3>1, <3>2
    <3>4. <<>> \in Seq(QueryIds)
      OBVIOUS
    <3>5. w.up \in Seq(QueryIds) /\ Silent(w)
      BY <3>3, <3>4, Zenon DEF Silent
    <3> QED BY <3>1, <3>3, <3>5
  <2> QED BY <2>1, <2>2
<1>6. Wired(V)
  BY <1>5 DEF Wired
<1>7. V.clean => Silent(V) \/ Asking(V, q)
  <2> SUFFICES ASSUME V.clean PROVE Silent(V) \/ Asking(V, q)
    OBVIOUS
  <2>1. w.up = <<>> /\ w.down = <<>>
    BY <1>5 DEF Silent
  <2>2. Append(<<>>, q) = <<q>>
    OBVIOUS
  <2>3. V.down = <<>> /\ (V.up = <<>> \/ V.up = <<q>>)
    BY <2>1, <2>2
  <2> QED BY <2>3 DEF Silent, Asking
<1>8. Talking(U, V, st)
  BY <1>1, <1>7 DEF Talking
<1>9. Attempts(U, V, O, R)
  <2> SUFFICES ASSUME NEW p \in QueryIds
               PROVE  R[p] + Occurs(p, V.up) + Occurs(p, O) <= Sends(U[p])
    BY DEF Attempts
  <2>1. R[p] + Occurs(p, W.up) + Occurs(p, O) <= Sends(T[p])
    BY DEF Attempts
  <2>2. R[p] \in Nat /\ Occurs(p, W.up) \in Nat /\ Occurs(p, O) \in Nat /\ Sends(T[p]) \in Nat
    BY PlacesFinite, <1>1, SendsNat DEF Connection, Column
  <2>3. Occurs(p, V.up) = Occurs(p, W.up) \/ (p = q /\ Occurs(p, V.up) = Occurs(p, W.up) + 1)
    BY <1>1, <1>5, <2>2, OccursAppend
  <2>4. Sends(U[p]) = IF p = q THEN Sends(T[p]) + 1 ELSE Sends(T[p])
    BY <1>1 DEF Sends
  <2> QED BY <2>1, <2>2, <2>3, <2>4
<1>10. Allowed(U, st)
  BY <1>1 DEF Allowed
<1>11. ASSUME Calm(T, W, O, R, st, s), DOMAIN st \subseteq QueryIds PROVE Calm(U, V, O, R, st, s)
  <2>1. w.open /\ w.clean
    BY <1>5, <1>11 DEF Calm, NewWire
  <2>2. Asking(V, q)
    <3>1. w.up = <<>> /\ w.down = <<>>
      BY <1>5, <2>1 DEF Silent
    <3>2. Append(<<>>, q) = <<q>>
      OBVIOUS
    <3>3. V.down = <<>> /\ V.up = <<q>>
      BY <2>1, <3>1, <3>2
    <3> QED BY <3>3 DEF Asking
  <2> SUFFICES ASSUME NEW p \in DOMAIN st PROVE Once(U[p], V, R[p], p, st, s)
    BY <1>5, <1>11, <2>1 DEF Calm
  <2>3. Once(T[p], W, R[p], p, st, s) /\ p \in QueryIds
    BY <1>11 DEF Calm
  <2>4. CASE p = q
    BY <1>1, <2>2, <2>3, <2>4 DEF Once
  <2>5. CASE p # q
    BY <1>1, <1>3, <2>3, <2>5, OnceKept
  <2> QED BY <2>4, <2>5
<1> QED BY <1>1, <1>2, <1>6, <1>8, <1>9, <1>10, <1>11

(* An attempt fails: W is left.                                               *)
LEMMA FailFine ==
    ASSUME NEW T, NEW U, NEW q, NEW t, Puts(T, U, q, t), NEW Q, NEW W, NEW O, NEW R, NEW st,
           Fine(T, Q, W, O, R, st), NEW s, NEW P,
           T[q].pc \in Busy, Q # <<>>, Q[1] = q,
           \/ T[q].tries = 0 /\ t.pc = "sending" /\ t.tries = 1 /\ P = Q
           \/ T[q].tries # 0 /\ t.pc = "ended" /\ t.tries = T[q].tries /\ P = Tail(Q)
    PROVE  /\ Fine(U, P, NoWire, O \o W.up, R, st)
           /\ (Calm(T, W, O, R, st, s) /\ DOMAIN st \subseteq QueryIds /\ T[q].pc = "reading"
               /\ Answering(W, q, st) /\ Typical(q, st)) => Calm(U, NoWire, O \o W.up, R, st, s)
<1> USE DEF Fine, Typed, Sound
<1>1. /\ \A p \in QueryIds : U[p].pc = IF p = q THEN t.pc ELSE T[p].pc
      /\ q \in QueryIds /\ T[q] \in Task /\ t \in Task
      /\ \A p \in QueryIds : p # q => U[p] = T[p]
      /\ U[q] = t /\ U \in Column /\ T \in Column
  BY PutsPcs DEF Puts, Column
<1>2. Mutex(U, P) /\ P \in Seq(QueryIds)
  <2>1. CASE t.pc = "sending" /\ P = Q
    BY <2>1, MutexStays DEF Busy
  <2>2. CASE t.pc = "ended" /\ P = Tail(Q)
    BY <2>2, MutexLeft DEF Busy
  <2> QED BY <2>1, <2>2
<1>3. W.up \in Seq(QueryIds) /\ O \in Seq(QueryIds) /\ O \o W.up \in Seq(QueryIds)
  BY DEF Connection
<1>4. NoWire \in Connection /\ NoWire.up = <<>> /\ NoWire.down = <<>> /\ Wired(NoWire)
      /\ NoWire.clean /\ ~NoWire.made
  BY DEF NoWire, Connection, Wired
<1>5. Talking(U, NoWire, st)
  BY <1>4 DEF Talking, Silent
<1>6. Attempts(U, NoWire, O \o W.up, R)
  <2> SUFFICES ASSUME NEW p \in QueryIds
               PROVE  R[p] + Occurs(p, <<>>) + Occurs(p, O \o W.up) <= Sends(U[p])
    BY <1>4 DEF Attempts
  <2>1. R[p] + Occurs(p, W.up) + Occurs(p, O) <= Sends(T[p])
    BY DEF Attempts
  <2>2. R[p] \in Nat /\ Occurs(p, W.up) \in Nat /\ Occurs(p, O) \in Nat /\ Sends(T[p]) \in Nat
    BY <1>3, PlacesFinite, <1>1, SendsNat DEF Column
  <2>3. Occurs(p, <<>>) = 0 /\ Occurs(p, O \o W.up) = Occurs(p, O) + Occurs(p, W.up)
    BY <1>3, OccursBoth, OccursNever
  <2>4. Sends(T[p]) <= Sends(U[p]) /\ Sends(U[p]) \in Nat
    <3>1. CASE p = q
      BY <1>1, <3>1 DEF Sends, Task, Busy
    <3>2. CASE p # q
      BY <1>1, <2>2, <3>2
    <3> QED BY <3>1, <3>2
  <2> QED BY <2>1, <2>2, <2>3, <2>4
<1>7. Allowed(U, st)
  BY <1>1 DEF Allowed, Busy
<1>8. ASSUME Calm(T, W, O, R, st, s), DOMAIN st \subseteq QueryIds, T[q].pc = "reading",
             Answering(W, q, st), Typical(q, st)
      PROVE  Calm(U, NoWire, O \o W.up, R, st, s)
  <2>1. O \o W.up = <<>>
    BY <1>8 DEF Calm, Answering
  <2> SUFFICES ASSUME NEW p \in DOMAIN st PROVE Once(U[p], NoWire, R[p], p, st, s)
    BY <1>4, <2>1 DEF Calm
  <2>2. Once(T[p], W, R[p], p, st, s) /\ p \in QueryIds
    BY <1>8 DEF Calm
  <2>3. CASE p # q
    <3>1. T[p].pc # "reading"
      BY <2>2, <2>3, OnlyHolderReads
    <3> QED BY <1>1, <2>2, <2>3, <3>1, OnceKept
  <2>4. CASE p = q
    <3>1. W.down # <<>>
      BY <1>8 DEF Answering
    <3>2. R[q] = T[q].tries + 1
      BY <1>8, <2>2, <2>4, <3>1 DEF Once, Asking
    <3>3. Replied(q, st).type # "text"
      BY <1>8 DEF Typical
    <3>4. T[q].tries = 0 \/ T[q].tries = 1
      BY <1>1 DEF Task
    <3>5. t.pc \in {"sending", "ended"} /\ (t.pc = "sending" => R[q] = t.tries)
          /\ (t.pc = "ended" => t.tries = 1 /\ R[q] = 2)
      BY <3>2, <3>4
    <3>6. Once(t, NoWire, R[q], q, st, s)
      BY <1>8, <3>3, <3>5 DEF Once
    <3> QED BY <1>1, <2>4, <3>6
  <2> QED BY <2>3, <2>4
<1> QED BY <1>1, <1>2, <1>3, <1>4, <1>5, <1>6, <1>7, <1>8

(* What a query reads while nothing has gone wrong is its own response.       *)
LEMMA OwnResponse ==
    ASSUME NEW T, NEW Q, NEW W, NEW st, Mutex(T, Q), Talking(T, W, st), W.clean,
           NEW q \in QueryIds, T[q].pc = "reading", W.down # <<>>
    PROVE  Answering(W, q, st)
<1>1. Q[1] = q
  BY DEF Mutex
<1>2. PICK p \in QueryIds : T[p].pc = "reading" /\ (Asking(W, p) \/ Answering(W, p, st))
  BY DEF Talking, Silent
<1>3. p = q
  BY <1>1, <1>2, OnlyHolderReads
<1> QED BY <1>2, <1>3 DEF Asking

(* Reading the answer and ending the task keeps the invariant; without faults *)
(* the answer is the own one.                                                 *)
LEMMA AnswerFine ==
    ASSUME NEW T, NEW U, NEW q, NEW t, Puts(T, U, q, t), NEW Q, NEW W, NEW O, NEW R, NEW st,
           Fine(T, Q, W, O, R, st), NEW s,
           T[q].pc = "reading", t.pc = "ended", t.tries = T[q].tries,
           W.down # <<>>, W.down[1].type = "text" => <<W.down[1].to, s>> \in t.rows,
           W.down[1].type = "typed" => T[q].tries # 0,
           NEW V \in Connection, V.open = W.open, V.made = W.made, V.clean = W.clean, V.up = W.up,
           V.down = Tail(W.down)
    PROVE  /\ Fine(U, Tail(Q), V, O, R, st)
           /\ Calm(T, W, O, R, st, s) /\ DOMAIN st \subseteq QueryIds => Calm(U, V, O, R, st, s)
<1> USE DEF Fine, Typed, Sound
<1>1. /\ \A p \in QueryIds : U[p].pc = IF p = q THEN t.pc ELSE T[p].pc
      /\ q \in QueryIds /\ T[q] \in Task /\ t \in Task
      /\ \A p \in QueryIds : p # q => U[p] = T[p]
      /\ U[q] = t /\ U \in Column /\ T \in Column
  BY PutsPcs DEF Puts, Column
<1>2. Q # <<>> /\ Q[1] = q
  BY <1>1 DEF Mutex
<1>3. Mutex(U, Tail(Q)) /\ Tail(Q) \in Seq(QueryIds)
  BY <1>2, MutexLeft DEF Busy
<1>4. Wired(V)
  BY DEF Wired, NoWire
<1>5. W.clean => Answering(W, q, st)
  BY <1>1, OwnResponse
<1>6. W.clean => Silent(V)
  <2>1. \A x : Tail(<<x>>) = <<>>
    OBVIOUS
  <2> QED BY <1>5, <2>1 DEF Answering, Silent
<1>7. Talking(U, V, st)
  BY <1>6 DEF Talking
<1>8. Attempts(U, V, O, R)
  <2>1. \A p \in QueryIds : Sends(U[p]) = Sends(T[p])
    BY <1>1 DEF Sends
  <2> QED BY <2>1 DEF Attempts
<1>9. Allowed(U, st)
  BY <1>1 DEF Allowed
<1>10. ASSUME Calm(T, W, O, R, st, s), DOMAIN st \subseteq QueryIds PROVE Calm(U, V, O, R, st, s)
  <2> SUFFICES ASSUME NEW p \in DOMAIN st PROVE Once(U[p], V, R[p], p, st, s)
    BY <1>10 DEF Calm
  <2>1. Once(T[p], W, R[p], p, st, s) /\ p \in QueryIds
    BY <1>10 DEF Calm
  <2>2. CASE p = q
    <3>1. Answering(W, q, st)
      BY <1>5, <1>10 DEF Calm
    <3>2. W.down[1] = Replied(q, st)
      BY <3>1 DEF Answering
    <3>3. Replied(q, st).type = "text" => <<q, s>> \in t.rows
      BY <3>2 DEF Replied
    <3>4. R[q] = T[q].tries + 1
      BY <2>1, <2>2 DEF Once, Asking
    <3>5. Typical(q, st) => T[q].tries = 1
      BY <1>1, <3>2 DEF Typical, Task
    <3>6. ~Typical(q, st) => T[q].tries = 0
      BY <2>1, <2>2 DEF Once
    <3>7. Once(t, V, R[q], q, st, s)
      BY <3>3, <3>4, <3>5, <3>6 DEF Once
    <3> QED BY <1>1, <2>2, <3>7
  <2>3. CASE p # q
    <3>1. T[p].pc # "reading"
      BY <1>2, <2>1, <2>3, OnlyHolderReads
    <3> QED BY <1>1, <2>1, <2>3, <3>1, OnceKept
  <2> QED BY <2>2, <2>3
<1> QED BY <1>1, <1>3, <1>4, <1>7, <1>8, <1>9, <1>10

LEMMA RepliedType == ASSUME NEW q \in QueryIds, NEW st PROVE Replied(q, st) \in Reply
<1>1. q \in Nat
  BY CoordinatorAssumption DEF QueryIds
<1> QED BY <1>1 DEF Replied, Reply, RowTypes

Counted(R, P, h) ==
    P \in [QueryIds -> Nat] /\ P[h] = R[h] + 1 /\ \A p \in QueryIds \ {h} : P[p] = R[p]

(* The shard executes a request of the connection: one execution more, one    *)
(* request less, and its response in place of it.                             *)
LEMMA ServeFine ==
    ASSUME NEW T, NEW Q, NEW W, NEW O, NEW R, NEW st, Fine(T, Q, W, O, R, st), NEW s,
           W.up # <<>>, NEW h, h = W.up[1], NEW P, Counted(R, P, h),
           NEW V \in Connection, V.open = W.open, V.made = W.made, V.clean = W.clean,
           V.up = Tail(W.up), V.down = Append(W.down, Replied(h, st))
    PROVE  /\ Fine(T, Q, V, O, P, st)
           /\ Calm(T, W, O, R, st, s) /\ DOMAIN st \subseteq QueryIds => Calm(T, V, O, P, st, s)
<1> USE DEF Fine, Typed, Sound, Counted
<1>1. W.up \in Seq(QueryIds) /\ h \in QueryIds
  BY DEF Connection
<1>2. Wired(V)
  BY DEF Wired, NoWire
<1>3. W.clean => T[h].pc = "reading" /\ Asking(W, h)
  <2> SUFFICES ASSUME W.clean PROVE T[h].pc = "reading" /\ Asking(W, h)
    OBVIOUS
  <2>1. PICK p \in QueryIds : T[p].pc = "reading" /\ Asking(W, p)
    BY DEF Talking, Silent, Answering
  <2>2. p = h
    BY <2>1 DEF Asking
  <2> QED BY <2>1, <2>2
<1>4. W.clean => Answering(V, h, st)
  <2> SUFFICES ASSUME W.clean PROVE Answering(V, h, st)
    OBVIOUS
  <2>1. W.up = <<h>> /\ W.down = <<>>
    BY <1>3 DEF Asking
  <2>2. \A x : Append(<<>>, x) = <<x>> /\ Tail(<<x>>) = <<>>
    OBVIOUS
  <2> QED BY <2>1, <2>2 DEF Answering
<1>5. Talking(T, V, st)
  BY <1>1, <1>3, <1>4 DEF Talking
<1>6. Attempts(T, V, O, P)
  <2> SUFFICES ASSUME NEW p \in QueryIds
               PROVE  P[p] + Occurs(p, V.up) + Occurs(p, O) <= Sends(T[p])
    BY DEF Attempts
  <2>1. R[p] + Occurs(p, W.up) + Occurs(p, O) <= Sends(T[p])
    BY DEF Attempts
  <2>2. R[p] \in Nat /\ Occurs(p, V.up) \in Nat /\ Occurs(p, O) \in Nat /\ Sends(T[p]) \in Nat
    BY PlacesFinite, SendsNat DEF Connection, Column
  <2>3. Occurs(p, W.up) = Occurs(p, V.up) + IF h = p THEN 1 ELSE 0
    BY <1>1, OccursTail
  <2>4. P[p] = R[p] + IF h = p THEN 1 ELSE 0
    BY <2>2
  <2> QED BY <2>1, <2>2, <2>3, <2>4
<1>7. ASSUME Calm(T, W, O, R, st, s), DOMAIN st \subseteq QueryIds PROVE Calm(T, V, O, P, st, s)
  <2> SUFFICES ASSUME NEW p \in DOMAIN st PROVE Once(T[p], V, P[p], p, st, s)
    BY <1>7 DEF Calm
  <2>1. Once(T[p], W, R[p], p, st, s) /\ p \in QueryIds /\ W.clean
    BY <1>7 DEF Calm
  <2>2. CASE p = h
    <3>1. R[p] = T[p].tries
      BY <1>3, <2>1, <2>2 DEF Once, Asking, Answering
    <3> QED BY <1>3, <1>4, <2>1, <2>2, <3>1 DEF Once
  <2>3. CASE p # h
    <3>1. T[p].pc # "reading"
      BY <1>1, <1>3, <2>1, <2>3 DEF Mutex
    <3> QED BY <2>1, <2>3, <3>1, OnceKept
  <2> QED BY <2>2, <2>3
<1> QED BY <1>2, <1>5, <1>6, <1>7

(* The shard executes a request of a connection that was left.                *)
LEMMA OrphanFine ==
    ASSUME NEW T, NEW Q, NEW W, NEW O, NEW R, NEW st, Fine(T, Q, W, O, R, st), NEW s,
           O # <<>>, NEW h, h = O[1], NEW P, Counted(R, P, h)
    PROVE  Fine(T, Q, W, Tail(O), P, st) /\ ~Calm(T, W, O, R, st, s)
<1> USE DEF Fine, Typed, Sound, Counted
<1>1. Tail(O) \in Seq(QueryIds)
  OBVIOUS
<1>2. Attempts(T, W, Tail(O), P)
  <2> SUFFICES ASSUME NEW p \in QueryIds
               PROVE  P[p] + Occurs(p, W.up) + Occurs(p, Tail(O)) <= Sends(T[p])
    BY DEF Attempts
  <2>1. R[p] + Occurs(p, W.up) + Occurs(p, O) <= Sends(T[p])
    BY DEF Attempts
  <2>2. R[p] \in Nat /\ Occurs(p, W.up) \in Nat /\ Occurs(p, Tail(O)) \in Nat /\ Sends(T[p]) \in Nat
    BY <1>1, PlacesFinite, SendsNat DEF Connection, Column
  <2>3. Occurs(p, O) = Occurs(p, Tail(O)) + IF h = p THEN 1 ELSE 0
    BY OccursTail
  <2>4. P[p] = R[p] + IF h = p THEN 1 ELSE 0
    BY <2>2
  <2> QED BY <2>1, <2>2, <2>3, <2>4
<1>3. ~Calm(T, W, O, R, st, s)
  BY DEF Calm
<1> QED BY <1>1, <1>2, <1>3

(* An unasked message makes the connection one that is not clean.             *)
LEMMA IdleFine ==
    ASSUME NEW T, NEW Q, NEW W, NEW O, NEW R, NEW st, Fine(T, Q, W, O, R, st),
           NEW V \in Connection, V.open = W.open, V.made = W.made, W.open, ~V.clean, V.up = W.up
    PROVE  Fine(T, Q, V, O, R, st)
<1> USE DEF Fine, Typed, Sound
<1>1. Wired(V) /\ Talking(T, V, st) /\ Attempts(T, V, O, R)
  BY DEF Wired, Talking, Attempts
<1> QED BY <1>1

(* A restart loses requests; what was executed stays.                         *)
LEMMA RestartFine ==
    ASSUME NEW T, NEW Q, NEW W, NEW O, NEW R, NEW st, Fine(T, Q, W, O, R, st),
           NEW V \in Connection, ~V.open, V.made = W.made, W.open, V.clean = W.clean, V.up = <<>>,
           V.down = W.down
    PROVE  Fine(T, Q, V, <<>>, R, st)
<1> USE DEF Fine, Typed, Sound
<1>1. Wired(V)
  BY DEF Wired
<1>2. Talking(T, V, st)
  BY DEF Talking, Silent, Asking, Answering
<1>3. Attempts(T, V, <<>>, R)
  <2> SUFFICES ASSUME NEW p \in QueryIds
               PROVE  R[p] + Occurs(p, <<>>) + Occurs(p, <<>>) <= Sends(T[p])
    BY DEF Attempts
  <2>1. R[p] + Occurs(p, W.up) + Occurs(p, O) <= Sends(T[p])
    BY DEF Attempts
  <2>2. R[p] \in Nat /\ Occurs(p, W.up) \in Nat /\ Occurs(p, O) \in Nat /\ Sends(T[p]) \in Nat
    BY PlacesFinite, SendsNat DEF Connection, Column
  <2>3. Occurs(p, <<>>) = 0
    BY OccursNever
  <2> QED BY <2>1, <2>2, <2>3
<1>4. <<>> \in Seq(QueryIds)
  OBVIOUS
<1> QED BY <1>1, <1>2, <1>3, <1>4

(* A query is submitted, and gets tasks or none.                              *)
Entered(t, was, r) ==
    t = was \/ (t = [NoTask EXCEPT !.pc = "locking"] /\ CheckQueryAuth(r.statement, r.role))

(* A new query, let through or refused, was never sent before.                *)
LEMMA SubmitFine ==
    ASSUME NEW T, NEW U, NEW q, NEW t, Puts(T, U, q, t), NEW Q, NEW W, NEW O, NEW R, NEW st \in Seq(Asked),
           Fine(T, Q, W, O, R, st), NEW s, NEW r \in Asked, q = Len(st) + 1, NEW su, su = Append(st, r),
           Entered(t, T[q], r)
    PROVE  /\ Fine(U, Q, W, O, R, su)
           /\ Calm(T, W, O, R, st, s) /\ DOMAIN su \subseteq QueryIds => Calm(U, W, O, R, su, s)
<1> USE DEF Fine, Typed, Sound
<1>1. /\ \A p \in QueryIds : U[p].pc = IF p = q THEN t.pc ELSE T[p].pc
      /\ q \in QueryIds /\ T[q] \in Task /\ t \in Task
      /\ \A p \in QueryIds : p # q => U[p] = T[p]
      /\ U[q] = t /\ U \in Column /\ T \in Column
  BY PutsPcs DEF Puts, Column
<1>2. /\ Len(st) \in Nat /\ DOMAIN st = 1 .. Len(st) /\ DOMAIN su = 1 .. Len(st) + 1
      /\ su[q] = r /\ q \in DOMAIN su /\ q \notin DOMAIN st
      /\ \A p \in DOMAIN st : su[p] = st[p] /\ p \in DOMAIN su
      /\ \A p \in DOMAIN su : p = q \/ p \in DOMAIN st
  OBVIOUS
<1>3. T[q].pc = "none" /\ t.tries = 0
      /\ (t.pc = "none" \/ (t.pc = "locking" /\ CheckQueryAuth(r.statement, r.role)))
  BY <1>1, <1>2 DEF Allowed, NoTask, Entered
<1>4. Mutex(U, Q)
  BY <1>3, MutexFree DEF Busy
<1>5. \A p \in DOMAIN st : Replied(p, su) = Replied(p, st)
  BY <1>2 DEF Replied
<1>6. Talking(U, W, su)
  <2> SUFFICES ASSUME W.clean, ~Silent(W)
               PROVE  \E p \in QueryIds : U[p].pc = "reading" /\ (Asking(W, p) \/ Answering(W, p, su))
    BY DEF Talking
  <2>1. PICK p \in QueryIds : T[p].pc = "reading" /\ (Asking(W, p) \/ Answering(W, p, st))
    BY DEF Talking
  <2>2. p # q /\ p \in DOMAIN st
    BY <1>3, <2>1 DEF Allowed
  <2> QED BY <1>1, <1>5, <2>1, <2>2 DEF Answering
<1>7. R[q] = 0 /\ Sends(T[q]) = 0 /\ Sends(U[q]) = 0
  <2>1. R[q] + Occurs(q, W.up) + Occurs(q, O) <= Sends(T[q])
    BY <1>1 DEF Attempts
  <2>2. R[q] \in Nat /\ Occurs(q, W.up) \in Nat /\ Occurs(q, O) \in Nat
    BY <1>1, PlacesFinite DEF Connection
  <2>3. Sends(T[q]) = 0 /\ Sends(U[q]) = 0
    BY <1>1, <1>3 DEF Sends
  <2> QED BY <2>1, <2>2, <2>3
<1>8. Attempts(U, W, O, R)
  <2>1. \A p \in QueryIds : Sends(U[p]) = Sends(T[p])
    BY <1>1, <1>7
  <2> QED BY <2>1 DEF Attempts
<1>9. Allowed(U, su)
  BY <1>1, <1>2, <1>3 DEF Allowed
<1>10. ASSUME Calm(T, W, O, R, st, s), DOMAIN su \subseteq QueryIds PROVE Calm(U, W, O, R, su, s)
  <2> SUFFICES ASSUME NEW p \in DOMAIN su PROVE Once(U[p], W, R[p], p, su, s)
    BY <1>10 DEF Calm
  <2>1. CASE p = q
    BY <1>1, <1>3, <1>7, <2>1 DEF Once
  <2>2. CASE p # q
    <3>1. p \in DOMAIN st /\ p \in QueryIds /\ su[p] = st[p] /\ Replied(p, su) = Replied(p, st)
      BY <1>2, <1>5, <1>10, <2>2
    <3>2. Once(T[p], W, R[p], p, st, s) /\ U[p] = T[p]
      BY <1>1, <1>10, <2>2, <3>1 DEF Calm
    <3> QED BY <3>1, <3>2 DEF Once, Answering, Typical
  <2> QED BY <2>1, <2>2
<1> QED BY <1>1, <1>4, <1>6, <1>8, <1>9, <1>10
-----------------------------------------------------------------------------
(* Steps of the coordinator.                                                  *)

(* A step that concerns shard s alone.                                        *)
Local(s) ==
    /\ sent' = sent /\ answers' = answers /\ (troubles' = 0 => troubles = 0)
    /\ \A p \in QueryIds, u \in Shards \ {s} : task'[p][u] = task[p][u] /\ ran'[p][u] = ran[p][u]
    /\ \A u \in Shards \ {s} :
         queue'[u] = queue[u] /\ wire'[u] = wire[u] /\ orphans'[u] = orphans[u]
    /\ \A p \in QueryIds : task[p][s].pc = "ended" => task'[p][s] = task[p][s]

(* A shard that nothing changes at keeps its invariant.                       *)
LEMMA ElsewhereKept ==
    ASSUME NEW u \in Shards, ShardInv(u), sent' = sent, troubles' = 0 => troubles = 0,
           \A p \in QueryIds : task'[p][u] = task[p][u] /\ ran'[p][u] = ran[p][u],
           queue'[u] = queue[u], wire'[u] = wire[u], orphans'[u] = orphans[u]
    PROVE  ShardInv(u)'
<1>1. TasksAt(u)' = TasksAt(u) /\ RunsAt(u)' = RunsAt(u)
  BY DEF TasksAt, RunsAt
<1> QED BY <1>1 DEF ShardInv

(* A step at one shard keeps the invariant if it does so there.               *)
LEMMA LocalKeeps ==
    ASSUME CoordInv, NEW s \in Shards, Local(s), TablesInv', ShardInv(s)'
    PROVE  CoordInv'
<1>1. ASSUME NEW u \in Shards PROVE ShardInv(u)'
  <2>1. CASE u = s
    BY <2>1
  <2>2. CASE u # s
    BY <2>2, ElsewhereKept DEF CoordInv, Local
  <2> QED BY <2>1, <2>2
<1>2. AnswersInv'
  <2> SUFFICES ASSUME NEW q \in QueryIds
               PROVE  /\ answers'[q].status # "none" => q \in Sent'
                      /\ answers'[q].status = "rows" =>
                           \A u \in Shards : task'[q][u].pc = "ended" /\ task'[q][u].rows \subseteq answers'[q].rows
    BY DEF AnswersInv
  <2>1. answers'[q] = answers[q] /\ Sent' = Sent
    BY DEF Local, Sent
  <2>2. \A u \in Shards : task[q][u].pc = "ended" => task'[q][u] = task[q][u]
    BY DEF Local
  <2> QED BY <2>1, <2>2 DEF CoordInv, AnswersInv
<1> QED BY <1>1, <1>2 DEF CoordInv

(* What a step of one task does to the table of tasks.                        *)
LEMMA TaskPut ==
    ASSUME TablesInv, NEW q \in QueryIds, NEW s \in Shards, NEW t \in Task, SetTask(q, s, t)
    PROVE  /\ Puts(TasksAt(s), TasksAt(s)', q, t)
           /\ task' \in [QueryIds -> [Shards -> Task]]
           /\ \A p \in QueryIds, u \in Shards : p # q \/ u # s => task'[p][u] = task[p][u]
           /\ task'[q][s] = t /\ TasksAt(s)[q] = task[q][s]
<1>1. task \in [QueryIds -> [Shards -> Task]]
  BY DEF TablesInv
<1>2. /\ task' \in [QueryIds -> [Shards -> Task]]
      /\ \A p \in QueryIds, u \in Shards : p # q \/ u # s => task'[p][u] = task[p][u]
      /\ task'[q][s] = t
  BY <1>1 DEF SetTask
<1>3. Puts(TasksAt(s), TasksAt(s)', q, t)
  BY <1>1, <1>2 DEF Puts, TasksAt, Column
<1> QED BY <1>2, <1>3 DEF TasksAt

LEMMA SentIds == TablesInv => DOMAIN sent \subseteq QueryIds /\ QueryIds \subseteq Nat
BY CoordinatorAssumption DEF TablesInv, QueryIds

LEMMA TaskOf ==
    ASSUME TablesInv, NEW q \in QueryIds, NEW s \in Shards
    PROVE  task[q][s] \in Task /\ TasksAt(s)[q] = task[q][s]
BY DEF TablesInv, TasksAt

(* The actions of CoordNext, one after the other.                             *)
LEMMA LockMoves ==
    ASSUME CoordInv, NEW q \in QueryIds, NEW s \in Shards, Lock(q, s)
    PROVE  CoordInv'
<1> DEFINE t == [task[q][s] EXCEPT !.pc = "sending"]
<1>1. TablesInv /\ ShardInv(s) /\ task[q][s] \in Task /\ TasksAt(s)[q] = task[q][s]
  BY TaskOf DEF CoordInv
<1>2. t \in Task /\ t.pc = "sending" /\ t.tries = task[q][s].tries
  BY <1>1 DEF Task
<1> HIDE DEF t
<1>3. SetTask(q, s, t) /\ task[q][s].pc = "locking"
  BY DEF Lock, t
<1>4. /\ Puts(TasksAt(s), TasksAt(s)', q, t)
      /\ task' \in [QueryIds -> [Shards -> Task]]
      /\ \A p \in QueryIds, u \in Shards : p # q \/ u # s => task'[p][u] = task[p][u]
  BY <1>1, <1>2, <1>3, TaskPut
<1>5. /\ queue' = [queue EXCEPT ![s] = Append(queue[s], q)]
      /\ sent' = sent /\ wire' = wire /\ orphans' = orphans /\ ran' = ran /\ answers' = answers
      /\ troubles' = troubles
  BY DEF Lock
<1>6. queue \in [Shards -> Seq(QueryIds)]
  BY <1>1 DEF TablesInv
<1>7. queue' \in [Shards -> Seq(QueryIds)] /\ queue'[s] = Append(queue[s], q)
      /\ \A u \in Shards \ {s} : queue'[u] = queue[u]
  <2>1. Append(queue[s], q) \in Seq(QueryIds)
    BY <1>6
  <2> QED BY <1>5, <1>6, <2>1
<1>8. TablesInv'
  BY <1>1, <1>4, <1>5, <1>7 DEF TablesInv
<1>9. Local(s)
  BY <1>3, <1>4, <1>5, <1>7 DEF Local
<1>10. ShardInv(s)'
  <2>1. RunsAt(s)' = RunsAt(s) /\ DOMAIN sent \subseteq QueryIds
    BY <1>1, <1>5, SentIds DEF RunsAt
  <2>2. Fine(TasksAt(s), queue[s], wire[s], orphans[s], RunsAt(s), sent)
    BY <1>1 DEF ShardInv, Fine
  <2>3. /\ Fine(TasksAt(s)', Append(queue[s], q), wire[s], orphans[s], RunsAt(s), sent)
        /\ Calm(TasksAt(s), wire[s], orphans[s], RunsAt(s), sent, s)
              => Calm(TasksAt(s)', wire[s], orphans[s], RunsAt(s), sent, s)
    <3>1. PICK T, U, Q, W, O, R, st, x :
             /\ T = TasksAt(s) /\ U = TasksAt(s)' /\ Q = queue[s] /\ W = wire[s] /\ O = orphans[s]
             /\ R = RunsAt(s) /\ st = sent /\ x = t
      OBVIOUS
    <3>2. /\ Puts(T, U, q, x) /\ Fine(T, Q, W, O, R, st) /\ T[q].pc = "locking"
          /\ x.pc = "sending" /\ x.tries = T[q].tries /\ DOMAIN st \subseteq QueryIds
      BY <1>1, <1>2, <1>3, <1>4, <2>1, <2>2, <3>1
    <3>3. /\ Fine(U, Append(Q, q), W, O, R, st)
          /\ Calm(T, W, O, R, st, s) => Calm(U, W, O, R, st, s)
      BY <3>2, LockFine
    <3> QED BY <3>1, <3>3
  <2> QED BY <1>1, <1>5, <1>7, <2>1, <2>3 DEF ShardInv, Fine
<1> QED BY <1>8, <1>9, <1>10, LocalKeeps

(* A change of the connection, the requests left or the executions at s.      *)
LEMMA WirePut ==
    ASSUME TablesInv, NEW s \in Shards, NEW V \in Connection, wire' = [wire EXCEPT ![s] = V]
    PROVE  /\ wire' \in [Shards -> Connection] /\ wire'[s] = V
           /\ \A u \in Shards \ {s} : wire'[u] = wire[u]
BY DEF TablesInv

LEMMA OrphansPut ==
    ASSUME TablesInv, NEW s \in Shards, NEW O \in Seq(QueryIds), orphans' = [orphans EXCEPT ![s] = O]
    PROVE  /\ orphans' \in [Shards -> Seq(QueryIds)] /\ orphans'[s] = O
           /\ \A u \in Shards \ {s} : orphans'[u] = orphans[u]
BY DEF TablesInv

LEMMA QueuePut ==
    ASSUME TablesInv, NEW s \in Shards, NEW Q \in Seq(QueryIds), queue' = [queue EXCEPT ![s] = Q]
    PROVE  /\ queue' \in [Shards -> Seq(QueryIds)] /\ queue'[s] = Q
           /\ \A u \in Shards \ {s} : queue'[u] = queue[u]
BY DEF TablesInv

LEMMA ShardTypes ==
    ASSUME TablesInv, NEW s \in Shards
    PROVE  /\ queue[s] \in Seq(QueryIds) /\ orphans[s] \in Seq(QueryIds) /\ wire[s] \in Connection
           /\ wire[s].up \in Seq(QueryIds) /\ wire[s].down \in Seq(Reply)
BY DEF TablesInv, Connection

LEMMA HoldsFirst ==
    ASSUME TablesInv, NEW q, NEW s \in Shards, Holds(q, s)
    PROVE  queue[s] # <<>> /\ queue[s][1] = q
BY ShardTypes DEF Holds

LEMMA SendMoves ==
    ASSUME CoordInv, NEW q \in QueryIds, NEW s \in Shards, task[q][s].pc = "sending", Holds(q, s),
           wire' = [wire EXCEPT ![s] =
                LET w == IF wire[s].made THEN wire[s] ELSE NewWire
                IN IF w.open THEN [w EXCEPT !.up = Append(w.up, q)] ELSE w],
           SetTask(q, s, [task[q][s] EXCEPT !.pc = "reading"]),
           UNCHANGED <<queue, orphans, sent, ran, answers, troubles>>
    PROVE  CoordInv'
<1> DEFINE t == [task[q][s] EXCEPT !.pc = "reading"]
           w == IF wire[s].made THEN wire[s] ELSE NewWire
           V == IF w.open THEN [w EXCEPT !.up = Append(w.up, q)] ELSE w
<1>1. TablesInv /\ ShardInv(s) /\ task[q][s] \in Task /\ TasksAt(s)[q] = task[q][s]
  BY TaskOf DEF CoordInv
<1>2. t \in Task /\ t.pc = "reading" /\ t.tries = task[q][s].tries
  BY <1>1 DEF Task
<1>3. SetTask(q, s, t) /\ wire' = [wire EXCEPT ![s] = V]
  OBVIOUS
<1> HIDE DEF t
<1>4. /\ Puts(TasksAt(s), TasksAt(s)', q, t)
      /\ task' \in [QueryIds -> [Shards -> Task]]
      /\ \A p \in QueryIds, u \in Shards : p # q \/ u # s => task'[p][u] = task[p][u]
  BY <1>1, <1>2, <1>3, TaskPut
<1>5. w \in Connection
  BY <1>1, ShardTypes DEF Connection, NewWire
<1> HIDE DEF w
<1>6. /\ V \in Connection /\ V.open = w.open /\ V.made = w.made /\ V.clean = w.clean /\ V.down = w.down
      /\ V.up = IF w.open THEN Append(w.up, q) ELSE w.up
  <2>1. w.up \in Seq(QueryIds) /\ Append(w.up, q) \in Seq(QueryIds)
    BY <1>5 DEF Connection
  <2>2. CASE w.open
    BY <1>5, <2>1, <2>2 DEF Connection
  <2>3. CASE ~w.open
    BY <1>5, <2>3
  <2> QED BY <2>2, <2>3
<1> HIDE DEF V
<1>7. wire' \in [Shards -> Connection] /\ wire'[s] = V /\ \A u \in Shards \ {s} : wire'[u] = wire[u]
  BY <1>1, <1>3, <1>6, WirePut
<1>8. TablesInv'
  BY <1>1, <1>4, <1>7 DEF TablesInv
<1>9. Local(s)
  BY <1>4, <1>7 DEF Local
<1>10. ShardInv(s)'
  <2>1. RunsAt(s)' = RunsAt(s) /\ DOMAIN sent \subseteq QueryIds
    BY <1>1, SentIds DEF RunsAt
  <2>2. Fine(TasksAt(s), queue[s], wire[s], orphans[s], RunsAt(s), sent)
    BY <1>1 DEF ShardInv, Fine
  <2>3. /\ Fine(TasksAt(s)', queue[s], V, orphans[s], RunsAt(s), sent)
        /\ Calm(TasksAt(s), wire[s], orphans[s], RunsAt(s), sent, s)
              => Calm(TasksAt(s)', V, orphans[s], RunsAt(s), sent, s)
    <3>1. PICK T, U, Q, W, O, R, st, x, v, y :
             /\ T = TasksAt(s) /\ U = TasksAt(s)' /\ Q = queue[s] /\ W = wire[s] /\ O = orphans[s]
             /\ R = RunsAt(s) /\ st = sent /\ x = t /\ v = V /\ y = w
      OBVIOUS
    <3>2. /\ Puts(T, U, q, x) /\ Fine(T, Q, W, O, R, st) /\ T[q].pc = "sending"
          /\ x.pc = "reading" /\ x.tries = T[q].tries /\ DOMAIN st \subseteq QueryIds
      BY <1>1, <1>2, <1>4, <2>1, <2>2, <3>1
    <3>3. Q # <<>> /\ Q[1] = q
      BY <1>1, <3>1, HoldsFirst
    <3>4. /\ v \in Connection /\ v.open = y.open /\ v.made = y.made /\ v.clean = y.clean
          /\ v.down = y.down /\ v.up = IF y.open THEN Append(y.up, q) ELSE y.up
          /\ y = IF W.made THEN W ELSE NewWire
      BY <1>6, <3>1 DEF w
    <3>5. /\ Fine(U, Q, v, O, R, st)
          /\ Calm(T, W, O, R, st, s) => Calm(U, v, O, R, st, s)
      BY <3>2, <3>3, <3>4, SendFine
    <3> QED BY <3>1, <3>5
  <2> QED BY <1>1, <1>7, <2>1, <2>3 DEF ShardInv, Fine
<1> QED BY <1>8, <1>9, <1>10, LocalKeeps

(* An attempt fails and the connection is left.                               *)
LEMMA FailMoves ==
    ASSUME CoordInv, NEW q \in QueryIds, NEW s \in Shards, task[q][s].pc \in Busy,
           queue[s] # <<>>, queue[s][1] = q, AttemptFails(q, s), LeaveWire(s),
           UNCHANGED <<sent, ran, answers>>, troubles' \in 0 .. MaxShardFaults,
           troubles' = 0 => /\ troubles = 0 /\ task[q][s].pc = "reading"
                            /\ Answering(wire[s], q, sent) /\ Typical(q, sent)
    PROVE  CoordInv'
<1>1. TablesInv /\ ShardInv(s) /\ task[q][s] \in Task /\ TasksAt(s)[q] = task[q][s]
  BY TaskOf DEF CoordInv
<1>2. \E t \in Task, P \in Seq(QueryIds) :
         /\ SetTask(q, s, t) /\ queue' = [queue EXCEPT ![s] = P]
         /\ \/ task[q][s].tries = 0 /\ t.pc = "sending" /\ t.tries = 1 /\ P = queue[s]
            \/ task[q][s].tries # 0 /\ t.pc = "ended" /\ t.tries = task[q][s].tries /\ P = Tail(queue[s])
  <2>1. CASE task[q][s].tries = 0
    <3> DEFINE t == [task[q][s] EXCEPT !.pc = "sending", !.tries = 1]
    <3>0. 1 \in 0 .. 1
      OBVIOUS
    <3>1. t \in Task /\ t.pc = "sending" /\ t.tries = 1
      BY <1>1, <3>0 DEF Task
    <3>2. SetTask(q, s, t) /\ queue' = queue
      BY <2>1 DEF AttemptFails
    <3>3. queue = [queue EXCEPT ![s] = queue[s]] /\ queue[s] \in Seq(QueryIds)
      BY <1>1 DEF TablesInv
    <3> HIDE DEF t
    <3> QED BY <2>1, <3>1, <3>2, <3>3
  <2>2. CASE task[q][s].tries # 0
    <3> DEFINE t == [task[q][s] EXCEPT !.pc = "ended", !.rows = {}]
    <3>1. t \in Task /\ t.pc = "ended" /\ t.tries = task[q][s].tries
      BY <1>1 DEF Task
    <3>2. SetTask(q, s, t) /\ queue' = [queue EXCEPT ![s] = Tail(queue[s])]
      BY <2>2 DEF AttemptFails, TaskEnds
    <3>3. Tail(queue[s]) \in Seq(QueryIds)
      BY <1>1, ShardTypes
    <3> HIDE DEF t
    <3> QED BY <2>2, <3>1, <3>2, <3>3
  <2> QED BY <2>1, <2>2
<1>3. PICK t \in Task, P \in Seq(QueryIds) :
         /\ SetTask(q, s, t) /\ queue' = [queue EXCEPT ![s] = P]
         /\ \/ task[q][s].tries = 0 /\ t.pc = "sending" /\ t.tries = 1 /\ P = queue[s]
            \/ task[q][s].tries # 0 /\ t.pc = "ended" /\ t.tries = task[q][s].tries /\ P = Tail(queue[s])
  BY <1>2
<1>4. /\ Puts(TasksAt(s), TasksAt(s)', q, t)
      /\ task' \in [QueryIds -> [Shards -> Task]]
      /\ \A p \in QueryIds, u \in Shards : p # q \/ u # s => task'[p][u] = task[p][u]
  BY <1>1, <1>3, TaskPut
<1>5. queue' \in [Shards -> Seq(QueryIds)] /\ queue'[s] = P /\ \A u \in Shards \ {s} : queue'[u] = queue[u]
  BY <1>1, <1>3, QueuePut
<1>6. wire' \in [Shards -> Connection] /\ wire'[s] = NoWire /\ \A u \in Shards \ {s} : wire'[u] = wire[u]
  <2>1. NoWire \in Connection
    BY DEF NoWire, Connection
  <2> QED BY <1>1, <2>1, WirePut DEF LeaveWire
<1>7. /\ orphans' \in [Shards -> Seq(QueryIds)] /\ orphans'[s] = orphans[s] \o wire[s].up
      /\ \A u \in Shards \ {s} : orphans'[u] = orphans[u]
  <2>1. orphans[s] \o wire[s].up \in Seq(QueryIds)
    BY <1>1, ShardTypes
  <2> QED BY <1>1, <2>1, OrphansPut DEF LeaveWire
<1>8. TablesInv'
  BY <1>1, <1>4, <1>5, <1>6, <1>7 DEF TablesInv
<1>9. Local(s)
  BY <1>4, <1>5, <1>6, <1>7 DEF Local, Busy
<1>10. ShardInv(s)'
  <2>1. RunsAt(s)' = RunsAt(s) /\ DOMAIN sent \subseteq QueryIds
    BY <1>1, SentIds DEF RunsAt
  <2>2. Fine(TasksAt(s), queue[s], wire[s], orphans[s], RunsAt(s), sent)
    BY <1>1 DEF ShardInv, Fine
  <2>3. /\ Fine(TasksAt(s)', P, NoWire, orphans[s] \o wire[s].up, RunsAt(s), sent)
        /\ (/\ Calm(TasksAt(s), wire[s], orphans[s], RunsAt(s), sent, s)
            /\ task[q][s].pc = "reading" /\ Answering(wire[s], q, sent) /\ Typical(q, sent))
              => Calm(TasksAt(s)', NoWire, orphans[s] \o wire[s].up, RunsAt(s), sent, s)
    <3>1. PICK T, U, Q, W, O, R, st :
             /\ T = TasksAt(s) /\ U = TasksAt(s)' /\ Q = queue[s] /\ W = wire[s] /\ O = orphans[s]
             /\ R = RunsAt(s) /\ st = sent
      OBVIOUS
    <3>2. /\ Puts(T, U, q, t) /\ Fine(T, Q, W, O, R, st) /\ T[q].pc \in Busy
          /\ Q # <<>> /\ Q[1] = q /\ DOMAIN st \subseteq QueryIds
      BY <1>1, <1>4, <2>1, <2>2, <3>1
    <3>3. \/ T[q].tries = 0 /\ t.pc = "sending" /\ t.tries = 1 /\ P = Q
          \/ T[q].tries # 0 /\ t.pc = "ended" /\ t.tries = T[q].tries /\ P = Tail(Q)
      BY <1>1, <1>3, <3>1
    <3>4. /\ Fine(U, P, NoWire, O \o W.up, R, st)
          /\ (Calm(T, W, O, R, st, s) /\ T[q].pc = "reading" /\ Answering(W, q, st) /\ Typical(q, st))
                => Calm(U, NoWire, O \o W.up, R, st, s)
      BY <3>2, <3>3, FailFine
    <3> QED BY <1>1, <3>1, <3>4
  <2> QED BY <1>1, <1>5, <1>6, <1>7, <2>1, <2>3 DEF ShardInv, Fine
<1> QED BY <1>8, <1>9, <1>10, LocalKeeps

(* The next message is taken for the answer.                                  *)
LEMMA AnswerMoves ==
    ASSUME CoordInv, NEW q \in QueryIds, NEW s \in Shards, task[q][s].pc = "reading",
           wire[s].down # <<>>, NEW rows \in SUBSET (Nat \X Shards), TaskEnds(q, s, rows),
           wire[s].down[1].type = "text" => <<wire[s].down[1].to, s>> \in rows,
           wire[s].down[1].type = "typed" => task[q][s].tries # 0,
           wire' = [wire EXCEPT ![s].down = Tail(wire[s].down)],
           UNCHANGED <<orphans, sent, ran, answers, troubles>>
    PROVE  CoordInv'
<1> DEFINE t == [task[q][s] EXCEPT !.pc = "ended", !.rows = rows]
           V == [wire[s] EXCEPT !.down = Tail(wire[s].down)]
<1>1. TablesInv /\ ShardInv(s) /\ task[q][s] \in Task /\ TasksAt(s)[q] = task[q][s]
  BY TaskOf DEF CoordInv
<1>2. t \in Task /\ t.pc = "ended" /\ t.tries = task[q][s].tries /\ t.rows = rows
  BY <1>1 DEF Task
<1>3. SetTask(q, s, t) /\ queue' = [queue EXCEPT ![s] = Tail(queue[s])]
  BY DEF TaskEnds
<1>4. /\ V \in Connection /\ V.open = wire[s].open /\ V.made = wire[s].made /\ V.clean = wire[s].clean
      /\ V.down = Tail(wire[s].down) /\ V.up = wire[s].up
  <2>1. wire[s] \in Connection /\ Tail(wire[s].down) \in Seq(Reply)
    BY <1>1, ShardTypes
  <2> QED BY <2>1 DEF Connection
<1>5. wire' = [wire EXCEPT ![s] = V]
  OBVIOUS
<1> HIDE DEF t, V
<1>6. /\ Puts(TasksAt(s), TasksAt(s)', q, t)
      /\ task' \in [QueryIds -> [Shards -> Task]]
      /\ \A p \in QueryIds, u \in Shards : p # q \/ u # s => task'[p][u] = task[p][u]
  BY <1>1, <1>2, <1>3, TaskPut
<1>7. wire' \in [Shards -> Connection] /\ wire'[s] = V /\ \A u \in Shards \ {s} : wire'[u] = wire[u]
  BY <1>1, <1>4, <1>5, WirePut
<1>8. Fine(TasksAt(s), queue[s], wire[s], orphans[s], RunsAt(s), sent)
  BY <1>1 DEF ShardInv, Fine
<1>9. queue[s] # <<>>
  BY <1>1, <1>8 DEF Fine, Sound, Mutex
<1>10. /\ queue' \in [Shards -> Seq(QueryIds)] /\ queue'[s] = Tail(queue[s])
       /\ \A u \in Shards \ {s} : queue'[u] = queue[u]
  <2>1. Tail(queue[s]) \in Seq(QueryIds)
    BY <1>1, <1>9, ShardTypes
  <2> QED BY <1>1, <1>3, <2>1, QueuePut
<1>11. TablesInv'
  BY <1>1, <1>6, <1>7, <1>10 DEF TablesInv
<1>12. Local(s)
  BY <1>6, <1>7, <1>10 DEF Local
<1>13. ShardInv(s)'
  <2>1. RunsAt(s)' = RunsAt(s) /\ DOMAIN sent \subseteq QueryIds
    BY <1>1, SentIds DEF RunsAt
  <2>3. /\ Fine(TasksAt(s)', Tail(queue[s]), V, orphans[s], RunsAt(s), sent)
        /\ Calm(TasksAt(s), wire[s], orphans[s], RunsAt(s), sent, s)
              => Calm(TasksAt(s)', V, orphans[s], RunsAt(s), sent, s)
    <3>1. PICK T, U, Q, W, O, R, st, x, v :
             /\ T = TasksAt(s) /\ U = TasksAt(s)' /\ Q = queue[s] /\ W = wire[s] /\ O = orphans[s]
             /\ R = RunsAt(s) /\ st = sent /\ x = t /\ v = V
      OBVIOUS
    <3>2. /\ Puts(T, U, q, x) /\ Fine(T, Q, W, O, R, st) /\ T[q].pc = "reading"
          /\ x.pc = "ended" /\ x.tries = T[q].tries /\ DOMAIN st \subseteq QueryIds
          /\ W.down # <<>> /\ (W.down[1].type = "text" => <<W.down[1].to, s>> \in x.rows)
          /\ W.down[1].type = "typed" => T[q].tries # 0
      BY <1>1, <1>2, <1>6, <1>8, <2>1, <3>1
    <3>3. /\ v \in Connection /\ v.open = W.open /\ v.made = W.made /\ v.clean = W.clean
          /\ v.down = Tail(W.down) /\ v.up = W.up
      BY <1>4, <3>1
    <3>4. /\ Fine(U, Tail(Q), v, O, R, st)
          /\ Calm(T, W, O, R, st, s) => Calm(U, v, O, R, st, s)
      BY <3>2, <3>3, AnswerFine
    <3> QED BY <3>1, <3>4
  <2> QED BY <1>1, <1>7, <1>10, <2>1, <2>3 DEF ShardInv, Fine
<1> QED BY <1>11, <1>12, <1>13, LocalKeeps

LEMMA SendQueryMoves ==
    ASSUME CoordInv, NEW q \in QueryIds, NEW s \in Shards, SendQuery(q, s)
    PROVE  CoordInv'
<1>1. TablesInv /\ ShardInv(s)
  BY DEF CoordInv
<1>2. task[q][s].pc = "sending" /\ Holds(q, s) /\ queue[s] # <<>> /\ queue[s][1] = q
  BY <1>1, HoldsFirst DEF SendQuery
<1>3. CASE wire[s].made /\ ~wire[s].open /\ LeaveWire(s) /\ AttemptFails(q, s)
  <2>1. troubles # 0
    BY <1>1, <1>3 DEF ShardInv, Calm
  <2>2. UNCHANGED <<sent, ran, answers>> /\ troubles' = troubles /\ troubles \in 0 .. MaxShardFaults
    BY <1>1 DEF SendQuery, TablesInv
  <2> QED BY <1>2, <1>3, <2>1, <2>2, FailMoves DEF Busy
<1>4. CASE /\ wire' = [wire EXCEPT ![s] =
                LET w == IF wire[s].made THEN wire[s] ELSE NewWire
                IN IF w.open THEN [w EXCEPT !.up = Append(w.up, q)] ELSE w]
           /\ SetTask(q, s, [task[q][s] EXCEPT !.pc = "reading"])
           /\ UNCHANGED <<queue, orphans>>
  <2>1. UNCHANGED <<queue, orphans, sent, ran, answers, troubles>>
    BY <1>4 DEF SendQuery
  <2> QED BY <1>2, <1>4, <2>1, SendMoves
<1> QED BY <1>3, <1>4 DEF SendQuery

LEMMA ConnectFailsMoves ==
    ASSUME CoordInv, NEW q \in QueryIds, NEW s \in Shards, ConnectFails(q, s)
    PROVE  CoordInv'
<1>1. TablesInv /\ ShardInv(s)
  BY DEF CoordInv
<1>2. task[q][s].pc \in Busy /\ queue[s] # <<>> /\ queue[s][1] = q
  BY <1>1, HoldsFirst DEF ConnectFails, Busy
<1>3. wire[s] = NoWire /\ wire[s].up = <<>>
  BY <1>1 DEF ConnectFails, ShardInv, Sound, Wired, NoWire
<1>4. LeaveWire(s)
  <2>1. wire' = [wire EXCEPT ![s] = NoWire]
    BY <1>1, <1>3 DEF ConnectFails, TablesInv
  <2>2. orphans[s] \o wire[s].up = orphans[s]
    BY <1>1, <1>3, ShardTypes
  <2>3. orphans' = [orphans EXCEPT ![s] = orphans[s] \o wire[s].up]
    BY <1>1, <2>2 DEF ConnectFails, TablesInv
  <2> QED BY <2>1, <2>3 DEF LeaveWire
<1>5. UNCHANGED <<sent, ran, answers>> /\ troubles' \in 0 .. MaxShardFaults /\ troubles' # 0
      /\ AttemptFails(q, s)
  BY <1>1, CoordinatorAssumption DEF ConnectFails, TablesInv
<1> QED BY <1>2, <1>4, <1>5, FailMoves

(* Without faults the connection of a query that reads carries its request or *)
(* its response, and a connection that is not open carries nothing.           *)
LEMMA ReadFailsMoves ==
    ASSUME CoordInv, NEW q \in QueryIds, NEW s \in Shards, ReadFails(q, s)
    PROVE  CoordInv'
<1>1. TablesInv /\ ShardInv(s) /\ TasksAt(s)[q] = task[q][s]
  BY TaskOf DEF CoordInv
<1>2. task[q][s].pc = "reading" /\ wire[s].down = <<>> /\ LeaveWire(s) /\ AttemptFails(q, s)
      /\ UNCHANGED <<sent, ran, answers>>
  BY DEF ReadFails
<1>3. queue[s] # <<>> /\ queue[s][1] = q
  BY <1>1, <1>2 DEF ShardInv, Sound, Mutex
<1>4. troubles' \in 0 .. MaxShardFaults /\ (troubles' = 0 => troubles = 0 /\ ~wire[s].open)
  BY <1>1, CoordinatorAssumption DEF ReadFails, TablesInv
<1>5. troubles' # 0
  <2> SUFFICES ASSUME troubles' = 0 PROVE FALSE
    OBVIOUS
  <2>1. Calm(TasksAt(s), wire[s], orphans[s], RunsAt(s), sent, s) /\ ~wire[s].open
    BY <1>1, <1>4 DEF ShardInv
  <2>2. wire[s] = NoWire
    BY <1>1, <2>1 DEF Calm, ShardInv, Sound, Wired
  <2>3. wire[s].up = <<>>
    BY <2>2 DEF NoWire
  <2>4. q \in DOMAIN sent
    BY <1>1, <1>2 DEF ShardInv, Sound, Allowed
  <2>5. Once(task[q][s], wire[s], RunsAt(s)[q], q, sent, s)
    BY <1>1, <2>1, <2>4 DEF Calm
  <2>6. ~Asking(wire[s], q) /\ ~Answering(wire[s], q, sent)
    BY <1>2, <2>3 DEF Asking, Answering
  <2> QED BY <1>2, <2>5, <2>6 DEF Once
<1> QED BY <1>2, <1>3, <1>4, <1>5, FailMoves DEF Busy

LEMMA ReadAnswerMoves ==
    ASSUME CoordInv, NEW q \in QueryIds, NEW s \in Shards, ReadAnswer(q, s)
    PROVE  CoordInv'
<1>1. TablesInv /\ ShardInv(s) /\ TasksAt(s)[q] = task[q][s] /\ task[q][s] \in Task
  BY TaskOf DEF CoordInv
<1>2. task[q][s].pc = "reading" /\ wire[s].down # <<>> /\ UNCHANGED <<sent, ran, answers, troubles>>
  BY DEF ReadAnswer
<1>3. wire[s].down \in Seq(Reply) /\ wire[s].down[1] \in Reply /\ Head(wire[s].down) = wire[s].down[1]
  BY <1>1, <1>2, ShardTypes
<1>4. wire[s].down[1].to \in Nat
  BY <1>3 DEF Reply
<1>5. CASE /\ wire[s].down[1].type # "typed"
           /\ TaskEnds(q, s, IF wire[s].down[1].type = "text" THEN {<<wire[s].down[1].to, s>>} ELSE {})
           /\ wire' = [wire EXCEPT ![s].down = Tail(wire[s].down)] /\ UNCHANGED orphans
  <2> DEFINE rows == IF wire[s].down[1].type = "text" THEN {<<wire[s].down[1].to, s>>} ELSE {}
  <2>1. rows \in SUBSET (Nat \X Shards)
        /\ (wire[s].down[1].type = "text" => <<wire[s].down[1].to, s>> \in rows)
    BY <1>4
  <2>2. TaskEnds(q, s, rows)
    BY <1>5
  <2> HIDE DEF rows
  <2> QED BY <1>2, <1>5, <2>1, <2>2, AnswerMoves
<1>6. CASE wire[s].down[1].type = "typed" /\ task[q][s].tries = 0 /\ LeaveWire(s) /\ AttemptFails(q, s)
  <2>1. queue[s] # <<>> /\ queue[s][1] = q
    BY <1>1, <1>2 DEF ShardInv, Sound, Mutex
  <2>2. ASSUME troubles = 0 PROVE Answering(wire[s], q, sent) /\ Typical(q, sent)
    <3>1. wire[s].clean
      BY <1>1, <2>2 DEF ShardInv, Calm
    <3>2. Answering(wire[s], q, sent)
      <4>1. Mutex(TasksAt(s), queue[s]) /\ Talking(TasksAt(s), wire[s], sent)
        BY <1>1 DEF ShardInv, Sound
      <4>2. PICK T, Q, W, st : T = TasksAt(s) /\ Q = queue[s] /\ W = wire[s] /\ st = sent
        OBVIOUS
      <4>3. Mutex(T, Q) /\ Talking(T, W, st) /\ W.clean /\ T[q].pc = "reading" /\ W.down # <<>>
        BY <1>1, <1>2, <3>1, <4>1, <4>2
      <4>4. Answering(W, q, st)
        BY <4>3, OwnResponse
      <4> QED BY <4>2, <4>4
    <3>3. wire[s].down[1] = Replied(q, sent)
      BY <3>2 DEF Answering
    <3> QED BY <1>6, <3>2, <3>3 DEF Typical
  <2>3. troubles' \in 0 .. MaxShardFaults
    BY <1>1, <1>2 DEF TablesInv
  <2> QED BY <1>2, <1>6, <2>1, <2>2, <2>3, FailMoves DEF Busy
<1>7. CASE /\ wire[s].down[1].type = "typed" /\ task[q][s].tries # 0 /\ AttemptFails(q, s)
           /\ wire' = [wire EXCEPT ![s].down = Tail(wire[s].down)] /\ UNCHANGED orphans
  <2>1. TaskEnds(q, s, {})
    BY <1>7 DEF AttemptFails
  <2> QED BY <1>2, <1>7, <2>1, AnswerMoves
<1> QED BY <1>3, <1>5, <1>6, <1>7 DEF ReadAnswer

(* The shard executes a request h.                                            *)
LEMMA RunPut ==
    ASSUME TablesInv, NEW h \in QueryIds, NEW s \in Shards, CountRun(h, s)
    PROVE  /\ ran' \in [QueryIds -> [Shards -> Nat]]
           /\ Counted(RunsAt(s), RunsAt(s)', h)
           /\ \A p \in QueryIds, u \in Shards \ {s} : ran'[p][u] = ran[p][u]
<1>1. ran \in [QueryIds -> [Shards -> Nat]]
  BY DEF TablesInv
<1>2. /\ ran' \in [QueryIds -> [Shards -> Nat]] /\ ran'[h][s] = ran[h][s] + 1
      /\ \A p \in QueryIds \ {h} : ran'[p] = ran[p]
      /\ \A p \in QueryIds, u \in Shards \ {s} : ran'[p][u] = ran[p][u]
  BY <1>1 DEF CountRun
<1> QED BY <1>2 DEF RunsAt, Counted

LEMMA ServesMoves ==
    ASSUME CoordInv, NEW s \in Shards, ShardServes(s)
    PROVE  CoordInv'
<1> DEFINE h == Head(wire[s].up)
           V == [wire[s] EXCEPT !.up = Tail(wire[s].up), !.down = Append(wire[s].down, Replied(h, sent))]
<1>1. TablesInv /\ ShardInv(s)
  BY DEF CoordInv
<1>2. /\ wire[s].up # <<>> /\ h \in QueryIds /\ h = wire[s].up[1] /\ wire[s] \in Connection
      /\ Tail(wire[s].up) \in Seq(QueryIds) /\ wire[s].down \in Seq(Reply)
  BY <1>1, ShardTypes DEF ShardServes
<1>3. wire' = [wire EXCEPT ![s] = V]
  BY <1>1 DEF ShardServes, ResponseTo, Replied, TablesInv
<1>4. CountRun(h, s) /\ UNCHANGED <<sent, task, queue, orphans, answers, troubles>>
  BY DEF ShardServes
<1> HIDE DEF h
<1>5. /\ V \in Connection /\ V.open = wire[s].open /\ V.made = wire[s].made /\ V.clean = wire[s].clean
      /\ V.up = Tail(wire[s].up) /\ V.down = Append(wire[s].down, Replied(h, sent))
  <2>1. Append(wire[s].down, Replied(h, sent)) \in Seq(Reply)
    BY <1>2, RepliedType
  <2> QED BY <1>2, <2>1 DEF Connection
<1> HIDE DEF V
<1>6. wire' \in [Shards -> Connection] /\ wire'[s] = V /\ \A u \in Shards \ {s} : wire'[u] = wire[u]
  BY <1>1, <1>3, <1>5, WirePut
<1>7. /\ ran' \in [QueryIds -> [Shards -> Nat]]
      /\ Counted(RunsAt(s), RunsAt(s)', h)
      /\ \A p \in QueryIds, u \in Shards \ {s} : ran'[p][u] = ran[p][u]
  BY <1>1, <1>2, <1>4, RunPut
<1>8. TablesInv'
  BY <1>1, <1>4, <1>6, <1>7 DEF TablesInv
<1>9. Local(s)
  BY <1>4, <1>6, <1>7 DEF Local
<1>10. ShardInv(s)'
  <2>1. TasksAt(s)' = TasksAt(s) /\ DOMAIN sent \subseteq QueryIds
    BY <1>1, <1>4, SentIds DEF TasksAt
  <2>2. Fine(TasksAt(s), queue[s], wire[s], orphans[s], RunsAt(s), sent)
    BY <1>1 DEF ShardInv, Fine
  <2>3. /\ Fine(TasksAt(s), queue[s], V, orphans[s], RunsAt(s)', sent)
        /\ Calm(TasksAt(s), wire[s], orphans[s], RunsAt(s), sent, s)
              => Calm(TasksAt(s), V, orphans[s], RunsAt(s)', sent, s)
    <3>1. PICK T, Q, W, O, R, P, st, v, g :
             /\ T = TasksAt(s) /\ Q = queue[s] /\ W = wire[s] /\ O = orphans[s]
             /\ R = RunsAt(s) /\ P = RunsAt(s)' /\ st = sent /\ v = V /\ g = h
      OBVIOUS
    <3>2. /\ Fine(T, Q, W, O, R, st) /\ W.up # <<>> /\ g = W.up[1] /\ DOMAIN st \subseteq QueryIds
          /\ Counted(R, P, g)
      BY <1>2, <1>7, <2>1, <2>2, <3>1
    <3>3. /\ v \in Connection /\ v.open = W.open /\ v.made = W.made /\ v.clean = W.clean
          /\ v.up = Tail(W.up) /\ v.down = Append(W.down, Replied(g, st))
      BY <1>5, <3>1
    <3>4. /\ Fine(T, Q, v, O, P, st)
          /\ Calm(T, W, O, R, st, s) => Calm(T, v, O, P, st, s)
      BY <3>2, <3>3, ServeFine
    <3> QED BY <3>1, <3>4
  <2> QED BY <1>1, <1>4, <1>6, <2>1, <2>3 DEF ShardInv, Fine
<1> QED BY <1>8, <1>9, <1>10, LocalKeeps

LEMMA ServesOrphanMoves ==
    ASSUME CoordInv, NEW s \in Shards, ShardServesOrphan(s)
    PROVE  CoordInv'
<1> DEFINE h == Head(orphans[s])
<1>1. TablesInv /\ ShardInv(s)
  BY DEF CoordInv
<1>2. orphans[s] # <<>> /\ h \in QueryIds /\ h = orphans[s][1] /\ Tail(orphans[s]) \in Seq(QueryIds)
  BY <1>1, ShardTypes DEF ShardServesOrphan
<1>3. /\ orphans' = [orphans EXCEPT ![s] = Tail(orphans[s])] /\ CountRun(h, s)
      /\ UNCHANGED <<sent, task, queue, wire, answers, troubles>>
  BY DEF ShardServesOrphan
<1> HIDE DEF h
<1>4. /\ orphans' \in [Shards -> Seq(QueryIds)] /\ orphans'[s] = Tail(orphans[s])
      /\ \A u \in Shards \ {s} : orphans'[u] = orphans[u]
  BY <1>1, <1>2, <1>3, OrphansPut
<1>5. /\ ran' \in [QueryIds -> [Shards -> Nat]]
      /\ Counted(RunsAt(s), RunsAt(s)', h)
      /\ \A p \in QueryIds, u \in Shards \ {s} : ran'[p][u] = ran[p][u]
  BY <1>1, <1>2, <1>3, RunPut
<1>6. TablesInv'
  BY <1>1, <1>3, <1>4, <1>5 DEF TablesInv
<1>7. Local(s)
  BY <1>3, <1>4, <1>5 DEF Local
<1>8. ShardInv(s)'
  <2>1. TasksAt(s)' = TasksAt(s)
    BY <1>3 DEF TasksAt
  <2>2. Fine(TasksAt(s), queue[s], wire[s], orphans[s], RunsAt(s), sent)
    BY <1>1 DEF ShardInv, Fine
  <2>3. /\ Fine(TasksAt(s), queue[s], wire[s], Tail(orphans[s]), RunsAt(s)', sent)
        /\ ~Calm(TasksAt(s), wire[s], orphans[s], RunsAt(s), sent, s)
    <3>1. PICK T, Q, W, O, R, P, st, g :
             /\ T = TasksAt(s) /\ Q = queue[s] /\ W = wire[s] /\ O = orphans[s]
             /\ R = RunsAt(s) /\ P = RunsAt(s)' /\ st = sent /\ g = h
      OBVIOUS
    <3>2. /\ Fine(T, Q, W, O, R, st) /\ O # <<>> /\ g = O[1]
          /\ Counted(R, P, g)
      BY <1>2, <1>5, <2>2, <3>1
    <3>3. Fine(T, Q, W, Tail(O), P, st) /\ ~Calm(T, W, O, R, st, s)
      BY <3>2, OrphanFine
    <3> QED BY <3>1, <3>3
  <2> QED BY <1>1, <1>3, <1>4, <2>1, <2>3 DEF ShardInv, Fine
<1> QED BY <1>6, <1>7, <1>8, LocalKeeps

LEMMA TroubleMore ==
    ASSUME TablesInv, troubles < MaxShardFaults, troubles' = troubles + 1
    PROVE  troubles' \in 0 .. MaxShardFaults /\ troubles' # 0
BY CoordinatorAssumption DEF TablesInv

LEMMA IdlesMoves ==
    ASSUME CoordInv, NEW s \in Shards, ShardIdles(s)
    PROVE  CoordInv'
<1> DEFINE m == [to |-> 0, type |-> "error"]
           V == [wire[s] EXCEPT !.down = Append(wire[s].down, m), !.clean = FALSE]
<1>1. TablesInv /\ ShardInv(s) /\ wire[s] \in Connection /\ wire[s].down \in Seq(Reply)
  BY ShardTypes DEF CoordInv
<1>2. wire' = [wire EXCEPT ![s] = V]
  BY <1>1 DEF ShardIdles, TablesInv
<1>3. m \in Reply
  BY DEF Reply
<1>4. wire[s].open /\ UNCHANGED <<sent, task, queue, orphans, ran, answers>>
  BY DEF ShardIdles
<1>5. /\ V \in Connection /\ V.open = wire[s].open /\ V.made = wire[s].made /\ ~V.clean
      /\ V.up = wire[s].up
  <2>1. Append(wire[s].down, m) \in Seq(Reply)
    BY <1>1, <1>3
  <2> HIDE DEF m
  <2> QED BY <1>1, <2>1 DEF Connection
<1> HIDE DEF V
<1>6. wire' \in [Shards -> Connection] /\ wire'[s] = V /\ \A u \in Shards \ {s} : wire'[u] = wire[u]
  BY <1>1, <1>2, <1>5, WirePut
<1>7. troubles' \in 0 .. MaxShardFaults /\ troubles' # 0
  BY <1>1, TroubleMore DEF ShardIdles
<1>8. TablesInv'
  BY <1>1, <1>4, <1>6, <1>7 DEF TablesInv
<1>9. Local(s)
  BY <1>4, <1>6, <1>7 DEF Local
<1>10. ShardInv(s)'
  <2>1. TasksAt(s)' = TasksAt(s) /\ RunsAt(s)' = RunsAt(s)
    BY <1>4 DEF TasksAt, RunsAt
  <2>2. Fine(TasksAt(s), queue[s], wire[s], orphans[s], RunsAt(s), sent)
    BY <1>1 DEF ShardInv, Fine
  <2>3. Fine(TasksAt(s), queue[s], V, orphans[s], RunsAt(s), sent)
    <3>1. PICK T, Q, W, O, R, st, v :
             /\ T = TasksAt(s) /\ Q = queue[s] /\ W = wire[s] /\ O = orphans[s]
             /\ R = RunsAt(s) /\ st = sent /\ v = V
      OBVIOUS
    <3>2. /\ Fine(T, Q, W, O, R, st) /\ v \in Connection /\ v.open = W.open /\ v.made = W.made
          /\ W.open /\ ~v.clean /\ v.up = W.up
      BY <1>4, <1>5, <2>2, <3>1
    <3>3. Fine(T, Q, v, O, R, st)
      BY <3>2, IdleFine
    <3> QED BY <3>1, <3>3
  <2> QED BY <1>4, <1>6, <1>7, <2>1, <2>3 DEF ShardInv, Fine
<1> QED BY <1>8, <1>9, <1>10, LocalKeeps

LEMMA RestartsMoves ==
    ASSUME CoordInv, NEW s \in Shards, ShardRestarts(s)
    PROVE  CoordInv'
<1> DEFINE V == [wire[s] EXCEPT !.open = FALSE, !.up = <<>>]
<1>1. TablesInv /\ ShardInv(s) /\ wire[s] \in Connection
  BY ShardTypes DEF CoordInv
<1>2. wire' = [wire EXCEPT ![s] = V]
  BY <1>1 DEF ShardRestarts, TablesInv
<1>3. wire[s].open /\ UNCHANGED <<sent, task, queue, ran, answers>>
  BY DEF ShardRestarts
<1>4. /\ V \in Connection /\ ~V.open /\ V.made = wire[s].made /\ V.clean = wire[s].clean
      /\ V.up = <<>> /\ V.down = wire[s].down
  <2>1. <<>> \in Seq(QueryIds)
    OBVIOUS
  <2> QED BY <1>1, <2>1 DEF Connection
<1> HIDE DEF V
<1>5. wire' \in [Shards -> Connection] /\ wire'[s] = V /\ \A u \in Shards \ {s} : wire'[u] = wire[u]
  BY <1>1, <1>2, <1>4, WirePut
<1>6. /\ orphans' \in [Shards -> Seq(QueryIds)] /\ orphans'[s] = <<>>
      /\ \A u \in Shards \ {s} : orphans'[u] = orphans[u]
  <2>1. <<>> \in Seq(QueryIds)
    OBVIOUS
  <2> QED BY <1>1, <2>1, OrphansPut DEF ShardRestarts
<1>7. troubles' \in 0 .. MaxShardFaults /\ troubles' # 0
  BY <1>1, TroubleMore DEF ShardRestarts
<1>8. TablesInv'
  BY <1>1, <1>3, <1>5, <1>6, <1>7 DEF TablesInv
<1>9. Local(s)
  BY <1>3, <1>5, <1>6, <1>7 DEF Local
<1>10. ShardInv(s)'
  <2>1. TasksAt(s)' = TasksAt(s) /\ RunsAt(s)' = RunsAt(s)
    BY <1>3 DEF TasksAt, RunsAt
  <2>2. Fine(TasksAt(s), queue[s], wire[s], orphans[s], RunsAt(s), sent)
    BY <1>1 DEF ShardInv, Fine
  <2>3. Fine(TasksAt(s), queue[s], V, <<>>, RunsAt(s), sent)
    <3>1. PICK T, Q, W, O, R, st, v :
             /\ T = TasksAt(s) /\ Q = queue[s] /\ W = wire[s] /\ O = orphans[s]
             /\ R = RunsAt(s) /\ st = sent /\ v = V
      OBVIOUS
    <3>2. /\ Fine(T, Q, W, O, R, st) /\ v \in Connection /\ ~v.open /\ v.made = W.made
          /\ W.open /\ v.clean = W.clean /\ v.up = <<>> /\ v.down = W.down
      BY <1>3, <1>4, <2>2, <3>1
    <3>3. Fine(T, Q, v, <<>>, R, st)
      BY <3>2, RestartFine
    <3> QED BY <3>1, <3>3
  <2> QED BY <1>3, <1>5, <1>6, <1>7, <2>1, <2>3 DEF ShardInv, Fine
<1> QED BY <1>8, <1>9, <1>10, LocalKeeps

(* A new query concerns every shard, at its own row alone.                    *)
LEMMA NewId ==
    ASSUME TablesInv PROVE  Cardinality(Sent) = Len(sent) /\ Len(sent) \in Nat
<1>1. Len(sent) \in Nat /\ Sent = 1 .. Len(sent)
  BY DEF TablesInv, Sent
<1>2. Cardinality(1 .. Len(sent)) = IF 1 > Len(sent) THEN 0 ELSE Len(sent) - 1 + 1
  BY <1>1, FS_Interval
<1> QED BY <1>1, <1>2

LEMMA SubmitMoves ==
    ASSUME CoordInv, NEW request \in Asked, Submit(request)
    PROVE  CoordInv'
<1> DEFINE q == Len(sent) + 1
           x == [NoTask EXCEPT !.pc = "locking"]
           fresh == CheckQueryAuth(request.statement, request.role)
<1>1. TablesInv /\ AnswersInv /\ \A s \in Shards : ShardInv(s)
  BY DEF CoordInv
<1>2. Cardinality(Sent) = Len(sent) /\ Len(sent) \in Nat
  BY <1>1, NewId
<1>3. sent \in Seq(Asked) /\ sent' = Append(sent, request) /\ q \in QueryIds /\ q <= MaxQueries
  BY <1>1, <1>2, CoordinatorAssumption DEF Submit, TablesInv, QueryIds
<1>4. /\ sent' \in Seq(Asked) /\ Len(sent') = q /\ DOMAIN sent' = 1 .. q /\ q \notin Sent
      /\ Sent' = 1 .. q /\ Sent = 1 .. Len(sent) /\ Sent \subseteq Sent'
  BY <1>2, <1>3 DEF Sent
<1>5. UNCHANGED <<queue, wire, orphans, ran, troubles>>
  BY DEF Submit
<1>6. fresh => task' = [task EXCEPT ![q] = [s \in Shards |-> x]] /\ answers' = answers
  BY <1>2 DEF Submit
<1>7. ~fresh => answers' = [answers EXCEPT ![q].status = "refused"] /\ task' = task
  BY <1>2 DEF Submit
<1>8. x \in Task /\ x.pc = "locking"
  BY DEF NoTask, Task
<1>9. task \in [QueryIds -> [Shards -> Task]]
  BY <1>1 DEF TablesInv
<1>10. answers \in [QueryIds -> [status : {"none", "refused", "rows"}, rows : SUBSET (Nat \X Shards)]]
  BY <1>1 DEF TablesInv
<1> HIDE DEF q, x, fresh
<1>11. task' \in [QueryIds -> [Shards -> Task]] /\ \A p \in QueryIds : p # q => task'[p] = task[p]
  <2>1. [s \in Shards |-> x] \in [Shards -> Task]
    BY <1>8
  <2> QED BY <1>6, <1>7, <1>9, <2>1
<1>12. \A s \in Shards : task'[q][s] = task[q][s] \/ (task'[q][s] = x /\ fresh)
  <2>1. CASE fresh
    BY <1>3, <1>6, <1>9, <2>1
  <2>2. CASE ~fresh
    BY <1>7, <2>2
  <2> QED BY <2>1, <2>2
<1>13. /\ answers' \in [QueryIds -> [status : {"none", "refused", "rows"}, rows : SUBSET (Nat \X Shards)]]
       /\ \A p \in QueryIds : p # q => answers'[p] = answers[p]
       /\ answers'[q].status # "rows"
  <2>1. answers[q].status = "none"
    BY <1>1, <1>3, <1>4 DEF AnswersInv
  <2>2. CASE fresh
    BY <1>6, <1>10, <2>1, <2>2
  <2>3. CASE ~fresh
    BY <1>3, <1>7, <1>10, <2>3
  <2> QED BY <2>2, <2>3
<1>14. TablesInv'
  BY <1>1, <1>3, <1>4, <1>5, <1>11, <1>13 DEF TablesInv
<1>15. AnswersInv'
  <2> SUFFICES ASSUME NEW p \in QueryIds
               PROVE  /\ answers'[p].status # "none" => p \in Sent'
                      /\ answers'[p].status = "rows" =>
                           \A u \in Shards : task'[p][u].pc = "ended" /\ task'[p][u].rows \subseteq answers'[p].rows
    BY DEF AnswersInv
  <2>1. CASE p = q
    <3>1. q \in Sent'
      BY <1>2, <1>4 DEF q
    <3> QED BY <1>13, <2>1, <3>1
  <2>2. CASE p # q
    BY <1>1, <1>4, <1>11, <1>13, <2>2 DEF AnswersInv
  <2> QED BY <2>1, <2>2
<1>16. ASSUME NEW s \in Shards PROVE ShardInv(s)'
  <2>1. RunsAt(s)' = RunsAt(s) /\ DOMAIN sent' \subseteq QueryIds
    BY <1>2, <1>3, <1>4, <1>5, CoordinatorAssumption DEF RunsAt, QueryIds
  <2>2. Fine(TasksAt(s), queue[s], wire[s], orphans[s], RunsAt(s), sent)
    BY <1>1 DEF ShardInv, Fine
  <2>3. Puts(TasksAt(s), TasksAt(s)', q, task'[q][s])
    BY <1>3, <1>9, <1>11 DEF Puts, TasksAt, Column
  <2>4. TasksAt(s)[q] = task[q][s]
    BY <1>3 DEF TasksAt
  <2>5. /\ Fine(TasksAt(s)', queue[s], wire[s], orphans[s], RunsAt(s), sent')
        /\ Calm(TasksAt(s), wire[s], orphans[s], RunsAt(s), sent, s)
              => Calm(TasksAt(s)', wire[s], orphans[s], RunsAt(s), sent', s)
    <3>1. PICK T, U, Q, W, O, R, st, su, t, k :
             /\ T = TasksAt(s) /\ U = TasksAt(s)' /\ Q = queue[s] /\ W = wire[s] /\ O = orphans[s]
             /\ R = RunsAt(s) /\ st = sent /\ su = sent' /\ t = task'[q][s] /\ k = q
      OBVIOUS
    <3>2. /\ Puts(T, U, k, t) /\ Fine(T, Q, W, O, R, st) /\ st \in Seq(Asked) /\ k = Len(st) + 1
          /\ su = Append(st, request) /\ DOMAIN su \subseteq QueryIds
      BY <1>3, <2>1, <2>2, <2>3, <3>1 DEF q
    <3>3. Entered(t, T[k], request)
      BY <1>12, <2>4, <3>1 DEF x, fresh, Entered
    <3>4. /\ Fine(U, Q, W, O, R, su)
          /\ Calm(T, W, O, R, st, s) => Calm(U, W, O, R, su, s)
      BY <3>2, <3>3, SubmitFine
    <3> QED BY <3>1, <3>4
  <2> QED BY <1>1, <1>5, <2>1, <2>5 DEF ShardInv, Fine
<1> QED BY <1>14, <1>15, <1>16 DEF CoordInv

LEMMA MergeMoves ==
    ASSUME CoordInv, NEW q \in QueryIds, MergeRows(q)
    PROVE  CoordInv'
<1> DEFINE all == UNION {task[q][s].rows : s \in Shards}
           a == [status |-> "rows", rows |-> all]
<1>1. TablesInv /\ AnswersInv /\ \A s \in Shards : ShardInv(s)
  BY DEF CoordInv
<1>2. /\ q \in Sent /\ \A s \in Shards : task[q][s].pc = "ended"
      /\ answers' = [answers EXCEPT ![q] = a]
      /\ UNCHANGED <<sent, task, queue, wire, orphans, ran, troubles>>
  BY DEF MergeRows
<1>3. \A s \in Shards : task[q][s] \in Task /\ task[q][s].rows \subseteq all
  BY <1>1 DEF TablesInv
<1>4. all \subseteq Nat \X Shards
  BY <1>3 DEF Task
<1> HIDE DEF all
<1>5. a \in [status : {"none", "refused", "rows"}, rows : SUBSET (Nat \X Shards)] /\ a.rows = all
  BY <1>4
<1> HIDE DEF a
<1>6. /\ answers' \in [QueryIds -> [status : {"none", "refused", "rows"}, rows : SUBSET (Nat \X Shards)]]
      /\ answers'[q] = a /\ \A p \in QueryIds : p # q => answers'[p] = answers[p]
  BY <1>1, <1>2, <1>5 DEF TablesInv
<1>7. TablesInv'
  BY <1>1, <1>2, <1>6 DEF TablesInv
<1>8. AnswersInv'
  <2> SUFFICES ASSUME NEW p \in QueryIds
               PROVE  /\ answers'[p].status # "none" => p \in Sent'
                      /\ answers'[p].status = "rows" =>
                           \A u \in Shards : task'[p][u].pc = "ended" /\ task'[p][u].rows \subseteq answers'[p].rows
    BY DEF AnswersInv
  <2>1. Sent' = Sent /\ task' = task
    BY <1>2 DEF Sent
  <2>2. CASE p = q
    BY <1>2, <1>3, <1>5, <1>6, <2>1, <2>2
  <2>3. CASE p # q
    BY <1>1, <1>6, <2>1, <2>3 DEF AnswersInv
  <2> QED BY <2>2, <2>3
<1>9. ASSUME NEW s \in Shards PROVE ShardInv(s)'
  BY <1>1, <1>2, ElsewhereKept
<1> QED BY <1>7, <1>8, <1>9 DEF CoordInv

(* The coordinator starts in the invariant.                                   *)
LEMMA CoordStarts == CoordInit => CoordInv
<1> SUFFICES ASSUME CoordInit PROVE CoordInv
  OBVIOUS
<1>1. /\ sent = <<>> /\ task = [q \in QueryIds |-> [s \in Shards |-> NoTask]]
      /\ queue = [s \in Shards |-> <<>>] /\ wire = [s \in Shards |-> NoWire]
      /\ orphans = [s \in Shards |-> <<>>] /\ ran = [q \in QueryIds |-> [s \in Shards |-> 0]]
      /\ answers = [q \in QueryIds |-> Unanswered] /\ troubles = 0
  BY DEF CoordInit
<1>2. <<>> \in Seq(QueryIds) /\ <<>> \in Seq(Reply) /\ <<>> \in Seq(Asked) /\ Len(<<>>) = 0
  OBVIOUS
<1>3. /\ NoWire \in Connection /\ NoWire.up = <<>> /\ NoWire.down = <<>> /\ NoWire.clean
      /\ ~NoWire.made /\ ~NoWire.open
  BY <1>2 DEF NoWire, Connection
<1>4. /\ NoTask \in Task /\ NoTask.pc = "none" /\ NoTask.tries = 0
      /\ Unanswered \in [status : {"none", "refused", "rows"}, rows : SUBSET (Nat \X Shards)]
      /\ Unanswered.status = "none"
  BY DEF NoTask, Task, Unanswered
<1>5. MaxQueries \in Nat /\ 0 \in 0 .. MaxShardFaults
  BY CoordinatorAssumption
<1>6. TablesInv
  <2>1. sent \in Seq(Asked) /\ Len(sent) <= MaxQueries /\ troubles \in 0 .. MaxShardFaults
    BY <1>1, <1>2, <1>5
  <2>2. task \in [QueryIds -> [Shards -> Task]] /\ ran \in [QueryIds -> [Shards -> Nat]]
    BY <1>1, <1>4
  <2>3. /\ queue \in [Shards -> Seq(QueryIds)] /\ wire \in [Shards -> Connection]
        /\ orphans \in [Shards -> Seq(QueryIds)]
    BY <1>1, <1>2, <1>3
  <2>4. answers \in [QueryIds -> [status : {"none", "refused", "rows"}, rows : SUBSET (Nat \X Shards)]]
    BY <1>1, <1>4
  <2> QED BY <2>1, <2>2, <2>3, <2>4 DEF TablesInv
<1>7. AnswersInv
  BY <1>1, <1>4 DEF AnswersInv
<1>8. ASSUME NEW s \in Shards PROVE ShardInv(s)
  <2>1. PICK T, R : T = TasksAt(s) /\ R = RunsAt(s)
    OBVIOUS
  <2>2. /\ T \in Column /\ \A q \in QueryIds : T[q] = NoTask
        /\ R \in [QueryIds -> Nat] /\ \A q \in QueryIds : R[q] = 0
    <3>1. T = [q \in QueryIds |-> NoTask] /\ R = [q \in QueryIds |-> 0]
      BY <1>1, <2>1 DEF TasksAt, RunsAt
    <3> QED BY <1>4, <3>1 DEF Column
  <2>3. queue[s] = <<>> /\ wire[s] = NoWire /\ orphans[s] = <<>>
    BY <1>1
  <2>4. Typed(T, <<>>, NoWire, <<>>, R)
    BY <1>2, <1>3, <2>2 DEF Typed
  <2>5. Mutex(T, <<>>)
    BY <1>4, <2>2 DEF Mutex, Busy
  <2>6. Wired(NoWire) /\ Talking(T, NoWire, <<>>)
    BY <1>3 DEF Wired, Talking, Silent
  <2>7. Attempts(T, NoWire, <<>>, R)
    <3> SUFFICES ASSUME NEW q \in QueryIds
                 PROVE  R[q] + Occurs(q, NoWire.up) + Occurs(q, <<>>) <= Sends(T[q])
      BY DEF Attempts
    <3>1. Occurs(q, <<>>) = 0
      BY OccursNever
    <3>2. Sends(T[q]) = 0 /\ R[q] = 0
      BY <1>4, <2>2 DEF Sends
    <3> QED BY <1>3, <3>1, <3>2
  <2>8. Allowed(T, <<>>)
    BY <1>4, <2>2 DEF Allowed
  <2>9. Calm(T, NoWire, <<>>, R, <<>>, s)
    BY <1>3 DEF Calm
  <2> QED BY <1>1, <2>1, <2>3, <2>4, <2>5, <2>6, <2>7, <2>8, <2>9 DEF ShardInv, Sound
<1> QED BY <1>6, <1>7, <1>8 DEF CoordInv

(* A step of the coordinator, of a shard or of the world keeps the invariant. *)
LEMMA CoordKept == CoordInv /\ [CoordNext]_coordVars => CoordInv'
<1> SUFFICES ASSUME CoordInv, [CoordNext]_coordVars PROVE CoordInv'
  OBVIOUS
<1>1. ASSUME NEW request \in Asked, Submit(request) PROVE CoordInv'
  BY <1>1, SubmitMoves
<1>2. ASSUME NEW q \in QueryIds, MergeRows(q) PROVE CoordInv'
  BY <1>2, MergeMoves
<1>3. ASSUME NEW q \in QueryIds, NEW s \in Shards, TaskStep(q, s) PROVE CoordInv'
  <2>1. CASE Lock(q, s)
    BY <2>1, LockMoves
  <2>2. CASE SendQuery(q, s)
    BY <2>2, SendQueryMoves
  <2>3. CASE ConnectFails(q, s)
    BY <2>3, ConnectFailsMoves
  <2>4. CASE ReadFails(q, s)
    BY <2>4, ReadFailsMoves
  <2>5. CASE ReadAnswer(q, s)
    BY <2>5, ReadAnswerMoves
  <2> QED BY <1>3, <2>1, <2>2, <2>3, <2>4, <2>5 DEF TaskStep
<1>4. ASSUME NEW s \in Shards, ShardServes(s) PROVE CoordInv'
  BY <1>4, ServesMoves
<1>5. ASSUME NEW s \in Shards, ShardServesOrphan(s) PROVE CoordInv'
  BY <1>5, ServesOrphanMoves
<1>6. ASSUME NEW s \in Shards, ShardIdles(s) PROVE CoordInv'
  BY <1>6, IdlesMoves
<1>7. ASSUME NEW s \in Shards, ShardRestarts(s) PROVE CoordInv'
  BY <1>7, RestartsMoves
<1>8. CASE UNCHANGED coordVars
  <2>1. TablesInv'
    BY <1>8 DEF CoordInv, TablesInv, coordVars
  <2>2. AnswersInv'
    BY <1>8 DEF CoordInv, AnswersInv, coordVars, Sent
  <2>3. ASSUME NEW s \in Shards PROVE ShardInv(s)'
    BY <1>8, ElsewhereKept DEF CoordInv, coordVars
  <2> QED BY <2>1, <2>2, <2>3 DEF CoordInv
<1> QED BY <1>1, <1>2, <1>3, <1>4, <1>5, <1>6, <1>7, <1>8 DEF CoordNext

(* The invariant says more than ShardsExact: executions are bounded by the    *)
(* attempts of a task, of which there are two; a query that was executed has  *)
(* a task, and so was let through.                                            *)
LEMMA CoordSuffices == CoordInv => ShardsExact
<1> SUFFICES ASSUME CoordInv PROVE ShardsExact
  OBVIOUS
<1>1. TablesInv /\ AnswersInv /\ \A s \in Shards : ShardInv(s)
  BY DEF CoordInv
<1>2. CoordTypeOK
  <2>1. troubles \in 0 .. MaxShardFaults
    BY <1>1 DEF TablesInv
  <2>2. \A q \in QueryIds, s \in Shards : task[q][s] \in Task
    BY <1>1 DEF TablesInv
  <2> QED BY <2>1, <2>2 DEF CoordTypeOK, Task
<1>3. OneConversation
  <2> SUFFICES ASSUME NEW s \in Shards, wire[s].clean
               PROVE  /\ \A i \in DOMAIN wire[s].up : Holds(wire[s].up[i], s)
                      /\ \A i \in DOMAIN wire[s].down : Holds(wire[s].down[i].to, s)
    BY DEF OneConversation
  <2>1. Talking(TasksAt(s), wire[s], sent) /\ Mutex(TasksAt(s), queue[s]) /\ queue[s] \in Seq(QueryIds)
    BY <1>1, ShardTypes DEF ShardInv, Sound
  <2>2. CASE Silent(wire[s])
    <3>1. wire[s].up = <<>> /\ wire[s].down = <<>>
      BY <2>2 DEF Silent
    <3> QED BY <3>1
  <2>3. CASE ~Silent(wire[s])
    <3>1. PICK q \in QueryIds : /\ TasksAt(s)[q].pc = "reading"
                                /\ Asking(wire[s], q) \/ Answering(wire[s], q, sent)
      BY <2>1, <2>3 DEF Talking
    <3>2. queue[s] # <<>> /\ queue[s][1] = q
      BY <2>1, <3>1 DEF Mutex
    <3>3. Holds(q, s)
      BY <2>1, <3>2 DEF Holds
    <3>4. CASE Asking(wire[s], q)
      <4>1. wire[s].up = <<q>> /\ wire[s].down = <<>>
        BY <3>4 DEF Asking
      <4> QED BY <3>3, <4>1
    <3>5. CASE Answering(wire[s], q, sent)
      <4>1. wire[s].up = <<>> /\ wire[s].down = <<Replied(q, sent)>> /\ Replied(q, sent).to = q
        BY <3>5 DEF Answering, Replied
      <4>2. \A i \in DOMAIN wire[s].down : wire[s].down[i] = Replied(q, sent)
        BY <4>1
      <4>3. DOMAIN wire[s].up = {}
        BY <4>1
      <4> QED BY <3>3, <4>1, <4>2, <4>3
    <3> QED BY <3>1, <3>4, <3>5
  <2> QED BY <2>2, <2>3
<1>4. ASSUME NEW q \in QueryIds, NEW s \in Shards
      PROVE  ran[q][s] \in Nat /\ task[q][s] \in Task /\ ran[q][s] <= Sends(task[q][s])
  <2>1. task[q][s] \in Task /\ TasksAt(s)[q] = task[q][s] /\ RunsAt(s)[q] = ran[q][s] /\ ran[q][s] \in Nat
    BY <1>1, TaskOf DEF TablesInv, RunsAt
  <2>2. ran[q][s] + Occurs(q, wire[s].up) + Occurs(q, orphans[s]) <= Sends(task[q][s])
    BY <1>1, <2>1 DEF ShardInv, Sound, Attempts
  <2>3. Occurs(q, wire[s].up) \in Nat /\ Occurs(q, orphans[s]) \in Nat
    BY <1>1, ShardTypes, PlacesFinite
  <2>4. Sends(task[q][s]) \in Nat
    BY <2>1, SendsNat
  <2> QED BY <2>1, <2>2, <2>3, <2>4
<1>5. ASSUME NEW q \in QueryIds, NEW s \in Shards, ran[q][s] > 0
      PROVE  q \in DOMAIN sent /\ CheckQueryAuth(sent[q].statement, sent[q].role)
  <2>1. Sends(task[q][s]) # 0
    BY <1>4, <1>5, SendsNat
  <2>2. TasksAt(s)[q].pc # "none"
    BY <1>1, <2>1, TaskOf DEF Sends
  <2> QED BY <1>1, <2>2 DEF ShardInv, Sound, Allowed
<1>6. WritesAuthorized
  <2> SUFFICES ASSUME RequireToken, NEW q \in Sent, NEW s \in Shards, ran[q][s] > 0,
                      sent[q].statement \in Writes
               PROVE  sent[q].role = "read_write"
    BY DEF WritesAuthorized
  <2>1. q \in QueryIds
    BY <1>1, SentIds DEF Sent
  <2> QED BY <1>5, <2>1 DEF CheckQueryAuth
<1>7. ASSUME NEW q \in QueryIds, NEW s \in Shards, troubles = 0, q \in Sent
      PROVE  Once(task[q][s], wire[s], ran[q][s], q, sent, s)
  <2>1. Calm(TasksAt(s), wire[s], orphans[s], RunsAt(s), sent, s)
    BY <1>1, <1>7 DEF ShardInv
  <2>2. TasksAt(s)[q] = task[q][s] /\ RunsAt(s)[q] = ran[q][s]
    BY DEF TasksAt, RunsAt
  <2> QED BY <1>7, <2>1, <2>2 DEF Calm, Sent
<1>8. ASSUME NEW q \in QueryIds PROVE Understood(q) <=> ~Typical(q, sent)
  BY DEF Understood, Typical, Replied, RowTypes
<1>9. ExecutionsExplained
  <2> SUFFICES ASSUME NEW q \in QueryIds, NEW s \in Shards
               PROVE  /\ ran[q][s] <= 2
                      /\ ran[q][s] = 2 => troubles > 0 \/ ~Understood(q)
                      /\ troubles = 0 /\ q \in Answered =>
                           /\ ran[q][s] = IF Understood(q) THEN 1 ELSE 2
                           /\ sent[q].statement \in {"text", "write_text"} => <<q, s>> \in answers[q].rows
    BY DEF ExecutionsExplained
  <2>1. Sends(task[q][s]) \in 0 .. 2
    BY <1>4 DEF Sends, Task
  <2>2. ran[q][s] <= 2
    BY <1>4, <2>1
  <2>3. ASSUME ran[q][s] = 2, ~(troubles > 0), ~Typical(q, sent) PROVE FALSE
    <3>1. troubles = 0
      BY <1>1, <2>3, CoordinatorAssumption DEF TablesInv
    <3>2. q \in Sent
      BY <1>5, <2>3 DEF Sent
    <3>3. Once(task[q][s], wire[s], ran[q][s], q, sent, s)
      BY <1>7, <2>3, <3>1, <3>2
    <3>4. task[q][s].pc \in {"none", "locking", "sending", "reading", "ended"}
      BY <1>4 DEF Task
    <3> QED BY <2>3, <3>3, <3>4 DEF Once
  <2>4. ASSUME troubles = 0, q \in Answered
        PROVE  /\ ran[q][s] = IF Typical(q, sent) THEN 2 ELSE 1
               /\ sent[q].statement \in {"text", "write_text"} => <<q, s>> \in answers[q].rows
    <3>1. q \in Sent /\ answers[q].status = "rows"
      BY <2>4 DEF Answered
    <3>2. task[q][s].pc = "ended" /\ task[q][s].rows \subseteq answers[q].rows
      BY <1>1, <3>1 DEF AnswersInv
    <3>3. Once(task[q][s], wire[s], ran[q][s], q, sent, s)
      BY <1>7, <2>4, <3>1
    <3>4. ran[q][s] = IF Typical(q, sent) THEN 2 ELSE 1
      BY <3>2, <3>3 DEF Once
    <3>5. sent[q].statement \in {"text", "write_text"} => Replied(q, sent).type = "text"
      BY DEF Replied, RowTypes
    <3> QED BY <3>2, <3>3, <3>4, <3>5 DEF Once
  <2> QED BY <1>8, <2>2, <2>3, <2>4
<1> QED BY <1>2, <1>3, <1>6, <1>9 DEF ShardsExact

(* The shards execute what was asked, by whom it may be asked and no more     *)
(* often than faults and rows that are not understood explain, and answer the *)
(* query that waits: for any number of shards, queries, lost connections,     *)
(* timeouts and restarts, in any order of the tasks (coordinator.rs,          *)
(* shard_client.rs).                                                          *)
THEOREM ShardsAlwaysExact == CoordSpec => []ShardsExact
<1>1. CoordSpec => []CoordInv
  BY CoordStarts, CoordKept, PTL DEF CoordSpec
<1> QED BY <1>1, CoordSuffices, PTL
-----------------------------------------------------------------------------
(* The client's calls on a connection.                                        *)

Activities == {"idle", "sending", "reading", "streaming", "closed"}
AnswerTypes == {"start", "chunk", "end", "result", "pong", "error", "goodbye", "garbled"}
Results == {"none", "ok", "server", "protocol", "connection", "timeout"}
RowSeqs == Seq(Nat \X Nat)
Requests == [id : 1 .. MaxCalls, op : Ops \cup {"garbled"}, pc : Activities, size : Nat, tries : 0 .. 1]
Answers == [to : Nat, type : AnswerTypes, rows : RowSeqs, total : Nat]

Links == [open : BOOLEAN, heard : BOOLEAN, framed : BOOLEAN, up : Seq(Requests), out : Seq(Answers),
          down : Seq(Answers)]

SessionTypes ==
    /\ kind \in Clients /\ link \in Links
    /\ call \in [id : 0 .. MaxCalls, op : Ops, pc : Activities, size : Nat, tries : 0 .. 1]
    /\ calls \in 0 .. MaxCalls
    /\ executed \in [1 .. MaxCalls -> 0 .. 2]
    /\ stream \in [from : Nat, rows : RowSeqs]
    /\ clean \in BOOLEAN
    /\ last \in [id : 0 .. MaxCalls, op : Ops, result : Results, from : Nat, rows : RowSeqs,
                 total : Nat, clean : BOOLEAN]

(* Rows k + 1 to k + l of a result.                                           *)
RowsFrom(from, k, l) == [j \in 1 .. l |-> <<from, k + j>>]

(* The rows that were handed over when m has been read.                       *)
Upto(m) == IF m.type = "start" THEN 0 ELSE m.rows[Len(m.rows)][2]

(* m continues a stream of which k rows were handed over: the rows that come  *)
(* next, or the end that says that k is all.                                  *)
Continues(from, k, m) ==
    /\ m.to = from
    /\ \/ m.type = "end" /\ m.total = k
       \/ m.type = "chunk" /\ m.rows = RowsFrom(from, k, Len(m.rows))

(* The start of a stream, and every chunk, is followed by what continues it,  *)
(* or by no part of a stream, where it was cut off.                           *)
Parts == {"chunk", "end"}
Follows(from, k, d) == d # <<>> /\ d[1].type \in Parts => Continues(from, k, d[1])
Continued(d, i) ==
    i < Len(d) /\ d[i + 1].type \in Parts => Continues(d[i].to, Upto(d[i]), d[i + 1])
WholeStreams(d) ==
    \A i \in 1 .. Len(d) :
        /\ d[i].type = "chunk" => Len(d[i].rows) > 0
        /\ d[i].type \in {"start", "chunk"} => Continued(d, i)
Fresh(d) == d # <<>> => d[1].type \notin Parts

(* What the client will read: what has arrived, and what the server has yet   *)
(* to write while the client finds the responses.                             *)
Coming == IF link.framed THEN link.down \o link.out ELSE link.down

(* d answers one request: everything in it goes to that call, and what ends   *)
(* an answer ends it.                                                         *)
OneAnswer(d, id, op) ==
    \A i \in 1 .. Len(d) :
        /\ d[i].to = id
        /\ d[i].type \in {"start", "chunk", "end"} => op = "stream"
        /\ d[i].type \notin {"start", "chunk"} => i = Len(d)

StreamsInOrder ==
    /\ WholeStreams(Coming)
    /\ call.pc = "streaming" =>
          /\ Follows(stream.from, Len(stream.rows), Coming)
          /\ stream.rows = RowsFrom(stream.from, 0, Len(stream.rows))

(* The call is the newest one, and only the Rust client sends it again.       *)
CallNumbered ==
    /\ call.pc \in {"idle", "closed"} <=> call.id = 0
    /\ call.id # 0 => call.id = calls
    /\ call.tries = 1 => kind = "rust" /\ call.op \in {"query", "ping"}

(* A request is on its way once per attempt, and was not executed by this one.*)
UpOnce(i) ==
    /\ link.up[i].id <= calls
    /\ executed[link.up[i].id] <= link.up[i].tries
    /\ link.up[i].id = call.id => call.pc # "sending" /\ link.up[i].tries = call.tries
    /\ \A j \in 1 .. Len(link.up) : i < j => link.up[i].id < link.up[j].id

ExecutionsCounted ==
    /\ ~link.open => link.up = <<>> /\ link.out = <<>>
    /\ \A id \in 1 .. MaxCalls : id > calls => executed[id] = 0
    /\ \A i \in 1 .. Len(link.up) : UpOnce(i)
    /\ call.pc = "sending" => executed[call.id] <= call.tries
    /\ call.id # 0 => executed[call.id] <= call.tries + 1

(* While nobody gave up waiting, the connection carries the call's request or *)
(* its answer, and nothing else.                                              *)
Awaited ==
    /\ link.up = <<>> \/ (Coming = <<>> /\ Len(link.up) = 1)
    /\ \A i \in 1 .. Len(link.up) : link.up[i].id = call.id /\ link.up[i].op = call.op
    /\ OneAnswer(Coming, call.id, call.op)
    /\ Coming # <<>> => executed[call.id] >= 1
    /\ call.pc = "reading" /\ Coming # <<>> => Head(Coming).type # "chunk"
    /\ call.pc = "streaming" => stream.from = call.id /\ link.up = <<>>

NothingElse ==
    clean => /\ link.heard /\ link.framed
             /\ IF call.pc \in {"reading", "streaming"} THEN Awaited
                ELSE link.up = <<>> /\ Coming = <<>>

EndedWell == (last.result = "ok" => last.id # 0) /\ OwnAnswer /\ StreamCoherent

SessionInv ==
    SessionTypes /\ StreamsInOrder /\ CallNumbered /\ ExecutionsCounted /\ NothingElse /\ EndedWell
-----------------------------------------------------------------------------
(* How a result is cut into chunks: where each chunk begins and ends.         *)
LEMMA ChunkBounds ==
    ASSUME NEW n \in Nat, NEW s \in Nat, s > 0
    PROVE  /\ (n + s - 1) \div s \in Nat
           /\ n = 0 => (n + s - 1) \div s = 0
           /\ ((n + s - 1) \div s) * s >= n
           /\ \A i \in 1 .. (n + s - 1) \div s : (i - 1) * s \in Nat /\ (i - 1) * s < n
           /\ \A i \in 1 .. ((n + s - 1) \div s) - 1 : i * s < n
<1> DEFINE q == (n + s - 1) \div s
<1>1. q \in Int /\ q * s <= n + s - 1 /\ n + s - 1 < q * s + s
  OBVIOUS
<1> HIDE DEF q
<1>2. q >= 0
  <2> SUFFICES ASSUME q <= -1 PROVE FALSE
    BY <1>1
  <2>1. q * s <= (-1) * s
    BY <1>1
  <2> QED BY <1>1, <2>1
<1>3. n = 0 => q = 0
  <2> SUFFICES ASSUME n = 0, q >= 1 PROVE FALSE
    BY <1>1, <1>2
  <2>1. q * s >= 1 * s
    BY <1>1
  <2> QED BY <1>1, <2>1
<1>4. ASSUME NEW i \in 1 .. q PROVE (i - 1) * s \in Nat /\ (i - 1) * s < n
  <2>1. (i - 1) * s \in Int /\ (i - 1) * s >= 0
    BY <1>1
  <2>2. (i - 1) * s + s <= q * s
    BY <1>1
  <2> QED BY <1>1, <2>1, <2>2
<1>5. ASSUME NEW i \in 1 .. q - 1 PROVE i * s < n
  <2>1. i * s + s <= q * s
    BY <1>1
  <2>2. i * s \in Int
    OBVIOUS
  <2> QED BY <1>1, <2>1, <2>2
<1>6. q * s >= n
  <2>1. q * s \in Int
    BY <1>1
  <2> QED BY <1>1, <2>1
<1> USE DEF q
<1> QED BY <1>1, <1>2, <1>3, <1>4, <1>5, <1>6

LEMMA RowsFromType ==
    ASSUME NEW from \in Nat, NEW k \in Nat, NEW l \in Nat
    PROVE  RowsFrom(from, k, l) \in RowSeqs /\ Len(RowsFrom(from, k, l)) = l
  BY DEF RowsFrom, RowSeqs

LEMMA RowsFromLast ==
    ASSUME NEW from \in Nat, NEW k \in Nat, NEW l \in Nat, l > 0
    PROVE  RowsFrom(from, k, l)[l][2] = k + l
  BY DEF RowsFrom

LEMMA RowsFromConcat ==
    ASSUME NEW from \in Nat, NEW k \in Nat, NEW l \in Nat
    PROVE  RowsFrom(from, 0, k) \o RowsFrom(from, k, l) = RowsFrom(from, 0, k + l)
<1> DEFINE a == RowsFrom(from, 0, k)
           b == RowsFrom(from, k, l)
           c == RowsFrom(from, 0, k + l)
<1>1. a \in RowSeqs /\ Len(a) = k /\ b \in RowSeqs /\ Len(b) = l /\ c \in RowSeqs /\ Len(c) = k + l
  BY RowsFromType
<1> HIDE DEF a, b, c
<1>2. /\ a \o b \in RowSeqs /\ Len(a \o b) = k + l
      /\ \A i \in 1 .. k + l : (a \o b)[i] = IF i <= k THEN a[i] ELSE b[i - k]
  <2>1. a \in Seq(Nat \X Nat) /\ b \in Seq(Nat \X Nat)
    BY <1>1 DEF RowSeqs
  <2>2. /\ a \o b \in Seq(Nat \X Nat) /\ Len(a \o b) = Len(a) + Len(b)
        /\ \A i \in 1 .. Len(a) + Len(b) : (a \o b)[i] = IF i <= Len(a) THEN a[i] ELSE b[i - Len(a)]
    BY <2>1, ConcatProperties
  <2> QED BY <1>1, <2>2 DEF RowSeqs
<1>3. ASSUME NEW i \in 1 .. k + l PROVE (a \o b)[i] = c[i]
  <2>1. (a \o b)[i] = IF i <= k THEN a[i] ELSE b[i - k]
    BY <1>2
  <2>2. c[i] = <<from, 0 + i>>
    BY DEF RowsFrom, c
  <2>3. CASE i <= k
    <3>1. a[i] = <<from, 0 + i>>
      BY <2>3 DEF RowsFrom, a
    <3> QED BY <2>1, <2>2, <2>3, <3>1
  <2>4. CASE ~(i <= k)
    <3>1. i - k \in 1 .. l /\ k + (i - k) = i
      BY <2>4
    <3>2. b[i - k] = <<from, k + (i - k)>>
      BY <3>1 DEF RowsFrom, b
    <3> QED BY <2>1, <2>2, <2>4, <3>1, <3>2
  <2> QED BY <2>3, <2>4
<1>4. a \o b = c
  BY <1>1, <1>2, <1>3, SeqEqual DEF RowSeqs
<1> QED BY <1>4 DEF a, b, c

(* Chunk i of a result of n rows holds the rows from (i - 1) * s + 1 on, and  *)
(* at least one.                                                              *)
ChunkEnd(n, s, i) == IF i * s < n THEN i * s ELSE n

LEMMA ChunkRows ==
    ASSUME NEW id \in Nat, NEW n \in Nat, NEW s \in Nat, s > 0,
           NEW i \in 1 .. (n + s - 1) \div s
    PROVE  /\ (i - 1) * s \in Nat
           /\ ChunkEnd(n, s, i) - (i - 1) * s \in Nat
           /\ ChunkEnd(n, s, i) - (i - 1) * s > 0
           /\ ChunksOf([j \in 1 .. n |-> <<id, j>>], s)[i]
                = RowsFrom(id, (i - 1) * s, ChunkEnd(n, s, i) - (i - 1) * s)
<1> DEFINE q == (n + s - 1) \div s
           rows == [j \in 1 .. n |-> <<id, j>>]
           a == (i - 1) * s
           e == ChunkEnd(n, s, i)
<1>1. a \in Nat /\ a < n
  BY ChunkBounds
<1>2. i * s \in Int /\ i * s = a + s
  BY ChunkBounds
<1>3. e \in Nat /\ a < e /\ e <= n
  BY <1>1, <1>2 DEF ChunkEnd
<1>4. rows \in Seq(Nat \X Nat) /\ Len(rows) = n
  OBVIOUS
<1>5. ChunksOf(rows, s)[i] = SubSeq(rows, a + 1, e)
  <2> HIDE DEF rows
  <2> QED BY <1>4 DEF ChunksOf, ChunkEnd
<1> HIDE DEF q, a, e
<1>7. e - a \in Nat /\ e - a > 0
  BY <1>1, <1>3
<1>6. SubSeq(rows, a + 1, e) = RowsFrom(id, a, e - a)
  <2>1. /\ SubSeq(rows, a + 1, e) \in Seq(Nat \X Nat) /\ Len(SubSeq(rows, a + 1, e)) = e - a
        /\ \A j \in 1 .. e - a : SubSeq(rows, a + 1, e)[j] = rows[a + j]
    <3> HIDE DEF rows
    <3>1. a + 1 \in Int /\ e \in Int /\ a + 1 <= e /\ \A j \in a + 1 .. e : j \in 1 .. n
      BY <1>1, <1>3
    <3>4. \A j \in 1 .. n : rows[j] \in Nat \X Nat
      BY <1>4
    <3>5. \A j \in a + 1 .. e : rows[j] \in Nat \X Nat
      BY <3>1, <3>4
    <3>2. /\ SubSeq(rows, a + 1, e) \in Seq(Nat \X Nat)
          /\ Len(SubSeq(rows, a + 1, e)) = e - (a + 1) + 1
          /\ \A j \in 1 .. e - (a + 1) + 1 : SubSeq(rows, a + 1, e)[j] = rows[(a + 1) + j - 1]
      BY <3>1, <3>5, SubSeqProperties
    <3>3. e - (a + 1) + 1 = e - a /\ \A j \in 1 .. e - a : (a + 1) + j - 1 = a + j
      BY <1>1, <1>3
    <3> QED BY <3>2, <3>3
  <2>2. \A j \in 1 .. e - a : rows[a + j] = <<id, a + j>>
    BY <1>1, <1>3
  <2>3. RowsFrom(id, a, e - a) \in Seq(Nat \X Nat) /\ Len(RowsFrom(id, a, e - a)) = e - a
    BY <1>1, <1>7, RowsFromType DEF RowSeqs
  <2>4. \A j \in 1 .. e - a : RowsFrom(id, a, e - a)[j] = <<id, a + j>>
    BY <1>1, <1>3 DEF RowsFrom
  <2> HIDE DEF rows
  <2> QED BY <2>1, <2>2, <2>3, <2>4, <1>1, <1>3, SeqEqual
<1>8. ChunksOf(rows, s)[i] = RowsFrom(id, a, e - a)
  BY <1>5, <1>6
<1> QED BY <1>1, <1>7, <1>8 DEF a, e

(* The messages of a stream, and the one message of any other answer.         *)
AnswerOf(d, id, op) ==
    /\ d \in Seq(Answers) /\ d # <<>> /\ WholeStreams(d) /\ OneAnswer(d, id, op)
    /\ d[1].type \notin Parts

LEMMA SingleAnswer ==
    ASSUME NEW id \in Nat, NEW op, NEW type \in {"result", "pong", "error"}
    PROVE  AnswerOf(<<Message(id, type, <<>>, 0)>>, id, op)
<1> DEFINE m == Message(id, type, <<>>, 0)
<1>1. <<>> \in RowSeqs
  BY DEF RowSeqs
<1>2. m \in Answers /\ m.to = id /\ m.type = type
  BY <1>1 DEF Message, Answers, AnswerTypes
<1> HIDE DEF m
<1>3. <<m>> \in Seq(Answers) /\ Len(<<m>>) = 1 /\ <<m>>[1] = m /\ <<m>> # <<>>
  BY <1>2
<1>4. AnswerOf(<<m>>, id, op)
  BY <1>2, <1>3 DEF AnswerOf, WholeStreams, Continued, OneAnswer, Parts
<1> QED BY <1>4 DEF m

LEMMA StreamAnswer ==
    ASSUME NEW id \in Nat, NEW n \in Nat, NEW s \in Nat, s > 0, NEW chunks,
           chunks = ChunksOf([j \in 1 .. n |-> <<id, j>>], s)
    PROVE  AnswerOf(<<Message(id, "start", <<>>, n)>>
                      \o [i \in DOMAIN chunks |-> Message(id, "chunk", chunks[i], n)]
                      \o <<Message(id, "end", <<>>, n)>>, id, "stream")
<1> DEFINE q == (n + s - 1) \div s
           first == Message(id, "start", <<>>, n)
           end == Message(id, "end", <<>>, n)
           M(i) == Message(id, "chunk", chunks[i], n)
           mid == [i \in DOMAIN chunks |-> M(i)]
           l(i) == ChunkEnd(n, s, i) - (i - 1) * s
<1>1. q \in Nat /\ (n = 0 => q = 0) /\ q * s >= n /\ \A i \in 1 .. q - 1 : i * s < n
  BY ChunkBounds
<1>2. DOMAIN chunks = 1 .. q
  <2>1. Len([j \in 1 .. n |-> <<id, j>>]) = n
    OBVIOUS
  <2> QED BY <2>1 DEF ChunksOf
<1>3. ASSUME NEW i \in 1 .. q
      PROVE  /\ (i - 1) * s \in Nat /\ l(i) \in Nat /\ l(i) > 0
             /\ chunks[i] = RowsFrom(id, (i - 1) * s, l(i))
             /\ i < q => (i - 1) * s + l(i) = i * s
             /\ i = q => (i - 1) * s + l(i) = n
  <2>1. /\ (i - 1) * s \in Nat /\ l(i) \in Nat /\ l(i) > 0
        /\ chunks[i] = RowsFrom(id, (i - 1) * s, l(i))
    BY ChunkRows
  <2> HIDE DEF q
  <2>2. i < q => i * s < n
    <3> SUFFICES ASSUME i < q PROVE i * s < n
      OBVIOUS
    <3>1. i \in 1 .. q - 1
      BY <1>1
    <3> QED BY <1>1, <3>1
  <2>3. i * s \in Int /\ (i = q => ~(i * s < n))
    <3>1. i * s \in Int /\ n \in Int
      BY <1>1
    <3>2. i = q => i * s >= n
      BY <1>1
    <3> QED BY <3>1, <3>2
  <2> QED BY <2>1, <2>2, <2>3 DEF ChunkEnd
<1> HIDE DEF q
<1>4. ASSUME NEW i \in 1 .. q
      PROVE  /\ M(i) \in Answers /\ M(i).to = id /\ M(i).type = "chunk" /\ Len(M(i).rows) > 0
             /\ Continues(id, (i - 1) * s, M(i))
             /\ i < q => Upto(M(i)) = i * s
             /\ i = q => Upto(M(i)) = n
  <2>1. PICK k \in Nat : k = (i - 1) * s
    BY <1>3
  <2>2. PICK j \in Nat : j = l(i)
    BY <1>3
  <2>3. j > 0 /\ chunks[i] = RowsFrom(id, k, j) /\ (i < q => k + j = i * s) /\ (i = q => k + j = n)
    BY <1>3, <2>1, <2>2
  <2>4. chunks[i] \in RowSeqs /\ Len(chunks[i]) = j /\ chunks[i][j][2] = k + j
    <3>1. RowsFrom(id, k, j) \in RowSeqs /\ Len(RowsFrom(id, k, j)) = j
      BY RowsFromType
    <3>2. RowsFrom(id, k, j)[j][2] = k + j
      BY <2>3, RowsFromLast
    <3> QED BY <2>3, <3>1, <3>2
  <2>5. M(i).to = id /\ M(i).type = "chunk" /\ M(i).rows = chunks[i]
    BY DEF Message
  <2>6. M(i) \in Answers
    BY <2>4 DEF Message, Answers, AnswerTypes
  <2> HIDE DEF M, l
  <2>7. Upto(M(i)) = k + j
    BY <2>4, <2>5 DEF Upto
  <2>8. Continues(id, k, M(i))
    BY <2>3, <2>4, <2>5 DEF Continues
  <2> QED BY <2>1, <2>3, <2>4, <2>5, <2>6, <2>7, <2>8
<1>5. <<>> \in RowSeqs
  BY DEF RowSeqs
<1>6. first \in Answers /\ first.to = id /\ first.type = "start" /\ Upto(first) = 0
  BY <1>5 DEF Message, Answers, AnswerTypes, Upto
<1>7. end \in Answers /\ end.to = id /\ end.type = "end" /\ Continues(id, n, end)
  BY <1>5 DEF Message, Answers, AnswerTypes, Continues
<1>8. mid \in Seq(Answers) /\ Len(mid) = q /\ \A i \in 1 .. q : mid[i] = M(i)
  <2>1. mid = [i \in 1 .. q |-> M(i)]
    BY <1>2
  <2> HIDE DEF mid, M
  <2> QED BY <1>1, <1>4, <2>1
<1> HIDE DEF first, end, M, mid, l
<1>9. PICK d : d = <<first>> \o mid \o <<end>>
  OBVIOUS
<1>10. /\ d \in Seq(Answers) /\ Len(d) = q + 2 /\ d[1] = first /\ d[q + 2] = end
       /\ \A i \in 1 .. q : d[i + 1] = M(i)
  <2>1. <<first>> \in Seq(Answers) /\ Len(<<first>>) = 1 /\ <<first>>[1] = first
    BY <1>6
  <2>2. <<end>> \in Seq(Answers) /\ Len(<<end>>) = 1 /\ <<end>>[1] = end
    BY <1>7
  <2>3. PICK f : f = <<first>> \o mid
    OBVIOUS
  <2>4. /\ f \in Seq(Answers) /\ Len(f) = q + 1 /\ f[1] = first
        /\ \A i \in 1 .. q : f[i + 1] = M(i)
    <3>1. /\ f \in Seq(Answers) /\ Len(f) = Len(<<first>>) + Len(mid)
          /\ \A i \in 1 .. Len(<<first>>) + Len(mid) :
                f[i] = IF i <= Len(<<first>>) THEN <<first>>[i] ELSE mid[i - Len(<<first>>)]
      BY <1>8, <2>1, <2>3, ConcatProperties
    <3>2. Len(f) = q + 1 /\ \A i \in 1 .. q + 1 : f[i] = IF i <= 1 THEN <<first>>[i] ELSE mid[i - 1]
      BY <1>1, <1>8, <2>1, <3>1
    <3>3. 1 \in 1 .. q + 1 /\ 1 <= 1
      BY <1>1
    <3>4. f[1] = first
      BY <2>1, <3>2, <3>3
    <3>5. ASSUME NEW i \in 1 .. q PROVE f[i + 1] = M(i)
      <4>1. i + 1 \in 1 .. q + 1 /\ ~(i + 1 <= 1) /\ (i + 1) - 1 = i
        BY <1>1
      <4> QED BY <1>8, <3>2, <4>1
    <3> QED BY <3>1, <3>2, <3>4, <3>5
  <2>5. d = f \o <<end>>
    BY <1>9, <2>3
  <2> QED BY <1>1, <2>2, <2>4, <2>5
<1>11. WholeStreams(d)
  <2> SUFFICES ASSUME NEW i \in 1 .. q + 2
               PROVE  /\ d[i].type = "chunk" => Len(d[i].rows) > 0
                      /\ d[i].type \in {"start", "chunk"} => Continued(d, i)
    BY <1>10 DEF WholeStreams
  <2>1. CASE i = 1
    <3>1. d[i] = first /\ i < Len(d)
      BY <1>1, <1>10, <2>1
    <3>2. CASE q = 0
      <4>1. d[i + 1] = end /\ n = 0
        BY <1>1, <1>10, <2>1, <3>2
      <4> QED BY <1>6, <1>7, <3>1, <4>1 DEF Continued
    <3>3. CASE q > 0
      <4>1. 1 \in 1 .. q /\ (1 - 1) * s = 0
        BY <1>1, <3>3
      <4>2. d[i + 1] = M(1) /\ Continues(id, 0, M(1))
        BY <1>4, <1>10, <2>1, <4>1
      <4> QED BY <1>6, <3>1, <4>2 DEF Continued
    <3> QED BY <1>1, <3>2, <3>3
  <2>2. CASE i \in 2 .. q + 1
    <3>1. PICK j \in 1 .. q : i = j + 1
      <4>1. i - 1 \in 1 .. q /\ i = (i - 1) + 1
        BY <1>1, <2>2
      <4> QED BY <4>1
    <3>2. d[i] = M(j) /\ i < Len(d)
      BY <1>1, <1>10, <3>1
    <3>3. CASE j < q
      <4>1. j + 1 \in 1 .. q /\ (j + 1) - 1 = j
        BY <1>1, <3>3
      <4>2. Continues(id, j * s, M(j + 1)) /\ d[i + 1] = M(j + 1)
        BY <1>4, <1>10, <3>1, <4>1
      <4> QED BY <1>4, <3>2, <3>3, <4>2 DEF Continued
    <3>4. CASE j = q
      <4>1. d[i + 1] = end
        BY <1>1, <1>10, <3>1, <3>4
      <4> QED BY <1>4, <1>7, <3>2, <3>4, <4>1 DEF Continued
    <3> QED BY <1>1, <3>3, <3>4
  <2>3. CASE i = q + 2
    BY <1>7, <1>10, <2>3 DEF Continued
  <2> QED BY <1>1, <2>1, <2>2, <2>3
<1>12. OneAnswer(d, id, "stream")
  <2> SUFFICES ASSUME NEW i \in 1 .. q + 2
               PROVE  d[i].to = id /\ (d[i].type \notin {"start", "chunk"} => i = q + 2)
    BY <1>10 DEF OneAnswer
  <2>1. CASE i \in 2 .. q + 1
    <3>1. i - 1 \in 1 .. q /\ i = (i - 1) + 1
      BY <1>1, <2>1
    <3>2. d[i] = M(i - 1)
      BY <1>10, <3>1
    <3> QED BY <1>4, <3>1, <3>2
  <2> QED BY <1>1, <1>6, <1>7, <1>10, <2>1
<1>13. d # <<>> /\ d[1].type \notin Parts
  BY <1>1, <1>6, <1>10 DEF Parts
<1>14. AnswerOf(d, id, "stream")
  BY <1>10, <1>11, <1>12, <1>13 DEF AnswerOf
<1> QED BY <1>9, <1>14 DEF first, end, M, mid

LEMMA ResponsesAnswer ==
    ASSUME NEW request \in Requests, NEW n \in Nat
    PROVE  AnswerOf(Responses(request, n), request.id, request.op)
<1> USE SessionAssumption
<1>1. request.id \in Nat /\ request.size \in Nat
  BY DEF Requests
<1>2. ChunkSize(request.size) \in Nat /\ ChunkSize(request.size) > 0
  BY <1>1 DEF ChunkSize
<1>3. CASE request.op = "stream"
  <2>1. PICK chunks : chunks = ChunksOf([i \in 1 .. n |-> <<request.id, i>>], ChunkSize(request.size))
    OBVIOUS
  <2>2. AnswerOf(<<Message(request.id, "start", <<>>, n)>>
                      \o [i \in DOMAIN chunks |-> Message(request.id, "chunk", chunks[i], n)]
                      \o <<Message(request.id, "end", <<>>, n)>>, request.id, "stream")
    BY <1>1, <1>2, <2>1, StreamAnswer
  <2> QED BY <1>3, <2>1, <2>2 DEF Responses
<1>4. CASE request.op # "stream"
  BY <1>1, <1>4, SingleAnswer DEF Responses
<1> QED BY <1>3, <1>4
-----------------------------------------------------------------------------
(* What is on its way to the client, when a message is read or sent.          *)
LEMMA WholeTail ==
    ASSUME NEW d \in Seq(Answers), d # <<>>, WholeStreams(d)
    PROVE  /\ Head(d) \in Answers /\ Tail(d) \in Seq(Answers) /\ WholeStreams(Tail(d))
           /\ Head(d).type = "chunk" => Len(Head(d).rows) > 0
           /\ Head(d).type \in {"start", "chunk"} => Follows(Head(d).to, Upto(Head(d)), Tail(d))
<1>1. Len(d) \in Nat /\ Len(d) > 0 /\ Head(d) = d[1] /\ d[1] \in Answers
  OBVIOUS
<1>2. /\ Tail(d) \in Seq(Answers) /\ Len(Tail(d)) = Len(d) - 1
      /\ \A i \in 1 .. Len(d) - 1 : Tail(d)[i] = d[i + 1]
  BY <1>1
<1>3. PICK e : e = Tail(d)
  OBVIOUS
<1>4. /\ e \in Seq(Answers) /\ Len(e) = Len(d) - 1
      /\ \A i \in 1 .. Len(d) - 1 : e[i] = d[i + 1]
  BY <1>2, <1>3
<1>5. WholeStreams(e)
  <2> SUFFICES ASSUME NEW i \in 1 .. Len(e)
               PROVE  /\ e[i].type = "chunk" => Len(e[i].rows) > 0
                      /\ e[i].type \in {"start", "chunk"} => Continued(e, i)
    BY DEF WholeStreams
  <2>1. i + 1 \in 1 .. Len(d) /\ e[i] = d[i + 1]
    BY <1>1, <1>4
  <2>2. /\ d[i + 1].type = "chunk" => Len(d[i + 1].rows) > 0
        /\ d[i + 1].type \in {"start", "chunk"} => Continued(d, i + 1)
    BY <2>1 DEF WholeStreams
  <2>3. Continued(d, i + 1) => Continued(e, i)
    <3> SUFFICES ASSUME Continued(d, i + 1), i < Len(e), e[i + 1].type \in Parts
                 PROVE  Continues(e[i].to, Upto(e[i]), e[i + 1])
      BY DEF Continued
    <3>1. i + 1 < Len(d) /\ i + 1 \in 1 .. Len(d) - 1
      BY <1>1, <1>4, <2>1
    <3>2. e[i + 1] = d[(i + 1) + 1]
      BY <1>4, <3>1
    <3> QED BY <2>1, <3>1, <3>2 DEF Continued
  <2> QED BY <2>1, <2>2, <2>3
<1>6. d[1].type = "chunk" => Len(d[1].rows) > 0
  BY <1>1 DEF WholeStreams
<1>7. ASSUME d[1].type \in {"start", "chunk"}
      PROVE  Follows(d[1].to, Upto(d[1]), e)
  <2> SUFFICES ASSUME e # <<>>, e[1].type \in Parts PROVE Continues(d[1].to, Upto(d[1]), e[1])
    BY DEF Follows
  <2>1. Continued(d, 1)
    BY <1>1, <1>7 DEF WholeStreams
  <2>2. Len(e) > 0 /\ 1 < Len(d) /\ e[1] = d[1 + 1]
    BY <1>1, <1>4
  <2> QED BY <2>1, <2>2 DEF Continued
<1> QED BY <1>1, <1>3, <1>4, <1>5, <1>6, <1>7

LEMMA WholeConcat ==
    ASSUME NEW d \in Seq(Answers), NEW e \in Seq(Answers), WholeStreams(d), WholeStreams(e), Fresh(e)
    PROVE  /\ d \o e \in Seq(Answers) /\ WholeStreams(d \o e)
           /\ d # <<>> => d \o e # <<>> /\ (d \o e)[1] = d[1]
           /\ d = <<>> => d \o e = e
<1>1. PICK c : c = d \o e
  OBVIOUS
<1>2. /\ c \in Seq(Answers) /\ Len(c) = Len(d) + Len(e) /\ Len(d) \in Nat /\ Len(e) \in Nat
      /\ \A i \in 1 .. Len(d) : c[i] = d[i]
      /\ \A i \in 1 .. Len(e) : c[i + Len(d)] = e[i]
  BY <1>1
<1>3. WholeStreams(c)
  <2> SUFFICES ASSUME NEW i \in 1 .. Len(c)
               PROVE  /\ c[i].type = "chunk" => Len(c[i].rows) > 0
                      /\ c[i].type \in {"start", "chunk"} => Continued(c, i)
    BY DEF WholeStreams
  <2>1. CASE i \in 1 .. Len(d)
    <3>1. c[i] = d[i]
      BY <1>2, <2>1
    <3>2. /\ d[i].type = "chunk" => Len(d[i].rows) > 0
          /\ d[i].type \in {"start", "chunk"} => Continued(d, i)
      BY <2>1 DEF WholeStreams
    <3>3. Continued(d, i) => Continued(c, i)
      <4> SUFFICES ASSUME Continued(d, i), i < Len(c), c[i + 1].type \in Parts
                   PROVE  Continues(c[i].to, Upto(c[i]), c[i + 1])
        BY DEF Continued
      <4>1. CASE i < Len(d)
        <5>1. i + 1 \in 1 .. Len(d) /\ c[i + 1] = d[i + 1]
          BY <1>2, <2>1, <4>1
        <5> QED BY <3>1, <4>1, <5>1 DEF Continued
      <4>2. CASE ~(i < Len(d))
        <5>1. i = Len(d) /\ 1 \in 1 .. Len(e) /\ i + 1 = 1 + Len(d)
          BY <1>2, <2>1, <4>2
        <5>2. c[i + 1] = e[1] /\ e # <<>>
          BY <1>2, <5>1
        <5> QED BY <5>2 DEF Fresh
      <4> QED BY <4>1, <4>2
    <3> QED BY <3>1, <3>2, <3>3
  <2>2. CASE ~(i \in 1 .. Len(d))
    <3>1. PICK j \in 1 .. Len(e) : i = j + Len(d)
      <4>1. i - Len(d) \in 1 .. Len(e) /\ i = (i - Len(d)) + Len(d)
        BY <1>2, <2>2
      <4> QED BY <4>1
    <3>2. c[i] = e[j]
      BY <1>2, <3>1
    <3>3. /\ e[j].type = "chunk" => Len(e[j].rows) > 0
          /\ e[j].type \in {"start", "chunk"} => Continued(e, j)
      BY DEF WholeStreams
    <3>4. Continued(e, j) => Continued(c, i)
      <4> SUFFICES ASSUME Continued(e, j), i < Len(c), c[i + 1].type \in Parts
                   PROVE  Continues(c[i].to, Upto(c[i]), c[i + 1])
        BY DEF Continued
      <4>1. j < Len(e) /\ j + 1 \in 1 .. Len(e) /\ i + 1 = (j + 1) + Len(d)
        BY <1>2, <3>1
      <4>2. c[i + 1] = e[j + 1]
        BY <1>2, <4>1
      <4> QED BY <3>2, <4>1, <4>2 DEF Continued
    <3> QED BY <3>2, <3>3, <3>4
  <2> QED BY <2>1, <2>2
<1>4. ASSUME d # <<>> PROVE c # <<>> /\ c[1] = d[1]
  <2>1. Len(d) > 0
    BY <1>4
  <2> QED BY <1>2, <2>1
<1>5. d = <<>> => d \o e = e
  BY ConcatEmptySeq
<1> QED BY <1>1, <1>2, <1>3, <1>4, <1>5

(* Where a stream may be cut off.                                             *)
LEMMA WholePrefix ==
    ASSUME NEW d \in Seq(Answers), NEW e \in Seq(Answers), WholeStreams(d \o e)
    PROVE  /\ WholeStreams(d)
           /\ \A from, k : Follows(from, k, d \o e) => Follows(from, k, d)
<1>1. PICK c : c = d \o e
  OBVIOUS
<1>2. /\ c \in Seq(Answers) /\ Len(c) = Len(d) + Len(e) /\ Len(d) \in Nat /\ Len(e) \in Nat
      /\ \A i \in 1 .. Len(d) : c[i] = d[i]
  BY <1>1
<1>3. WholeStreams(d)
  <2> SUFFICES ASSUME NEW i \in 1 .. Len(d)
               PROVE  /\ d[i].type = "chunk" => Len(d[i].rows) > 0
                      /\ d[i].type \in {"start", "chunk"} => Continued(d, i)
    BY DEF WholeStreams
  <2>1. i \in 1 .. Len(c) /\ c[i] = d[i] /\ WholeStreams(c)
    BY <1>1, <1>2
  <2>2. /\ c[i].type = "chunk" => Len(c[i].rows) > 0
        /\ c[i].type \in {"start", "chunk"} => Continued(c, i)
    BY <2>1 DEF WholeStreams
  <2>3. Continued(c, i) => Continued(d, i)
    <3> SUFFICES ASSUME Continued(c, i), i < Len(d), d[i + 1].type \in Parts
                 PROVE  Continues(d[i].to, Upto(d[i]), d[i + 1])
      BY DEF Continued
    <3>1. i < Len(c) /\ c[i + 1] = d[i + 1]
      BY <1>2
    <3> QED BY <2>1, <3>1 DEF Continued
  <2> QED BY <2>1, <2>2, <2>3
<1>4. ASSUME NEW from, NEW k, Follows(from, k, c) PROVE Follows(from, k, d)
  <2> SUFFICES ASSUME d # <<>>, d[1].type \in Parts PROVE Continues(from, k, d[1])
    BY DEF Follows
  <2>1. Len(d) > 0
    OBVIOUS
  <2>2. c[1] = d[1] /\ c # <<>>
    BY <1>2, <2>1
  <2> QED BY <1>4, <2>2 DEF Follows
<1> QED BY <1>1, <1>3, <1>4

(* What follows a stream up to here still follows it when more is coming.     *)
LEMMA FollowsConcat ==
    ASSUME NEW d \in Seq(Answers), NEW e \in Seq(Answers), NEW from, NEW k,
           Follows(from, k, d), Fresh(e)
    PROVE  Follows(from, k, d \o e)
<1>1. CASE d = <<>>
  <2>1. d \o e = e
    BY <1>1, ConcatEmptySeq
  <2> QED BY <2>1 DEF Follows, Fresh
<1>2. CASE d # <<>>
  <2>1. Len(d) > 0
    BY <1>2
  <2>2. (d \o e)[1] = d[1]
    BY <2>1
  <2> QED BY <1>2, <2>2 DEF Follows
<1> QED BY <1>1, <1>2

(* One more message that is no part of a stream.                              *)
LEMMA WholeMore ==
    ASSUME NEW m \in Answers, m.type \in {"error", "goodbye", "garbled"}
    PROVE  /\ <<m>> \in Seq(Answers) /\ Len(<<m>>) = 1 /\ <<m>>[1] = m
           /\ WholeStreams(<<m>>) /\ Fresh(<<m>>)
<1>1. <<m>> \in Seq(Answers) /\ Len(<<m>>) = 1 /\ <<m>>[1] = m
  OBVIOUS
<1> QED BY <1>1 DEF WholeStreams, Fresh, Parts

LEMMA ConcatTail ==
    ASSUME NEW d \in Seq(Answers), NEW e \in Seq(Answers), d # <<>>
    PROVE  d \o e # <<>> /\ Head(d \o e) = Head(d) /\ Tail(d \o e) = Tail(d) \o e
<1>1. Len(d) \in Nat /\ Len(d) > 0 /\ Len(e) \in Nat /\ Head(d) = d[1]
  OBVIOUS
<1>2. PICK c : c = d \o e
  OBVIOUS
<1>3. /\ c \in Seq(Answers) /\ Len(c) = Len(d) + Len(e)
      /\ \A i \in 1 .. Len(d) + Len(e) : c[i] = IF i <= Len(d) THEN d[i] ELSE e[i - Len(d)]
  BY <1>2, ConcatProperties
<1>4. c # <<>> /\ Head(c) = d[1]
  BY <1>1, <1>3
<1>5. PICK t, u : t = Tail(d) /\ u = Tail(c)
  OBVIOUS
<1>6. /\ t \in Seq(Answers) /\ Len(t) = Len(d) - 1
      /\ \A i \in 1 .. Len(t) : t[i] = d[i + 1]
  BY <1>5, HeadTailProperties
<1>7. /\ u \in Seq(Answers) /\ Len(u) = Len(c) - 1
      /\ \A i \in 1 .. Len(u) : u[i] = c[i + 1]
  BY <1>3, <1>4, <1>5, HeadTailProperties
<1>8. PICK v : v = t \o e
  OBVIOUS
<1>9. /\ v \in Seq(Answers) /\ Len(v) = Len(t) + Len(e)
      /\ \A i \in 1 .. Len(t) + Len(e) : v[i] = IF i <= Len(t) THEN t[i] ELSE e[i - Len(t)]
  BY <1>6, <1>8, ConcatProperties
<1>10. ASSUME NEW i \in 1 .. Len(u) PROVE u[i] = v[i]
  <2>1. i + 1 \in 1 .. Len(d) + Len(e) /\ i \in 1 .. Len(t) + Len(e) /\ i \in Int
    BY <1>1, <1>3, <1>6, <1>7
  <2>2. CASE i <= Len(t)
    <3>1. i + 1 <= Len(d) /\ i \in 1 .. Len(t)
      BY <1>1, <1>6, <2>1, <2>2
    <3> QED BY <1>3, <1>6, <1>7, <1>9, <2>1, <2>2, <3>1
  <2>3. CASE ~(i <= Len(t))
    <3>1. ~(i + 1 <= Len(d)) /\ (i + 1) - Len(d) = i - Len(t)
      BY <1>1, <1>6, <2>1, <2>3
    <3> QED BY <1>3, <1>7, <1>9, <2>1, <2>3, <3>1
  <2> QED BY <2>2, <2>3
<1>11. u = v
  <2>1. Len(u) = Len(v)
    BY <1>1, <1>3, <1>6, <1>7, <1>9
  <2> QED BY <1>7, <1>9, <1>10, <2>1, SeqEqual
<1> QED BY <1>1, <1>2, <1>4, <1>5, <1>8, <1>11

(* The answer is cut off.                                                     *)
LEMMA OneAnswerPrefix ==
    ASSUME NEW d \in Seq(Answers), NEW e \in Seq(Answers), NEW id, NEW op, OneAnswer(d \o e, id, op)
    PROVE  OneAnswer(d, id, op)
<1>1. PICK c : c = d \o e
  OBVIOUS
<1>2. /\ Len(c) = Len(d) + Len(e) /\ Len(d) \in Nat /\ Len(e) \in Nat
      /\ \A i \in 1 .. Len(d) : c[i] = d[i]
  BY <1>1
<1>3. OneAnswer(c, id, op)
  BY <1>1
<1>4. ASSUME NEW i \in 1 .. Len(d)
      PROVE  /\ d[i].to = id
             /\ d[i].type \in {"start", "chunk", "end"} => op = "stream"
             /\ d[i].type \notin {"start", "chunk"} => i = Len(d)
  <2>1. i \in 1 .. Len(c) /\ c[i] = d[i] /\ (i = Len(c) => i = Len(d))
    BY <1>2
  <2> QED BY <1>3, <2>1 DEF OneAnswer
<1> QED BY <1>4 DEF OneAnswer

(* The answer is cut off by an error.                                         *)
LEMMA OneAnswerCut ==
    ASSUME NEW d \in Seq(Answers), NEW e \in Seq(Answers), e # <<>>, NEW id, NEW op,
           OneAnswer(d \o e, id, op), NEW m \in Answers, m.to = id, m.type = "error"
    PROVE  OneAnswer(d \o <<m>>, id, op) /\ e[1].to = id
<1>1. PICK c : c = d \o e
  OBVIOUS
<1>2. PICK b : b = d \o <<m>>
  OBVIOUS
<1>3. Len(d) \in Nat /\ Len(e) \in Nat /\ Len(e) > 0 /\ <<m>> \in Seq(Answers) /\ Len(<<m>>) = 1
  OBVIOUS
<1>4. /\ Len(c) = Len(d) + Len(e) /\ c[Len(d) + 1] = e[1]
      /\ \A i \in 1 .. Len(d) : c[i] = d[i]
  BY <1>1, <1>3
<1>5. /\ Len(b) = Len(d) + 1 /\ b[Len(d) + 1] = m
      /\ \A i \in 1 .. Len(d) : b[i] = d[i]
  BY <1>2, <1>3
<1>6. OneAnswer(c, id, op)
  BY <1>1
<1>7. ASSUME NEW i \in 1 .. Len(b)
      PROVE  /\ b[i].to = id
             /\ b[i].type \in {"start", "chunk", "end"} => op = "stream"
             /\ b[i].type \notin {"start", "chunk"} => i = Len(b)
  <2>1. CASE i \in 1 .. Len(d)
    <3>1. i \in 1 .. Len(c) /\ i # Len(c) /\ b[i] = c[i]
      BY <1>3, <1>4, <1>5, <2>1
    <3> QED BY <1>6, <3>1 DEF OneAnswer
  <2>2. CASE i = Len(d) + 1
    BY <1>5, <2>2
  <2> QED BY <1>3, <1>5, <2>1, <2>2
<1>8. e[1].to = id
  <2>1. Len(d) + 1 \in 1 .. Len(c)
    BY <1>3, <1>4
  <2> QED BY <1>4, <1>6, <2>1 DEF OneAnswer
<1> QED BY <1>2, <1>7, <1>8 DEF OneAnswer

LEMMA OneAnswerTail ==
    ASSUME NEW d \in Seq(Answers), d # <<>>, NEW id, NEW op, OneAnswer(d, id, op)
    PROVE  /\ OneAnswer(Tail(d), id, op) /\ Head(d).to = id
           /\ Head(d).type \in {"start", "chunk", "end"} => op = "stream"
           /\ Head(d).type \notin {"start", "chunk"} => Tail(d) = <<>>
<1>1. Len(d) \in Nat /\ Len(d) > 0 /\ Head(d) = d[1]
  OBVIOUS
<1>2. PICK e : e = Tail(d)
  OBVIOUS
<1>3. /\ e \in Seq(Answers) /\ Len(e) = Len(d) - 1 /\ (Len(e) = 0 => e = <<>>)
      /\ \A i \in 1 .. Len(d) - 1 : e[i] = d[i + 1]
  BY <1>1, <1>2
<1>4. OneAnswer(e, id, op)
  <2> SUFFICES ASSUME NEW i \in 1 .. Len(e)
               PROVE  /\ e[i].to = id
                      /\ e[i].type \in {"start", "chunk", "end"} => op = "stream"
                      /\ e[i].type \notin {"start", "chunk"} => i = Len(e)
    BY DEF OneAnswer
  <2>1. i + 1 \in 1 .. Len(d) /\ e[i] = d[i + 1] /\ (i + 1 = Len(d) => i = Len(e))
    BY <1>1, <1>3
  <2> QED BY <2>1 DEF OneAnswer
<1>5. /\ d[1].to = id /\ (d[1].type \in {"start", "chunk", "end"} => op = "stream")
      /\ d[1].type \notin {"start", "chunk"} => 1 = Len(d)
  <2>1. 1 \in 1 .. Len(d)
    BY <1>1
  <2> QED BY <2>1 DEF OneAnswer
<1>6. d[1].type \notin {"start", "chunk"} => e = <<>>
  BY <1>1, <1>3, <1>5
<1> QED BY <1>1, <1>2, <1>4, <1>5, <1>6
-----------------------------------------------------------------------------
(* Every step of the client, the server and the network keeps SessionInv.     *)
LEMMA SessionFields ==
    ASSUME SessionTypes
    PROVE  /\ link.open \in BOOLEAN /\ link.heard \in BOOLEAN /\ link.framed \in BOOLEAN
           /\ link.up \in Seq(Requests) /\ link.out \in Seq(Answers) /\ link.down \in Seq(Answers)
           /\ call.id \in 0 .. MaxCalls /\ call.op \in Ops /\ call.pc \in Activities
           /\ call.size \in Nat /\ call.tries \in 0 .. 1
           /\ stream.from \in Nat /\ stream.rows \in RowSeqs
           /\ Coming \in Seq(Answers)
<1>1. link.down \in Seq(Answers) /\ link.out \in Seq(Answers)
  BY DEF SessionTypes, Links
<1>2. link.down \o link.out \in Seq(Answers)
  BY <1>1, ConcatProperties
<1> QED BY <1>1, <1>2 DEF SessionTypes, Links, Coming

(* What has arrived is in order too, and what is coming up to there.          *)
LEMMA Arrived ==
    ASSUME SessionTypes, StreamsInOrder
    PROVE  /\ WholeStreams(link.down)
           /\ call.pc = "streaming" => Follows(stream.from, Len(stream.rows), link.down)
<1>1. link.down \in Seq(Answers) /\ link.out \in Seq(Answers)
  BY SessionFields
<1>2. CASE link.framed
  <2>1. Coming = link.down \o link.out
    BY <1>2 DEF Coming
  <2> QED BY <1>1, <2>1, WholePrefix DEF StreamsInOrder
<1>3. CASE ~link.framed
  BY <1>3 DEF StreamsInOrder, Coming
<1> QED BY <1>2, <1>3

LEMMA RequestId ==
    ASSUME NEW u \in Seq(Requests), NEW i \in 1 .. Len(u)
    PROVE  u[i] \in Requests /\ u[i].id \in Nat
<1>1. u[i] \in Requests
  OBVIOUS
<1> QED BY <1>1 DEF Requests

(* The first request on its way.                                              *)
LEMMA UpHead ==
    ASSUME SessionTypes, ExecutionsCounted, link.up # <<>>
    PROVE  /\ Head(link.up) \in Requests /\ Head(link.up) = link.up[1] /\ 1 \in 1 .. Len(link.up)
           /\ Head(link.up).id \in 1 .. MaxCalls /\ Head(link.up).id <= calls
           /\ executed[Head(link.up).id] <= Head(link.up).tries
           /\ Head(link.up).tries \in 0 .. 1
           /\ Head(link.up).id = call.id =>
                 call.pc # "sending" /\ Head(link.up).tries = call.tries
<1>1. link.up \in Seq(Requests)
  BY SessionFields
<1>2. Head(link.up) = link.up[1] /\ 1 \in 1 .. Len(link.up) /\ link.up[1] \in Requests
  BY <1>1
<1>3. UpOnce(1)
  BY <1>2 DEF ExecutionsCounted
<1> QED BY <1>2, <1>3 DEF UpOnce, Requests

(* A request is executed once more.                                           *)
Executes(id) == executed' = [executed EXCEPT ![id] = @ + 1]

LEMMA ExecutesHead ==
    ASSUME SessionTypes, ExecutionsCounted, EndedWell, CallNumbered, link.up # <<>>,
           Executes(Head(link.up).id), UNCHANGED <<calls, call, last>>
    PROVE  /\ executed' \in [1 .. MaxCalls -> 0 .. 2]
           /\ executed'[Head(link.up).id] >= 1
           /\ \A id \in 1 .. MaxCalls : id # Head(link.up).id => executed'[id] = executed[id]
           /\ \A id \in 1 .. MaxCalls : id > calls => executed'[id] = 0
           /\ call.pc = "sending" => executed'[call.id] <= call.tries
           /\ call.id # 0 => executed'[call.id] <= call.tries + 1
           /\ EndedWell'
<1>1. PICK h : h = Head(link.up).id
  OBVIOUS
<1>2. PICK t : t = Head(link.up).tries
  OBVIOUS
<1>3. /\ h \in 1 .. MaxCalls /\ h <= calls /\ executed[h] <= t /\ t \in 0 .. 1
      /\ h = call.id => call.pc # "sending" /\ t = call.tries
  BY <1>1, <1>2, UpHead
<1>4. executed \in [1 .. MaxCalls -> 0 .. 2] /\ calls \in 0 .. MaxCalls /\ MaxCalls \in Nat
  BY SessionAssumption DEF SessionTypes
<1>5. executed' = [executed EXCEPT ![h] = executed[h] + 1]
  BY <1>1 DEF Executes
<1>6. /\ executed' \in [1 .. MaxCalls -> 0 .. 2] /\ executed'[h] = executed[h] + 1 /\ executed'[h] >= 1
      /\ \A id \in 1 .. MaxCalls : id # h => executed'[id] = executed[id]
      /\ \A id \in 1 .. MaxCalls : executed'[id] >= executed[id]
  BY <1>3, <1>4, <1>5
<1>7. \A id \in 1 .. MaxCalls : id > calls => executed'[id] = 0
  BY <1>3, <1>4, <1>6 DEF ExecutionsCounted
<1>8. call.id \in 0 .. MaxCalls /\ call.tries \in 0 .. 1
  BY SessionFields
<1>9. call.pc = "sending" => executed'[call.id] <= call.tries
  BY <1>3, <1>6, <1>8 DEF ExecutionsCounted, CallNumbered
<1>10. call.id # 0 => executed'[call.id] <= call.tries + 1
  BY <1>3, <1>4, <1>6, <1>8 DEF ExecutionsCounted
<1>11. EndedWell'
  <2>1. last.id \in 0 .. MaxCalls
    BY DEF SessionTypes
  <2>2. last.result = "ok" /\ last.clean => last.from = last.id /\ executed'[last.id] >= 1
    BY <1>4, <1>6, <2>1 DEF EndedWell, OwnAnswer
  <2> QED BY <2>2 DEF EndedWell, OwnAnswer, StreamCoherent
<1> QED BY <1>1, <1>6, <1>7, <1>9, <1>10, <1>11

(* The first request leaves.                                                  *)
LEMMA UpTail ==
    ASSUME SessionTypes, ExecutionsCounted, link.up # <<>>, link'.up = Tail(link.up),
           \A id \in 1 .. MaxCalls : id # Head(link.up).id => executed'[id] = executed[id],
           UNCHANGED <<calls, call>>
    PROVE  link'.up \in Seq(Requests) /\ \A i \in 1 .. Len(link'.up) : UpOnce(i)'
<1>1. link.up \in Seq(Requests)
  BY SessionFields
<1>2. PICK u \in Seq(Requests) : u = link.up
  BY <1>1
<1>3. PICK v : v = Tail(u)
  OBVIOUS
<1>4. /\ v \in Seq(Requests) /\ Len(v) = Len(u) - 1 /\ Len(u) \in Nat /\ Len(u) > 0
      /\ \A i \in 1 .. Len(u) - 1 : v[i] = u[i + 1]
  BY <1>2, <1>3
<1>5. link'.up = v /\ Head(link.up) = u[1]
  BY <1>2, <1>3, <1>4
<1>6. ASSUME NEW i \in 1 .. Len(v) PROVE UpOnce(i)'
  <2>1. i + 1 \in 1 .. Len(u) /\ 1 \in 1 .. Len(u) /\ 1 < i + 1 /\ v[i] = u[i + 1] /\ v[i] \in Requests
    BY <1>4
  <2>2. UpOnce(i + 1) /\ UpOnce(1)
    BY <1>2, <2>1 DEF ExecutionsCounted
  <2>3. v[i].id \in 1 .. MaxCalls /\ u[1].id < v[i].id /\ u[1].id \in 1 .. MaxCalls
    <3>1. u[1].id < u[i + 1].id
      BY <1>2, <2>1, <2>2 DEF UpOnce
    <3>2. u[1] \in Requests
      BY <2>1
    <3> QED BY <2>1, <3>1, <3>2 DEF Requests
  <2>4. executed'[v[i].id] = executed[v[i].id]
    BY <1>5, <2>3
  <2>5. ASSUME NEW j \in 1 .. Len(v), i < j PROVE v[i].id < v[j].id
    <3>1. j + 1 \in 1 .. Len(u) /\ i + 1 < j + 1 /\ v[j] = u[j + 1]
      BY <1>4, <2>5
    <3> QED BY <1>2, <2>1, <2>2, <3>1 DEF UpOnce
  <2>6. /\ v[i].id <= calls /\ executed'[v[i].id] <= v[i].tries
        /\ v[i].id = call.id => call.pc # "sending" /\ v[i].tries = call.tries
    BY <1>2, <2>1, <2>2, <2>4 DEF UpOnce
  <2> QED BY <1>5, <2>5, <2>6 DEF UpOnce
<1> QED BY <1>4, <1>5, <1>6

LEMMA ServeKeeps ==
    ASSUME SessionInv, NEW n \in 0 .. MaxRows, Serve(n)
    PROVE  SessionInv'
<1> USE DEF SessionInv
<1>1. PICK request : request = Head(link.up)
  OBVIOUS
<1>2. /\ link.open /\ link.up # <<>> /\ link.out = <<>>
      /\ UNCHANGED <<kind, call, calls, stream, clean, last>>
  BY DEF Serve
<1>3. PICK answer \in {Responses(request, n), <<Message(request.id, "error", <<>>, 0)>>} :
         link' = [link EXCEPT !.up = Tail(link.up), !.out = answer]
  BY <1>1 DEF Serve
<1>4. request \in Requests /\ request.id \in Nat /\ n \in Nat /\ request.id \in 1 .. MaxCalls
  BY <1>1, <1>2, UpHead
<1>5. AnswerOf(answer, request.id, request.op)
  BY <1>3, <1>4, ResponsesAnswer, SingleAnswer
<1>6. /\ answer \in Seq(Answers) /\ answer # <<>> /\ WholeStreams(answer) /\ Fresh(answer)
      /\ OneAnswer(answer, request.id, request.op) /\ answer[1].type # "chunk"
  BY <1>5 DEF AnswerOf, Fresh, Parts
<1>7. /\ link'.up = Tail(link.up) /\ link'.down = link.down /\ link'.open = link.open
      /\ link'.heard = link.heard /\ link'.framed = link.framed /\ link'.out = answer
  BY <1>3 DEF SessionTypes, Links
<1>8. /\ executed' \in [1 .. MaxCalls -> 0 .. 2]
      /\ request.op # "garbled" => executed'[request.id] >= 1
      /\ \A id \in 1 .. MaxCalls : id # request.id => executed'[id] = executed[id]
      /\ \A id \in 1 .. MaxCalls : id > calls => executed'[id] = 0
      /\ call.pc = "sending" => executed'[call.id] <= call.tries
      /\ call.id # 0 => executed'[call.id] <= call.tries + 1
      /\ EndedWell'
  <2>1. CASE request.op # "garbled"
    <3>1. Executes(Head(link.up).id)
      BY <1>1, <2>1 DEF Serve, Executes
    <3> QED BY <1>1, <1>2, <3>1, ExecutesHead
  <2>2. CASE request.op = "garbled"
    <3>1. executed' = executed
      BY <1>1, <2>2 DEF Serve
    <3> QED BY <1>2, <2>2, <3>1 DEF ExecutionsCounted, SessionTypes, EndedWell, OwnAnswer, StreamCoherent
  <2> QED BY <2>1, <2>2
<1>9. link'.up \in Seq(Requests) /\ \A i \in 1 .. Len(link'.up) : UpOnce(i)'
  BY <1>1, <1>2, <1>7, <1>8, UpTail
<1>10. /\ link.down \in Seq(Answers) /\ WholeStreams(link.down)
       /\ call.pc = "streaming" => Follows(stream.from, Len(stream.rows), link.down)
  BY SessionFields, Arrived
<1>11. /\ WholeStreams(Coming') /\ (link.framed => Coming' = link.down \o answer)
       /\ call.pc = "streaming" => Follows(stream.from, Len(stream.rows), Coming')
  <2>1. CASE link.framed
    <3>1. Coming' = link.down \o answer
      BY <1>7, <2>1 DEF Coming
    <3>2. WholeStreams(link.down \o answer)
      BY <1>6, <1>10, WholeConcat
    <3>3. call.pc = "streaming" => Follows(stream.from, Len(stream.rows), link.down \o answer)
      BY <1>6, <1>10, FollowsConcat
    <3> QED BY <3>1, <3>2, <3>3
  <2>2. CASE ~link.framed
    <3>1. Coming' = link.down
      BY <1>7, <2>2 DEF Coming
    <3> QED BY <1>10, <2>2, <3>1
  <2> QED BY <2>1, <2>2
<1>12. SessionTypes'
  <2>1. link' \in Links
    BY <1>3, <1>6, <1>7, <1>9 DEF SessionTypes, Links
  <2> QED BY <1>2, <1>8, <2>1 DEF SessionTypes
<1>13. StreamsInOrder'
  BY <1>2, <1>11 DEF StreamsInOrder
<1>14. CallNumbered'
  BY <1>2 DEF CallNumbered
<1>15. ExecutionsCounted'
  BY <1>2, <1>7, <1>8, <1>9 DEF ExecutionsCounted
<1>16. NothingElse'
  <2> SUFFICES ASSUME clean
               PROVE  link.heard /\ link.framed /\ call.pc \in {"reading", "streaming"} /\ Awaited'
    BY <1>2, <1>7 DEF NothingElse
  <2>1. link.heard /\ link.framed /\ call.pc \in {"reading", "streaming"} /\ Awaited
    BY <1>2 DEF NothingElse
  <2>2. /\ Coming = <<>> /\ Len(link.up) = 1 /\ call.pc # "streaming"
        /\ link.up[1].id = call.id /\ link.up[1].op = call.op
    BY <1>2, <2>1, UpHead DEF Awaited
  <2>3. request.id = call.id /\ request.op = call.op /\ request.op # "garbled"
    BY <1>1, <1>2, <2>2, UpHead, SessionFields DEF Ops
  <2>4. Coming' = answer /\ Head(answer) = answer[1]
    <3>1. link.down \o link.out = <<>>
      BY <2>1, <2>2 DEF Coming
    <3>2. link.down = <<>>
      BY <1>10, <3>1, SessionFields, ConcatEqualIffEmpty
    <3>3. link.down \o answer = answer
      BY <1>6, <3>2, ConcatEmptySeq
    <3> QED BY <1>6, <1>11, <2>1, <3>3
  <2>5. link.up \in Seq(Requests)
    BY SessionFields
  <2>6. link'.up = <<>>
    <3>1. PICK v : v = Tail(link.up)
      OBVIOUS
    <3>2. Len(v) = 0 /\ v \in Seq(Requests)
      BY <1>2, <2>2, <2>5, <3>1
    <3>3. v = <<>>
      BY <3>2
    <3> QED BY <1>7, <3>1, <3>3
  <2>7. Len(<<>>) = 0
    OBVIOUS
  <2> QED BY <1>2, <1>6, <1>8, <2>1, <2>2, <2>3, <2>4, <2>6, <2>7 DEF Awaited
<1> QED BY <1>8, <1>12, <1>13, <1>14, <1>15, <1>16

(* What the server sends unasked.                                             *)
LEMMA UnaskedMessage ==
    ASSUME NEW id \in Nat, NEW type \in {"error", "goodbye", "garbled"}
    PROVE  /\ Message(id, type, <<>>, 0) \in Answers /\ Message(id, type, <<>>, 0).type = type
           /\ Message(id, type, <<>>, 0).to = id
<1>1. <<>> \in RowSeqs
  BY DEF RowSeqs
<1> QED BY <1>1 DEF Message, Answers, AnswerTypes

(* The server writes, or gives up: only what is coming changes.               *)
LEMMA ComingKeeps ==
    ASSUME SessionInv, link' \in Links, link'.up = link.up, link'.open = link.open, link.open,
           WholeStreams(Coming'),
           call.pc = "streaming" => Follows(stream.from, Len(stream.rows), Coming'),
           clean' \in BOOLEAN,
           clean' => /\ link'.heard /\ link'.framed
                     /\ IF call.pc \in {"reading", "streaming"} THEN Awaited'
                        ELSE link'.up = <<>> /\ Coming' = <<>>,
           UNCHANGED <<kind, call, calls, executed, stream, last>>
    PROVE  SessionInv'
<1> USE DEF SessionInv
<1>1. SessionTypes'
  BY DEF SessionTypes
<1>2. StreamsInOrder'
  BY DEF StreamsInOrder
<1>3. CallNumbered' /\ EndedWell' /\ NothingElse'
  BY DEF CallNumbered, EndedWell, OwnAnswer, StreamCoherent, NothingElse
<1>4. ASSUME NEW i \in 1 .. Len(link.up) PROVE UpOnce(i)'
  <2>1. UpOnce(i)
    BY DEF ExecutionsCounted
  <2> QED BY <2>1 DEF UpOnce
<1>5. ExecutionsCounted'
  BY <1>4 DEF ExecutionsCounted
<1> QED BY <1>1, <1>2, <1>3, <1>5

LEMMA SendResponseKeeps ==
    ASSUME SessionInv, SendResponse
    PROVE  SessionInv'
<1> USE DEF SessionInv
<1>1. /\ link.open /\ link.out # <<>>
      /\ UNCHANGED <<kind, call, calls, executed, stream, clean, last>>
  BY DEF SendResponse
<1>2. PICK arrives \in (IF link.framed THEN {<<Head(link.out)>>}
                        ELSE {<<>>, <<Message(0, "garbled", <<>>, 0)>>}) :
         link' = [link EXCEPT !.out = Tail(link.out), !.down = link.down \o arrives]
  BY DEF SendResponse
<1>3. /\ link.down \in Seq(Answers) /\ link.out \in Seq(Answers) /\ link.up \in Seq(Requests)
      /\ WholeStreams(link.down)
      /\ call.pc = "streaming" => Follows(stream.from, Len(stream.rows), link.down)
  BY SessionFields, Arrived
<1>4. Tail(link.out) \in Seq(Answers) /\ Head(link.out) \in Answers
  BY <1>1, <1>3, HeadTailProperties
<1>5. clean \in BOOLEAN /\ clean' = clean
  BY <1>1 DEF SessionTypes
<1>6. PICK g : g = Message(0, "garbled", <<>>, 0)
  OBVIOUS
<1>7. g \in Answers /\ g.type = "garbled"
  BY <1>6, UnaskedMessage
<1>8. arrives \in Seq(Answers)
  <2>1. <<Head(link.out)>> \in Seq(Answers) /\ <<g>> \in Seq(Answers) /\ <<>> \in Seq(Answers)
    BY <1>4, <1>7
  <2> QED BY <1>2, <1>6, <2>1
<1>9. link.down \o arrives \in Seq(Answers)
  BY <1>3, <1>8, ConcatProperties
<1>10. /\ link'.up = link.up /\ link'.open = link.open /\ link'.heard = link.heard
       /\ link'.framed = link.framed /\ link'.out = Tail(link.out)
       /\ link'.down = link.down \o arrives
  BY <1>2 DEF SessionTypes, Links
<1>11. link' \in Links
  BY <1>2, <1>4, <1>9 DEF SessionTypes, Links
<1>12. CASE link.framed
  <2>1. arrives = <<Head(link.out)>>
    BY <1>2, <1>12
  <2>2. <<Head(link.out)>> \o Tail(link.out) = link.out
    BY <1>1, <1>3
  <2>3. (link.down \o arrives) \o Tail(link.out) = link.down \o (arrives \o Tail(link.out))
    <3>1. PICK d \in Seq(Answers) : d = link.down
      BY <1>3
    <3>2. PICK t \in Seq(Answers) : t = Tail(link.out)
      BY <1>4
    <3>3. PICK a \in Seq(Answers) : a = arrives
      BY <1>8
    <3>4. (d \o a) \o t = d \o (a \o t)
      BY ConcatAssociative
    <3> QED BY <3>1, <3>2, <3>3, <3>4
  <2>4. Coming' = Coming
    BY <1>10, <1>12, <2>1, <2>2, <2>3 DEF Coming
  <2>5. /\ WholeStreams(Coming')
        /\ call.pc = "streaming" => Follows(stream.from, Len(stream.rows), Coming')
    BY <2>4 DEF StreamsInOrder
  <2>6. clean' => /\ link'.heard /\ link'.framed
                  /\ IF call.pc \in {"reading", "streaming"} THEN Awaited'
                     ELSE link'.up = <<>> /\ Coming' = <<>>
    BY <1>1, <1>5, <1>10, <2>4 DEF NothingElse, Awaited
  <2> QED BY <1>1, <1>5, <1>10, <1>11, <2>5, <2>6, ComingKeeps
<1>13. CASE ~link.framed
  <2>1. ~clean
    BY <1>13 DEF NothingElse
  <2>2. Coming' = link.down \o arrives
    BY <1>10, <1>13 DEF Coming
  <2>3. WholeStreams(arrives) /\ Fresh(arrives)
    <3>1. CASE arrives = <<>>
      <4>1. Len(<<>>) = 0
        OBVIOUS
      <4> QED BY <3>1, <4>1 DEF WholeStreams, Fresh
    <3>2. CASE arrives = <<g>>
      BY <1>7, <3>2, WholeMore
    <3> QED BY <1>2, <1>6, <1>13, <3>1, <3>2
  <2>4. WholeStreams(Coming')
    BY <1>3, <1>8, <2>2, <2>3, WholeConcat
  <2>5. call.pc = "streaming" => Follows(stream.from, Len(stream.rows), Coming')
    BY <1>3, <1>8, <2>2, <2>3, FollowsConcat
  <2> QED BY <1>1, <1>5, <1>10, <1>11, <2>1, <2>4, <2>5, ComingKeeps
<1> QED BY <1>12, <1>13

(* The server ends what it was writing with an error m, or sends it unasked.  *)
LEMMA ErrorKeeps ==
    ASSUME SessionInv, NEW m \in Answers, m.type = "error", NEW half \in BOOLEAN, link.open,
           link' = [link EXCEPT !.out = <<m>>, !.framed = link.framed /\ ~half],
           clean' = FALSE \/ (link.out # <<>> /\ m.to = Head(link.out).to /\ clean' = (clean /\ ~half)),
           UNCHANGED <<kind, call, calls, executed, stream, last>>
    PROVE  SessionInv'
<1> USE DEF SessionInv
<1>1. /\ link.down \in Seq(Answers) /\ link.out \in Seq(Answers) /\ link.up \in Seq(Requests)
      /\ WholeStreams(link.down) /\ link.framed \in BOOLEAN
      /\ call.pc = "streaming" => Follows(stream.from, Len(stream.rows), link.down)
  BY SessionFields, Arrived
<1>2. /\ <<m>> \in Seq(Answers) /\ WholeStreams(<<m>>) /\ Fresh(<<m>>)
      /\ <<m>>[1] = m /\ Len(<<m>>) = 1
  BY WholeMore
<1>3. /\ link'.up = link.up /\ link'.open = link.open /\ link'.heard = link.heard
      /\ link'.framed = (link.framed /\ ~half) /\ link'.out = <<m>> /\ link'.down = link.down
  BY DEF SessionTypes, Links
<1>4. link' \in Links
  BY <1>1, <1>2 DEF SessionTypes, Links
<1>5. Coming' = IF link.framed /\ ~half THEN link.down \o <<m>> ELSE link.down
  <2>1. CASE link.framed /\ ~half
    <3>1. link'.framed
      BY <1>3, <2>1
    <3> QED BY <1>3, <2>1, <3>1 DEF Coming
  <2>2. CASE ~(link.framed /\ ~half)
    <3>1. ~link'.framed
      BY <1>3, <2>2
    <3> QED BY <1>3, <2>2, <3>1 DEF Coming
  <2> QED BY <2>1, <2>2
<1>6. /\ WholeStreams(link.down \o <<m>>)
      /\ link.down # <<>> => link.down \o <<m>> # <<>> /\ (link.down \o <<m>>)[1] = link.down[1]
      /\ link.down = <<>> => link.down \o <<m>> = <<m>>
      /\ link.down \o <<m>> \in Seq(Answers)
  BY <1>1, <1>2, WholeConcat
<1>7. call.pc = "streaming" => Follows(stream.from, Len(stream.rows), link.down \o <<m>>)
  BY <1>1, <1>2, FollowsConcat
<1>8. /\ WholeStreams(Coming')
      /\ call.pc = "streaming" => Follows(stream.from, Len(stream.rows), Coming')
  BY <1>1, <1>5, <1>6, <1>7
<1>9. ASSUME clean'
      PROVE  /\ link'.heard /\ link'.framed
             /\ IF call.pc \in {"reading", "streaming"} THEN Awaited'
                ELSE link'.up = <<>> /\ Coming' = <<>>
  <2>1. clean /\ ~half /\ link.out # <<>> /\ m.to = Head(link.out).to
    BY <1>9
  <2>2. link.heard /\ link.framed /\ Coming = link.down \o link.out
    BY <2>1 DEF NothingElse, Coming
  <2>3. Coming # <<>>
    BY <1>1, <2>1, <2>2, ConcatEqualIffEmpty
  <2>4. call.pc \in {"reading", "streaming"} /\ Awaited
    BY <2>1, <2>3 DEF NothingElse
  <2>5. Coming' = link.down \o <<m>>
    BY <1>5, <2>1, <2>2
  <2>6. Head(link.out) = link.out[1]
    BY <1>1, <2>1
  <2>7. OneAnswer(link.down \o link.out, call.id, call.op)
    BY <2>2, <2>4 DEF Awaited
  <2>8. link.out[1].to = call.id
    <3>1. PICK e : e = Message(call.id, "error", <<>>, 0)
      OBVIOUS
    <3>2. e \in Answers /\ e.to = call.id /\ e.type = "error"
      BY <3>1, SessionFields, UnaskedMessage
    <3> QED BY <1>1, <2>1, <2>7, <3>2, OneAnswerCut
  <2>9. OneAnswer(Coming', call.id, call.op)
    BY <1>1, <2>1, <2>5, <2>6, <2>7, <2>8, OneAnswerCut
  <2>10. call.pc = "reading" => Head(Coming').type # "chunk"
    <3> SUFFICES ASSUME call.pc = "reading" PROVE Head(Coming').type # "chunk"
      OBVIOUS
    <3>1. Head(Coming).type # "chunk"
      BY <2>3, <2>4 DEF Awaited
    <3>2. CASE link.down = <<>>
      <4>1. Coming' = <<m>> /\ Head(<<m>>) = m
        BY <1>6, <2>5, <3>2
      <4> QED BY <4>1
    <3>3. CASE link.down # <<>>
      BY <1>1, <1>2, <2>2, <2>5, <3>1, <3>3, ConcatTail
    <3> QED BY <3>2, <3>3
  <2>11. link.up = <<>> /\ executed[call.id] >= 1 /\ Len(<<>>) = 0
    BY <2>3, <2>4 DEF Awaited
  <2>12. Awaited'
    BY <1>3, <2>4, <2>9, <2>10, <2>11 DEF Awaited
  <2> QED BY <1>3, <2>1, <2>2, <2>4, <2>12
<1>10. clean' \in BOOLEAN
  BY DEF SessionTypes
<1> QED BY <1>3, <1>4, <1>8, <1>9, <1>10, ComingKeeps

LEMMA StreamWriteTimesOutKeeps ==
    ASSUME SessionInv, StreamWriteTimesOut
    PROVE  SessionInv'
<1>1. PICK half \in BOOLEAN :
         /\ link' = [link EXCEPT !.out = <<Message(Head(link.out).to, "error", <<>>, 0)>>,
                                 !.framed = link.framed /\ ~half]
         /\ clean' = (clean /\ ~half)
  BY DEF StreamWriteTimesOut
<1>2. link.open /\ link.out # <<>> /\ UNCHANGED <<kind, call, calls, executed, stream, last>>
  BY DEF StreamWriteTimesOut
<1>3. Head(link.out).to \in Nat
  <2>1. Head(link.out) \in Answers
    BY <1>2, SessionFields, HeadTailProperties DEF SessionInv
  <2> QED BY <2>1 DEF Answers
<1>4. PICK m : m = Message(Head(link.out).to, "error", <<>>, 0)
  OBVIOUS
<1>5. m \in Answers /\ m.type = "error" /\ m.to = Head(link.out).to
  BY <1>3, <1>4, UnaskedMessage
<1> QED BY <1>1, <1>2, <1>4, <1>5, ErrorKeeps

LEMMA ServerIdlesKeeps ==
    ASSUME SessionInv, ServerIdles
    PROVE  SessionInv'
<1>1. PICK m : m = Message(0, "error", <<>>, 0)
  OBVIOUS
<1>2. m \in Answers /\ m.type = "error"
  BY <1>1, UnaskedMessage
<1>3. /\ link.open /\ link' = [link EXCEPT !.out = <<m>>]
      /\ clean' = FALSE /\ UNCHANGED <<kind, call, calls, executed, stream, last>>
  BY <1>1 DEF ServerIdles
<1>4. link' = [link EXCEPT !.out = <<m>>, !.framed = link.framed /\ ~FALSE]
  BY <1>3 DEF SessionInv, SessionTypes, Links
<1> QED BY <1>2, <1>3, <1>4, ErrorKeeps

LEMMA ConnectionLostKeeps ==
    ASSUME SessionInv, ConnectionLost
    PROVE  SessionInv'
<1> USE DEF SessionInv
<1>1. PICK m : m = Message(0, "goodbye", <<>>, 0)
  OBVIOUS
<1>2. m \in Answers /\ m.type = "goodbye"
  BY <1>1, UnaskedMessage
<1>3. /\ link.down \in Seq(Answers) /\ link.out \in Seq(Answers) /\ WholeStreams(link.down)
      /\ call.pc = "streaming" => Follows(stream.from, Len(stream.rows), link.down)
  BY SessionFields, Arrived
<1>4. UNCHANGED <<kind, call, calls, stream, last>>
  BY DEF ConnectionLost
<1>5. /\ \/ link' = [link EXCEPT !.open = FALSE, !.up = <<>>, !.out = <<>>] /\ clean' = clean
         \/ /\ link' = [link EXCEPT !.open = FALSE, !.up = <<>>, !.out = <<>>,
                                    !.down = Append(link.down, m)]
            /\ clean' = FALSE
      /\ \/ executed' = executed
         \/ link.up # <<>> /\ Executes(Head(link.up).id)
  BY <1>1 DEF ConnectionLost, Executes, SessionTypes, Links
<1>6. <<m>> \in Seq(Answers) /\ WholeStreams(<<m>>) /\ Fresh(<<m>>) /\ Append(link.down, m) = link.down \o <<m>>
  BY <1>2, <1>3, WholeMore, AppendIsConcat
<1>7. /\ link'.open = FALSE /\ link'.up = <<>> /\ link'.out = <<>>
      /\ link'.heard = link.heard /\ link'.framed = link.framed
      /\ \/ link'.down = link.down /\ clean' = clean
         \/ link'.down = link.down \o <<m>> /\ clean' = FALSE
  BY <1>5, <1>6 DEF SessionTypes, Links
<1>8. /\ link'.down \in Seq(Answers) /\ WholeStreams(link'.down)
      /\ call.pc = "streaming" => Follows(stream.from, Len(stream.rows), link'.down)
  <2>1. CASE link'.down = link.down
    BY <1>3, <2>1
  <2>2. CASE link'.down = link.down \o <<m>>
    <3>1. link.down \o <<m>> \in Seq(Answers) /\ WholeStreams(link.down \o <<m>>)
      BY <1>3, <1>6, WholeConcat
    <3>2. call.pc = "streaming" => Follows(stream.from, Len(stream.rows), link.down \o <<m>>)
      BY <1>3, <1>6, FollowsConcat
    <3> QED BY <2>2, <3>1, <3>2
  <2> QED BY <1>7, <2>1, <2>2
<1>9. Coming' = link'.down
  <2>1. link'.down \o <<>> = link'.down
    BY <1>8, ConcatEmptySeq
  <2> QED BY <1>7, <2>1 DEF Coming
<1>10. /\ executed' \in [1 .. MaxCalls -> 0 .. 2]
       /\ \A id \in 1 .. MaxCalls : id > calls => executed'[id] = 0
       /\ call.pc = "sending" => executed'[call.id] <= call.tries
       /\ call.id # 0 => executed'[call.id] <= call.tries + 1
       /\ \A id \in 1 .. MaxCalls : executed[id] >= 1 => executed'[id] >= 1
       /\ EndedWell'
  <2>1. CASE executed' = executed
    BY <1>4, <2>1 DEF ExecutionsCounted, SessionTypes, EndedWell, OwnAnswer, StreamCoherent
  <2>2. CASE link.up # <<>> /\ Executes(Head(link.up).id)
    BY <1>4, <2>2, ExecutesHead
  <2> QED BY <1>5, <2>1, <2>2
<1>11. SessionTypes'
  <2>1. <<>> \in Seq(Requests) /\ <<>> \in Seq(Answers) /\ Append(link.down, m) \in Seq(Answers)
    BY <1>2, <1>3
  <2>2. link' \in Links
    BY <1>5, <2>1 DEF SessionTypes, Links
  <2>3. clean' \in BOOLEAN
    BY <1>7 DEF SessionTypes
  <2> QED BY <1>4, <1>10, <2>2, <2>3 DEF SessionTypes
<1>12. StreamsInOrder'
  BY <1>4, <1>8, <1>9 DEF StreamsInOrder
<1>13. CallNumbered'
  BY <1>4 DEF CallNumbered
<1>14. Len(<<>>) = 0
  OBVIOUS
<1>15. ExecutionsCounted'
  BY <1>4, <1>7, <1>10, <1>14 DEF ExecutionsCounted
<1>16. NothingElse'
  <2> SUFFICES ASSUME clean, clean', link'.down = link.down
               PROVE  /\ link.heard /\ link.framed
                      /\ IF call.pc \in {"reading", "streaming"} THEN Awaited'
                         ELSE link'.up = <<>> /\ Coming' = <<>>
    BY <1>4, <1>7 DEF NothingElse
  <2>1. /\ link.heard /\ link.framed /\ Coming = link.down \o link.out /\ Coming' = link.down
    BY <1>9 DEF NothingElse, Coming
  <2>2. CASE call.pc \in {"reading", "streaming"}
    <3>1. Awaited
      BY <2>2 DEF NothingElse
    <3>2. call.id \in 1 .. MaxCalls
      BY <2>2, SessionFields, SessionAssumption DEF CallNumbered
    <3>3. /\ OneAnswer(link.down, call.id, call.op)
          /\ link.down # <<>> => Coming # <<>> /\ Head(Coming) = Head(link.down)
      BY <1>3, <2>1, <3>1, OneAnswerPrefix, ConcatTail DEF Awaited
    <3>4. /\ Coming' # <<>> => executed'[call.id] >= 1
          /\ call.pc = "reading" /\ Coming' # <<>> => Head(Coming').type # "chunk"
          /\ call.pc = "streaming" => stream.from = call.id
      BY <1>10, <2>1, <3>1, <3>2, <3>3 DEF Awaited
    <3>5. OneAnswer(Coming', call.id, call.op)
      BY <2>1, <3>3
    <3>6. Awaited'
      BY <1>4, <1>7, <1>14, <3>4, <3>5 DEF Awaited
    <3> QED BY <2>1, <2>2, <3>6
  <2>3. CASE call.pc \notin {"reading", "streaming"}
    <3>1. Coming = <<>>
      BY <2>3 DEF NothingElse
    <3>2. link.down = <<>>
      <4>1. PICK d \in Seq(Answers) : d = link.down
        BY <1>3
      <4>2. PICK e \in Seq(Answers) : e = link.out
        BY <1>3
      <4>3. d \o e = <<>>
        BY <2>1, <3>1, <4>1, <4>2
      <4>4. d = <<>>
        BY <4>3, ConcatEqualIffEmpty
      <4> QED BY <4>1, <4>4
    <3> QED BY <1>7, <2>1, <2>3, <3>2
  <2> QED BY <2>2, <2>3
<1> QED BY <1>10, <1>11, <1>12, <1>13, <1>15, <1>16

LEMMA StartCallKeeps ==
    ASSUME SessionInv, NEW op \in Ops, NEW size \in ChunkSizes \cup {0}, StartCall(op, size)
    PROVE  SessionInv'
<1> USE DEF SessionInv
<1>1. /\ call.pc \in {"idle", "streaming"} /\ calls < MaxCalls /\ calls' = calls + 1
      /\ call' = [id |-> calls + 1, op |-> op, pc |-> "sending", size |-> size, tries |-> 0]
      /\ clean' = (clean /\ call.pc = "idle") /\ stream' = NoStream /\ last' = NoEnd
      /\ UNCHANGED <<kind, link, executed>>
  BY DEF StartCall
<1>2. /\ calls \in Nat /\ calls + 1 \in 1 .. MaxCalls /\ MaxCalls \in Nat /\ size \in Nat
      /\ executed \in [1 .. MaxCalls -> 0 .. 2]
  BY <1>1, SessionAssumption DEF SessionTypes
<1>3. call'.id = calls + 1 /\ call'.op = op /\ call'.pc = "sending" /\ call'.tries = 0
  BY <1>1
<1>4. SessionTypes'
  <2>1. <<>> \in RowSeqs
    BY DEF RowSeqs
  <2>2. stream' \in [from : Nat, rows : RowSeqs]
    BY <1>1, <2>1 DEF NoStream
  <2>3. call' \in [id : 0 .. MaxCalls, op : Ops, pc : Activities, size : Nat, tries : 0 .. 1]
    BY <1>1, <1>2 DEF Activities
  <2>4. clean' \in BOOLEAN /\ calls' \in 0 .. MaxCalls
    BY <1>1, <1>2
  <2>5. last' \in [id : 0 .. MaxCalls, op : Ops, result : Results, from : Nat, rows : RowSeqs,
                    total : Nat, clean : BOOLEAN]
    BY <1>1, <1>2, <2>1 DEF NoEnd, Ops, Results
  <2> QED BY <1>1, <2>2, <2>3, <2>4, <2>5 DEF SessionTypes
<1>5. StreamsInOrder' /\ Coming' = Coming
  BY <1>1, <1>3 DEF StreamsInOrder, Coming
<1>6. CallNumbered'
  BY <1>1, <1>2, <1>3 DEF CallNumbered
<1>7. executed[calls + 1] = 0 /\ \A id \in 1 .. MaxCalls : id > calls + 1 => executed[id] = 0
  BY <1>2 DEF ExecutionsCounted
<1>8. ASSUME NEW i \in 1 .. Len(link.up) PROVE UpOnce(i)'
  <2>1. UpOnce(i)
    BY DEF ExecutionsCounted
  <2>2. link.up[i].id \in Nat
    BY SessionFields, RequestId
  <2> QED BY <1>1, <1>2, <1>3, <2>1, <2>2 DEF UpOnce
<1>9. ExecutionsCounted'
  BY <1>1, <1>2, <1>3, <1>7, <1>8 DEF ExecutionsCounted
<1>10. NothingElse'
  BY <1>1, <1>3, <1>5 DEF NothingElse
<1>11. last'.result = "none"
  BY <1>1 DEF NoEnd
<1>12. EndedWell'
  BY <1>11 DEF EndedWell, OwnAnswer, StreamCoherent
<1> QED BY <1>4, <1>5, <1>6, <1>9, <1>10, <1>12

LEMMA SendRequestKeeps ==
    ASSUME SessionInv, SendRequest
    PROVE  SessionInv'
<1> USE DEF SessionInv
<1>1. /\ call.pc = "sending" /\ call' = [call EXCEPT !.pc = "reading"]
      /\ UNCHANGED <<kind, calls, executed, stream, clean, last>>
  BY DEF SendRequest
<1>2. call.id = calls /\ calls \in 1 .. MaxCalls /\ call.id # 0 /\ MaxCalls \in Nat
  BY <1>1, SessionAssumption DEF CallNumbered, SessionTypes
<1>3. /\ call'.id = call.id /\ call'.op = call.op /\ call'.pc = "reading"
      /\ call'.tries = call.tries /\ call'.size = call.size
  BY <1>1 DEF SessionTypes
<1>4. link.up \in Seq(Requests) /\ link.down \in Seq(Answers)
  BY SessionFields
<1>5. \E r \in Requests :
         /\ r.id = call.id /\ r.tries = call.tries
         /\ link.heard => r.op = call.op
         /\ \/ link' = [link EXCEPT !.up = link.up \o <<>>]
            \/ link.open /\ link' = [link EXCEPT !.up = link.up \o <<r>>]
  <2>1. PICK arrives \in (IF ~link.open THEN {<<>>}
                      ELSE IF link.heard THEN {<<call>>}
                      ELSE {<<>>, <<[call EXCEPT !.op = "garbled"]>>}) :
            link' = [link EXCEPT !.up = link.up \o arrives]
    BY DEF SendRequest
  <2>2. call \in Requests
    BY <1>2, SessionFields DEF SessionTypes, Requests
  <2>3. PICK g : g = [call EXCEPT !.op = "garbled"]
    OBVIOUS
  <2>4. g \in Requests /\ g.id = call.id /\ g.tries = call.tries
    BY <2>2, <2>3 DEF Requests
  <2>5. CASE arrives = <<>>
    BY <2>1, <2>2, <2>5
  <2>6. CASE link.open /\ arrives = <<call>>
    <3>1. link' = [link EXCEPT !.up = link.up \o <<call>>]
      BY <2>1, <2>6
    <3> QED BY <2>2, <2>6, <3>1
  <2>7. CASE link.open /\ ~link.heard /\ arrives = <<g>>
    <3>1. link' = [link EXCEPT !.up = link.up \o <<g>>]
      BY <2>1, <2>7
    <3> QED BY <2>4, <2>7, <3>1
  <2> QED BY <2>1, <2>3, <2>5, <2>6, <2>7
<1>6. PICK r \in Requests : /\ r.id = call.id /\ r.tries = call.tries
                            /\ link.heard => r.op = call.op
                            /\ \/ link' = [link EXCEPT !.up = link.up \o <<>>]
                               \/ link.open /\ link' = [link EXCEPT !.up = link.up \o <<r>>]
  BY <1>5
<1>7. PICK u \in Seq(Requests) : u = link.up
  BY <1>4
<1>8. PICK v : v = u \o <<r>>
  OBVIOUS
<1>9. /\ v \in Seq(Requests) /\ Len(v) = Len(u) + 1 /\ Len(u) \in Nat /\ v[Len(u) + 1] = r
      /\ \A i \in 1 .. Len(u) : v[i] = u[i]
  <2>1. <<r>> \in Seq(Requests) /\ Len(<<r>>) = 1 /\ <<r>>[1] = r /\ Len(u) \in Nat
    OBVIOUS
  <2> QED BY <1>8, <2>1
<1>10. u \o <<>> = u
  BY ConcatEmptySeq
<1>11. /\ link'.open = link.open /\ link'.down = link.down /\ link'.out = link.out
       /\ link'.heard = link.heard /\ link'.framed = link.framed
       /\ link'.up = u \/ (link.open /\ link'.up = v)
       /\ link' \in Links
  BY <1>6, <1>7, <1>8, <1>9, <1>10 DEF SessionTypes, Links
<1>12. Coming' = Coming
  BY <1>11 DEF Coming
<1>13. SessionTypes'
  <2>1. call' \in [id : 0 .. MaxCalls, op : Ops, pc : Activities, size : Nat, tries : 0 .. 1]
    BY <1>1 DEF SessionTypes, Activities
  <2> QED BY <1>1, <1>11, <2>1 DEF SessionTypes
<1>14. StreamsInOrder'
  BY <1>1, <1>3, <1>12 DEF StreamsInOrder
<1>15. CallNumbered'
  BY <1>1, <1>2, <1>3 DEF CallNumbered
<1>16. ASSUME NEW i \in 1 .. Len(u)
       PROVE  /\ u[i].id \in Nat /\ u[i].id <= calls /\ u[i].id < call.id
              /\ executed[u[i].id] <= u[i].tries
              /\ \A j \in 1 .. Len(u) : i < j => u[i].id < u[j].id
  <2>1. UpOnce(i)
    BY <1>7 DEF ExecutionsCounted
  <2>2. u[i].id \in Nat
    BY RequestId
  <2>3. u[i].id # call.id
    BY <1>1, <1>7, <2>1 DEF UpOnce
  <2> QED BY <1>2, <1>7, <2>1, <2>2, <2>3 DEF UpOnce
<1>17. \A i \in 1 .. Len(link'.up) : UpOnce(i)'
  <2>1. CASE link'.up = u
    <3> SUFFICES ASSUME NEW i \in 1 .. Len(u) PROVE UpOnce(i)'
      BY <2>1
    <3>1. u[i].id # call'.id /\ u[i].id <= calls' /\ executed'[u[i].id] <= u[i].tries
      BY <1>1, <1>2, <1>3, <1>16
    <3> QED BY <1>16, <2>1, <3>1 DEF UpOnce
  <2>2. CASE link'.up = v
    <3>1. link'.up = v
      BY <2>2
    <3>2. ASSUME NEW i \in 1 .. Len(u) PROVE UpOnce(i)'
      <4>1. ASSUME NEW j \in 1 .. Len(v), i < j PROVE v[i].id < v[j].id
        <5>1. CASE j \in 1 .. Len(u)
          BY <1>9, <1>16, <4>1, <5>1
        <5>2. CASE j = Len(u) + 1
          BY <1>6, <1>9, <1>16, <5>2
        <5> QED BY <1>9, <5>1, <5>2
      <4>2. v[i] = u[i]
        BY <1>9
      <4>3. u[i].id # call'.id /\ u[i].id <= calls' /\ executed'[u[i].id] <= u[i].tries
        BY <1>1, <1>2, <1>3, <1>16
      <4> QED BY <3>1, <4>1, <4>2, <4>3 DEF UpOnce
    <3>3. UpOnce(Len(u) + 1)'
      <4>1. executed[call.id] <= call.tries
        BY <1>1 DEF ExecutionsCounted
      <4>2. \A j \in 1 .. Len(v) : ~(Len(u) + 1 < j)
        BY <1>9
      <4>3. call.id <= calls
        BY <1>2
      <4> QED BY <1>1, <1>3, <1>6, <1>9, <3>1, <4>1, <4>2, <4>3 DEF UpOnce
    <3> QED BY <1>9, <3>1, <3>2, <3>3
  <2> QED BY <1>11, <2>1, <2>2
<1>18. ExecutionsCounted'
  <2>1. ~link.open => link'.up = <<>> /\ link'.out = <<>>
    BY <1>7, <1>11 DEF ExecutionsCounted
  <2> QED BY <1>1, <1>2, <1>3, <1>11, <1>17, <2>1 DEF ExecutionsCounted
<1>19. NothingElse'
  <2> SUFFICES ASSUME clean PROVE link.heard /\ link.framed /\ Awaited'
    BY <1>1, <1>3, <1>11 DEF NothingElse
  <2>1. link.heard /\ link.framed /\ link.up = <<>> /\ Coming = <<>>
    BY <1>1 DEF NothingElse
  <2>2. Len(u) = 0 /\ Len(<<>>) = 0
    BY <1>7, <2>1
  <2>3. \/ link'.up = <<>>
        \/ link'.up = v /\ Len(v) = 1 /\ v[1] = r
    BY <1>7, <1>9, <1>11, <2>1, <2>2
  <2>4. Coming' = <<>>
    BY <1>12, <2>1
  <2>5. OneAnswer(<<>>, call.id, call.op)
    BY <2>2 DEF OneAnswer
  <2> QED BY <1>1, <1>3, <1>6, <2>1, <2>2, <2>3, <2>4, <2>5 DEF Awaited
<1>20. EndedWell'
  BY <1>1 DEF EndedWell, OwnAnswer, StreamCoherent
<1> QED BY <1>13, <1>14, <1>15, <1>18, <1>19, <1>20

(* A new connection carries nothing.                                          *)
LEMMA NewLinkEmpty ==
    /\ NewLink.open = TRUE /\ NewLink.up = <<>> /\ NewLink.down = <<>> /\ NewLink.out = <<>>
    /\ NewLink.heard /\ NewLink.framed /\ Len(<<>>) = 0 /\ NewLink \in Links
    /\ WholeStreams(<<>>) /\ <<>> \o <<>> = <<>>
<1>1. <<>> \in Seq(Requests) /\ <<>> \in Seq(Answers) /\ Len(<<>>) = 0
  OBVIOUS
<1>2. WholeStreams(<<>>) /\ <<>> \o <<>> = <<>>
  BY <1>1, ConcatEmptySeq DEF WholeStreams
<1> QED BY <1>1, <1>2 DEF NewLink, Links

LEMMA ReconnectKeeps ==
    ASSUME SessionInv, Reconnect,
           \/ call.pc = "sending" /\ call' = call
           \/ /\ call.pc \in {"sending", "reading"} /\ MayRetry
              /\ call' = [call EXCEPT !.pc = "sending", !.tries = 1],
           UNCHANGED <<kind, calls, executed, stream, last>>
    PROVE  SessionInv'
<1> USE DEF SessionInv
<1>1. /\ link' = NewLink /\ clean' = TRUE
      /\ link'.up = <<>> /\ Len(<<>>) = 0 /\ link'.open = TRUE /\ link'.heard /\ link'.framed
      /\ Coming' = <<>> /\ WholeStreams(Coming') /\ link' \in Links
  BY NewLinkEmpty DEF Reconnect, Coming
<1>2. /\ call'.id = call.id /\ call'.op = call.op /\ call'.pc = "sending" /\ call.id # 0
      /\ \/ call'.tries = call.tries /\ call.pc = "sending"
         \/ call'.tries = 1 /\ call.tries = 0 /\ MayRetry
      /\ call' \in [id : 0 .. MaxCalls, op : Ops, pc : Activities, size : Nat, tries : 0 .. 1]
  <2>1. CASE call.pc = "sending" /\ call' = call
    BY <2>1 DEF SessionTypes, CallNumbered
  <2>2. CASE /\ call.pc \in {"sending", "reading"} /\ MayRetry
             /\ call' = [call EXCEPT !.pc = "sending", !.tries = 1]
    <3>1. call.id # 0 /\ call.tries = 0
      BY <2>2 DEF CallNumbered, MayRetry
    <3>2. call'.id = call.id /\ call'.op = call.op /\ call'.pc = "sending" /\ call'.tries = 1
      BY <2>2 DEF SessionTypes
    <3>3. call' \in [id : 0 .. MaxCalls, op : Ops, pc : Activities, size : Nat, tries : 0 .. 1]
      <4>1. "sending" \in Activities /\ 1 \in 0 .. 1
        BY DEF Activities
      <4> QED BY <2>2, <4>1 DEF SessionTypes
    <3> QED BY <2>2, <3>1, <3>2, <3>3
  <2> QED BY <2>1, <2>2
<1>3. SessionTypes'
  BY <1>1, <1>2 DEF SessionTypes
<1>4. StreamsInOrder' /\ NothingElse' /\ EndedWell'
  BY <1>1, <1>2 DEF StreamsInOrder, NothingElse, EndedWell, OwnAnswer, StreamCoherent
<1>5. CallNumbered'
  BY <1>2 DEF CallNumbered, MayRetry
<1>6. call.id \in 1 .. MaxCalls /\ executed \in [1 .. MaxCalls -> 0 .. 2] /\ call.tries \in 0 .. 1
  BY <1>2, SessionFields, SessionAssumption DEF SessionTypes
<1>7. ExecutionsCounted'
  BY <1>1, <1>2, <1>6 DEF ExecutionsCounted
<1> QED BY <1>3, <1>4, <1>5, <1>7

(* The call ends, and either everything that came for it was read, or the     *)
(* connection is no longer clean.                                             *)
LEMMA EndKeeps ==
    ASSUME SessionInv, call' = NoCall, stream' = NoStream,
           link'.open = link.open, link'.up = link.up, link'.out = link.out,
           link' \in Links, WholeStreams(Coming'), clean' \in BOOLEAN,
           clean' => link'.heard /\ link'.framed /\ link'.up = <<>> /\ Coming' = <<>>,
           last' \in [id : 0 .. MaxCalls, op : Ops, result : Results, from : Nat,
                      rows : RowSeqs, total : Nat, clean : BOOLEAN],
           EndedWell', UNCHANGED <<kind, calls, executed>>
    PROVE  SessionInv'
<1> USE DEF SessionInv
<1>1. /\ call'.id = 0 /\ call'.pc = "idle" /\ call'.tries = 0
      /\ call' \in [id : 0 .. MaxCalls, op : Ops, pc : Activities, size : Nat, tries : 0 .. 1]
  BY SessionAssumption DEF NoCall, Ops, Activities
<1>2. stream' \in [from : Nat, rows : RowSeqs]
  <2>1. <<>> \in RowSeqs
    BY DEF RowSeqs
  <2> QED BY <2>1 DEF NoStream
<1>3. SessionTypes'
  BY <1>1, <1>2 DEF SessionTypes
<1>4. StreamsInOrder' /\ NothingElse' /\ CallNumbered'
  BY <1>1 DEF StreamsInOrder, NothingElse, CallNumbered
<1>5. ASSUME NEW i \in 1 .. Len(link.up) PROVE UpOnce(i)'
  <2>1. UpOnce(i)
    BY DEF ExecutionsCounted
  <2>2. link.up \in Seq(Requests)
    BY SessionFields
  <2>3. link.up[i].id # 0
    <3>1. link.up[i] \in Requests
      BY <2>2, RequestId
    <3> QED BY <3>1 DEF Requests
  <2> QED BY <1>1, <2>1, <2>3 DEF UpOnce
<1>6. ExecutionsCounted'
  BY <1>1, <1>5 DEF ExecutionsCounted
<1> QED BY <1>3, <1>4, <1>6

LEMMA EndedRecord ==
    ASSUME SessionInv, NEW result \in Results, NEW m, m.to \in Nat, m.total \in Nat,
           EndCall(result, m)
    PROVE  /\ last' \in [id : 0 .. MaxCalls, op : Ops, result : Results, from : Nat,
                         rows : RowSeqs, total : Nat, clean : BOOLEAN]
           /\ last'.id = call.id /\ last'.op = call.op /\ last'.result = result
           /\ last'.from = m.to /\ last'.rows = stream.rows /\ last'.total = m.total
           /\ last'.clean = clean /\ call' = NoCall
<1>1. SessionTypes
  BY DEF SessionInv
<1>2. clean \in BOOLEAN /\ call.id \in 0 .. MaxCalls /\ call.op \in Ops /\ stream.rows \in RowSeqs
  BY <1>1 DEF SessionTypes
<1> QED BY <1>2 DEF EndCall

(* The call fails: nothing came for it.                                       *)
LEMMA FailKeeps ==
    ASSUME SessionInv, NEW result \in {"connection", "timeout"},
           EndCall(result, Message(0, "none", <<>>, 0)), stream' = NoStream,
           NEW heard \in BOOLEAN, NEW framed \in BOOLEAN,
           link' = [link EXCEPT !.heard = heard, !.framed = framed], framed => link.framed,
           clean' \in BOOLEAN, clean' => clean /\ heard /\ framed /\ link.up = <<>> /\ Coming = <<>>,
           UNCHANGED <<kind, calls, executed>>
    PROVE  SessionInv'
<1> USE DEF SessionInv
<1>1. PICK m : m = Message(0, "none", <<>>, 0)
  OBVIOUS
<1>2. m.to \in Nat /\ m.total \in Nat /\ result \in Results
  BY <1>1 DEF Message, Results
<1>3. EndCall(result, m)
  BY <1>1
<1>4. /\ last' \in [id : 0 .. MaxCalls, op : Ops, result : Results, from : Nat,
                    rows : RowSeqs, total : Nat, clean : BOOLEAN]
      /\ last'.result = result /\ call' = NoCall
  BY <1>2, <1>3, EndedRecord
<1>5. EndedWell'
  BY <1>4 DEF EndedWell, OwnAnswer, StreamCoherent
<1>6. /\ link' \in Links /\ link'.open = link.open /\ link'.up = link.up /\ link'.out = link.out
      /\ link'.down = link.down /\ link'.heard = heard /\ link'.framed = framed
  BY DEF SessionTypes, Links
<1>7. WholeStreams(Coming') /\ (framed => Coming' = Coming)
  <2>1. CASE framed
    <3>1. link.framed /\ link'.framed
      BY <1>6, <2>1
    <3>2. Coming' = link.down \o link.out /\ Coming = link.down \o link.out
      BY <1>6, <3>1, Zenon DEF Coming
    <3> QED BY <3>2 DEF StreamsInOrder
  <2>2. CASE ~framed
    BY <1>6, <2>2, Arrived DEF Coming
  <2> QED BY <2>1, <2>2
<1> QED BY <1>4, <1>5, <1>6, <1>7, EndKeeps

(* The connection stays as it is.                                             *)
LEMMA FailCallKeeps ==
    ASSUME SessionInv, FailCall("connection"), clean => link.up = <<>> /\ Coming = <<>>
    PROVE  SessionInv'
<1>1. /\ clean \in BOOLEAN /\ link.heard \in BOOLEAN /\ link.framed \in BOOLEAN
      /\ clean => link.heard /\ link.framed
  BY SessionFields DEF SessionInv, SessionTypes, NothingElse
<1>2. link' = [link EXCEPT !.heard = link.heard, !.framed = link.framed]
  BY DEF FailCall, SessionInv, SessionTypes, Links
<1> QED BY <1>1, <1>2, FailKeeps DEF FailCall

LEMMA SendAgainKeeps ==
    ASSUME SessionInv, SendAgain
    PROVE  SessionInv'
  BY ReconnectKeeps DEF SendAgain

LEMMA SendFailsKeeps ==
    ASSUME SessionInv, SendFails
    PROVE  SessionInv'
<1>1. call.pc = "sending" /\ ~link.open
  BY DEF SendFails
<1>2. CASE MayRetry /\ RetryCall
  BY <1>1, <1>2, ReconnectKeeps DEF RetryCall
<1>3. CASE FailCall("connection")
  <2>1. clean => link.up = <<>> /\ Coming = <<>>
    BY <1>1 DEF SessionInv, NothingElse
  <2> QED BY <1>3, <2>1, FailCallKeeps
<1> QED BY <1>2, <1>3 DEF SendFails

LEMMA SendTimesOutKeeps ==
    ASSUME SessionInv, SendTimesOut
    PROVE  SessionInv'
<1>1. PICK half \in BOOLEAN : /\ link' = [link EXCEPT !.heard = link.heard /\ ~half]
                              /\ clean' = (clean /\ ~half)
  BY DEF SendTimesOut
<1>2. /\ clean \in BOOLEAN /\ link.heard \in BOOLEAN /\ link.framed \in BOOLEAN
      /\ clean => link.heard /\ link.framed /\ link.up = <<>> /\ Coming = <<>>
  BY SessionFields DEF SessionInv, SessionTypes, NothingElse, SendTimesOut
<1>3. PICK heard \in BOOLEAN : heard = (link.heard /\ ~half)
  BY <1>2
<1>4. link' = [link EXCEPT !.heard = heard, !.framed = link.framed]
  BY <1>1, <1>3 DEF SessionInv, SessionTypes, Links
<1>5. /\ EndCall("timeout", Message(0, "none", <<>>, 0)) /\ stream' = NoStream
      /\ UNCHANGED <<kind, calls, executed>>
  BY DEF SendTimesOut
<1>6. clean' \in BOOLEAN /\ (clean' => clean /\ heard /\ link.framed /\ link.up = <<>> /\ Coming = <<>>)
  BY <1>1, <1>2, <1>3
<1> QED BY <1>2, <1>4, <1>5, <1>6, FailKeeps

LEMMA ReceiveClosedKeeps ==
    ASSUME SessionInv, ReceiveClosed
    PROVE  SessionInv'
<1>1. call.pc \in {"reading", "streaming"} /\ ~link.open /\ link.down = <<>>
  BY DEF ReceiveClosed
<1>2. CASE MayRetry /\ call.pc = "reading" /\ RetryCall
  BY <1>2, ReconnectKeeps DEF RetryCall
<1>3. CASE FailCall("connection")
  <2>1. link.up = <<>> /\ link.out = <<>> /\ <<>> \o <<>> = <<>>
    BY <1>1, NewLinkEmpty DEF SessionInv, ExecutionsCounted
  <2>2. Coming = <<>>
    BY <1>1, <2>1 DEF Coming
  <2> QED BY <1>3, <2>1, <2>2, FailCallKeeps
<1> QED BY <1>2, <1>3 DEF ReceiveClosed

LEMMA ReceiveTimeoutKeeps ==
    ASSUME SessionInv, ReceiveTimeout
    PROVE  SessionInv'
<1>1. PICK half : link' = [link EXCEPT !.framed = link.framed /\ ~half]
  BY DEF ReceiveTimeout
<1>2. link.heard \in BOOLEAN /\ link.framed \in BOOLEAN
  BY SessionFields DEF SessionInv
<1>3. PICK framed \in BOOLEAN : framed = (link.framed /\ ~half)
  BY <1>2
<1>4. link' = [link EXCEPT !.heard = link.heard, !.framed = framed] /\ (framed => link.framed)
  BY <1>1, <1>3 DEF SessionInv, SessionTypes, Links
<1>5. /\ EndCall("timeout", Message(0, "none", <<>>, 0)) /\ stream' = NoStream /\ clean' = FALSE
      /\ UNCHANGED <<kind, calls, executed>>
  BY DEF ReceiveTimeout
<1> QED BY <1>2, <1>4, <1>5, FailKeeps

(* A message is read.                                                         *)
LEMMA TakeMessage ==
    ASSUME SessionInv, NEW m, Take(m)
    PROVE  /\ Coming # <<>> /\ m = Head(Coming) /\ m \in Answers /\ Head(Coming) = Coming[1]
           /\ link'.open = link.open /\ link'.up = link.up /\ link'.out = link.out
           /\ link'.heard = link.heard /\ link'.framed = link.framed
           /\ link' \in Links /\ WholeStreams(Coming')
           /\ m.type = "chunk" => Len(m.rows) > 0
           /\ m.type \in {"start", "chunk"} => Follows(m.to, Upto(m), Coming')
           /\ clean /\ call.pc \in {"reading", "streaming"} =>
                 /\ Awaited /\ link.up = <<>> /\ m.to = call.id /\ executed[call.id] >= 1
                 /\ link.heard /\ link.framed
                 /\ OneAnswer(Coming', call.id, call.op)
                 /\ m.type \in {"start", "chunk", "end"} => call.op = "stream"
                 /\ m.type \notin {"start", "chunk"} => Coming' = <<>>
<1> USE DEF SessionInv
<1>1. link.down # <<>> /\ m = Head(link.down) /\ link' = [link EXCEPT !.down = Tail(link.down)]
  BY DEF Take
<1>2. /\ link.down \in Seq(Answers) /\ link.out \in Seq(Answers) /\ Coming \in Seq(Answers)
      /\ WholeStreams(Coming) /\ link.up \in Seq(Requests)
  BY SessionFields DEF StreamsInOrder
<1>3. /\ link'.open = link.open /\ link'.up = link.up /\ link'.down = Tail(link.down)
      /\ link'.out = link.out /\ link'.heard = link.heard /\ link'.framed = link.framed
  BY <1>1 DEF SessionTypes, Links
<1>4. Coming # <<>> /\ m = Head(Coming) /\ Coming' = Tail(Coming)
  <2>1. CASE link.framed
    <3>1. Coming = link.down \o link.out /\ Coming' = Tail(link.down) \o link.out
      BY <1>3, <2>1 DEF Coming
    <3> QED BY <1>1, <1>2, <3>1, ConcatTail
  <2>2. CASE ~link.framed
    BY <1>1, <1>3, <2>2 DEF Coming
  <2> QED BY <2>1, <2>2
<1>5. /\ m \in Answers /\ WholeStreams(Coming')
      /\ m.type = "chunk" => Len(m.rows) > 0
      /\ m.type \in {"start", "chunk"} => Follows(m.to, Upto(m), Coming')
  BY <1>2, <1>4, WholeTail
<1>6. link' \in Links
  <2>1. Tail(link.down) \in Seq(Answers)
    BY <1>1, <1>2, HeadTailProperties
  <2> QED BY <1>1, <2>1 DEF SessionTypes, Links
<1>7. ASSUME clean, call.pc \in {"reading", "streaming"}
      PROVE  /\ Awaited /\ link.up = <<>> /\ m.to = call.id /\ executed[call.id] >= 1
             /\ link.heard /\ link.framed
             /\ OneAnswer(Coming', call.id, call.op)
             /\ m.type \in {"start", "chunk", "end"} => call.op = "stream"
             /\ m.type \notin {"start", "chunk"} => Coming' = <<>>
  <2>1. Awaited /\ link.heard /\ link.framed
    BY <1>7 DEF NothingElse
  <2>2. link.up = <<>> /\ executed[call.id] >= 1 /\ OneAnswer(Coming, call.id, call.op)
    BY <1>4, <2>1 DEF Awaited
  <2> QED BY <1>2, <1>4, <2>1, <2>2, OneAnswerTail
<1>8. Head(Coming) = Coming[1]
  BY <1>2, <1>4
<1> QED BY <1>3, <1>4, <1>5, <1>6, <1>7, <1>8

LEMMA ReceiveResponseKeeps ==
    ASSUME SessionInv, NEW m, ReceiveResponse(m)
    PROVE  SessionInv'
<1> USE DEF SessionInv
<1>1. /\ call.pc = "reading" /\ Take(m) /\ ~(m.type = "start" /\ call.op = "stream")
      /\ EndCall(Outcome(call.op, m), m) /\ stream' = NoStream
      /\ UNCHANGED <<kind, calls, executed, clean>>
  BY DEF ReceiveResponse
<1>2. /\ Coming # <<>> /\ m = Head(Coming) /\ Head(Coming) = Coming[1] /\ m \in Answers
      /\ link'.open = link.open /\ link'.up = link.up
      /\ link' \in Links /\ WholeStreams(Coming') /\ link'.out = link.out
      /\ link'.heard = link.heard /\ link'.framed = link.framed
      /\ clean => /\ Awaited /\ link.heard /\ link.framed /\ link.up = <<>> /\ m.to = call.id /\ executed[call.id] >= 1
                  /\ m.type \in {"start", "chunk", "end"} => call.op = "stream"
                  /\ m.type \notin {"start", "chunk"} => Coming' = <<>>
  BY <1>1, TakeMessage
<1>3. m.to \in Nat /\ m.total \in Nat
  BY <1>2 DEF Answers
<1>4. Outcome(call.op, m) \in Results /\ (Outcome(call.op, m) = "ok" => m.type = Expected(call.op))
  BY DEF Outcome, Results
<1>5. PICK result \in Results : result = Outcome(call.op, m)
  BY <1>4
<1>6. /\ last' \in [id : 0 .. MaxCalls, op : Ops, result : Results, from : Nat,
                    rows : RowSeqs, total : Nat, clean : BOOLEAN]
      /\ last'.id = call.id /\ last'.op = call.op /\ last'.result = result
      /\ last'.from = m.to /\ last'.clean = clean /\ call' = NoCall
  BY <1>1, <1>3, <1>5, EndedRecord
<1>7. clean => link'.heard /\ link'.framed /\ link'.up = <<>> /\ Coming' = <<>>
  <2> SUFFICES ASSUME clean PROVE Coming' = <<>>
    BY <1>2
  <2>1. m.type # "chunk"
    BY <1>1, <1>2 DEF Awaited
  <2> QED BY <1>1, <1>2, <2>1
<1>8. EndedWell'
  <2>1. ~(call.op = "stream" /\ result = "ok")
    BY <1>1, <1>4, <1>5 DEF Expected
  <2>2. call.id # 0
    BY <1>1 DEF CallNumbered
  <2> QED BY <1>1, <1>2, <1>6, <2>1, <2>2 DEF EndedWell, OwnAnswer, StreamCoherent
<1>9. clean' \in BOOLEAN
  BY <1>1 DEF SessionTypes
<1> QED BY <1>1, <1>2, <1>6, <1>7, <1>8, <1>9, EndKeeps

LEMMA StreamStartsKeeps ==
    ASSUME SessionInv, NEW m, StreamStarts(m)
    PROVE  SessionInv'
<1> USE DEF SessionInv
<1>1. /\ call.pc = "reading" /\ Take(m) /\ m.type = "start" /\ call.op = "stream"
      /\ call' = [call EXCEPT !.pc = "streaming"] /\ stream' = [from |-> m.to, rows |-> <<>>]
      /\ UNCHANGED <<kind, calls, executed, clean, last>>
  BY DEF StreamStarts
<1>2. /\ m \in Answers /\ link'.open = link.open /\ link'.up = link.up
      /\ link' \in Links /\ WholeStreams(Coming') /\ link'.out = link.out
      /\ link'.heard = link.heard /\ link'.framed = link.framed
      /\ Follows(m.to, Upto(m), Coming')
      /\ clean => /\ link.heard /\ link.framed /\ link.up = <<>> /\ m.to = call.id /\ executed[call.id] >= 1
                  /\ OneAnswer(Coming', call.id, call.op)
  BY <1>1, TakeMessage
<1>3. call'.id = call.id /\ call'.op = call.op /\ call'.pc = "streaming" /\ call'.tries = call.tries
  BY <1>1 DEF SessionTypes
<1>4. <<>> \in RowSeqs /\ Len(<<>>) = 0 /\ m.to \in Nat /\ Upto(m) = 0
  BY <1>1, <1>2 DEF RowSeqs, Answers, Upto
<1>5. stream'.from = m.to /\ stream'.rows = <<>> /\ stream' \in [from : Nat, rows : RowSeqs]
  BY <1>1, <1>4
<1>6. SessionTypes'
  <2>1. call' \in [id : 0 .. MaxCalls, op : Ops, pc : Activities, size : Nat, tries : 0 .. 1]
    BY <1>1 DEF SessionTypes, Activities
  <2> QED BY <1>1, <1>2, <1>5, <2>1 DEF SessionTypes
<1>7. StreamsInOrder'
  <2>1. RowsFrom(m.to, 0, 0) \in Seq(Nat \X Nat) /\ Len(RowsFrom(m.to, 0, 0)) = 0
    BY <1>4, RowsFromType DEF RowSeqs
  <2>2. RowsFrom(m.to, 0, 0) = <<>>
    <3>1. PICK r \in Seq(Nat \X Nat) : r = RowsFrom(m.to, 0, 0)
      BY <2>1
    <3>2. r = <<>>
      BY <2>1, <3>1
    <3> QED BY <3>1, <3>2
  <2> QED BY <1>2, <1>4, <1>5, <2>2 DEF StreamsInOrder
<1>8. CallNumbered'
  BY <1>1, <1>3 DEF CallNumbered
<1>9. ASSUME NEW i \in 1 .. Len(link.up) PROVE UpOnce(i)'
  <2>1. UpOnce(i)
    BY DEF ExecutionsCounted
  <2> QED BY <1>1, <1>2, <1>3, <2>1 DEF UpOnce
<1>10. ExecutionsCounted'
  BY <1>1, <1>2, <1>3, <1>9 DEF ExecutionsCounted
<1>11. NothingElse'
  <2> SUFFICES ASSUME clean PROVE link'.heard /\ link'.framed /\ Awaited'
    BY <1>1, <1>3 DEF NothingElse
  <2>1. link'.up = <<>> /\ Len(<<>>) = 0
    BY <1>2, <1>4
  <2>2. link'.heard /\ link'.framed
    BY <1>2
  <2> QED BY <1>1, <1>2, <1>3, <1>5, <2>1, <2>2 DEF Awaited
<1>12. EndedWell'
  BY <1>1 DEF EndedWell, OwnAnswer, StreamCoherent
<1> QED BY <1>6, <1>7, <1>8, <1>10, <1>11, <1>12

(* The message read while streaming continues the stream, whether the client  *)
(* compares its number or not.                                                *)
LEMMA StreamMessageKeeps ==
    ASSUME SessionInv, NEW m, NEW belongs, belongs = TRUE \/ belongs = (m.to = stream.from),
           StreamMessage(m, belongs), UNCHANGED kind
    PROVE  SessionInv'
<1> USE DEF SessionInv
<1>1. call.pc = "streaming" /\ Take(m) /\ UNCHANGED <<kind, calls, executed>>
  BY DEF StreamMessage
<1>2. /\ Coming # <<>> /\ m = Head(Coming) /\ Head(Coming) = Coming[1] /\ m \in Answers
      /\ link'.open = link.open /\ link'.up = link.up
      /\ link' \in Links /\ WholeStreams(Coming') /\ link'.out = link.out
      /\ link'.heard = link.heard /\ link'.framed = link.framed
      /\ m.type = "chunk" => Len(m.rows) > 0
      /\ m.type \in {"start", "chunk"} => Follows(m.to, Upto(m), Coming')
      /\ clean => /\ Awaited /\ link.heard /\ link.framed /\ link.up = <<>> /\ m.to = call.id /\ executed[call.id] >= 1
                  /\ OneAnswer(Coming', call.id, call.op)
                  /\ m.type \notin {"start", "chunk"} => Coming' = <<>>
  BY <1>1, TakeMessage
<1>3. m.to \in Nat /\ m.total \in Nat /\ m.rows \in RowSeqs
  BY <1>2 DEF Answers
<1>4. PICK k \in Nat : k = Len(stream.rows)
  BY SessionFields DEF RowSeqs
<1>5. PICK f \in Nat : f = stream.from
  BY SessionFields
<1>6. (m.type \in Parts => Continues(f, k, m)) /\ stream.rows = RowsFrom(f, 0, k)
  BY <1>1, <1>2, <1>4, <1>5 DEF StreamsInOrder, Follows
<1>7. m.type \in Parts => m.to = f /\ belongs /\ Continues(f, k, m)
  BY <1>5, <1>6 DEF Continues
<1>8. CASE m.type = "chunk"
  <2>1. /\ stream' = [stream EXCEPT !.rows = stream.rows \o m.rows]
        /\ UNCHANGED <<call, last, clean>>
    BY <1>7, <1>8 DEF StreamMessage, Parts
  <2>2. PICK l \in Nat : l = Len(m.rows)
    BY <1>3 DEF RowSeqs
  <2>3. l > 0 /\ m.rows = RowsFrom(f, k, l)
    BY <1>2, <1>7, <1>8, <2>2 DEF Continues, Parts
  <2>4. stream.rows \o m.rows = RowsFrom(f, 0, k + l)
    BY <1>6, <2>3, RowsFromConcat
  <2>5. RowsFrom(f, 0, k + l) \in RowSeqs /\ Len(RowsFrom(f, 0, k + l)) = k + l
    BY RowsFromType
  <2>6. /\ stream'.from = f /\ stream'.rows = RowsFrom(f, 0, k + l)
        /\ stream' \in [from : Nat, rows : RowSeqs]
    BY <1>5, <2>1, <2>4, <2>5 DEF SessionTypes
  <2>7. Upto(m) = k + l
    <3>1. RowsFrom(f, k, l)[l][2] = k + l
      BY <2>3, RowsFromLast
    <3> QED BY <1>8, <2>2, <2>3, <3>1 DEF Upto
  <2>8. SessionTypes'
    BY <1>1, <1>2, <2>1, <2>6 DEF SessionTypes
  <2>9. StreamsInOrder'
    BY <1>1, <1>2, <1>7, <1>8, <2>1, <2>5, <2>6, <2>7 DEF StreamsInOrder, Parts
  <2>10. CallNumbered' /\ EndedWell'
    BY <1>1, <2>1 DEF CallNumbered, EndedWell, OwnAnswer, StreamCoherent
  <2>11. ExecutionsCounted'
    <3>1. ASSUME NEW i \in 1 .. Len(link.up) PROVE UpOnce(i)'
      <4>1. UpOnce(i)
        BY DEF ExecutionsCounted
      <4> QED BY <1>1, <1>2, <2>1, <4>1 DEF UpOnce
    <3> QED BY <1>1, <1>2, <2>1, <3>1 DEF ExecutionsCounted
  <2>12. NothingElse'
    <3> SUFFICES ASSUME clean PROVE link'.heard /\ link'.framed /\ Awaited'
      BY <1>1, <2>1 DEF NothingElse
    <3>1. link'.up = <<>> /\ Len(<<>>) = 0
      BY <1>2
    <3>2. stream'.from = call.id
      BY <1>2, <1>7, <1>8, <2>6 DEF Parts
    <3>3. link'.heard /\ link'.framed
      BY <1>2
    <3> QED BY <1>1, <1>2, <2>1, <3>1, <3>2, <3>3 DEF Awaited
  <2> QED BY <2>8, <2>9, <2>10, <2>11, <2>12
<1>9. CASE m.type = "end"
  <2>1. EndCall("ok", m) /\ stream' = NoStream /\ clean' = (clean /\ TRUE)
    BY <1>7, <1>9 DEF StreamMessage, Parts
  <2>2. /\ last' \in [id : 0 .. MaxCalls, op : Ops, result : Results, from : Nat,
                      rows : RowSeqs, total : Nat, clean : BOOLEAN]
        /\ last'.id = call.id /\ last'.op = call.op /\ last'.result = "ok"
        /\ last'.from = m.to /\ last'.rows = stream.rows /\ last'.total = m.total
        /\ last'.clean = clean /\ call' = NoCall
    <3>1. "ok" \in Results
      BY DEF Results
    <3> QED BY <1>3, <2>1, <3>1, EndedRecord
  <2>3. clean' \in BOOLEAN /\ clean' = clean
    BY <2>1 DEF SessionTypes
  <2>4. EndedWell'
    <3>1. m.total = k /\ stream.rows = [i \in 1 .. k |-> <<f, 0 + i>>]
      BY <1>6, <1>7, <1>9 DEF Continues, RowsFrom, Parts
    <3>2. stream.rows = [i \in 1 .. k |-> <<f, i>>]
      BY <3>1
    <3>3. StreamCoherent'
      BY <1>7, <1>9, <2>2, <3>1, <3>2 DEF StreamCoherent, Parts
    <3>4. call.id # 0
      BY <1>1 DEF CallNumbered
    <3>5. OwnAnswer'
      BY <1>1, <1>2, <2>2 DEF OwnAnswer
    <3> QED BY <2>2, <3>3, <3>4, <3>5 DEF EndedWell
  <2>5. clean' => link'.heard /\ link'.framed /\ link'.up = <<>> /\ Coming' = <<>>
    BY <1>1, <1>2, <1>9, <2>3
  <2> QED BY <1>1, <1>2, <2>1, <2>2, <2>3, <2>4, <2>5, EndKeeps
<1>10. CASE m.type \notin Parts
  <2>1. PICK result \in {"server", "protocol"} : EndCall(result, m)
    BY <1>10 DEF StreamMessage, Parts
  <2>2. stream' = NoStream /\ clean' = (clean /\ m.type \in {"end", "error"})
    BY <1>10 DEF StreamMessage, Parts
  <2>3. /\ last' \in [id : 0 .. MaxCalls, op : Ops, result : Results, from : Nat,
                      rows : RowSeqs, total : Nat, clean : BOOLEAN]
        /\ last'.result = result /\ call' = NoCall
    <3>1. result \in Results
      BY DEF Results
    <3> QED BY <1>3, <2>1, <3>1, EndedRecord
  <2>4. EndedWell'
    BY <2>3 DEF EndedWell, OwnAnswer, StreamCoherent
  <2>5. clean' \in BOOLEAN /\ (clean' => clean /\ m.type \notin {"start", "chunk"})
    BY <2>2 DEF SessionTypes
  <2>6. clean' => link'.heard /\ link'.framed /\ link'.up = <<>> /\ Coming' = <<>>
    BY <1>1, <1>2, <2>5
  <2> QED BY <1>1, <1>2, <2>2, <2>3, <2>4, <2>5, <2>6, EndKeeps
<1> QED BY <1>8, <1>9, <1>10 DEF Parts

LEMMA DisconnectKeeps ==
    ASSUME SessionInv, Disconnect
    PROVE  SessionInv'
<1> USE DEF SessionInv
<1>1. /\ call.pc = "idle" /\ call' = [NoCall EXCEPT !.pc = "closed"]
      /\ link' = [link EXCEPT !.open = FALSE, !.up = <<>>, !.out = <<>>, !.down = <<>>]
      /\ UNCHANGED <<kind, calls, executed, stream, clean, last>>
  BY DEF Disconnect
<1>2. /\ call'.id = 0 /\ call'.pc = "closed" /\ call'.tries = 0
      /\ call' \in [id : 0 .. MaxCalls, op : Ops, pc : Activities, size : Nat, tries : 0 .. 1]
  BY <1>1, SessionAssumption DEF NoCall, Ops, Activities
<1>3. /\ link'.up = <<>> /\ link'.out = <<>> /\ Coming' = <<>> /\ link'.open = FALSE /\ Len(<<>>) = 0
      /\ link' \in Links /\ WholeStreams(<<>>)
      /\ link'.heard = link.heard /\ link'.framed = link.framed
  <2>1. <<>> \in Seq(Requests) /\ <<>> \in Seq(Answers)
    OBVIOUS
  <2>2. /\ link'.up = <<>> /\ link'.out = <<>> /\ link'.down = <<>> /\ link'.open = FALSE
        /\ link'.heard = link.heard /\ link'.framed = link.framed /\ link' \in Links
    BY <1>1, <2>1 DEF SessionTypes, Links
  <2> QED BY <2>2, NewLinkEmpty DEF Coming
<1>4. SessionTypes'
  BY <1>1, <1>2, <1>3 DEF SessionTypes
<1>5. StreamsInOrder' /\ CallNumbered' /\ NothingElse' /\ EndedWell'
  BY <1>1, <1>2, <1>3 DEF StreamsInOrder, CallNumbered, NothingElse, EndedWell, OwnAnswer, StreamCoherent
<1>6. ExecutionsCounted'
  BY <1>1, <1>2, <1>3 DEF ExecutionsCounted
<1> QED BY <1>4, <1>5, <1>6
-----------------------------------------------------------------------------
LEMMA SessionInvInit == SessionInit => SessionInv
<1> SUFFICES ASSUME SessionInit PROVE SessionInv
  OBVIOUS
<1> USE DEF SessionInit
<1>1. /\ link \in Links /\ link.up = <<>> /\ link.open = TRUE /\ link.heard /\ link.framed
      /\ Coming = <<>> /\ WholeStreams(Coming) /\ Len(<<>>) = 0
  BY NewLinkEmpty DEF Coming
<1>2. <<>> \in RowSeqs /\ MaxCalls \in Nat
  BY SessionAssumption DEF RowSeqs
<1>3. /\ call \in [id : 0 .. MaxCalls, op : Ops, pc : Activities, size : Nat, tries : 0 .. 1]
      /\ call.id = 0 /\ call.pc = "idle" /\ call.tries = 0
  BY <1>2 DEF NoCall, Ops, Activities
<1>4. /\ last \in [id : 0 .. MaxCalls, op : Ops, result : Results, from : Nat, rows : RowSeqs,
                   total : Nat, clean : BOOLEAN]
      /\ last.result = "none"
  BY <1>2 DEF NoEnd, Ops, Results
<1>5. SessionTypes
  BY <1>1, <1>2, <1>3, <1>4 DEF SessionTypes, NoStream
<1>6. StreamsInOrder /\ CallNumbered /\ NothingElse /\ EndedWell
  BY <1>1, <1>3, <1>4
     DEF StreamsInOrder, CallNumbered, NothingElse, EndedWell, OwnAnswer, StreamCoherent
<1>7. ExecutionsCounted
  BY <1>1, <1>3 DEF ExecutionsCounted
<1> QED BY <1>5, <1>6, <1>7 DEF SessionInv

LEMMA SessionInvNext == SessionInv /\ [SessionNext]_sessionVars => SessionInv'
<1> SUFFICES ASSUME SessionInv, [SessionNext]_sessionVars PROVE SessionInv'
  OBVIOUS
<1>1. ASSUME NEW n \in 0 .. MaxRows, Serve(n) PROVE SessionInv'
  BY <1>1, ServeKeeps
<1>2. CASE ServerIdles
  BY <1>2, ServerIdlesKeeps
<1>3. CASE ConnectionLost
  BY <1>3, ConnectionLostKeeps
<1>4. ASSUME NEW op \in Ops, NEW size \in ChunkSizes \cup {0}, StartCall(op, size)
      PROVE  SessionInv'
  BY <1>4, StartCallKeeps
<1>5. CASE SendRequest
  BY <1>5, SendRequestKeeps
<1>6. CASE SendAgain
  BY <1>6, SendAgainKeeps
<1>7. CASE SendFails
  BY <1>7, SendFailsKeeps
<1>8. CASE ReceiveClosed
  BY <1>8, ReceiveClosedKeeps
<1>9. CASE ReceiveTimeout
  BY <1>9, ReceiveTimeoutKeeps
<1>10. CASE Disconnect
  BY <1>10, DisconnectKeeps
<1>11. ASSUME NEW m, ReceiveResponse(m) PROVE SessionInv'
  BY <1>11, ReceiveResponseKeeps
<1>12. ASSUME NEW m, StreamStarts(m) PROVE SessionInv'
  BY <1>12, StreamStartsKeeps
<1>13. ASSUME NEW m, NextChunk(m) PROVE SessionInv'
  <2>1. PICK belongs : belongs = (m.to = stream.from)
    OBVIOUS
  <2>2. StreamMessage(m, belongs)
    BY <1>13, <2>1 DEF NextChunk
  <2>3. UNCHANGED kind
    BY <2>2 DEF StreamMessage
  <2> QED BY <2>1, <2>2, <2>3, StreamMessageKeeps
<1>14. ASSUME NEW m, YieldChunk(m) \/ YieldChunkAsync(m) PROVE SessionInv'
  <2>1. StreamMessage(m, TRUE)
    BY <1>14 DEF YieldChunk, YieldChunkAsync
  <2>2. UNCHANGED kind
    BY <2>1 DEF StreamMessage
  <2> QED BY <2>1, <2>2, StreamMessageKeeps
<1>17. CASE SendResponse
  BY <1>17, SendResponseKeeps
<1>18. CASE StreamWriteTimesOut
  BY <1>18, StreamWriteTimesOutKeeps
<1>19. CASE SendTimesOut
  BY <1>19, SendTimesOutKeeps
<1>15. CASE UNCHANGED sessionVars
  <2>1. UNCHANGED <<kind, link, call, calls, executed, stream, clean, last>>
    BY <1>15 DEF sessionVars
  <2>2. SessionTypes' /\ Coming' = Coming /\ CallNumbered'
    BY <2>1 DEF SessionInv, SessionTypes, Coming, CallNumbered
  <2>3. StreamsInOrder' /\ NothingElse'
    BY <2>1, <2>2 DEF SessionInv, StreamsInOrder, NothingElse, Awaited
  <2>4. ExecutionsCounted' /\ EndedWell'
    BY <2>1 DEF SessionInv, ExecutionsCounted, UpOnce, EndedWell, OwnAnswer, StreamCoherent
  <2> QED BY <2>2, <2>3, <2>4 DEF SessionInv
<1>16. CASE SessionNext
  BY <1>1, <1>2, <1>3, <1>4, <1>5, <1>6, <1>7, <1>8, <1>9, <1>10, <1>11, <1>12, <1>13, <1>14, <1>16,
     <1>17, <1>18, <1>19 DEF SessionNext
<1> QED BY <1>15, <1>16

(* In every session of a client with a server, whatever is lost or late: a    *)
(* call that succeeds on a connection nobody gave up on got its own answer, a *)
(* retried statement is executed at most twice and any other at most once,    *)
(* and a stream that ends well was handed over whole and in order.            *)
THEOREM CallsAlwaysCoherent == SessionSpec => []CallsCoherent
<1>1. SessionInv => CallsCoherent
  <2> SUFFICES ASSUME SessionInv PROVE CallsCoherent
    OBVIOUS
  <2> USE DEF SessionInv
  <2>1. SessionTypeOK
    BY DEF SessionTypeOK, SessionTypes, Activities
  <2>2. ExecutedAtMost
    <3> SUFFICES ASSUME call.id # 0
                 PROVE  executed[call.id] <= IF kind = "rust" /\ call.op \in {"query", "ping"} THEN 2 ELSE 1
      BY DEF ExecutedAtMost
    <3>1. /\ call.tries \in 0 .. 1 /\ executed[call.id] <= call.tries + 1
          /\ call.id \in 1 .. MaxCalls /\ executed[call.id] \in 0 .. 2
      BY SessionFields, SessionAssumption DEF ExecutionsCounted, SessionTypes
    <3> QED BY <3>1 DEF CallNumbered
  <2> QED BY <2>1, <2>2 DEF CallsCoherent, EndedWell
<1> QED BY <1>1, SessionInvInit, SessionInvNext, PTL DEF SessionSpec
=============================================================================
