-------------------------- MODULE LockManagerProofs --------------------------
(***************************************************************************)
(* Proofs about LockManager for every set of transactions, resources and   *)
(* requests: the lock table is well typed, locks exclude each other, and   *)
(* nobody waits on a free lock or in a circle that no member notices.      *)
(***************************************************************************)
EXTENDS LockManager, FiniteSetTheorems, WellFoundedInduction, TLAPS

Waiter == [tx : Txs, mode : Modes]
LockInfo == [mode : Modes, holders : SUBSET Txs, waiting : Seq(Waiter)]

-----------------------------------------------------------------------------
(* What the operations do to a single lock *)

\* Removing a transaction from a queue leaves a queue.
LEMMA WithoutType ==
    ASSUME NEW w \in Seq(Waiter), NEW t
    PROVE  Without(w, t) \in Seq(Waiter)
<1>1. CASE \E i \in DOMAIN w : w[i].tx = t
  <2> DEFINE i == CHOOSE i \in DOMAIN w : w[i].tx = t
  <2>1. i \in 1..Len(w)
    BY <1>1
  <2>2. Without(w, t) = [j \in 1..(Len(w) - 1) |-> IF j < i THEN w[j] ELSE w[j + 1]]
    BY <1>1 DEF Without
  <2>3. Len(w) - 1 \in Nat
    BY <2>1
  <2>4. \A j \in 1..(Len(w) - 1) : w[j] \in Waiter /\ w[j + 1] \in Waiter
    OBVIOUS
  <2> HIDE DEF i
  <2> QED BY <2>1, <2>2, <2>3, <2>4
<1>2. CASE ~ \E i \in DOMAIN w : w[i].tx = t
  BY <1>2 DEF Without
<1> QED BY <1>1, <1>2

\* A lock that loses a holder is a lock; its other holders stay, or it is free of
\* them and has at most one new holder, the first waiter.
LEMMA VacateLock ==
    ASSUME NEW l \in LockInfo, NEW t
    PROVE  /\ Vacate(l, t) \in LockInfo
           /\ \/ /\ Vacate(l, t).mode = l.mode
                 /\ Vacate(l, t).holders = l.holders \ {t}
              \/ /\ l.holders \ {t} = {}
                 /\ \A u, v \in Vacate(l, t).holders : u = v
<1>1. CASE l.holders \ {t} = {} /\ l.waiting # <<>>
  <2>1. Head(l.waiting) \in Waiter /\ Tail(l.waiting) \in Seq(Waiter)
    BY <1>1 DEF LockInfo
  <2>2. Vacate(l, t) = [mode |-> Head(l.waiting).mode, holders |-> {Head(l.waiting).tx},
                        waiting |-> Tail(l.waiting)]
    BY <1>1 DEF Vacate
  <2> QED BY <1>1, <2>1, <2>2 DEF LockInfo, Waiter
<1>2. CASE ~ (l.holders \ {t} = {} /\ l.waiting # <<>>)
  <2>1. Vacate(l, t) = [l EXCEPT !.holders = l.holders \ {t}]
    BY <1>2 DEF Vacate
  <2> QED BY <2>1 DEF LockInfo
<1> QED BY <1>1, <1>2

\* A granted lock has the new holder and otherwise the old ones.
LEMMA GrantedLock ==
    ASSUME NEW l \in LockInfo, NEW t \in Txs, NEW m \in Modes
    PROVE  /\ Granted(l, m, t) \in LockInfo
           /\ Granted(l, m, t).holders = l.holders \cup {t}
           /\ Granted(l, m, t).mode = IF m = "Write" \/ l.holders = {} THEN m ELSE l.mode
BY DEF LockInfo, Granted

-----------------------------------------------------------------------------
(* Types *)

\* Every entry of the table is a lock.
LEMMA LockAt ==
    ASSUME TypeOK, NEW r \in Resources
    PROVE  lock[r] \in LockInfo
BY DEF TypeOK, LockInfo, Waiter

\* One turn of acquire_lock keeps the table well typed.
LEMMA TurnType ==
    ASSUME TypeOK, NEW t \in Txs, NEW r \in Resources, NEW m \in Modes, Turn(t, r, m)
    PROVE  TypeOK'
<1> USE DEF TypeOK, Modes
<1>1. CASE Refuse(t)
  BY <1>1 DEF Refuse
<1>2. CASE Grant(t, r, m)
  <2>1. Granted(lock[r], m, t) \in LockInfo
    BY GrantedLock DEF LockInfo, Waiter
  <2>2. lock' \in [Resources -> LockInfo]
    BY <1>2, <2>1 DEF Grant, LockInfo, Waiter
  <2>3. held' \in [Txs -> [Resources -> Modes \cup {"None"}]]
    BY <1>2 DEF Grant
  <2> QED BY <1>2, <2>2, <2>3 DEF Grant, LockInfo, Waiter
<1>3. CASE Wait(t, r, m)
  <2>1. Append(lock[r].waiting, [tx |-> t, mode |-> m]) \in Seq(Waiter)
    <3>1. lock[r].waiting \in Seq(Waiter)
      BY LockAt DEF LockInfo
    <3>2. [tx |-> t, mode |-> m] \in Waiter
      BY DEF Waiter
    <3> HIDE DEF TypeOK, Modes
    <3> QED BY <3>1, <3>2
  <2>2. [lock[r] EXCEPT !.waiting = Append(lock[r].waiting, [tx |-> t, mode |-> m])]
          \in LockInfo
    BY <2>1, LockAt DEF LockInfo
  <2>3. lock' \in [Resources -> LockInfo]
    <3>1. lock \in [Resources -> LockInfo]
      BY DEF LockInfo, Waiter
    <3>2. CASE Queued(lock[r], t)
      BY <1>3, <3>1, <3>2 DEF Wait
    <3>3. CASE ~ Queued(lock[r], t)
      <4>1. lock' = [lock EXCEPT ![r] = [lock[r] EXCEPT !.waiting =
                        Append(lock[r].waiting, [tx |-> t, mode |-> m])]]
        BY <1>3, <3>3 DEF Wait
      <4> HIDE DEF TypeOK
      <4> QED BY <2>2, <3>1, <4>1
    <3> QED BY <3>2, <3>3
  <2>4. Call(r, m) \in [busy : {TRUE}, res : Resources, mode : Modes]
    BY DEF Call
  <2> QED BY <1>3, <2>3, <2>4 DEF Wait, LockInfo, Waiter
<1> QED BY <1>1, <1>2, <1>3 DEF Turn

\* A busy call names a resource and a mode.
LEMMA BusyCall ==
    ASSUME TypeOK, NEW t \in Txs, call[t].busy
    PROVE  call[t].res \in Resources /\ call[t].mode \in Modes
<1>1. call[t] = NoCall \/ call[t] \in [busy : {TRUE}, res : Resources, mode : Modes]
  BY DEF TypeOK
<1>2. ~ NoCall.busy
  BY DEF NoCall
<1>3. call[t] # NoCall
  BY <1>2
<1> QED BY <1>1, <1>3

\* Every step of the lock manager keeps the types.
LEMMA TypeStep == TypeOK /\ [Next]_vars => TypeOK'
<1> SUFFICES ASSUME TypeOK, [Next]_vars PROVE TypeOK'
  OBVIOUS
<1>1. ASSUME NEW t \in Txs, NEW r \in Resources, NEW m \in Modes, AcquireLock(t, r, m)
      PROVE  TypeOK'
  BY <1>1, TurnType DEF AcquireLock
<1>2. ASSUME NEW t \in Txs, Retry(t) PROVE TypeOK'
  BY <1>2, TurnType, BusyCall DEF Retry
<1>3. ASSUME NEW t \in Txs, LockTimeout(t) PROVE TypeOK'
  <2>1. Without(lock[call[t].res].waiting, t) \in Seq(Waiter)
    BY <1>3, BusyCall, WithoutType DEF TypeOK, LockTimeout, Waiter
  <2> QED BY <1>3, <2>1, BusyCall DEF LockTimeout, TypeOK, Waiter
<1>4. ASSUME NEW t \in Txs, NEW r \in Resources, ReleaseLock(t, r) PROVE TypeOK'
  <2>1. Vacate(lock[r], t) \in LockInfo
    BY VacateLock DEF TypeOK, LockInfo, Waiter
  <2> QED BY <1>4, <2>1 DEF ReleaseLock, TypeOK, LockInfo, Waiter
<1>5. ASSUME NEW t \in Txs, Finish(t) PROVE TypeOK'
  <2>1. \A r \in Resources : Vacate(lock[r], t) \in LockInfo
    BY VacateLock DEF TypeOK, LockInfo, Waiter
  <2> QED BY <1>5, <2>1 DEF Finish, TypeOK, LockInfo, Waiter, Nothing
<1>6. CASE UNCHANGED vars
  BY <1>6 DEF vars, TypeOK
<1> QED BY <1>1, <1>2, <1>3, <1>4, <1>5, <1>6 DEF Next

\* The lock table, the transactions and the calls of TransactionManager stay in
\* their types.
THEOREM TypeCorrect == Spec => []TypeOK
<1>1. Init => TypeOK
  BY DEF Init, TypeOK, Modes, Unlocked, Nothing
<1> QED BY <1>1, TypeStep, PTL DEF Spec

-----------------------------------------------------------------------------
(* Exclusion *)

\* A turn grants only what is compatible with the holders.
LEMMA TurnExclusive ==
    ASSUME TypeOK, LockInv, NEW t \in Txs, NEW r \in Resources, NEW m \in Modes,
           Turn(t, r, m)
    PROVE  LockInv'
<1>1. CASE Refuse(t)
  BY <1>1 DEF Refuse, LockInv
<1>2. CASE Grant(t, r, m)
  <2> SUFFICES ASSUME NEW q \in Resources
               PROVE  /\ \A u \in Txs : held'[u][q] # "None" => u \in lock'[q].holders
                      /\ \A u \in Txs : held'[u][q] = "Write" => lock'[q].mode = "Write"
                      /\ lock'[q].mode = "Write" => \A u, v \in lock'[q].holders : u = v
    BY DEF LockInv
  <2>1. CASE q # r
    <3>1. lock'[q] = lock[q] /\ \A u \in Txs : held'[u][q] = held[u][q]
      BY <1>2, <2>1 DEF Grant, TypeOK
    <3> QED BY <3>1 DEF LockInv
  <2>2. CASE q = r
    <3>1. lock'[r] = Granted(lock[r], m, t)
      BY <1>2 DEF Grant, TypeOK
    <3>2. /\ lock'[r].holders = lock[r].holders \cup {t}
          /\ lock'[r].mode = IF m = "Write" \/ lock[r].holders = {} THEN m
                             ELSE lock[r].mode
      BY <3>1, GrantedLock, LockAt
    <3>3. held'[t][r] = IF held[t][r] = "Write" THEN "Write" ELSE m
      BY <1>2 DEF Grant, TypeOK
    <3>4. \A u \in Txs \ {t} : held'[u][r] = held[u][r]
      BY <1>2 DEF Grant, TypeOK
    <3>5. CanGrant(lock[r], m, t)
      BY <1>2 DEF Grant
    <3>6. \A u \in Txs : held'[u][r] # "None" => u \in lock'[r].holders
      BY <3>2, <3>4 DEF LockInv
    <3>7. lock[r].mode \in Modes /\ \A u \in Txs : held[u][r] \in Modes \cup {"None"}
      BY DEF TypeOK
    <3>8. \A u \in Txs : held'[u][r] = "Write" => lock'[r].mode = "Write"
      BY <3>2, <3>3, <3>4, <3>7 DEF LockInv, Modes
    <3>9. lock'[r].mode = "Write" => \A u, v \in lock'[r].holders : u = v
      BY <3>2, <3>5, <3>7 DEF LockInv, CanGrant, Modes
    <3> QED BY <2>2, <3>6, <3>8, <3>9
  <2> QED BY <2>1, <2>2
<1>3. CASE Wait(t, r, m)
  <2>1. \A q \in Resources : lock'[q].holders = lock[q].holders /\ lock'[q].mode = lock[q].mode
    BY <1>3 DEF Wait, TypeOK
  <2> QED BY <1>3, <2>1 DEF Wait, LockInv
<1> QED BY <1>1, <1>2, <1>3 DEF Turn

\* Giving up a lock of which t believes nothing any more keeps the invariant for
\* that lock.
LEMMA VacateExclusive ==
    ASSUME TypeOK, LockInv, NEW t \in Txs, NEW r \in Resources,
           lock'[r] = Vacate(lock[r], t), held'[t][r] = "None",
           \A u \in Txs \ {t} : held'[u][r] = held[u][r]
    PROVE  /\ \A u \in Txs : held'[u][r] # "None" => u \in lock'[r].holders
           /\ \A u \in Txs : held'[u][r] = "Write" => lock'[r].mode = "Write"
           /\ lock'[r].mode = "Write" => \A u, v \in lock'[r].holders : u = v
<1>1. \A u \in Txs : held'[u][r] # "None" =>
          /\ u # t /\ held'[u][r] = held[u][r]
          /\ u \in lock[r].holders \ {t}
  BY DEF LockInv
<1>2. CASE lock'[r].mode = lock[r].mode /\ lock'[r].holders = lock[r].holders \ {t}
  BY <1>1, <1>2 DEF LockInv
<1>3. CASE lock[r].holders \ {t} = {} /\ \A u, v \in lock'[r].holders : u = v
  BY <1>1, <1>3
<1>4. lock[r] \in LockInfo
  BY DEF TypeOK, LockInfo, Waiter
<1> QED BY <1>2, <1>3, <1>4, VacateLock

\* Every step of the lock manager keeps the agreement of callers and table.
LEMMA LockStep == TypeOK /\ LockInv /\ [Next]_vars => LockInv'
<1> SUFFICES ASSUME TypeOK, LockInv, [Next]_vars PROVE LockInv'
  OBVIOUS
<1>1. ASSUME NEW t \in Txs, NEW r \in Resources, NEW m \in Modes, AcquireLock(t, r, m)
      PROVE  LockInv'
  BY <1>1, TurnExclusive DEF AcquireLock
<1>2. ASSUME NEW t \in Txs, Retry(t) PROVE LockInv'
  BY <1>2, TurnExclusive, BusyCall DEF Retry
<1>3. ASSUME NEW t \in Txs, LockTimeout(t) PROVE LockInv'
  <2>1. \A q \in Resources : lock'[q].holders = lock[q].holders /\ lock'[q].mode = lock[q].mode
    BY <1>3, BusyCall DEF LockTimeout, TypeOK
  <2> QED BY <1>3, <2>1 DEF LockTimeout, LockInv
<1>4. ASSUME NEW t \in Txs, NEW r \in Resources, ReleaseLock(t, r) PROVE LockInv'
  <2> SUFFICES ASSUME NEW q \in Resources
               PROVE  /\ \A u \in Txs : held'[u][q] # "None" => u \in lock'[q].holders
                      /\ \A u \in Txs : held'[u][q] = "Write" => lock'[q].mode = "Write"
                      /\ lock'[q].mode = "Write" => \A u, v \in lock'[q].holders : u = v
    BY DEF LockInv
  <2>1. CASE q # r
    <3>1. lock'[q] = lock[q] /\ \A u \in Txs : held'[u][q] = held[u][q]
      BY <1>4, <2>1 DEF ReleaseLock, TypeOK
    <3> QED BY <3>1 DEF LockInv
  <2>2. CASE q = r
    <3>1. /\ lock'[q] = Vacate(lock[q], t) /\ held'[t][q] = "None"
          /\ \A u \in Txs \ {t} : held'[u][q] = held[u][q]
      BY <1>4, <2>2 DEF ReleaseLock, TypeOK
    <3> QED BY <3>1, VacateExclusive
  <2> QED BY <2>1, <2>2
<1>5. ASSUME NEW t \in Txs, Finish(t) PROVE LockInv'
  <2> SUFFICES ASSUME NEW q \in Resources
               PROVE  /\ \A u \in Txs : held'[u][q] # "None" => u \in lock'[q].holders
                      /\ \A u \in Txs : held'[u][q] = "Write" => lock'[q].mode = "Write"
                      /\ lock'[q].mode = "Write" => \A u, v \in lock'[q].holders : u = v
    BY DEF LockInv
  <2>1. held'[t][q] = "None" /\ \A u \in Txs \ {t} : held'[u][q] = held[u][q]
    BY <1>5 DEF Finish, TypeOK, Nothing
  <2>2. CASE held[t][q] # "None"
    <3>1. lock'[q] = Vacate(lock[q], t)
      BY <1>5, <2>2 DEF Finish
    <3> QED BY <2>1, <3>1, VacateExclusive
  <2>3. CASE held[t][q] = "None"
    <3>1. lock'[q] = lock[q]
      BY <1>5, <2>3 DEF Finish
    <3> QED BY <2>1, <2>3, <3>1 DEF LockInv
  <2> QED BY <2>2, <2>3
<1>6. CASE UNCHANGED vars
  BY <1>6 DEF vars, LockInv
<1> QED BY <1>1, <1>2, <1>3, <1>4, <1>5, <1>6 DEF Next

\* What callers of acquire_lock believe agrees with the table in every state.
THEOREM LockInvariant == Spec => []LockInv
<1>1. Init => TypeOK /\ LockInv
  BY DEF Init, TypeOK, LockInv, Modes, Unlocked, Nothing
<1>2. TypeOK /\ LockInv /\ [Next]_vars => (TypeOK /\ LockInv)'
  BY TypeStep, LockStep
<1> QED BY <1>1, <1>2, PTL DEF Spec

\* An exclusive lock granted by acquire_lock excludes every other caller, for any
\* number of transactions and resources and any order of grants, timeouts,
\* deadlock errors, releases, commits and rollbacks.
THEOREM Exclusion == Spec => []MutualExclusion
<1>1. LockInv => MutualExclusion
  BY DEF LockInv, MutualExclusion
<1> QED BY <1>1, LockInvariant, PTL

-----------------------------------------------------------------------------
(* Waiting *)

\* Taking one transaction out of a queue leaves the others in it, and an empty
\* queue empty.
LEMMA WithoutOthers ==
    ASSUME NEW w \in Seq(Waiter), NEW t
    PROVE  /\ \A u : u # t /\ (\E i \in DOMAIN w : w[i].tx = u)
                => \E i \in DOMAIN Without(w, t) : Without(w, t)[i].tx = u
           /\ w = <<>> => Without(w, t) = <<>>
<1>1. CASE \E i \in DOMAIN w : w[i].tx = t
  <2> DEFINE i == CHOOSE i \in DOMAIN w : w[i].tx = t
  <2>1. i \in 1..Len(w) /\ w[i].tx = t
    BY <1>1
  <2>2. Without(w, t) = [j \in 1..(Len(w) - 1) |-> IF j < i THEN w[j] ELSE w[j + 1]]
    BY <1>1 DEF Without
  <2> HIDE DEF i
  <2>3. ASSUME NEW u, u # t, NEW k \in DOMAIN w, w[k].tx = u
        PROVE  \E j \in DOMAIN Without(w, t) : Without(w, t)[j].tx = u
    <3>1. k \in 1..Len(w) /\ k # i /\ Len(w) \in Nat
      BY <2>1, <2>3
    <3>2. CASE k < i
      <4>1. k \in 1..(Len(w) - 1)
        BY <2>1, <3>1, <3>2
      <4>2. Without(w, t)[k] = w[k]
        BY <2>2, <3>2, <4>1
      <4> QED BY <2>2, <2>3, <4>1, <4>2
    <3>3. CASE k > i
      <4>1. k - 1 \in 1..(Len(w) - 1) /\ ~ (k - 1 < i) /\ (k - 1) + 1 = k
        BY <2>1, <3>1, <3>3
      <4>2. Without(w, t)[k - 1] = w[k]
        BY <2>2, <4>1
      <4> QED BY <2>2, <2>3, <4>1, <4>2
    <3> QED BY <2>1, <3>1, <3>2, <3>3
  <2>4. w # <<>>
    BY <2>1
  <2> QED BY <2>3, <2>4
<1>2. CASE ~ \E i \in DOMAIN w : w[i].tx = t
  BY <1>2 DEF Without
<1> QED BY <1>1, <1>2

\* Who held the lock that t vacates, or queued for it, still does or has become
\* its holder, and a lock left without holders has no queue.
LEMMA VacateWaiters ==
    ASSUME NEW l \in LockInfo, NEW t
    PROVE  /\ \A u : u # t /\ (u \in l.holders \/ Queued(l, u))
                => u \in Vacate(l, t).holders \/ Queued(Vacate(l, t), u)
           /\ Vacate(l, t).holders = {} => Vacate(l, t).waiting = <<>>
<1>1. CASE l.holders \ {t} = {} /\ l.waiting # <<>>
  <2> DEFINE v == Vacate(l, t)
  <2>1. v = [mode |-> Head(l.waiting).mode, holders |-> {Head(l.waiting).tx},
             waiting |-> Tail(l.waiting)]
    BY <1>1 DEF Vacate
  <2>2. v.holders = {Head(l.waiting).tx} /\ v.waiting = Tail(l.waiting)
    BY <2>1
  <2>3. l.waiting \in Seq(Waiter)
    BY DEF LockInfo
  <2> HIDE DEF v
  <2>4. ASSUME NEW u, NEW i \in DOMAIN l.waiting, l.waiting[i].tx = u
        PROVE  u \in v.holders \/ \E j \in DOMAIN v.waiting : v.waiting[j].tx = u
    <3>1. CASE i = 1
      BY <2>2, <2>4, <3>1, <1>1
    <3>2. CASE i # 1
      <4>1. i - 1 \in DOMAIN Tail(l.waiting) /\ Tail(l.waiting)[i - 1] = l.waiting[i]
        BY <1>1, <2>3, <2>4, <3>2
      <4> QED BY <2>2, <2>4, <4>1
    <3> QED BY <3>1, <3>2
  <2>5. \A u : u # t => u \notin l.holders
    BY <1>1
  <2>6. \A u : u # t /\ (u \in l.holders \/ Queued(l, u)) => u \in v.holders \/ Queued(v, u)
    BY <2>4, <2>5 DEF Queued
  <2>7. v.holders # {}
    BY <2>2
  <2> QED BY <2>6, <2>7 DEF v
<1>2. CASE ~ (l.holders \ {t} = {} /\ l.waiting # <<>>)
  <2>1. Vacate(l, t) = [l EXCEPT !.holders = l.holders \ {t}]
    BY <1>2 DEF Vacate
  <2>2. Vacate(l, t).holders = l.holders \ {t} /\ Vacate(l, t).waiting = l.waiting
    BY <2>1 DEF LockInfo
  <2> QED BY <1>2, <2>2 DEF Queued
<1> QED BY <1>1, <1>2


\* A turn leaves a caller that goes on waiting in the queue, and a queue only
\* behind a holder.
LEMMA TurnWaiting ==
    ASSUME TypeOK, WaitersQueued, NoLostWaiter, NEW t \in Txs, NEW r \in Resources,
           NEW m \in Modes, Turn(t, r, m)
    PROVE  WaitersQueued' /\ NoLostWaiter'
<1>1. CASE Refuse(t)
  <2>1. lock' = lock /\ ~ call'[t].busy /\ \A u \in Txs \ {t} : call'[u] = call[u]
    BY <1>1 DEF Refuse, TypeOK, NoCall
  <2> QED BY <2>1 DEF WaitersQueued, NoLostWaiter
<1>2. CASE Grant(t, r, m)
  <2>1. /\ lock' = [lock EXCEPT ![r] = Granted(lock[r], m, t)]
        /\ ~ call'[t].busy /\ \A u \in Txs \ {t} : call'[u] = call[u]
    BY <1>2 DEF Grant, TypeOK, NoCall
  <2>2. /\ Granted(lock[r], m, t).holders = lock[r].holders \cup {t}
        /\ Granted(lock[r], m, t).waiting = lock[r].waiting
    BY LockAt DEF Granted, LockInfo
  <2>3. \A q \in Resources : lock[q].holders \subseteq lock'[q].holders
                             /\ lock'[q].waiting = lock[q].waiting
    BY <2>1, <2>2 DEF TypeOK
  <2>4. t \in lock'[r].holders /\ \A q \in Resources \ {r} : lock'[q] = lock[q]
    BY <2>1, <2>2 DEF TypeOK
  <2>5. NoLostWaiter'
    BY <2>4 DEF NoLostWaiter
  <2>6. \A u \in Txs \ {t} : call[u].busy => call[u].res \in Resources
    BY BusyCall
  <2>7. WaitersQueued'
    BY <2>1, <2>3, <2>6 DEF WaitersQueued, Queued
  <2> QED BY <2>5, <2>7
<1>3. CASE Wait(t, r, m)
  <2> DEFINE w == lock[r].waiting
             e == [tx |-> t, mode |-> m]
  <2>1. w \in Seq(Waiter) /\ e \in Waiter /\ lock[r].holders # {}
    BY <1>3, LockAt DEF LockInfo, Waiter, Wait, CanGrant
  <2>2. /\ call'[t] = Call(r, m) /\ \A u \in Txs \ {t} : call'[u] = call[u]
        /\ call'[t].res = r
    BY <1>3 DEF Wait, TypeOK, Call
  <2>3. /\ \A q \in Resources : lock'[q].holders = lock[q].holders
        /\ \A q \in Resources \ {r} : lock'[q] = lock[q]
        /\ lock'[r].waiting = IF Queued(lock[r], t) THEN w ELSE Append(w, e)
    BY <1>3 DEF Wait, TypeOK
  <2> HIDE DEF w
  <2>4. /\ DOMAIN w \subseteq DOMAIN Append(w, e)
        /\ \A i \in DOMAIN w : Append(w, e)[i] = w[i]
        /\ Len(w) + 1 \in DOMAIN Append(w, e) /\ Append(w, e)[Len(w) + 1] = e
    BY <2>1
  <2>5. \A u : Queued(lock[r], u) => Queued(lock'[r], u)
    BY <2>3, <2>4 DEF Queued, w
  <2>6. Queued(lock'[r], t)
    <3>1. CASE Queued(lock[r], t)
      BY <2>5, <3>1
    <3>2. CASE ~ Queued(lock[r], t)
      <4>1. lock'[r].waiting = Append(w, e) /\ e.tx = t
        BY <2>3, <3>2
      <4> HIDE DEF e
      <4> QED BY <2>4, <4>1 DEF Queued
    <3> QED BY <3>1, <3>2
  <2>7. NoLostWaiter'
    BY <2>1, <2>3 DEF NoLostWaiter
  <2>8. ASSUME NEW u \in Txs, call'[u].busy
        PROVE  u \in lock'[call'[u].res].holders \/ Queued(lock'[call'[u].res], u)
    <3>1. CASE u = t
      BY <2>2, <2>6, <3>1
    <3>2. CASE u # t
      <4>1. call'[u] = call[u] /\ call[u].res \in Resources
        BY <2>2, <2>8, <3>2, BusyCall
      <4>2. u \in lock[call[u].res].holders \/ Queued(lock[call[u].res], u)
        BY <2>8, <4>1 DEF WaitersQueued
      <4> QED BY <2>3, <2>5, <4>1, <4>2
    <3> QED BY <3>1, <3>2
  <2> QED BY <2>7, <2>8 DEF WaitersQueued
<1> QED BY <1>1, <1>2, <1>3 DEF Turn

\* Vacating locks disturbs no caller but t, which is in no call.
LEMMA VacateWaiting ==
    ASSUME TypeOK, WaitersQueued, NoLostWaiter, NEW t \in Txs, ~ call[t].busy,
           call' = call,
           \A r \in Resources : lock'[r] = lock[r] \/ lock'[r] = Vacate(lock[r], t)
    PROVE  WaitersQueued' /\ NoLostWaiter'
<1>1. ASSUME NEW r \in Resources
      PROVE  /\ \A u : u # t /\ (u \in lock[r].holders \/ Queued(lock[r], u))
                  => u \in lock'[r].holders \/ Queued(lock'[r], u)
             /\ lock'[r].holders = {} => lock'[r].waiting = <<>>
  <2>1. CASE lock'[r] = lock[r]
    BY <2>1 DEF NoLostWaiter
  <2>2. CASE lock'[r] = Vacate(lock[r], t)
    <3>1. lock[r] \in LockInfo
      BY LockAt
    <3> QED BY <2>2, <3>1, VacateWaiters
  <2> QED BY <2>1, <2>2
<1>2. \A u \in Txs : call[u].busy => u # t /\ call[u].res \in Resources
  BY BusyCall
<1>3. WaitersQueued'
  BY <1>1, <1>2 DEF WaitersQueued
<1> QED BY <1>1, <1>3 DEF NoLostWaiter

\* Every step of the lock manager keeps waiters in their queues and queues behind
\* holders.
LEMMA WaitingStep ==
    TypeOK /\ WaitersQueued /\ NoLostWaiter /\ [Next]_vars => WaitersQueued' /\ NoLostWaiter'
<1> SUFFICES ASSUME TypeOK, WaitersQueued, NoLostWaiter, [Next]_vars
             PROVE  WaitersQueued' /\ NoLostWaiter'
  OBVIOUS
<1>1. ASSUME NEW t \in Txs, NEW r \in Resources, NEW m \in Modes, AcquireLock(t, r, m)
      PROVE  WaitersQueued' /\ NoLostWaiter'
  BY <1>1, TurnWaiting DEF AcquireLock
<1>2. ASSUME NEW t \in Txs, Retry(t) PROVE WaitersQueued' /\ NoLostWaiter'
  BY <1>2, TurnWaiting, BusyCall DEF Retry
<1>3. ASSUME NEW t \in Txs, LockTimeout(t) PROVE WaitersQueued' /\ NoLostWaiter'
  <2> DEFINE r == call[t].res
             w == Without(lock[r].waiting, t)
  <2>1. r \in Resources
    BY <1>3, BusyCall DEF LockTimeout
  <2>2. lock[r].waiting \in Seq(Waiter)
    BY <2>1, LockAt DEF LockInfo
  <2>3. /\ \A u : u # t /\ Queued(lock[r], u) => \E i \in DOMAIN w : w[i].tx = u
        /\ lock[r].waiting = <<>> => w = <<>>
    BY <2>2, WithoutOthers DEF Queued
  <2> HIDE DEF w, r
  <2>4. /\ lock' = [lock EXCEPT ![r].waiting = w]
        /\ ~ call'[t].busy /\ \A u \in Txs \ {t} : call'[u] = call[u]
    BY <1>3 DEF LockTimeout, TypeOK, NoCall, w, r
  <2>5. /\ \A q \in Resources : lock'[q].holders = lock[q].holders
        /\ \A q \in Resources \ {r} : lock'[q] = lock[q]
        /\ lock'[r].waiting = w
    BY <2>1, <2>4 DEF TypeOK
  <2>6. NoLostWaiter'
    BY <2>3, <2>5 DEF NoLostWaiter
  <2>7. \A u : u # t /\ Queued(lock[r], u) => Queued(lock'[r], u)
    BY <2>3, <2>5 DEF Queued
  <2>8. \A u \in Txs : call'[u].busy => u # t /\ call'[u] = call[u] /\ call[u].res \in Resources
    BY <2>4, BusyCall
  <2>9. WaitersQueued'
    BY <2>5, <2>7, <2>8 DEF WaitersQueued
  <2> QED BY <2>6, <2>9
<1>4. ASSUME NEW t \in Txs, NEW r \in Resources, ReleaseLock(t, r)
      PROVE  WaitersQueued' /\ NoLostWaiter'
  <2>1. /\ ~ call[t].busy /\ call' = call
        /\ \A q \in Resources : lock'[q] = lock[q] \/ lock'[q] = Vacate(lock[q], t)
    BY <1>4 DEF ReleaseLock, TypeOK
  <2> QED BY <2>1, VacateWaiting
<1>5. ASSUME NEW t \in Txs, Finish(t) PROVE WaitersQueued' /\ NoLostWaiter'
  <2>1. /\ ~ call[t].busy /\ call' = call
        /\ \A q \in Resources : lock'[q] = lock[q] \/ lock'[q] = Vacate(lock[q], t)
    BY <1>5 DEF Finish
  <2> QED BY <2>1, VacateWaiting
<1>6. CASE UNCHANGED vars
  BY <1>6 DEF vars, WaitersQueued, NoLostWaiter
<1> QED BY <1>1, <1>2, <1>3, <1>4, <1>5, <1>6 DEF Next

\* Among the sets of transactions in a deadlock there is a smallest one.
LEMMA SmallestDeadlock ==
    ASSUME NEW S \in SUBSET Txs, S # {}, Deadlocked(S)
    PROVE  \E D \in SUBSET Txs :
              /\ D # {} /\ Deadlocked(D)
              /\ D \subseteq S
              /\ \A E \in SUBSET D : E # {} /\ Deadlocked(E) => E = D
<1> DEFINE Sets == {D \in SUBSET S : D # {} /\ Deadlocked(D)}
<1>1. IsWellFoundedOn(StrictSubsetOrdering(Txs), SUBSET Txs)
  BY FS_StrictSubsetOrderingWellFounded, FS_FiniteSubsetsOfFinite, TxsAssumption
<1>2. Sets \subseteq SUBSET Txs /\ Sets # {}
  OBVIOUS
<1>3. \E D \in Sets : \A E \in Sets : ~ (<<E, D>> \in StrictSubsetOrdering(Txs))
  <2> HIDE DEF Sets
  <2> QED BY <1>1, <1>2, WFMin
<1>4. PICK D \in Sets : \A E \in Sets : ~ (<<E, D>> \in StrictSubsetOrdering(Txs))
  BY <1>3
<1>5. \A E \in SUBSET D : E # {} /\ Deadlocked(E) => E = D
  <2> SUFFICES ASSUME NEW E \in SUBSET D, E # {}, Deadlocked(E), E # D PROVE FALSE
    OBVIOUS
  <2>1. E \in Sets /\ D \in SUBSET Txs /\ E \in SUBSET Txs
    OBVIOUS
  <2>2. <<E, D>> \in StrictSubsetOrdering(Txs)
    BY <2>1 DEF StrictSubsetOrdering
  <2> QED BY <1>4, <2>1, <2>2
<1> QED BY <1>4, <1>5

\* In a smallest deadlock every member finds itself behind what it waits for: the
\* transactions reachable from the holders of its resource, cut down to the
\* deadlock, would otherwise be a smaller deadlock without it.
LEMMA SmallestDetected ==
    ASSUME TypeOK, WaitersQueued, NEW D \in SUBSET Txs, Deadlocked(D),
           \A E \in SUBSET D : E # {} /\ Deadlocked(E) => E = D,
           NEW t \in D
    PROVE  WouldCauseDeadlock(t, call[t].res)
<1> SUFFICES ASSUME NEW C \in SUBSET (Txs \ {t}),
                    lock[call[t].res].holders \ {t} \subseteq C,
                    \A u \in C : Blockers(u, call[t].res) \subseteq C
             PROVE  FALSE
  BY DEF WouldCauseDeadlock
<1> DEFINE r == call[t].res
           E == C \cap D
<1>1. lock[r].holders \cap D \subseteq E /\ lock[r].holders \cap D # {}
  BY DEF Deadlocked
<1>2. E \in SUBSET D /\ E # D /\ E # {}
  BY <1>1
<1>3. ASSUME NEW u \in E
      PROVE  call[u].busy /\ u \notin lock[call[u].res].holders
             /\ lock[call[u].res].holders \cap E # {}
  <2>1. /\ call[u].busy /\ u \notin lock[call[u].res].holders
        /\ lock[call[u].res].holders \cap D # {}
    BY DEF Deadlocked
  <2>2. CASE call[u].res = r
    BY <1>1, <2>1, <2>2
  <2>3. CASE call[u].res # r
    <3>1. u \in Txs /\ call[u].res \in Resources \ {r} /\ Queued(lock[call[u].res], u)
      BY <2>1, <2>3, BusyCall DEF WaitersQueued
    <3>2. lock[call[u].res].holders \subseteq Blockers(u, r)
      BY <3>1 DEF Blockers
    <3>3. lock[call[u].res].holders \subseteq C
      BY <3>2
    <3> QED BY <2>1, <3>3
  <2> QED BY <2>2, <2>3
<1>4. Deadlocked(E)
  <2> HIDE DEF E
  <2> QED BY <1>3 DEF Deadlocked
<1> QED BY <1>2, <1>4

\* Waiters in their queues make every deadlock visible to one of its members.
LEMMA QueuesDetect == TypeOK /\ WaitersQueued => DeadlockDetected
<1> SUFFICES ASSUME TypeOK, WaitersQueued, NEW S \in SUBSET Txs, S # {}, Deadlocked(S)
             PROVE  \E t \in S : WouldCauseDeadlock(t, call[t].res)
  BY DEF DeadlockDetected
<1>1. PICK D \in SUBSET Txs :
         /\ D # {} /\ Deadlocked(D) /\ D \subseteq S
         /\ \A E \in SUBSET D : E # {} /\ Deadlocked(E) => E = D
  BY SmallestDeadlock
<1>2. PICK t \in D : TRUE
  BY <1>1
<1>3. WouldCauseDeadlock(t, call[t].res)
  BY <1>1, SmallestDetected
<1> QED BY <1>1, <1>3

\* acquire_lock leaves nobody waiting for nothing, for any number of transactions
\* and resources: a release hands a lock over when somebody queues for it, and in
\* every deadlock, however the stale queue entries lie, some member's next turn
\* returns the error Deadlock.
THEOREM NeverStuck == Spec => []NobodyStuck
<1>1. Init => TypeOK /\ WaitersQueued /\ NoLostWaiter
  BY DEF Init, TypeOK, WaitersQueued, NoLostWaiter, Modes, Unlocked, Nothing, NoCall
<1>2. TypeOK /\ WaitersQueued /\ NoLostWaiter /\ [Next]_vars
        => (TypeOK /\ WaitersQueued /\ NoLostWaiter)'
  BY TypeStep, WaitingStep
<1>3. TypeOK /\ WaitersQueued /\ NoLostWaiter => NobodyStuck
  BY QueuesDetect DEF NobodyStuck
<1> QED BY <1>1, <1>2, <1>3, PTL DEF Spec
=============================================================================
