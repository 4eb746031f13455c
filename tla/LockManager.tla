---------------------------- MODULE LockManager ----------------------------
(***************************************************************************)
(* The lock table of TransactionManager (maharit-storage, transaction.rs): *)
(* shared and exclusive locks on named resources, taken by polling every   *)
(* 10 ms, with deadlock detection at each turn and a timeout, and released *)
(* one by one or when the transaction finishes.                            *)
(*                                                                         *)
(* Each turn of the polling loop, each release and each finish holds the   *)
(* write lock on the table, so it is one step here.  Each transaction has  *)
(* one caller, which is not in two calls at a time.                        *)
(***************************************************************************)
EXTENDS Naturals, Sequences, FiniteSets

CONSTANTS
    Txs,        \* transaction ids
    Resources,
    Requests    \* the resources, and modes, that callers of acquire_lock ask for

ASSUME TxsAssumption == IsFiniteSet(Txs)

Modes == {"Read", "Write"}

VARIABLES
    lock,       \* the LockInfo of each resource
    state,      \* the state of each transaction
    held,       \* held_locks, with the mode in which the caller believes to hold each
    call        \* the acquire_lock call under way, if any

vars == <<lock, state, held, call>>

NoCall == [busy |-> FALSE]

Call(r, m) == [busy |-> TRUE, res |-> r, mode |-> m]

\* Empty held_locks.
Nothing == [r \in Resources |-> "None"]

\* A resource without an entry in the table.
Unlocked == [mode |-> "Read", holders |-> {}, waiting |-> <<>>]

TypeOK ==
    /\ lock \in [Resources -> [mode : Modes, holders : SUBSET Txs,
                               waiting : Seq([tx : Txs, mode : Modes])]]
    /\ state \in [Txs -> {"active", "finished"}]
    /\ held \in [Txs -> [Resources -> Modes \cup {"None"}]]
    /\ call \in [Txs -> {NoCall} \cup [busy : {TRUE}, res : Resources, mode : Modes]]

Init ==
    /\ lock = [r \in Resources |-> Unlocked]
    /\ state = [t \in Txs |-> "active"]
    /\ held = [t \in Txs |-> Nothing]
    /\ call = [t \in Txs |-> NoCall]

-----------------------------------------------------------------------------
(* acquire_lock *)

\* A variant of CanGrant: a reader may always upgrade.
CanGrantUpgrade(l, m, t) ==
    \/ l.holders = {}
    \/ t \in l.holders
    \/ l.mode = "Read" /\ m = "Read"

CanGrant(l, m, t) ==
    \/ l.holders = {}
    \/ t \in l.holders /\ (m = "Read" \/ l.holders = {t})
    \/ t \notin l.holders /\ l.mode = "Read" /\ m = "Read"

Queued(l, t) == \E i \in DOMAIN l.waiting : l.waiting[i].tx = t

\* A variant of Blockers: only the first in the queue counts as waiting.
BlockersOfFirst(u, r) ==
    UNION {lock[q].holders : q \in {p \in Resources \ {r} :
        lock[p].waiting # <<>> /\ Head(lock[p].waiting).tx = u}}

\* The transactions that u waits for at resources other than r, as far as the
\* table knows.
Blockers(u, r) ==
    UNION {lock[q].holders : q \in {p \in Resources \ {r} : Queued(lock[p], u)}}

\* would_cause_deadlock_internal: t is reachable from the other holders of r; that
\* is, no set without t has them all and is closed under waiting.
WouldCauseDeadlock(t, r) ==
    ~ \E C \in SUBSET (Txs \ {t}) :
        /\ lock[r].holders \ {t} \subseteq C
        /\ \A u \in C : Blockers(u, r) \subseteq C

\* The error Deadlock, which leaves the queue as it is.
Refuse(t) ==
    /\ call' = [call EXCEPT ![t] = NoCall]
    /\ UNCHANGED <<lock, state, held>>

Granted(l, m, t) ==
    [l EXCEPT !.mode = IF m = "Write" \/ l.holders = {} THEN m ELSE @,
              !.holders = @ \cup {t}]

\* A grant leaves the queue as it is, even if the transaction is in it.
Grant(t, r, m) ==
    /\ CanGrant(lock[r], m, t)
    /\ lock' = [lock EXCEPT ![r] = Granted(@, m, t)]
    /\ held' = [held EXCEPT ![t][r] = IF @ = "Write" THEN @ ELSE m]
    /\ call' = [call EXCEPT ![t] = NoCall]
    /\ UNCHANGED state

Wait(t, r, m) ==
    /\ ~ CanGrant(lock[r], m, t)
    /\ lock' = IF Queued(lock[r], t) THEN lock
               ELSE [lock EXCEPT ![r].waiting = Append(@, [tx |-> t, mode |-> m])]
    /\ call' = [call EXCEPT ![t] = Call(r, m)]
    /\ UNCHANGED <<state, held>>

Turn(t, r, m) ==
    IF WouldCauseDeadlock(t, r) THEN Refuse(t) ELSE Grant(t, r, m) \/ Wait(t, r, m)

\* The first turn.  The callers in the code have checked that t is active.
AcquireLock(t, r, m) ==
    /\ ~ call[t].busy
    /\ state[t] = "active"
    /\ Turn(t, r, m)

Retry(t) ==
    /\ call[t].busy
    /\ Turn(t, call[t].res, call[t].mode)

\* Queue w without transaction t, which is in it at most once.
Without(w, t) ==
    IF \E i \in DOMAIN w : w[i].tx = t
    THEN LET i == CHOOSE i \in DOMAIN w : w[i].tx = t
         IN  [j \in 1..(Len(w) - 1) |-> IF j < i THEN w[j] ELSE w[j + 1]]
    ELSE w

\* The call gives up, also if a release has made it a holder in the meantime.
LockTimeout(t) ==
    /\ call[t].busy
    /\ lock' = [lock EXCEPT ![call[t].res].waiting = Without(@, t)]
    /\ call' = [call EXCEPT ![t] = NoCall]
    /\ UNCHANGED <<state, held>>

-----------------------------------------------------------------------------
(* Release *)

\* The lock without holder t, given to the first waiter if nobody holds it.
Vacate(l, t) ==
    LET rest == l.holders \ {t} IN
    IF rest = {} /\ l.waiting # <<>>
    THEN [mode |-> Head(l.waiting).mode, holders |-> {Head(l.waiting).tx},
          waiting |-> Tail(l.waiting)]
    ELSE [l EXCEPT !.holders = rest]

ReleaseLock(t, r) ==
    /\ ~ call[t].busy
    /\ held[t][r] # "None"
    /\ state[t] = "active"
    /\ lock' = [lock EXCEPT ![r] = Vacate(@, t)]
    /\ held' = [held EXCEPT ![t][r] = "None"]
    /\ UNCHANGED <<state, call>>

\* commit and rollback_backend: release_all_locks, for the locks in held_locks.
\* Nobody looks at held_locks of a finished transaction again.
Finish(t) ==
    /\ ~ call[t].busy
    /\ state[t] = "active"
    /\ lock' = [r \in Resources |->
            IF held[t][r] # "None" THEN Vacate(lock[r], t) ELSE lock[r]]
    /\ state' = [state EXCEPT ![t] = "finished"]
    /\ held' = [held EXCEPT ![t] = Nothing]
    /\ UNCHANGED call

Next ==
    \E t \in Txs :
        \/ \E r \in Resources, m \in Modes : <<r, m>> \in Requests /\ AcquireLock(t, r, m)
        \/ Retry(t)
        \/ LockTimeout(t)
        \/ \E r \in Resources : ReleaseLock(t, r)
        \/ Finish(t)

Spec == Init /\ [][Next]_vars

-----------------------------------------------------------------------------
(* Properties *)

\* A caller that was given a lock is a holder in the table, the table knows that a
\* lock it was given exclusively is exclusive, and an exclusive lock has one
\* holder.
LockInv ==
    \A r \in Resources :
        /\ \A t \in Txs : held[t][r] # "None" => t \in lock[r].holders
        /\ \A t \in Txs : held[t][r] = "Write" => lock[r].mode = "Write"
        /\ lock[r].mode = "Write" => \A t, u \in lock[r].holders : t = u

\* While one caller believes to hold a resource exclusively nobody else believes
\* to hold it at all, through upgrades, grants by release, stale queue entries
\* and timeouts.
MutualExclusion ==
    \A r \in Resources, t, u \in Txs :
        held[t][r] = "Write" /\ t # u => held[u][r] = "None"

\* Who is in acquire_lock is in the queue of the resource it asks for, or a
\* release has made it a holder: no step of somebody else takes it out.
WaitersQueued ==
    \A t \in Txs : call[t].busy =>
        t \in lock[call[t].res].holders \/ Queued(lock[call[t].res], t)

\* A lock that nobody holds has nobody in its queue: no release forgets a waiter.
NoLostWaiter ==
    \A r \in Resources : lock[r].holders = {} => lock[r].waiting = <<>>

\* The members of S all wait, each for another one of them, and none of them for
\* an upgrade of a lock it shares.
Deadlocked(S) ==
    \A t \in S :
        /\ call[t].busy
        /\ t \notin lock[call[t].res].holders
        /\ lock[call[t].res].holders \cap S # {}

\* However queues and holders have come about, a set of transactions in a
\* deadlock has a member that finds out at its next turn, so that the deadlock is
\* resolved without waiting for the timeout.  (Upgrades are excepted: two readers
\* of one resource that both ask for it exclusively are never detected.)
DeadlockDetected ==
    \A S \in (SUBSET Txs) \ {{}} :
        Deadlocked(S) => \E t \in S : WouldCauseDeadlock(t, call[t].res)

\* Nobody is left waiting for nothing: neither on a lock that is free nor in a
\* circle that no member will notice.
NobodyStuck == NoLostWaiter /\ DeadlockDetected
=============================================================================
