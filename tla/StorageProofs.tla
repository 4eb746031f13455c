--------------------------- MODULE StorageProofs ---------------------------
(***************************************************************************)
(* Proofs about the storage library. Of Mvcc, for every set of nodes,      *)
(* values and readers and every bound: the store is well typed, no         *)
(* snapshot shows a version of a transaction that has not committed, reads *)
(* are repeatable, and rollback and collection leave no trace. Of          *)
(* Snapshots: the newest complete backup is kept.                          *)
(***************************************************************************)
EXTENDS Mvcc, Snapshots, FiniteSetTheorems, TLAPS

-----------------------------------------------------------------------------
(* What the write operations do to a single version *)

\* Marking a version deleted keeps its node, data, writer and stamp.
LEMMA MarkDeletedVersion ==
    ASSUME NEW v \in Version, NEW ts \in Nat, NEW t \in TxnId
    PROVE  /\ MarkDeleted(v, ts, t) \in Version
           /\ MarkDeleted(v, ts, t).node = v.node /\ MarkDeleted(v, ts, t).data = v.data
           /\ MarkDeleted(v, ts, t).txn = v.txn
           /\ MarkDeleted(v, ts, t).created = v.created
           /\ MarkDeleted(v, ts, t).deleted = ts /\ MarkDeleted(v, ts, t).deleter = t
BY NilAssumption DEF TxnId, MarkDeleted, Version, VersionRecord

\* So does undoing a delete.
LEMMA UndeleteVersion ==
    ASSUME NEW v \in Version, NEW t
    PROVE  /\ Undelete(v, t) \in Version
           /\ Undelete(v, t).node = v.node /\ Undelete(v, t).data = v.data
           /\ Undelete(v, t).txn = v.txn /\ Undelete(v, t).created = v.created
BY DEF Undelete, Version, VersionRecord

\* Type correctness is preserved by every step.
LEMMA TypeStep == TypeOK /\ [Next]_vars => TypeOK'
<1> SUFFICES ASSUME TypeOK, [Next]_vars PROVE TypeOK'
  OBVIOUS
<1> USE DEF TypeOK
<1>1. CASE IssueTxnId
  BY <1>1 DEF IssueTxnId, TxnId
<1>2. ASSUME NEW t \in starting, ActivateTxn(t) PROVE TypeOK'
  BY <1>2 DEF ActivateTxn
<1>3. ASSUME NEW r \in Readers, CaptureActive(r) PROVE TypeOK'
  <2>1. [phase |-> "capturing", active |-> active] \in Capture
    BY DEF Capture
  <2> QED BY <1>3, <2>1 DEF CaptureActive
<1>4. ASSUME NEW r \in Readers, TakeSnapshotId(r) PROVE TypeOK'
  <2>1. [phase |-> "held", id |-> clock, active |-> snapshot[r].active] \in Snapshot
    BY <1>4 DEF TakeSnapshotId, Snapshot, Capture, NoSnapshot
  <2> QED BY <1>4, <2>1 DEF TakeSnapshotId
<1>5. ASSUME NEW r \in Readers, DropSnapshot(r) PROVE TypeOK'
  BY <1>5 DEF DropSnapshot
<1>6. ASSUME NEW t \in active, NEW n \in Nodes, NEW d \in Values, WriteNode(n, d, t)
      PROVE TypeOK'
  <2>1. [node |-> n, data |-> d, txn |-> t, created |-> clock,
         deleted |-> Nil, deleter |-> Nil] \in Version
    BY DEF Version, VersionRecord
  <2> QED BY <1>6, <2>1 DEF WriteNode
<1>7. ASSUME NEW t \in active, NEW n \in Nodes, DeleteNode(n, t) PROVE TypeOK'
  <2>1. CASE versions' = versions
    BY <1>7, <2>1 DEF DeleteNode
  <2>2. ASSUME NEW v \in versions,
               versions' = (versions \ {v}) \cup {MarkDeleted(v, clock, t)}
        PROVE  TypeOK'
    <3>1. MarkDeleted(v, clock, t) \in Version
      BY MarkDeletedVersion
    <3> QED BY <1>7, <2>2, <3>1 DEF DeleteNode
  <2> QED BY <1>7, <2>1, <2>2 DEF DeleteNode
<1>8. ASSUME NEW t \in active, Commit(t) PROVE TypeOK'
  BY <1>8 DEF Commit
<1>9. ASSUME NEW t \in active, Rollback(t) PROVE TypeOK'
  BY <1>9, UndeleteVersion DEF Rollback
<1>10. CASE Gc
  BY <1>10 DEF Gc
<1>11. CASE UNCHANGED vars
  BY <1>11 DEF vars
<1> QED
  BY <1>1, <1>2, <1>3, <1>4, <1>5, <1>6, <1>7, <1>8, <1>9, <1>10, <1>11 DEF Next

\* The variables keep their types along every behaviour of the store.
THEOREM TypeCorrect == Spec => []TypeOK
<1>1. Init => TypeOK
  BY DEF Init, TypeOK, TxnId
<1> QED BY <1>1, TypeStep, PTL DEF Spec

-----------------------------------------------------------------------------
(* The invariant of snapshots *)

\* A transaction set that covers who touched a version covers it for an earlier
\* time and after the set has grown.
LEMMA TouchedByMonotone ==
    ASSUME NEW v \in Version, NEW ts \in Nat, NEW us \in Nat, us <= ts,
           NEW T, NEW U, T \subseteq U, TouchedBy(v, ts, T)
    PROVE  TouchedBy(v, us, U)
BY DEF TouchedBy, Version, VersionRecord

\* Undoing a delete of t never adds to what has touched a version.
LEMMA TouchedByUndelete ==
    ASSUME NEW v \in Version, NEW t \in TxnId, NEW ts \in Nat, NEW T,
           TouchedBy(v, ts, T)
    PROVE  TouchedBy(Undelete(v, t), ts, T)
BY DEF TouchedBy, Undelete, Version, VersionRecord

\* Every step keeps the invariant.
LEMMA SnapshotStep == TypeOK /\ TypeOK' /\ SnapshotInv /\ [Next]_vars => SnapshotInv'
<1> SUFFICES ASSUME TypeOK, TypeOK', SnapshotInv, [Next]_vars PROVE SnapshotInv'
  OBVIOUS
<1>a. TxnsDisjoint /\ StampsBeforeClock /\ TouchedByLive /\ CaptureCovers /\ SnapshotCovers
  BY DEF SnapshotInv
<1>b. /\ clock \in Nat /\ nextTxn \in Nat
      /\ versions \subseteq Version
      /\ \A r \in Held : snapshot[r].id \in Nat
      /\ active \subseteq Nat /\ starting \subseteq Nat /\ committed \subseteq Nat
  BY DEF TypeOK, TxnId, Held, Snapshot, Capture, NoSnapshot
<1>1. CASE IssueTxnId
  <2>1. TxnsDisjoint'
    BY <1>1, <1>a, <1>b DEF IssueTxnId, TxnsDisjoint
  <2>2. /\ StampsBeforeClock' /\ TouchedByLive' /\ CaptureCovers' /\ SnapshotCovers'
    BY <1>1, <1>a DEF IssueTxnId, StampsBeforeClock, TouchedByLive, CaptureCovers,
        SnapshotCovers, Held, Capturing
  <2> QED BY <2>1, <2>2 DEF SnapshotInv
<1>2. ASSUME NEW t \in starting, ActivateTxn(t) PROVE SnapshotInv'
  <2>1. TxnsDisjoint'
    BY <1>2, <1>a DEF ActivateTxn, TxnsDisjoint
  <2>2. TouchedByLive'
    BY <1>2, <1>a DEF ActivateTxn, TouchedByLive, TouchedBy
  <2>3. StampsBeforeClock' /\ CaptureCovers' /\ SnapshotCovers'
    BY <1>2, <1>a DEF ActivateTxn, StampsBeforeClock, CaptureCovers, SnapshotCovers,
        Held, Capturing
  <2> QED BY <2>1, <2>2, <2>3 DEF SnapshotInv
<1>3. ASSUME NEW r \in Readers, CaptureActive(r) PROVE SnapshotInv'
  <2>1. /\ Held' = Held /\ \A q \in Held : snapshot'[q] = snapshot[q]
        /\ \A q \in Capturing' : q # r => q \in Capturing /\ snapshot'[q] = snapshot[q]
        /\ snapshot'[r].active = active
    BY <1>3 DEF CaptureActive, Held, Capturing, TypeOK
  <2>2. CaptureCovers'
    BY <1>3, <1>a, <2>1 DEF CaptureActive, CaptureCovers, TouchedByLive
  <2>3. StampsBeforeClock' /\ SnapshotCovers'
    BY <1>3, <1>a, <2>1 DEF CaptureActive, StampsBeforeClock, SnapshotCovers
  <2>4. TxnsDisjoint' /\ TouchedByLive'
    BY <1>3, <1>a DEF CaptureActive, TxnsDisjoint, TouchedByLive
  <2> QED BY <2>2, <2>3, <2>4 DEF SnapshotInv
<1>4. ASSUME NEW r \in Readers, TakeSnapshotId(r) PROVE SnapshotInv'
  <2>1. /\ r \in Capturing
        /\ snapshot'[r].id = clock /\ snapshot'[r].active = snapshot[r].active
        /\ \A q \in Held' : q # r => q \in Held /\ snapshot'[q] = snapshot[q]
        /\ \A q \in Capturing' : q \in Capturing /\ snapshot'[q] = snapshot[q]
    BY <1>4 DEF TakeSnapshotId, Held, Capturing, TypeOK
  <2>2. SnapshotCovers'
    BY <1>4, <1>a, <2>1 DEF TakeSnapshotId, SnapshotCovers, CaptureCovers
  <2>3. StampsBeforeClock'
    BY <1>4, <1>a, <1>b, <2>1 DEF TakeSnapshotId, StampsBeforeClock, Version, VersionRecord
  <2>4. CaptureCovers' /\ TouchedByLive'
    BY <1>4, <1>a, <1>b, <2>1 DEF TakeSnapshotId, CaptureCovers, TouchedByLive,
        StampsBeforeClock, TouchedBy, Version, VersionRecord
  <2>5. TxnsDisjoint'
    BY <1>4, <1>a DEF TakeSnapshotId, TxnsDisjoint
  <2> QED BY <2>2, <2>3, <2>4, <2>5 DEF SnapshotInv
<1>5. ASSUME NEW r \in Readers, DropSnapshot(r) PROVE SnapshotInv'
  <2>1. /\ \A q \in Held' : q \in Held /\ snapshot'[q] = snapshot[q]
        /\ \A q \in Capturing' : q \in Capturing /\ snapshot'[q] = snapshot[q]
    BY <1>5 DEF DropSnapshot, Held, Capturing, TypeOK, NoSnapshot
  <2> QED
    BY <1>5, <1>a, <2>1 DEF DropSnapshot, SnapshotInv, TxnsDisjoint, StampsBeforeClock,
        TouchedByLive, CaptureCovers, SnapshotCovers
<1>c. ASSUME Exclusive, UNCHANGED <<nextTxn, starting, snapshot, committed>>,
             active' \subseteq active, clock' = clock \/ clock' = clock + 1,
             \A v \in versions' :
                /\ v.created < clock' /\ (v.deleted # Nil => v.deleted < clock')
                /\ TouchedBy(v, clock', active' \cup committed)
                /\ \A r \in Held :
                      TouchedBy(v, snapshot[r].id, snapshot[r].active \cup committed)
      PROVE  SnapshotInv'
  <2>1. Held' = Held /\ Capturing' = {}
    BY <1>c DEF Exclusive, Held, Capturing
  <2>2. TxnsDisjoint'
    BY <1>c, <1>a DEF TxnsDisjoint
  <2>3. StampsBeforeClock'
    BY <1>c, <1>a, <1>b, <2>1 DEF StampsBeforeClock
  <2>4. TouchedByLive' /\ SnapshotCovers' /\ CaptureCovers'
    BY <1>c, <2>1 DEF TouchedByLive, SnapshotCovers, CaptureCovers
  <2> QED BY <2>2, <2>3, <2>4 DEF SnapshotInv
<1>6. ASSUME NEW t \in active, NEW n \in Nodes, NEW d \in Values, WriteNode(n, d, t)
      PROVE SnapshotInv'
  <2>1. ASSUME NEW v \in versions'
        PROVE  /\ v.created < clock' /\ (v.deleted # Nil => v.deleted < clock')
               /\ TouchedBy(v, clock', active' \cup committed)
               /\ \A r \in Held :
                     TouchedBy(v, snapshot[r].id, snapshot[r].active \cup committed)
    BY <1>6, <1>a, <1>b DEF WriteNode, StampsBeforeClock, TouchedByLive, SnapshotCovers,
        TouchedBy, Version, VersionRecord
  <2> QED BY <1>6, <1>c, <2>1 DEF WriteNode
<1>7. ASSUME NEW t \in active, NEW n \in Nodes, DeleteNode(n, t) PROVE SnapshotInv'
  <2>1. ASSUME NEW v \in versions'
        PROVE  /\ v.created < clock' /\ (v.deleted # Nil => v.deleted < clock')
               /\ TouchedBy(v, clock', active' \cup committed)
               /\ \A r \in Held :
                     TouchedBy(v, snapshot[r].id, snapshot[r].active \cup committed)
    <3>1. CASE v \in versions
      BY <1>7, <1>a, <1>b, <3>1 DEF DeleteNode, StampsBeforeClock, TouchedByLive,
          SnapshotCovers, TouchedBy, Version, VersionRecord
    <3>2. CASE v \notin versions
      <4>1. PICK w \in versions : v = MarkDeleted(w, clock, t)
        BY <1>7, <3>2 DEF DeleteNode
      <4>2. /\ v.created = w.created /\ v.txn = w.txn
            /\ v.deleted = clock /\ v.deleter = t /\ w \in Version
        <5>1. w \in Version /\ clock \in Nat /\ t \in TxnId
          BY <1>b DEF TypeOK
        <5> QED BY <4>1, <5>1, MarkDeletedVersion
      <4> QED
        BY <1>7, <1>a, <1>b, <4>2 DEF DeleteNode, StampsBeforeClock, TouchedByLive,
            SnapshotCovers, TouchedBy, Version, VersionRecord
    <3> QED BY <3>1, <3>2
  <2> QED BY <1>7, <1>c, <2>1 DEF DeleteNode
<1>8. ASSUME NEW t \in active, Commit(t) PROVE SnapshotInv'
  <2>1. /\ active' \cup committed' = active \cup committed
        /\ committed \subseteq committed' /\ Held' = Held /\ Capturing' = Capturing
    BY <1>8 DEF Commit, Held, Capturing
  <2>2. TxnsDisjoint'
    BY <1>8, <1>a DEF Commit, TxnsDisjoint
  <2>3. StampsBeforeClock' /\ TouchedByLive'
    BY <1>8, <1>a, <2>1 DEF Commit, StampsBeforeClock, TouchedByLive
  <2>4. CaptureCovers' /\ SnapshotCovers'
    BY <1>8, <1>a, <2>1 DEF Commit, CaptureCovers, SnapshotCovers, TouchedBy
  <2> QED BY <2>2, <2>3, <2>4 DEF SnapshotInv
<1>9. ASSUME NEW t \in active, Rollback(t) PROVE SnapshotInv'
  <2>1. ASSUME NEW v \in versions'
        PROVE  /\ v.created < clock' /\ (v.deleted # Nil => v.deleted < clock')
               /\ TouchedBy(v, clock', active' \cup committed)
               /\ \A r \in Held :
                     TouchedBy(v, snapshot[r].id, snapshot[r].active \cup committed)
    <3>1. PICK w \in versions : w.txn # t /\ v = Undelete(w, t)
      BY <1>9 DEF Rollback
    <3>2. w \in Version /\ t \in TxnId
      BY <1>b DEF TypeOK
    <3>3. v.created < clock' /\ (v.deleted # Nil => v.deleted < clock')
      BY <1>9, <1>a, <3>1, <3>2 DEF Rollback, StampsBeforeClock, Undelete, Version, VersionRecord
    <3>4. \A r \in Held : TouchedBy(v, snapshot[r].id, snapshot[r].active \cup committed)
      BY <1>a, <1>b, <3>1, <3>2, TouchedByUndelete DEF SnapshotCovers
    <3>5. TouchedBy(v, clock, (active \ {t}) \cup committed)
      BY <1>a, <3>1, <3>2 DEF TouchedByLive, TouchedBy, Undelete, Version, VersionRecord
    <3> QED BY <1>9, <3>3, <3>4, <3>5 DEF Rollback
  <2> QED BY <1>9, <1>c, <2>1 DEF Rollback
<1>10. CASE Gc
  <2>1. ASSUME NEW v \in versions'
        PROVE  /\ v.created < clock' /\ (v.deleted # Nil => v.deleted < clock')
               /\ TouchedBy(v, clock', active' \cup committed)
               /\ \A r \in Held :
                     TouchedBy(v, snapshot[r].id, snapshot[r].active \cup committed)
    BY <1>10, <1>a DEF Gc, StampsBeforeClock, TouchedByLive, SnapshotCovers
  <2> QED BY <1>10, <1>c, <2>1 DEF Gc
<1>11. CASE UNCHANGED vars
  BY <1>11, <1>a DEF vars, SnapshotInv, TxnsDisjoint, StampsBeforeClock, TouchedByLive,
      CaptureCovers, SnapshotCovers, Held, Capturing
<1> QED
  BY <1>1, <1>2, <1>3, <1>4, <1>5, <1>6, <1>7, <1>8, <1>9, <1>10, <1>11 DEF Next

\* What a snapshot recorded in the two steps of begin_snapshot stays true of the
\* version chains for as long as it is held.
THEOREM SnapshotInvariant == Spec => []SnapshotInv
<1>1. Init => SnapshotInv
  BY DEF Init, SnapshotInv, TxnsDisjoint, StampsBeforeClock, TouchedByLive, CaptureCovers,
      SnapshotCovers, Held, Capturing, NoSnapshot
<1> QED BY <1>1, SnapshotStep, TypeCorrect, PTL DEF Spec

\* No snapshot of the store ever shows the work of a transaction that has not
\* committed.
THEOREM NoDirtyReads == Spec => []NoDirtyRead
<1>1. SnapshotInv => NoDirtyRead
  BY DEF SnapshotInv, SnapshotCovers, TouchedBy, NoDirtyRead, IsVisible
<1> QED BY <1>1, SnapshotInvariant, PTL

-----------------------------------------------------------------------------
(* Repeatable reads *)

\* What a read returns depends only on the node, the data and the stamp of the
\* visible versions.
LEMMA SameVisibleSameRead ==
    ASSUME NEW V, NEW W, NEW s, NEW n,
           \A v \in V : IsVisible(s, v) => \E w \in W :
               /\ IsVisible(s, w)
               /\ w.node = v.node /\ w.data = v.data /\ w.created = v.created,
           \A w \in W : IsVisible(s, w) => \E v \in V :
               /\ IsVisible(s, v)
               /\ w.node = v.node /\ w.data = v.data /\ w.created = v.created
    PROVE  ReadFrom(W, s, n) = ReadFrom(V, s, n)
<1>1. ASSUME NEW x \in ReadFrom(V, s, n) PROVE x \in ReadFrom(W, s, n)
  <2>1. PICK v \in V : x = v.data /\ IsNewest(v, VisibleVersions(V, s, n))
    BY <1>1 DEF ReadFrom
  <2>2. PICK w \in W : /\ IsVisible(s, w)
                      /\ w.node = v.node /\ w.data = v.data /\ w.created = v.created
    BY <2>1 DEF IsNewest, VisibleVersions
  <2>3. IsNewest(w, VisibleVersions(W, s, n))
    BY <2>1, <2>2 DEF IsNewest, VisibleVersions
  <2> QED BY <2>1, <2>2, <2>3 DEF ReadFrom
<1>2. ASSUME NEW x \in ReadFrom(W, s, n) PROVE x \in ReadFrom(V, s, n)
  <2>1. PICK w \in W : x = w.data /\ IsNewest(w, VisibleVersions(W, s, n))
    BY <1>2 DEF ReadFrom
  <2>2. PICK v \in V : /\ IsVisible(s, v)
                      /\ w.node = v.node /\ w.data = v.data /\ w.created = v.created
    BY <2>1 DEF IsNewest, VisibleVersions
  <2>3. IsNewest(v, VisibleVersions(V, s, n))
    BY <2>1, <2>2 DEF IsNewest, VisibleVersions
  <2> QED BY <2>1, <2>2, <2>3 DEF ReadFrom
<1> QED BY <1>1, <1>2

\* A step other than a collection changes no read of a held snapshot.
LEMMA ReadStableStep ==
    ASSUME TypeOK, SnapshotInv, Next, ~ Gc,
           NEW r \in Held, snapshot'[r] = snapshot[r], NEW n \in Nodes
    PROVE  ReadFrom(versions', snapshot[r], n) = ReadFrom(versions, snapshot[r], n)
<1> DEFINE s == snapshot[r]
<1>a. /\ s.id \in Nat /\ s.id < clock /\ clock \in Nat
      /\ versions \subseteq Version /\ active \subseteq TxnId
  BY DEF TypeOK, Held, Snapshot, Capture, NoSnapshot, SnapshotInv, StampsBeforeClock
<1>1. CASE versions' = versions
  BY <1>1
<1>2. ASSUME NEW t \in active, NEW m \in Nodes, NEW d \in Values, WriteNode(m, d, t)
      PROVE ReadFrom(versions', s, n) = ReadFrom(versions, s, n)
  <2>1. \A v \in versions' : v \notin versions => ~ IsVisible(s, v)
    BY <1>2, <1>a DEF WriteNode, IsVisible
  <2>2. versions \subseteq versions'
    BY <1>2 DEF WriteNode
  <2> HIDE DEF s
  <2> QED BY <2>1, <2>2, SameVisibleSameRead
<1>3. ASSUME NEW t \in active, NEW m \in Nodes, DeleteNode(m, t)
      PROVE ReadFrom(versions', s, n) = ReadFrom(versions, s, n)
  <2>1. SUFFICES ASSUME NEW u \in versions, IsNewest(u, Undeleted(m)),
                        versions' = (versions \ {u}) \cup {MarkDeleted(u, clock, t)}
                 PROVE ReadFrom(versions', s, n) = ReadFrom(versions, s, n)
    BY <1>1, <1>3 DEF DeleteNode
  <2> DEFINE w == MarkDeleted(u, clock, t)
  <2>2. /\ w.node = u.node /\ w.data = u.data /\ w.txn = u.txn
        /\ w.created = u.created /\ w.deleted = clock /\ w.deleter = t
    <3>1. u \in Version /\ clock \in Nat /\ t \in TxnId
      BY <1>a
    <3> QED BY <3>1, MarkDeletedVersion
  <2>3. u.deleted = Nil
    BY <2>1 DEF IsNewest, Undeleted
  <2> HIDE DEF w
  <2>4. IsVisible(s, u) <=> IsVisible(s, w)
    BY <1>a, <2>2, <2>3 DEF IsVisible
  <2>5. w \in versions' /\ versions' = (versions \ {u}) \cup {w}
    BY <2>1 DEF w
  <2> HIDE DEF s
  <2>6. \A v \in versions : IsVisible(s, v) => \E x \in versions' :
           /\ IsVisible(s, x)
           /\ x.node = v.node /\ x.data = v.data /\ x.created = v.created
    BY <2>2, <2>4, <2>5
  <2>7. \A x \in versions' : IsVisible(s, x) => \E v \in versions :
           /\ IsVisible(s, v)
           /\ x.node = v.node /\ x.data = v.data /\ x.created = v.created
    BY <2>2, <2>4, <2>5
  <2> QED BY <2>6, <2>7, SameVisibleSameRead
<1>4. ASSUME NEW t \in active, Rollback(t)
      PROVE ReadFrom(versions', s, n) = ReadFrom(versions, s, n)
  <2>1. t \notin committed
    BY DEF SnapshotInv, TxnsDisjoint
  <2>2. ASSUME NEW v \in versions
        PROVE  /\ IsVisible(s, v) => v.txn # t
               /\ IsVisible(s, v) <=> IsVisible(s, Undelete(v, t))
    <3>1. v \in Version /\ TouchedBy(v, s.id, s.active \cup committed)
      BY <1>a DEF SnapshotInv, SnapshotCovers
    <3>2. IsVisible(s, v) => v.txn # t
      BY <2>1, <3>1 DEF IsVisible, TouchedBy
    <3>3. CASE v.deleter = t
      <4>1. v.deleted # Nil /\ v.deleted <= s.id => t \in s.active
        BY <2>1, <3>1, <3>3 DEF TouchedBy
      <4>2. /\ Undelete(v, t).txn = v.txn /\ Undelete(v, t).created = v.created
            /\ Undelete(v, t).deleted = Nil
        BY <3>1, <3>3 DEF Undelete, Version, VersionRecord
      <4> QED BY <1>a, <3>1, <3>2, <3>3, <4>1, <4>2 DEF IsVisible, Version, VersionRecord
    <3>4. CASE v.deleter # t
      BY <3>2, <3>4 DEF Undelete
    <3> QED BY <3>3, <3>4
  <2>3. \A v \in versions : /\ Undelete(v, t).node = v.node
                            /\ Undelete(v, t).data = v.data
                            /\ Undelete(v, t).created = v.created
    BY <1>a, UndeleteVersion
  <2>4. /\ \A v \in versions : v.txn # t => Undelete(v, t) \in versions'
        /\ \A w \in versions' : \E v \in versions : w = Undelete(v, t)
    BY <1>4 DEF Rollback
  <2> HIDE DEF s
  <2>5. \A v \in versions : IsVisible(s, v) => \E x \in versions' :
           /\ IsVisible(s, x)
           /\ x.node = v.node /\ x.data = v.data /\ x.created = v.created
    BY <2>2, <2>3, <2>4
  <2>6. \A x \in versions' : IsVisible(s, x) => \E v \in versions :
           /\ IsVisible(s, v)
           /\ x.node = v.node /\ x.data = v.data /\ x.created = v.created
    BY <2>2, <2>3, <2>4
  <2> QED BY <2>5, <2>6, SameVisibleSameRead
<1>5. CASE \/ IssueTxnId \/ \E t \in starting : ActivateTxn(t)
           \/ \E q \in Readers : CaptureActive(q) \/ TakeSnapshotId(q) \/ DropSnapshot(q)
           \/ \E t \in active : Commit(t)
  BY <1>1, <1>5 DEF IssueTxnId, ActivateTxn, CaptureActive, TakeSnapshotId, DropSnapshot,
      Commit
<1> QED BY <1>2, <1>3, <1>4, <1>5 DEF Next

\* As long as nothing is collected, a snapshot reads the same data of every node
\* for as long as it is held.
THEOREM RepeatableRead == Spec => SnapshotReadStable
<1>1. ASSUME TypeOK, SnapshotInv, [Next]_vars
      PROVE  [~ Gc => \A r \in Held : snapshot'[r] = snapshot[r] =>
                \A n \in Nodes :
                    ReadNode(snapshot[r], n)' = ReadNode(snapshot[r], n)]_vars
  BY <1>1, ReadStableStep DEF ReadNode
<1> QED
  BY <1>1, TypeCorrect, SnapshotInvariant, PTL DEF Spec, SnapshotReadStable

-----------------------------------------------------------------------------
(* Rollback and collection leave no trace *)

\* After a rollback a new snapshot shows what it would have shown before: the work
\* of the transaction was hidden as that of an active one, and its deletes undone.
LEMMA RollbackUnseen ==
    ASSUME TypeOK, NEW t \in active, Rollback(t), NEW n \in Nodes
    PROVE  ReadFrom(versions', FreshSnapshot', n) = ReadFrom(versions, FreshSnapshot, n)
<1> DEFINE s == FreshSnapshot
           u == FreshSnapshot'
<1>1. /\ s.id = clock /\ s.active = active /\ u.id = clock /\ u.active = active \ {t}
      /\ versions \subseteq Version /\ t # Nil
  BY NilAssumption DEF FreshSnapshot, Rollback, TypeOK, TxnId
<1>2. \A v \in versions : /\ Undelete(v, t).node = v.node /\ Undelete(v, t).data = v.data
                          /\ Undelete(v, t).txn = v.txn /\ Undelete(v, t).created = v.created
  BY <1>1, UndeleteVersion
<1>3. \A v \in versions :
         IF v.deleter = t THEN Undelete(v, t).deleted = Nil /\ Undelete(v, t).deleter = Nil
                          ELSE Undelete(v, t) = v
  BY <1>1 DEF Undelete, Version, VersionRecord
<1>4. /\ \A v \in versions : v.txn # t => Undelete(v, t) \in versions'
      /\ \A w \in versions' : \E v \in versions : v.txn # t /\ w = Undelete(v, t)
  BY DEF Rollback
<1> HIDE DEF s, u
<1>5. \A w \in versions' : w.txn # t /\ w.deleter # t
  BY <1>1, <1>2, <1>3, <1>4
<1>6. \A w \in versions' : IsVisible(u, w) <=> IsVisible(s, w)
  BY <1>1, <1>5 DEF IsVisible
<1>7. VisibleVersions(versions', u, n) = VisibleVersions(versions', s, n)
  BY <1>6 DEF VisibleVersions
<1>8. \A v \in versions : v.txn # t => (IsVisible(s, Undelete(v, t)) <=> IsVisible(s, v))
  BY <1>1, <1>2, <1>3 DEF IsVisible
<1>9. \A v \in versions : IsVisible(s, v) => v.txn # t
  BY <1>1 DEF IsVisible
<1>10. \A v \in versions : IsVisible(s, v) => \E w \in versions' :
          IsVisible(s, w) /\ w.node = v.node /\ w.data = v.data /\ w.created = v.created
  BY <1>2, <1>4, <1>8, <1>9
<1>11. \A w \in versions' : IsVisible(s, w) => \E v \in versions :
          IsVisible(s, v) /\ w.node = v.node /\ w.data = v.data /\ w.created = v.created
  BY <1>2, <1>4, <1>8
<1>12. ReadFrom(versions', s, n) = ReadFrom(versions, s, n)
  BY <1>10, <1>11, SameVisibleSameRead
<1>13. ReadFrom(versions', u, n) = ReadFrom(versions', s, n)
  BY <1>7 DEF ReadFrom
<1> QED BY <1>12, <1>13 DEF s, u

\* With no transaction active a version is collected only if a new snapshot does not
\* show it, or shows a newer one of the same node that stays.
LEMMA CollectionUnseen ==
    ASSUME TypeOK, SnapshotInv, Gc, active = {}, NEW n \in Nodes
    PROVE  ReadFrom(versions', FreshSnapshot', n) = ReadFrom(versions, FreshSnapshot, n)
<1> DEFINE s == FreshSnapshot
           Old == VisibleVersions(versions, s, n)
           New == VisibleVersions(versions', s, n)
<1>1. FreshSnapshot' = s /\ s.id = clock /\ s.active = {} /\ clock \in Nat
  BY DEF FreshSnapshot, Gc, TypeOK
<1>2. /\ versions \subseteq Version
      /\ \A v \in versions : v.created < clock /\ (v.deleted # Nil => v.deleted < clock)
  BY DEF TypeOK, SnapshotInv, StampsBeforeClock
<1>3. \A v \in versions : v.created \in Nat /\ (v.deleted # Nil => v.deleted \in Nat)
  BY <1>2 DEF Version, VersionRecord
<1> HIDE DEF s
<1>4. \A v \in versions : IsVisible(s, v) <=> v.deleted = Nil
  BY <1>1, <1>2, <1>3 DEF IsVisible
<1>5. \A v \in versions : v \in versions' <=>
         v.deleted = Nil /\ ~ \E w \in versions :
             w.node = v.node /\ w.deleted = Nil /\ w.created > v.created
  BY DEF Gc, Collectable, BelowWatermark, Undeleted
<1>6. versions' \subseteq versions
  BY DEF Gc
<1>7. ASSUME NEW v, IsNewest(v, Old) PROVE v \in versions' /\ IsNewest(v, New)
  <2>1. v \in versions /\ v.node = n /\ v.deleted = Nil
    BY <1>4, <1>7 DEF IsNewest, VisibleVersions
  <2>2. ASSUME NEW w \in versions, w.node = n, w.deleted = Nil PROVE w.created <= v.created
    BY <1>4, <1>7, <2>2 DEF IsNewest, VisibleVersions
  <2>3. ~ \E w \in versions : w.node = v.node /\ w.deleted = Nil /\ w.created > v.created
    BY <1>3, <2>1, <2>2
  <2>4. v \in versions'
    BY <1>5, <2>1, <2>3
  <2> QED BY <1>6, <1>7, <2>4 DEF IsNewest, VisibleVersions
<1>8. ASSUME NEW v, IsNewest(v, New) PROVE v \in versions /\ IsNewest(v, Old)
  <2>1. v \in versions' /\ v \in versions /\ v.node = n /\ IsVisible(s, v)
    BY <1>6, <1>8 DEF IsNewest, VisibleVersions
  <2>2. ~ \E w \in versions : w.node = v.node /\ w.deleted = Nil /\ w.created > v.created
    BY <1>5, <2>1
  <2>3. ASSUME NEW w \in Old PROVE w.created <= v.created
    <3>1. w \in versions /\ w.node = n /\ w.deleted = Nil
      BY <1>4, <2>3 DEF VisibleVersions
    <3> QED BY <1>3, <2>1, <2>2, <3>1
  <2> QED BY <2>1, <2>3 DEF IsNewest, VisibleVersions
<1>9. ReadFrom(versions', s, n) = ReadFrom(versions, s, n)
  BY <1>7, <1>8 DEF ReadFrom
<1> QED BY <1>1, <1>9 DEF s

\* Neither a rollback nor, with no transaction active, a collection changes what a new
\* snapshot reads (rollback and gc of mvcc.rs).
THEOREM CleanupNeverSeen == Spec => CleanupInvisible
<1>1. ASSUME TypeOK, SnapshotInv, [Next]_vars
      PROVE  [(\E t \in active : Rollback(t)) \/ (Gc /\ active = {}) =>
                \A n \in Nodes : ReadNode(FreshSnapshot, n)' = ReadNode(FreshSnapshot, n)]_vars
  BY <1>1, RollbackUnseen, CollectionUnseen DEF ReadNode
<1> QED
  BY <1>1, TypeCorrect, SnapshotInvariant, PTL DEF Spec, CleanupInvisible

-----------------------------------------------------------------------------
(* The backups that are kept *)

\* Files are named by times up to now. From the start of a backup until the round has
\* pruned, the file of this round is there, and whole once the backup was completed.
BackupInv ==
    /\ round \in [phase : {"wait", "write", "prune"}, time : Nat]
    /\ backups \in [DOMAIN backups -> {"torn", "whole"}]
    /\ DOMAIN backups \subseteq 1 .. round.time
    /\ round.phase # "wait" => round.time \in DOMAIN backups
    /\ round.phase = "prune" => backups[round.time] = "whole"

\* The server has no part in the files of the scheduler.
LEMMA ServerKeepsBackups == ServerMoves => backups' = backups /\ round' = round
BY DEF ServerMoves, StartServer, StopSignal, NodesCollected, EdgesCollected, FinishSave, CrashServer,
       AddNode, AddEdge, DropNode, DropDoomed, DropEdge, CollectNode, CollectEdge, SaveCutShort,
       Statement, Stop, KeepsBackups

\* What Without leaves of a function.
LEMMA WithoutFiles ==
    ASSUME NEW f, NEW K PROVE  Without(f, K) = [x \in DOMAIN f \ K |-> f[x]]
BY DEF Without, Restrict

\* Files named by times up to now are finitely many.
LEMMA NamesFinite ==
    ASSUME NEW N \in Nat, NEW D, D \subseteq 1 .. N
    PROVE  IsFiniteSet(D) /\ Cardinality(D) \in Nat
<1>1. IsFiniteSet(1 .. N)
  BY FS_Interval
<1>2. IsFiniteSet(D)
  BY <1>1, FS_Subset
<1> QED BY <1>2, FS_CardinalityType

\* Pruning never takes the newest file, as long as any are to be kept: all the others
\* are older, and at most all but max_backups go.
LEMMA NewestStays ==
    ASSUME NEW N \in Nat, NEW D, D \subseteq 1 .. N, N \in D, NEW k \in Nat,
           k <= IF Cardinality(D) <= MaxBackups THEN 0 ELSE Cardinality(D) - MaxBackups,
           MaxBackups > 0
    PROVE  ~ (Cardinality({u \in D : u < N}) < k)
<1>1. IsFiniteSet(D) /\ Cardinality(D) \in Nat
  BY NamesFinite
<1>2. {u \in D : u < N} = D \ {N}
  <2>1. \A u \in D : u \in 1 .. N
    OBVIOUS
  <2>2. \A u \in D : u < N <=> u # N
    BY <2>1
  <2> QED BY <2>2
<1>3. Cardinality(D \ {N}) = Cardinality(D) - 1
  BY <1>1, FS_RemoveElement
<1>4. Cardinality({u \in D : u < N}) = Cardinality(D) - 1
  BY <1>2, <1>3
<1>5. MaxBackups \in Nat
  BY BackupsAssumption
<1>6. PICK c, d : c = Cardinality({u \in D : u < N}) /\ d = Cardinality(D)
  OBVIOUS
<1>7. d \in Nat /\ c = d - 1 /\ k <= IF d <= MaxBackups THEN 0 ELSE d - MaxBackups
  BY <1>1, <1>4, <1>6
<1>8. d # 0
  BY <1>1, <1>6, FS_EmptySet
<1>9. ~ (c < k)
  BY <1>5, <1>7, <1>8
<1> QED BY <1>6, <1>9

\* What a step does to the files: it keeps the invariant, and the newest whole backup.
LEMMA BackupStep ==
    ASSUME BackupInv, [ServerMoves \/ SchedulerMoves]_snapVars
    PROVE  /\ BackupInv'
           /\ \A t \in DOMAIN backups :
                (MaxBackups > 0 /\ backups[t] = "whole"
                   /\ \A u \in DOMAIN backups : backups[u] = "whole" => u <= t)
                => t \in DOMAIN backups' \/ \E u \in DOMAIN backups' : u > t /\ backups'[u] = "whole"
<1>1. CASE backups' = backups /\ round' = round
  BY <1>1 DEF BackupInv
<1>2. CASE BeginBackup
  <2> DEFINE n == round.time + 1
  <2>1. /\ round' = [phase |-> "write", time |-> n] /\ round.time \in Nat
        /\ backups' = [x \in DOMAIN backups \cup {n} |-> IF x = n THEN "torn" ELSE backups[x]]
    BY <1>2 DEF BeginBackup, With, BackupInv
  <2>2. DOMAIN backups' = DOMAIN backups \cup {n}
    BY <2>1
  <2>3. backups' \in [DOMAIN backups' -> {"torn", "whole"}]
    BY <2>1, <2>2 DEF BackupInv
  <2>4. DOMAIN backups' \subseteq 1 .. n
    BY <2>1, <2>2 DEF BackupInv
  <2>5. round' \in [phase : {"wait", "write", "prune"}, time : Nat] /\ round'.time = n /\ round'.phase = "write"
    BY <2>1
  <2> QED BY <2>2, <2>3, <2>4, <2>5 DEF BackupInv
<1>3. CASE FinishBackup
  <2>1. /\ round' = [round EXCEPT !.phase = "prune"] /\ round.phase = "write"
        /\ backups' = [backups EXCEPT ![round.time] = "whole"]
    BY <1>3 DEF FinishBackup
  <2>2. DOMAIN backups' = DOMAIN backups /\ round'.time = round.time
    BY <2>1 DEF BackupInv
  <2>3. backups' \in [DOMAIN backups' -> {"torn", "whole"}] /\ backups'[round.time] = "whole"
    BY <2>1, <2>2 DEF BackupInv
  <2>4. round' \in [phase : {"wait", "write", "prune"}, time : Nat] /\ round'.phase = "prune"
    BY <2>1 DEF BackupInv
  <2> QED BY <2>1, <2>2, <2>3, <2>4 DEF BackupInv
<1>4. CASE BackupFails
  BY <1>4 DEF BackupFails, BackupInv
<1>5. ASSUME NEW k \in 0 .. Excess, PruneOldBackups(k) PROVE BackupInv' /\ (MaxBackups > 0 => round.time \in DOMAIN backups')
  <2>1. /\ round' = [round EXCEPT !.phase = "wait"] /\ round.phase = "prune"
        /\ backups' = [x \in DOMAIN backups \ Oldest(k) |-> backups[x]]
    BY <1>5, WithoutFiles DEF PruneOldBackups
  <2>2. DOMAIN backups' = DOMAIN backups \ Oldest(k)
    BY <2>1
  <2>3. backups' \in [DOMAIN backups' -> {"torn", "whole"}]
    BY <2>1, <2>2 DEF BackupInv
  <2>4. round' \in [phase : {"wait", "write", "prune"}, time : Nat] /\ round'.phase = "wait"
        /\ round'.time = round.time
    BY <2>1 DEF BackupInv
  <2>5. BackupInv'
    BY <2>2, <2>3, <2>4 DEF BackupInv
  <2>6. ASSUME MaxBackups > 0 PROVE round.time \notin Oldest(k)
    <3>1. Cardinality(DOMAIN backups) \in Nat
      <4>1. round.time \in Nat /\ DOMAIN backups \subseteq 1 .. round.time
        BY DEF BackupInv
      <4> QED BY <4>1, NamesFinite
    <3>2. k \in Nat /\ k <= Excess
      BY <3>1, BackupsAssumption DEF Excess
    <3>3. PICK N, D : N = round.time /\ D = DOMAIN backups
      OBVIOUS
    <3>4. /\ N \in Nat /\ D \subseteq 1 .. N /\ N \in D
          /\ k <= IF Cardinality(D) <= MaxBackups THEN 0 ELSE Cardinality(D) - MaxBackups
      BY <2>1, <3>2, <3>3 DEF BackupInv, Excess
    <3>5. ~ (Cardinality({u \in D : u < N}) < k)
      BY <2>6, <3>2, <3>4, NewestStays
    <3> QED BY <3>3, <3>5 DEF Oldest
  <2> QED BY <2>1, <2>2, <2>5, <2>6 DEF BackupInv
<1>6. ASSUME NEW k \in 0 .. Excess, PruneOldBackups(k), MaxBackups > 0, NEW t \in DOMAIN backups,
             \A u \in DOMAIN backups : backups[u] = "whole" => u <= t
      PROVE  t \in DOMAIN backups'
  <2>1. round.phase = "prune"
    BY <1>6 DEF PruneOldBackups
  <2>2. round.time \in DOMAIN backups /\ backups[round.time] = "whole" /\ t \in 1 .. round.time
        /\ round.time \in Nat
    BY <2>1 DEF BackupInv
  <2>3. t = round.time
    BY <1>6, <2>2
  <2> QED BY <1>5, <1>6, <2>3
<1> QED BY <1>1, <1>2, <1>3, <1>4, <1>5, <1>6, ServerKeepsBackups DEF SchedulerMoves, snapVars

\* The newest complete backup is never the one that prune_old_backups removes, and a
\* complete one stays through failures and crashes, for any number to keep.
THEOREM NewestBackupAlwaysKept == SnapSpec => NewestBackupKept
<1>1. SnapInit => BackupInv
  BY DEF SnapInit, BackupInv, Nothing
<1>2. BackupInv /\ [ServerMoves \/ SchedulerMoves]_snapVars => BackupInv'
  BY BackupStep
<1>3. BackupInv /\ [ServerMoves \/ SchedulerMoves]_snapVars =>
         [\A t \in DOMAIN backups :
            (MaxBackups > 0 /\ backups[t] = "whole"
               /\ \A u \in DOMAIN backups : backups[u] = "whole" => u <= t)
             => t \in DOMAIN backups' \/ \E u \in DOMAIN backups' : u > t /\ backups'[u] = "whole"]_snapVars
  BY BackupStep
<1> QED BY <1>1, <1>2, <1>3, PTL DEF SnapSpec, NewestBackupKept
=============================================================================
