------------------------------ MODULE TxProofs ------------------------------
(* Proofs about statements, transactions and the stream of WAL entries        *)
(* (ConcurrentGraph, MutationLog, TxServer): on the leader and on a follower  *)
(* the redundant structures of the graph always agree with its nodes and      *)
(* edges, a follower that has applied everything has the leader's graph, and  *)
(* the rollback of a transaction that wrote alone gives back the graph it     *)
(* began with.                                                                *)
EXTENDS TxServer, FiniteSetTheorems, FunctionTheorems, SequenceTheorems, WellFoundedInduction, TLAPS

-----------------------------------------------------------------------------
(* Maps and records.                                                          *)

IsMap(f) == f = [x \in DOMAIN f |-> f[x]]

LEMMA PutMap ==
    ASSUME NEW f, NEW k, NEW v
    PROVE  IsMap(Put(f, k, v))
  BY DEF IsMap, Put

LEMMA PutDomain ==
    ASSUME NEW f, NEW k, NEW v
    PROVE  DOMAIN Put(f, k, v) = DOMAIN f \cup {k}
  BY DEF Put

LEMMA PutDomainSame ==
    ASSUME NEW f, NEW k, NEW v, k \in DOMAIN f
    PROVE  DOMAIN Put(f, k, v) = DOMAIN f
<1>1. DOMAIN f \cup {k} = DOMAIN f
  OBVIOUS
<1> QED BY <1>1, PutDomain

LEMMA PutAt ==
    ASSUME NEW f, NEW k, NEW v
    PROVE  Put(f, k, v)[k] = v
  BY DEF Put

LEMMA PutOther ==
    ASSUME NEW f, NEW k, NEW v, NEW x \in DOMAIN f, x # k
    PROVE  Put(f, k, v)[x] = f[x]
  BY DEF Put

LEMMA DropMap ==
    ASSUME NEW f, NEW K
    PROVE  IsMap(Drop(f, K))
  BY DEF IsMap, Drop, Restrict

LEMMA DropDomain ==
    ASSUME NEW f, NEW K
    PROVE  DOMAIN Drop(f, K) = DOMAIN f \ K
  BY DEF Drop, Restrict

LEMMA DropOther ==
    ASSUME NEW f, NEW K, NEW x \in DOMAIN f \ K
    PROVE  Drop(f, K)[x] = f[x]
  BY DEF Drop, Restrict

LEMMA MapsEqual ==
    ASSUME NEW f, NEW g, IsMap(f), IsMap(g), DOMAIN f = DOMAIN g, \A x \in DOMAIN f : f[x] = g[x]
    PROVE  f = g
  BY DEF IsMap

LEMMA EntryMap ==
    ASSUME NEW f, IsMap(f), NEW k
    PROVE  IsMap(EntryOrDefault(f, k))
  BY PutMap DEF EntryOrDefault

LEMMA EntryDomain ==
    ASSUME NEW f, NEW k
    PROVE  DOMAIN EntryOrDefault(f, k) = DOMAIN f \cup {k}
  BY PutDomain DEF EntryOrDefault

LEMMA EntryAt ==
    ASSUME NEW f, NEW k, k \notin DOMAIN f
    PROVE  EntryOrDefault(f, k)[k] = {}
  BY PutAt DEF EntryOrDefault

LEMMA EntryOther ==
    ASSUME NEW f, NEW k, NEW x \in DOMAIN f
    PROVE  EntryOrDefault(f, k)[x] = f[x]
  BY PutOther DEF EntryOrDefault

LEMMA NatsHaveLeast ==
    ASSUME NEW T, T \subseteq Nat, T # {}
    PROVE  \E n \in T : \A m \in T : n <= m
<1> DEFINE R == OpToRel(<, Nat)
<1>1. IsWellFoundedOn(R, Nat)
  BY NatLessThanWellFounded
<1>2. PICK n \in T : \A m \in T : ~(<<m, n>> \in R)
  BY <1>1, WFMin
<1>3. \A m \in T : ~(m < n)
  BY <1>2 DEF OpToRel
<1> QED BY <1>3

(* What a graph holds. NodeOf and EdgeOf are a node and an edge as records;   *)
(* a set of properties is finite.                                             *)
PropMap(p) == IsMap(p) /\ IsFiniteSet(DOMAIN p)
NodeOf(ls, p) == [labels |-> ls, props |-> p]
EdgeOf(from, to, p) == [from |-> from, to |-> to, props |-> p]
NodeOK(x) == x = NodeOf(x.labels, x.props) /\ x.labels \in Seq(Labels) /\ PropMap(x.props)
EdgeOK(x) == x = EdgeOf(x.from, x.to, x.props) /\ PropMap(x.props)

LEMMA EmptyProps == PropMap(Empty) /\ DOMAIN Empty = {}
<1>1. DOMAIN Empty = {} /\ IsMap(Empty)
  BY DEF Empty, IsMap
<1> QED BY <1>1, FS_EmptySet DEF PropMap

LEMMA NodeOfOK ==
    ASSUME NEW ls \in Seq(Labels), NEW p, PropMap(p)
    PROVE  NodeOK(NodeOf(ls, p)) /\ NodeOf(ls, p).labels = ls /\ NodeOf(ls, p).props = p
  BY DEF NodeOK, NodeOf

LEMMA EdgeOfOK ==
    ASSUME NEW from, NEW to, NEW p, PropMap(p)
    PROVE  /\ EdgeOK(EdgeOf(from, to, p)) /\ EdgeOf(from, to, p).from = from
           /\ EdgeOf(from, to, p).to = to /\ EdgeOf(from, to, p).props = p
  BY DEF EdgeOK, EdgeOf

LEMMA PropsPut ==
    ASSUME NEW p, PropMap(p), NEW k, NEW v
    PROVE  PropMap(Put(p, k, v))
<1>1. IsMap(Put(p, k, v)) /\ DOMAIN Put(p, k, v) = DOMAIN p \cup {k}
  BY PutMap, PutDomain
<1>2. IsFiniteSet(DOMAIN p \cup {k})
  BY FS_AddElement DEF PropMap
<1> QED BY <1>1, <1>2 DEF PropMap

LEMMA PropsDrop ==
    ASSUME NEW p, PropMap(p), NEW K
    PROVE  PropMap(Drop(p, K))
<1>1. IsMap(Drop(p, K)) /\ DOMAIN Drop(p, K) = DOMAIN p \ K
  BY DropMap, DropDomain
<1>2. IsFiniteSet(DOMAIN p \ K)
  BY FS_Subset DEF PropMap
<1> QED BY <1>1, <1>2 DEF PropMap

-----------------------------------------------------------------------------
(* The parts of a graph and how they agree: N its nodes, E its edges, O its   *)
(* outgoing or incoming sets against the ends F of the edges, X its label     *)
(* index against the label sets L of the nodes.                               *)

NodesWell(N, next) ==
    /\ IsMap(N) /\ DOMAIN N \subseteq Nat /\ next \in Nat
    /\ \A n \in DOMAIN N : NodeOK(N[n]) /\ n < next

EdgesWell(E, next, D) ==
    /\ IsMap(E) /\ DOMAIN E \subseteq Nat /\ next \in Nat
    /\ \A e \in DOMAIN E : EdgeOK(E[e]) /\ e < next
    /\ \A e \in DOMAIN E : E[e].from \in D /\ E[e].to \in D

Sources(E) == [e \in DOMAIN E |-> E[e].from]
Targets(E) == [e \in DOMAIN E |-> E[e].to]
LabelSets(N) == [n \in DOMAIN N |-> Range(N[n].labels)]

AdjWell(O, D, F) ==
    /\ IsMap(O) /\ DOMAIN O = D
    /\ \A n \in D : O[n] = {e \in DOMAIN F : F[e] = n}

IndexWell(X, L) ==
    /\ IsMap(X) /\ DOMAIN X = Labels
    /\ \A l \in Labels : X[l] = {n \in DOMAIN L : l \in L[n]}

Shape(g) ==
    g = [nodes |-> g.nodes, edges |-> g.edges, out |-> g.out, inc |-> g.inc, index |-> g.index,
         nextNode |-> g.nextNode, nextEdge |-> g.nextEdge]

Good(g) ==
    /\ Shape(g)
    /\ NodesWell(g.nodes, g.nextNode)
    /\ EdgesWell(g.edges, g.nextEdge, DOMAIN g.nodes)
    /\ AdjWell(g.out, DOMAIN g.nodes, Sources(g.edges))
    /\ AdjWell(g.inc, DOMAIN g.nodes, Targets(g.edges))
    /\ IndexWell(g.index, LabelSets(g.nodes))

LEMMA GoodIsConsistent ==
    ASSUME NEW g, Good(g)
    PROVE  Consistent(g)
<1>1. DOMAIN g.out = DOMAIN g.nodes /\ DOMAIN g.inc = DOMAIN g.nodes
  BY DEF Good, AdjWell
<1>2. \A e \in DOMAIN g.edges : EndpointsExist(g, g.edges[e].from, g.edges[e].to)
  BY DEF Good, EdgesWell, EndpointsExist, HasNode
<1>3. \A n \in DOMAIN g.nodes : g.out[n] = {e \in DOMAIN g.edges : g.edges[e].from = n}
  BY DEF Good, AdjWell, Sources
<1>4. \A n \in DOMAIN g.nodes : g.inc[n] = {e \in DOMAIN g.edges : g.edges[e].to = n}
  BY DEF Good, AdjWell, Targets
<1>5. \A l \in Labels : NodesByLabel(g, l) = {n \in DOMAIN g.nodes : HasLabel(g, n, l)}
  BY DEF Good, IndexWell, LabelSets, NodesByLabel, HasLabel, HasNode
<1>6. \A n \in DOMAIN g.nodes : n < g.nextNode
  BY DEF Good, NodesWell
<1>7. \A e \in DOMAIN g.edges : e < g.nextEdge
  BY DEF Good, EdgesWell
<1> QED BY <1>1, <1>2, <1>3, <1>4, <1>5, <1>6, <1>7 DEF Consistent

LEMMA NodesPut ==
    ASSUME NEW N, NEW next, NodesWell(N, next), NEW n \in Nat, NEW x, NodeOK(x),
           NEW later \in Nat, later >= next, n < later
    PROVE  NodesWell(Put(N, n, x), later)
<1>1. PICK P : P = Put(N, n, x)
  OBVIOUS
<1>2. IsMap(P) /\ DOMAIN P = DOMAIN N \cup {n}
  BY <1>1, PutMap, PutDomain
<1>3. P[n] = x
  BY <1>1, PutAt
<1>4. \A m \in DOMAIN N : m # n => P[m] = N[m]
  BY <1>1, PutOther
<1>5. \A m \in DOMAIN P : NodeOK(P[m]) /\ m < later
  BY <1>2, <1>3, <1>4 DEF NodesWell
<1> QED BY <1>1, <1>2, <1>5 DEF NodesWell

LEMMA NodesDrop ==
    ASSUME NEW N, NEW next, NodesWell(N, next), NEW K
    PROVE  NodesWell(Drop(N, K), next)
<1>1. PICK P : P = Drop(N, K)
  OBVIOUS
<1>2. IsMap(P) /\ DOMAIN P = DOMAIN N \ K
  BY <1>1, DropMap, DropDomain
<1>3. \A m \in DOMAIN N \ K : P[m] = N[m]
  BY <1>1, DropOther
<1> QED BY <1>1, <1>2, <1>3 DEF NodesWell

LEMMA EdgesPut ==
    ASSUME NEW E, NEW next, NEW D, EdgesWell(E, next, D), NEW e \in Nat, NEW x, EdgeOK(x),
           x.from \in D, x.to \in D, NEW later \in Nat, later >= next, e < later
    PROVE  EdgesWell(Put(E, e, x), later, D)
<1>1. PICK P : P = Put(E, e, x)
  OBVIOUS
<1>2. IsMap(P) /\ DOMAIN P = DOMAIN E \cup {e}
  BY <1>1, PutMap, PutDomain
<1>3. P[e] = x
  BY <1>1, PutAt
<1>4. \A m \in DOMAIN E : m # e => P[m] = E[m]
  BY <1>1, PutOther
<1>5. \A m \in DOMAIN P : EdgeOK(P[m]) /\ m < later
  BY <1>2, <1>3, <1>4 DEF EdgesWell
<1>6. \A m \in DOMAIN P : P[m].from \in D /\ P[m].to \in D
  BY <1>2, <1>3, <1>4 DEF EdgesWell
<1> QED BY <1>1, <1>2, <1>5, <1>6 DEF EdgesWell

LEMMA EdgesDrop ==
    ASSUME NEW E, NEW next, NEW D, EdgesWell(E, next, D), NEW K, NEW C,
           \A e \in DOMAIN E \ K : E[e].from \in C /\ E[e].to \in C
    PROVE  EdgesWell(Drop(E, K), next, C)
<1>1. PICK P : P = Drop(E, K)
  OBVIOUS
<1>2. IsMap(P) /\ DOMAIN P = DOMAIN E \ K
  BY <1>1, DropMap, DropDomain
<1>3. \A m \in DOMAIN E \ K : P[m] = E[m]
  BY <1>1, DropOther
<1>4. \A m \in DOMAIN P : P[m].from \in C /\ P[m].to \in C
  BY <1>2, <1>3
<1>5. \A m \in DOMAIN P : EdgeOK(P[m]) /\ m < next
  BY <1>2, <1>3 DEF EdgesWell
<1> QED BY <1>1, <1>2, <1>4, <1>5 DEF EdgesWell

LEMMA EdgesWider ==
    ASSUME NEW E, NEW next, NEW D, EdgesWell(E, next, D), NEW C, D \subseteq C
    PROVE  EdgesWell(E, next, C)
  BY DEF EdgesWell

LEMMA SourcesPut ==
    ASSUME NEW E, NEW e, NEW x
    PROVE  Sources(Put(E, e, x)) = Put(Sources(E), e, x.from)
  BY DEF Sources, Put

LEMMA TargetsPut ==
    ASSUME NEW E, NEW e, NEW x
    PROVE  Targets(Put(E, e, x)) = Put(Targets(E), e, x.to)
  BY DEF Targets, Put

LEMMA SourcesDrop ==
    ASSUME NEW E, NEW K
    PROVE  Sources(Drop(E, K)) = Drop(Sources(E), K)
  BY DEF Sources, Drop, Restrict

LEMMA TargetsDrop ==
    ASSUME NEW E, NEW K
    PROVE  Targets(Drop(E, K)) = Drop(Targets(E), K)
  BY DEF Targets, Drop, Restrict

LEMMA LabelsPut ==
    ASSUME NEW N, NEW n, NEW x
    PROVE  LabelSets(Put(N, n, x)) = Put(LabelSets(N), n, Range(x.labels))
  BY DEF LabelSets, Put

LEMMA LabelsDrop ==
    ASSUME NEW N, NEW K
    PROVE  LabelSets(Drop(N, K)) = Drop(LabelSets(N), K)
  BY DEF LabelSets, Drop, Restrict

(* Writing an entry that is already there changes nothing.                    *)
LEMMA PutSame ==
    ASSUME NEW f, IsMap(f), NEW k \in DOMAIN f
    PROVE  Put(f, k, f[k]) = f
  BY DEF IsMap, Put

LEMMA PartsAreMaps ==
    ASSUME NEW f
    PROVE  /\ IsMap(Sources(f)) /\ DOMAIN Sources(f) = DOMAIN f
           /\ IsMap(Targets(f)) /\ DOMAIN Targets(f) = DOMAIN f
           /\ IsMap(LabelSets(f)) /\ DOMAIN LabelSets(f) = DOMAIN f
  BY DEF IsMap, Sources, Targets, LabelSets

LEMMA AdjNewNode ==
    ASSUME NEW O, NEW D, NEW F, AdjWell(O, D, F), NEW n, n \notin D,
           \A e \in DOMAIN F : F[e] \in D
    PROVE  AdjWell(EntryOrDefault(O, n), D \cup {n}, F)
<1>1. PICK P : P = EntryOrDefault(O, n)
  OBVIOUS
<1>2. IsMap(P) /\ DOMAIN P = D \cup {n}
  BY <1>1, EntryMap, EntryDomain DEF AdjWell
<1>3. P[n] = {}
  BY <1>1, EntryAt DEF AdjWell
<1>4. \A m \in D : P[m] = O[m]
  BY <1>1, EntryOther DEF AdjWell
<1>5. {e \in DOMAIN F : F[e] = n} = {}
  OBVIOUS
<1>6. \A m \in D \cup {n} : P[m] = {e \in DOMAIN F : F[e] = m}
  BY <1>3, <1>4, <1>5 DEF AdjWell
<1> QED BY <1>1, <1>2, <1>6 DEF AdjWell

LEMMA AdjNewEdge ==
    ASSUME NEW O, NEW D, NEW F, AdjWell(O, D, F), NEW e, e \notin DOMAIN F, NEW a \in D
    PROVE  AdjWell(Put(O, a, O[a] \cup {e}), D, Put(F, e, a))
<1>1. PICK P : P = Put(O, a, O[a] \cup {e})
  OBVIOUS
<1>2. PICK G : G = Put(F, e, a)
  OBVIOUS
<1>3. IsMap(P) /\ DOMAIN P = D
  BY <1>1, PutMap, PutDomainSame DEF AdjWell
<1>4. P[a] = O[a] \cup {e}
  BY <1>1, PutAt
<1>5. \A m \in D : m # a => P[m] = O[m]
  BY <1>1, PutOther DEF AdjWell
<1>6. DOMAIN G = DOMAIN F \cup {e}
  BY <1>2, PutDomain
<1>7. G[e] = a
  BY <1>2, PutAt
<1>8. \A d \in DOMAIN F : G[d] = F[d]
  BY <1>2, PutOther
<1>9. ASSUME NEW m \in D PROVE P[m] = {d \in DOMAIN G : G[d] = m}
  <2>1. O[m] = {d \in DOMAIN F : F[d] = m}
    BY DEF AdjWell
  <2>2. CASE m = a
    BY <1>4, <1>6, <1>7, <1>8, <2>1, <2>2
  <2>3. CASE m # a
    BY <1>5, <1>6, <1>7, <1>8, <2>1, <2>3
  <2> QED BY <2>2, <2>3
<1> QED BY <1>1, <1>2, <1>3, <1>9 DEF AdjWell

LEMMA AdjDropEdge ==
    ASSUME NEW O, NEW D, NEW F, AdjWell(O, D, F), NEW e \in DOMAIN F, F[e] \in D
    PROVE  AdjWell([O EXCEPT ![F[e]] = @ \ {e}], D, Drop(F, {e}))
<1>1. PICK P : P = [O EXCEPT ![F[e]] = @ \ {e}]
  OBVIOUS
<1>2. PICK G : G = Drop(F, {e})
  OBVIOUS
<1>3. IsMap(P) /\ DOMAIN P = D
  BY <1>1 DEF AdjWell, IsMap
<1>4. \A m \in D : P[m] = IF m = F[e] THEN O[m] \ {e} ELSE O[m]
  BY <1>1 DEF AdjWell
<1>5. DOMAIN G = DOMAIN F \ {e}
  BY <1>2, DropDomain
<1>6. \A d \in DOMAIN F \ {e} : G[d] = F[d]
  BY <1>2, DropOther
<1>7. ASSUME NEW m \in D PROVE P[m] = {d \in DOMAIN G : G[d] = m}
  <2>1. O[m] = {d \in DOMAIN F : F[d] = m}
    BY DEF AdjWell
  <2>2. CASE m = F[e]
    BY <1>4, <1>5, <1>6, <2>1, <2>2
  <2>3. CASE m # F[e]
    <3>1. P[m] = {d \in DOMAIN F : F[d] = m}
      BY <1>4, <2>1, <2>3
    <3> QED BY <3>1, <1>5, <1>6, <2>3
  <2> QED BY <2>2, <2>3
<1> QED BY <1>1, <1>2, <1>3, <1>7 DEF AdjWell

LEMMA AdjDropNode ==
    ASSUME NEW O, NEW D, NEW F, AdjWell(O, D, F), NEW n, NEW gone
    PROVE  AdjWell([m \in DOMAIN O \ {n} |-> O[m] \ gone], D \ {n}, Drop(F, gone))
<1>1. PICK P : P = [m \in DOMAIN O \ {n} |-> O[m] \ gone]
  OBVIOUS
<1>2. PICK G : G = Drop(F, gone)
  OBVIOUS
<1>3. IsMap(P) /\ DOMAIN P = D \ {n}
  BY <1>1 DEF AdjWell, IsMap
<1>4. \A m \in D \ {n} : P[m] = O[m] \ gone
  BY <1>1 DEF AdjWell
<1>5. DOMAIN G = DOMAIN F \ gone
  BY <1>2, DropDomain
<1>6. \A d \in DOMAIN F \ gone : G[d] = F[d]
  BY <1>2, DropOther
<1>7. ASSUME NEW m \in D \ {n} PROVE P[m] = {d \in DOMAIN G : G[d] = m}
  <2>1. O[m] = {d \in DOMAIN F : F[d] = m}
    BY DEF AdjWell
  <2> QED BY <1>4, <1>5, <1>6, <2>1
<1> QED BY <1>1, <1>2, <1>3, <1>7 DEF AdjWell

LEMMA IndexNewNode ==
    ASSUME NEW X, NEW L, IndexWell(X, L), NEW n, n \notin DOMAIN L, NEW ls
    PROVE  IndexWell(LabelIndexAdd(X, n, ls), Put(L, n, Range(ls)))
<1>1. PICK Y : Y = LabelIndexAdd(X, n, ls)
  OBVIOUS
<1>2. PICK M : M = Put(L, n, Range(ls))
  OBVIOUS
<1>3. IsMap(Y) /\ DOMAIN Y = Labels
  BY <1>1 DEF LabelIndexAdd, IsMap
<1>4. \A l \in Labels : Y[l] = IF l \in Range(ls) THEN X[l] \cup {n} ELSE X[l]
  BY <1>1 DEF LabelIndexAdd
<1>5. DOMAIN M = DOMAIN L \cup {n}
  BY <1>2, PutDomain
<1>6. M[n] = Range(ls)
  BY <1>2, PutAt
<1>7. \A m \in DOMAIN L : M[m] = L[m]
  BY <1>2, PutOther
<1>8. ASSUME NEW l \in Labels PROVE Y[l] = {m \in DOMAIN M : l \in M[m]}
  <2>1. X[l] = {m \in DOMAIN L : l \in L[m]}
    BY DEF IndexWell
  <2> QED BY <1>4, <1>5, <1>6, <1>7, <2>1
<1> QED BY <1>1, <1>2, <1>3, <1>8 DEF IndexWell

LEMMA IndexDropNode ==
    ASSUME NEW X, NEW L, IndexWell(X, L), NEW n \in DOMAIN L, NEW ls, L[n] = Range(ls)
    PROVE  IndexWell(LabelIndexRemove(X, n, ls), Drop(L, {n}))
<1>1. PICK Y : Y = LabelIndexRemove(X, n, ls)
  OBVIOUS
<1>2. PICK M : M = Drop(L, {n})
  OBVIOUS
<1>3. IsMap(Y) /\ DOMAIN Y = Labels
  BY <1>1 DEF LabelIndexRemove, IsMap
<1>4. \A l \in Labels : Y[l] = IF l \in Range(ls) THEN X[l] \ {n} ELSE X[l]
  BY <1>1 DEF LabelIndexRemove
<1>5. DOMAIN M = DOMAIN L \ {n}
  BY <1>2, DropDomain
<1>6. \A m \in DOMAIN L \ {n} : M[m] = L[m]
  BY <1>2, DropOther
<1>7. ASSUME NEW l \in Labels PROVE Y[l] = {m \in DOMAIN M : l \in M[m]}
  <2>1. X[l] = {m \in DOMAIN L : l \in L[m]}
    BY DEF IndexWell
  <2>2. CASE l \in Range(ls)
    BY <1>4, <1>5, <1>6, <2>1, <2>2
  <2>3. CASE l \notin Range(ls)
    <3>1. Y[l] = {m \in DOMAIN L : l \in L[m]}
      BY <1>4, <2>1, <2>3
    <3> QED BY <3>1, <1>5, <1>6, <2>3
  <2> QED BY <2>2, <2>3
<1> QED BY <1>1, <1>2, <1>3, <1>7 DEF IndexWell

(* One label of one node added to, or taken from, the index.                  *)
LEMMA IndexAddLabel ==
    ASSUME NEW X, NEW L, IndexWell(X, L), NEW n \in DOMAIN L, NEW l \in Labels
    PROVE  IndexWell([X EXCEPT ![l] = @ \cup {n}], Put(L, n, L[n] \cup {l}))
<1>1. PICK Y : Y = [X EXCEPT ![l] = @ \cup {n}]
  OBVIOUS
<1>2. PICK M : M = Put(L, n, L[n] \cup {l})
  OBVIOUS
<1>3. IsMap(Y) /\ DOMAIN Y = Labels
  BY <1>1 DEF IndexWell, IsMap
<1>4. \A k \in Labels : Y[k] = IF k = l THEN X[k] \cup {n} ELSE X[k]
  BY <1>1 DEF IndexWell
<1>5. DOMAIN M = DOMAIN L
  BY <1>2, PutDomainSame
<1>6. M[n] = L[n] \cup {l}
  BY <1>2, PutAt
<1>7. \A m \in DOMAIN L : m # n => M[m] = L[m]
  BY <1>2, PutOther
<1>8. ASSUME NEW k \in Labels PROVE Y[k] = {m \in DOMAIN M : k \in M[m]}
  <2>1. X[k] = {m \in DOMAIN L : k \in L[m]}
    BY DEF IndexWell
  <2> QED BY <1>4, <1>5, <1>6, <1>7, <2>1
<1> QED BY <1>1, <1>2, <1>3, <1>8 DEF IndexWell

LEMMA IndexRemoveLabel ==
    ASSUME NEW X, NEW L, IndexWell(X, L), NEW n \in DOMAIN L, NEW l \in Labels
    PROVE  IndexWell([X EXCEPT ![l] = @ \ {n}], Put(L, n, L[n] \ {l}))
<1>1. PICK Y : Y = [X EXCEPT ![l] = @ \ {n}]
  OBVIOUS
<1>2. PICK M : M = Put(L, n, L[n] \ {l})
  OBVIOUS
<1>3. IsMap(Y) /\ DOMAIN Y = Labels
  BY <1>1 DEF IndexWell, IsMap
<1>4. \A k \in Labels : Y[k] = IF k = l THEN X[k] \ {n} ELSE X[k]
  BY <1>1 DEF IndexWell
<1>5. DOMAIN M = DOMAIN L
  BY <1>2, PutDomainSame
<1>6. M[n] = L[n] \ {l}
  BY <1>2, PutAt
<1>7. \A m \in DOMAIN L : m # n => M[m] = L[m]
  BY <1>2, PutOther
<1>8. ASSUME NEW k \in Labels PROVE Y[k] = {m \in DOMAIN M : k \in M[m]}
  <2>1. X[k] = {m \in DOMAIN L : k \in L[m]}
    BY DEF IndexWell
  <2> QED BY <1>4, <1>5, <1>6, <1>7, <2>1
<1> QED BY <1>1, <1>2, <1>3, <1>8 DEF IndexWell

-----------------------------------------------------------------------------
(* Each change of a graph keeps its parts in agreement, and what it does to   *)
(* the nodes and the edges.                                                   *)

LEMMA EndsInside ==
    ASSUME NEW E, NEW next, NEW D, EdgesWell(E, next, D)
    PROVE  /\ \A e \in DOMAIN Sources(E) : Sources(E)[e] \in D
           /\ \A e \in DOMAIN Targets(E) : Targets(E)[e] \in D
  BY DEF EdgesWell, Sources, Targets

LEMMA CreateNodeGood ==
    ASSUME NEW g, Good(g), NEW n \in Nat, n \notin DOMAIN g.nodes, NEW ls \in Seq(Labels),
           NEW h, h = CreateNodeWithId(g, n, ls)
    PROVE  /\ Good(h) /\ h.nodes = Put(g.nodes, n, NodeOf(ls, Empty)) /\ h.edges = g.edges
           /\ h.nextNode >= g.nextNode /\ h.nextNode > n /\ h.nextEdge = g.nextEdge
<1>1. /\ Shape(g) /\ NodesWell(g.nodes, g.nextNode) /\ EdgesWell(g.edges, g.nextEdge, DOMAIN g.nodes)
      /\ AdjWell(g.out, DOMAIN g.nodes, Sources(g.edges))
      /\ AdjWell(g.inc, DOMAIN g.nodes, Targets(g.edges)) /\ IndexWell(g.index, LabelSets(g.nodes))
  BY DEF Good
<1>2. /\ Shape(h) /\ h.nextNode = AtLeast(g.nextNode, n + 1)
      /\ h.nodes = Put(g.nodes, n, NewNode(ls)) /\ h.edges = g.edges
      /\ h.index = LabelIndexAdd(g.index, n, ls)
      /\ h.out = EntryOrDefault(g.out, n) /\ h.inc = EntryOrDefault(g.inc, n)
      /\ h.nextEdge = g.nextEdge
  BY <1>1 DEF Shape, CreateNodeWithId
<1>3. NewNode(ls) = NodeOf(ls, Empty)
  BY DEF NewNode, NodeOf
<1>4. NodeOK(NodeOf(ls, Empty)) /\ NodeOf(ls, Empty).labels = ls
  BY NodeOfOK, EmptyProps
<1>5. h.nextNode \in Nat /\ h.nextNode >= g.nextNode /\ h.nextNode > n
  BY <1>1, <1>2 DEF AtLeast, NodesWell
<1>6. DOMAIN h.nodes = DOMAIN g.nodes \cup {n}
  <2>1. h.nodes = Put(g.nodes, n, NewNode(ls))
    BY <1>2
  <2> QED BY <2>1, PutDomain
<1>7. NodesWell(h.nodes, h.nextNode)
  BY <1>1, <1>2, <1>3, <1>4, <1>5, NodesPut
<1>8. EdgesWell(h.edges, h.nextEdge, DOMAIN h.nodes)
  BY <1>1, <1>2, <1>6, EdgesWider
<1>9. AdjWell(h.out, DOMAIN h.nodes, Sources(h.edges)) /\ AdjWell(h.inc, DOMAIN h.nodes, Targets(h.edges))
  BY <1>1, <1>2, <1>6, EndsInside, AdjNewNode
<1>10. IndexWell(h.index, LabelSets(h.nodes))
  <2>1. n \notin DOMAIN LabelSets(g.nodes)
    BY PartsAreMaps
  <2>2. LabelSets(h.nodes) = Put(LabelSets(g.nodes), n, Range(ls))
    BY <1>2, <1>3, <1>4, LabelsPut
  <2> QED BY <1>1, <1>2, <2>1, <2>2, IndexNewNode
<1> QED BY <1>2, <1>3, <1>5, <1>7, <1>8, <1>9, <1>10 DEF Good

LEMMA DeleteNodeGood ==
    ASSUME NEW g, Good(g), NEW n \in DOMAIN g.nodes, NEW h, h = DeleteNode(g, n)
    PROVE  /\ Good(h) /\ h.nodes = Drop(g.nodes, {n})
           /\ h.edges = Drop(g.edges, g.out[n] \cup g.inc[n])
           /\ h.nextNode = g.nextNode /\ h.nextEdge = g.nextEdge
<1>1. /\ Shape(g) /\ NodesWell(g.nodes, g.nextNode) /\ EdgesWell(g.edges, g.nextEdge, DOMAIN g.nodes)
      /\ AdjWell(g.out, DOMAIN g.nodes, Sources(g.edges))
      /\ AdjWell(g.inc, DOMAIN g.nodes, Targets(g.edges)) /\ IndexWell(g.index, LabelSets(g.nodes))
  BY DEF Good
<1>2. PICK gone : gone = g.out[n] \cup g.inc[n]
  OBVIOUS
<1>3. /\ Shape(h) /\ h.nodes = Drop(g.nodes, {n}) /\ h.edges = Drop(g.edges, gone)
      /\ h.index = LabelIndexRemove(g.index, n, g.nodes[n].labels)
      /\ h.out = [m \in DOMAIN g.out \ {n} |-> g.out[m] \ gone]
      /\ h.inc = [m \in DOMAIN g.inc \ {n} |-> g.inc[m] \ gone]
      /\ h.nextNode = g.nextNode /\ h.nextEdge = g.nextEdge
  BY <1>1, <1>2 DEF Shape, DeleteNode, HasNode
<1>4. DOMAIN h.nodes = DOMAIN g.nodes \ {n}
  BY <1>3, DropDomain
<1>5. NodesWell(h.nodes, h.nextNode)
  BY <1>1, <1>3, NodesDrop
<1>6. \A e \in DOMAIN g.edges \ gone : g.edges[e].from # n /\ g.edges[e].to # n
  BY <1>1, <1>2 DEF AdjWell, Sources, Targets
<1>7. EdgesWell(h.edges, h.nextEdge, DOMAIN h.nodes)
  <2>1. \A e \in DOMAIN g.edges \ gone :
            g.edges[e].from \in DOMAIN g.nodes \ {n} /\ g.edges[e].to \in DOMAIN g.nodes \ {n}
    BY <1>1, <1>6 DEF EdgesWell
  <2> QED BY <1>1, <1>3, <1>4, <2>1, EdgesDrop
<1>8. AdjWell(h.out, DOMAIN h.nodes, Sources(h.edges))
  <2>1. PICK O : O = g.out
    OBVIOUS
  <2>2. PICK D : D = DOMAIN g.nodes
    OBVIOUS
  <2>3. AdjWell(O, D, Sources(g.edges))
    BY <1>1, <2>1, <2>2
  <2>4. AdjWell([m \in DOMAIN O \ {n} |-> O[m] \ gone], D \ {n}, Drop(Sources(g.edges), gone))
    BY <2>3, AdjDropNode
  <2>5. Sources(h.edges) = Drop(Sources(g.edges), gone)
    BY <1>3, SourcesDrop
  <2> QED BY <1>3, <1>4, <2>1, <2>2, <2>4, <2>5
<1>10. AdjWell(h.inc, DOMAIN h.nodes, Targets(h.edges))
  <2>1. PICK O : O = g.inc
    OBVIOUS
  <2>2. PICK D : D = DOMAIN g.nodes
    OBVIOUS
  <2>3. AdjWell(O, D, Targets(g.edges))
    BY <1>1, <2>1, <2>2
  <2>4. AdjWell([m \in DOMAIN O \ {n} |-> O[m] \ gone], D \ {n}, Drop(Targets(g.edges), gone))
    BY <2>3, AdjDropNode
  <2>5. Targets(h.edges) = Drop(Targets(g.edges), gone)
    BY <1>3, TargetsDrop
  <2> QED BY <1>3, <1>4, <2>1, <2>2, <2>4, <2>5
<1>9. IndexWell(h.index, LabelSets(h.nodes))
  <2>1. n \in DOMAIN LabelSets(g.nodes)
    BY PartsAreMaps
  <2>2. LabelSets(g.nodes)[n] = Range(g.nodes[n].labels)
    BY DEF LabelSets
  <2> QED BY <1>1, <1>3, <2>1, <2>2, LabelsDrop, IndexDropNode
<1> QED BY <1>2, <1>3, <1>5, <1>7, <1>8, <1>9, <1>10 DEF Good

LEMMA CreateEdgeGood ==
    ASSUME NEW g, Good(g), NEW e \in Nat, e \notin DOMAIN g.edges,
           NEW from \in DOMAIN g.nodes, NEW to \in DOMAIN g.nodes,
           NEW h, h = CreateEdgeWithId(g, e, from, to)
    PROVE  /\ Good(h) /\ h.edges = Put(g.edges, e, EdgeOf(from, to, Empty)) /\ h.nodes = g.nodes
           /\ h.nextEdge >= g.nextEdge /\ h.nextEdge > e /\ h.nextNode = g.nextNode
<1>1. /\ Shape(g) /\ NodesWell(g.nodes, g.nextNode) /\ EdgesWell(g.edges, g.nextEdge, DOMAIN g.nodes)
      /\ AdjWell(g.out, DOMAIN g.nodes, Sources(g.edges))
      /\ AdjWell(g.inc, DOMAIN g.nodes, Targets(g.edges)) /\ IndexWell(g.index, LabelSets(g.nodes))
  BY DEF Good
<1>2. from \in DOMAIN g.out /\ to \in DOMAIN g.inc
  BY <1>1 DEF AdjWell
<1>3. EntryOrDefault(g.out, from) = g.out /\ EntryOrDefault(g.inc, to) = g.inc
  BY <1>2 DEF EntryOrDefault
<1>4. h = [InsertEdge(g, e, from, to) EXCEPT !.nextEdge = AtLeast(@, e + 1)]
  BY DEF CreateEdgeWithId, EndpointsExist, HasNode
<1>5. /\ Shape(h) /\ h.nextEdge = AtLeast(g.nextEdge, e + 1) /\ h.nextNode = g.nextNode
      /\ h.nodes = g.nodes /\ h.index = g.index
      /\ h.edges = Put(g.edges, e, [from |-> from, to |-> to, props |-> Empty])
      /\ h.out = Put(g.out, from, g.out[from] \cup {e})
      /\ h.inc = Put(g.inc, to, g.inc[to] \cup {e})
  <2>1. PICK i : i = InsertEdge(g, e, from, to)
    OBVIOUS
  <2>2. Shape(i) /\ i.nextEdge = g.nextEdge /\ i.nextNode = g.nextNode /\ i.nodes = g.nodes /\ i.index = g.index
    BY <1>1, <2>1 DEF Shape, InsertEdge
  <2>3. i.edges = Put(g.edges, e, [from |-> from, to |-> to, props |-> Empty])
    BY <1>1, <2>1 DEF Shape, InsertEdge
  <2>4. i.out = Put(g.out, from, g.out[from] \cup {e}) /\ i.inc = Put(g.inc, to, g.inc[to] \cup {e})
    BY <1>1, <1>3, <2>1 DEF Shape, InsertEdge
  <2>5. h = [i EXCEPT !.nextEdge = AtLeast(@, e + 1)]
    BY <1>4, <2>1
  <2>6. Shape(h) /\ h.nextEdge = AtLeast(i.nextEdge, e + 1)
    BY <2>2, <2>5 DEF Shape
  <2>7. /\ h.nextNode = i.nextNode /\ h.nodes = i.nodes /\ h.index = i.index
        /\ h.edges = i.edges /\ h.out = i.out /\ h.inc = i.inc
    BY <2>2, <2>5 DEF Shape
  <2> QED BY <2>2, <2>3, <2>4, <2>6, <2>7
<1>6. PICK x : x = EdgeOf(from, to, Empty)
  OBVIOUS
<1>7. h.edges = Put(g.edges, e, x)
  BY <1>5, <1>6 DEF EdgeOf
<1>8. EdgeOK(x) /\ x.from = from /\ x.to = to
  BY <1>6, EdgeOfOK, EmptyProps
<1>9. h.nextEdge \in Nat /\ h.nextEdge >= g.nextEdge /\ h.nextEdge > e
  BY <1>1, <1>5 DEF AtLeast, EdgesWell
<1>10. EdgesWell(h.edges, h.nextEdge, DOMAIN h.nodes)
  BY <1>1, <1>5, <1>7, <1>8, <1>9, EdgesPut
<1>11. AdjWell(h.out, DOMAIN h.nodes, Sources(h.edges))
  <2>1. e \notin DOMAIN Sources(g.edges)
    BY PartsAreMaps
  <2>2. Sources(h.edges) = Put(Sources(g.edges), e, from)
    BY <1>7, <1>8, SourcesPut
  <2> QED BY <1>1, <1>5, <2>1, <2>2, AdjNewEdge
<1>12. AdjWell(h.inc, DOMAIN h.nodes, Targets(h.edges))
  <2>1. e \notin DOMAIN Targets(g.edges)
    BY PartsAreMaps
  <2>2. Targets(h.edges) = Put(Targets(g.edges), e, to)
    BY <1>7, <1>8, TargetsPut
  <2> QED BY <1>1, <1>5, <2>1, <2>2, AdjNewEdge
<1> QED BY <1>1, <1>5, <1>6, <1>7, <1>9, <1>10, <1>11, <1>12 DEF Good

LEMMA DeleteEdgeGood ==
    ASSUME NEW g, Good(g), NEW e \in DOMAIN g.edges, NEW h, h = DeleteEdge(g, e)
    PROVE  /\ Good(h) /\ h.edges = Drop(g.edges, {e}) /\ h.nodes = g.nodes
           /\ h.nextNode = g.nextNode /\ h.nextEdge = g.nextEdge
<1>1. /\ Shape(g) /\ NodesWell(g.nodes, g.nextNode) /\ EdgesWell(g.edges, g.nextEdge, DOMAIN g.nodes)
      /\ AdjWell(g.out, DOMAIN g.nodes, Sources(g.edges))
      /\ AdjWell(g.inc, DOMAIN g.nodes, Targets(g.edges)) /\ IndexWell(g.index, LabelSets(g.nodes))
  BY DEF Good
<1>2. PICK from : from = g.edges[e].from
  OBVIOUS
<1>3. PICK to : to = g.edges[e].to
  OBVIOUS
<1>4. h = [g EXCEPT !.edges = Drop(@, {e}), !.out[from] = @ \ {e}, !.inc[to] = @ \ {e}]
  BY <1>2, <1>3 DEF DeleteEdge, HasEdge
<1>5. /\ Shape(h) /\ h.nodes = g.nodes /\ h.edges = Drop(g.edges, {e}) /\ h.index = g.index
      /\ h.out = [g.out EXCEPT ![from] = @ \ {e}] /\ h.inc = [g.inc EXCEPT ![to] = @ \ {e}]
      /\ h.nextNode = g.nextNode /\ h.nextEdge = g.nextEdge
  BY <1>1, <1>4 DEF Shape
<1>6. EdgesWell(h.edges, h.nextEdge, DOMAIN h.nodes)
  <2>1. \A d \in DOMAIN g.edges \ {e} :
            g.edges[d].from \in DOMAIN g.nodes /\ g.edges[d].to \in DOMAIN g.nodes
    BY <1>1 DEF EdgesWell
  <2> QED BY <1>1, <1>5, <2>1, EdgesDrop
<1>7. /\ e \in DOMAIN Sources(g.edges) /\ Sources(g.edges)[e] = from /\ from \in DOMAIN g.nodes
      /\ e \in DOMAIN Targets(g.edges) /\ Targets(g.edges)[e] = to /\ to \in DOMAIN g.nodes
  BY <1>1, <1>2, <1>3 DEF Sources, Targets, EdgesWell
<1>8. AdjWell(h.out, DOMAIN h.nodes, Sources(h.edges))
  BY <1>1, <1>5, <1>7, SourcesDrop, AdjDropEdge
<1>9. AdjWell(h.inc, DOMAIN h.nodes, Targets(h.edges))
  BY <1>1, <1>5, <1>7, TargetsDrop, AdjDropEdge
<1> QED BY <1>1, <1>5, <1>6, <1>8, <1>9 DEF Good

(* A node with other labels or properties, or an edge with other properties.  *)
LEMMA NodeChanged ==
    ASSUME NEW g, Good(g), NEW n \in DOMAIN g.nodes, NEW x, NodeOK(x), NEW X,
           IndexWell(X, Put(LabelSets(g.nodes), n, Range(x.labels))), NEW h,
           h = [nodes |-> Put(g.nodes, n, x), edges |-> g.edges, out |-> g.out, inc |-> g.inc, index |-> X,
                nextNode |-> g.nextNode, nextEdge |-> g.nextEdge]
    PROVE  Good(h)
<1>1. /\ Shape(g) /\ NodesWell(g.nodes, g.nextNode) /\ EdgesWell(g.edges, g.nextEdge, DOMAIN g.nodes)
      /\ AdjWell(g.out, DOMAIN g.nodes, Sources(g.edges))
      /\ AdjWell(g.inc, DOMAIN g.nodes, Targets(g.edges)) /\ IndexWell(g.index, LabelSets(g.nodes))
  BY DEF Good
<1>2. /\ Shape(h) /\ h.edges = g.edges /\ h.out = g.out /\ h.inc = g.inc /\ h.index = X
      /\ h.nextNode = g.nextNode /\ h.nextEdge = g.nextEdge
  BY DEF Shape
<1>3. h.nodes = Put(g.nodes, n, x)
  OBVIOUS
<1>4. n \in Nat /\ g.nextNode \in Nat /\ n < g.nextNode
  BY <1>1 DEF NodesWell
<1>5. NodesWell(h.nodes, h.nextNode)
  BY <1>1, <1>2, <1>3, <1>4, NodesPut
<1>6. DOMAIN h.nodes = DOMAIN g.nodes
  BY <1>3, PutDomainSame
<1>7. LabelSets(h.nodes) = Put(LabelSets(g.nodes), n, Range(x.labels))
  BY <1>3, LabelsPut
<1> QED BY <1>1, <1>2, <1>5, <1>6, <1>7 DEF Good

NodeNow(g, h, n, x) ==
    /\ Good(h) /\ h.nodes = Put(g.nodes, n, x) /\ h.edges = g.edges
    /\ h.nextNode = g.nextNode /\ h.nextEdge = g.nextEdge
EdgeNow(g, h, e, x) ==
    /\ Good(h) /\ h.edges = Put(g.edges, e, x) /\ h.nodes = g.nodes
    /\ h.nextNode = g.nextNode /\ h.nextEdge = g.nextEdge

NodeWith(g, n, p) == [g EXCEPT !.nodes[n] = [@ EXCEPT !.props = p]]
EdgeWith(g, e, p) == [g EXCEPT !.edges[e] = [@ EXCEPT !.props = p]]

LEMMA NodePropsGood ==
    ASSUME NEW g, Good(g), NEW n \in DOMAIN g.nodes, NEW p, PropMap(p), NEW h,
           h = NodeWith(g, n, p)
    PROVE  NodeNow(g, h, n, NodeOf(g.nodes[n].labels, p))
<1>1. Shape(g) /\ NodesWell(g.nodes, g.nextNode) /\ IndexWell(g.index, LabelSets(g.nodes))
  BY DEF Good
<1>2. PICK N : N = g.nodes
  OBVIOUS
<1>3. PICK x : x = NodeOf(N[n].labels, p)
  OBVIOUS
<1>4. n \in DOMAIN N /\ NodeOK(N[n]) /\ IsMap(N)
  BY <1>1, <1>2 DEF NodesWell
<1>5. NodeOK(x) /\ x.labels = N[n].labels
  BY <1>3, <1>4, NodeOfOK DEF NodeOK
<1>6. [N[n] EXCEPT !.props = p] = x
  BY <1>3, <1>4 DEF NodeOK, NodeOf
<1>7. [N EXCEPT ![n] = x] = Put(N, n, x)
  <2>1. DOMAIN N \cup {n} = DOMAIN N
    BY <1>4
  <2>2. Put(N, n, x) = [m \in DOMAIN N |-> IF m = n THEN x ELSE N[m]]
    BY <2>1 DEF Put
  <2> QED BY <2>2 DEF IsMap
<1>8. /\ h.nodes = [N EXCEPT ![n] = [N[n] EXCEPT !.props = p]] /\ h.edges = g.edges
      /\ h.out = g.out /\ h.inc = g.inc /\ h.index = g.index
      /\ h.nextNode = g.nextNode /\ h.nextEdge = g.nextEdge /\ Shape(h)
  BY <1>1, <1>2 DEF Shape, NodeWith
<1>9. h = [nodes |-> Put(g.nodes, n, x), edges |-> g.edges, out |-> g.out, inc |-> g.inc,
           index |-> g.index, nextNode |-> g.nextNode, nextEdge |-> g.nextEdge]
  BY <1>2, <1>6, <1>7, <1>8 DEF Shape
<1>10. IndexWell(g.index, Put(LabelSets(g.nodes), n, Range(x.labels)))
  <2>1. n \in DOMAIN LabelSets(g.nodes) /\ IsMap(LabelSets(g.nodes))
    BY PartsAreMaps
  <2>2. LabelSets(g.nodes)[n] = Range(x.labels)
    BY <1>2, <1>5 DEF LabelSets
  <2>3. Put(LabelSets(g.nodes), n, Range(x.labels)) = LabelSets(g.nodes)
    BY <2>1, <2>2, PutSame
  <2> QED BY <1>1, <2>3
<1>11. Good(h)
  BY <1>5, <1>9, <1>10, NodeChanged
<1> QED BY <1>2, <1>3, <1>6, <1>7, <1>8, <1>11 DEF NodeNow

LEMMA EdgePropsGood ==
    ASSUME NEW g, Good(g), NEW e \in DOMAIN g.edges, NEW p, PropMap(p), NEW h,
           h = EdgeWith(g, e, p)
    PROVE  EdgeNow(g, h, e, EdgeOf(g.edges[e].from, g.edges[e].to, p))
<1>1. /\ Shape(g) /\ NodesWell(g.nodes, g.nextNode) /\ EdgesWell(g.edges, g.nextEdge, DOMAIN g.nodes)
      /\ AdjWell(g.out, DOMAIN g.nodes, Sources(g.edges))
      /\ AdjWell(g.inc, DOMAIN g.nodes, Targets(g.edges)) /\ IndexWell(g.index, LabelSets(g.nodes))
  BY DEF Good
<1>2. PICK E : E = g.edges
  OBVIOUS
<1>3. PICK x : x = EdgeOf(E[e].from, E[e].to, p)
  OBVIOUS
<1>4. /\ e \in DOMAIN E /\ EdgeOK(E[e]) /\ IsMap(E) /\ e \in Nat /\ g.nextEdge \in Nat /\ e < g.nextEdge
      /\ E[e].from \in DOMAIN g.nodes /\ E[e].to \in DOMAIN g.nodes
  BY <1>1, <1>2 DEF EdgesWell
<1>5. EdgeOK(x) /\ x.from = E[e].from /\ x.to = E[e].to
  BY <1>3, EdgeOfOK
<1>6. [E[e] EXCEPT !.props = p] = x
  BY <1>3, <1>4 DEF EdgeOK, EdgeOf
<1>7. [E EXCEPT ![e] = x] = Put(E, e, x)
  <2>1. DOMAIN E \cup {e} = DOMAIN E
    BY <1>4
  <2>2. Put(E, e, x) = [m \in DOMAIN E |-> IF m = e THEN x ELSE E[m]]
    BY <2>1 DEF Put
  <2> QED BY <2>2 DEF IsMap
<1>8. /\ h.edges = [E EXCEPT ![e] = [E[e] EXCEPT !.props = p]] /\ h.nodes = g.nodes
      /\ h.out = g.out /\ h.inc = g.inc /\ h.index = g.index
      /\ h.nextNode = g.nextNode /\ h.nextEdge = g.nextEdge /\ Shape(h)
  BY <1>1, <1>2 DEF Shape, EdgeWith
<1>9. h.edges = Put(E, e, x)
  BY <1>6, <1>7, <1>8
<1>10. EdgesWell(h.edges, h.nextEdge, DOMAIN h.nodes)
  BY <1>1, <1>2, <1>4, <1>5, <1>8, <1>9, EdgesPut
<1>11. Sources(h.edges) = Sources(g.edges)
  <2>1. e \in DOMAIN Sources(E) /\ IsMap(Sources(E))
    BY <1>4, PartsAreMaps
  <2>2. Sources(E)[e] = x.from
    BY <1>4, <1>5 DEF Sources
  <2>3. Put(Sources(E), e, x.from) = Sources(E)
    BY <2>1, <2>2, PutSame
  <2> QED BY <1>2, <1>9, <2>3, SourcesPut
<1>12. Targets(h.edges) = Targets(g.edges)
  <2>1. e \in DOMAIN Targets(E) /\ IsMap(Targets(E))
    BY <1>4, PartsAreMaps
  <2>2. Targets(E)[e] = x.to
    BY <1>4, <1>5 DEF Targets
  <2>3. Put(Targets(E), e, x.to) = Targets(E)
    BY <2>1, <2>2, PutSame
  <2> QED BY <1>2, <1>9, <2>3, TargetsPut
<1>13. Good(h)
  BY <1>1, <1>8, <1>10, <1>11, <1>12 DEF Good
<1> QED BY <1>2, <1>3, <1>8, <1>9, <1>13 DEF EdgeNow

-----------------------------------------------------------------------------
(* Labels taken from a list. f gives, for every n up to m, the first n labels *)
(* of ls without l.                                                           *)
Retains(f, ls, l, m) ==
    f = [n \in 0..m |-> IF n = 0 THEN <<>> ELSE (IF ls[n] = l THEN f[n - 1] ELSE Append(f[n - 1], ls[n]))]

LEMMA RetainsStart ==
    ASSUME NEW ls, NEW l
    PROVE  \E f : Retains(f, ls, l, 0)
<1> DEFINE f == [n \in 0..0 |-> <<>>]
<1>1. f = [n \in 0..0 |-> IF n = 0 THEN <<>> ELSE (IF ls[n] = l THEN f[n - 1] ELSE Append(f[n - 1], ls[n]))]
  OBVIOUS
<1> HIDE DEF f
<1>2. Retains(f, ls, l, 0)
  BY <1>1 DEF Retains
<1> QED BY <1>2

LEMMA RetainsNext ==
    ASSUME NEW ls, NEW l, NEW m \in Nat, NEW f, Retains(f, ls, l, m)
    PROVE  \E h : Retains(h, ls, l, m + 1)
<1> DEFINE last == (IF ls[(m + 1)] = l THEN f[(m + 1) - 1] ELSE Append(f[(m + 1) - 1], ls[(m + 1)]))
           h == [n \in 0..(m + 1) |-> IF n = m + 1 THEN last ELSE f[n]]
           F(n) == IF n = 0 THEN <<>> ELSE (IF ls[n] = l THEN h[n - 1] ELSE Append(h[n - 1], ls[n]))
<1>1. \A n \in 0..m : h[n] = f[n]
  OBVIOUS
<1>2. h[m + 1] = last
  OBVIOUS
<1>3. \A n \in 0..m : f[n] = IF n = 0 THEN <<>> ELSE (IF ls[n] = l THEN f[n - 1] ELSE Append(f[n - 1], ls[n]))
  BY DEF Retains
<1>4. h = [n \in 0..(m + 1) |-> h[n]]
  OBVIOUS
<1> HIDE DEF h
<1>5. \A n \in 0..(m + 1) : h[n] = F(n)
  <2> TAKE n \in 0..(m + 1)
  <2>1. CASE n = 0
    BY <2>1, <1>1, <1>3
  <2>2. CASE n \in 1..m
    <3>1. n \in 0..m /\ n - 1 \in 0..m /\ n # 0
      BY <2>2
    <3>2. h[n] = f[n] /\ h[n - 1] = f[n - 1]
      BY <3>1, <1>1
    <3>3. f[n] = (IF ls[n] = l THEN f[n - 1] ELSE Append(f[n - 1], ls[n]))
      BY <3>1, <1>3
    <3> QED BY <3>1, <3>2, <3>3
  <2>3. CASE n = m + 1
    <3>1. n - 1 = m /\ n # 0 /\ m \in 0..m /\ (m + 1) - 1 = m
      BY <2>3
    <3>2. h[n - 1] = f[m]
      BY <3>1, <1>1
    <3> QED BY <2>3, <3>1, <3>2, <1>2
  <2> QED BY <2>1, <2>2, <2>3
<1>6. h = [n \in 0..(m + 1) |-> F(n)]
  BY <1>4, <1>5
<1>7. Retains(h, ls, l, m + 1)
  BY <1>6 DEF Retains
<1> QED BY <1>7

LEMMA RetainsExists ==
    ASSUME NEW ls, NEW l, NEW m \in Nat
    PROVE  \E f : Retains(f, ls, l, m)
<1> DEFINE T == {n \in Nat : ~ \E f : Retains(f, ls, l, n)}
<1>1. T = {}
  <2>1. SUFFICES ASSUME T # {} PROVE FALSE
    OBVIOUS
  <2>2. T \subseteq Nat
    OBVIOUS
  <2>3. PICK n \in T : \A y \in T : n <= y
    <3> HIDE DEF T
    <3> QED BY <2>1, <2>2, NatsHaveLeast
  <2>4. n # 0
    BY RetainsStart
  <2>5. n - 1 \in Nat /\ n - 1 \notin T
    BY <2>3, <2>4
  <2>6. PICK f : Retains(f, ls, l, n - 1)
    BY <2>5
  <2>7. \E h : Retains(h, ls, l, (n - 1) + 1)
    BY <2>5, <2>6, RetainsNext
  <2>8. (n - 1) + 1 = n
    BY <2>5
  <2> QED BY <2>7, <2>8
<1> QED BY <1>1

LEMMA RetainsIs ==
    ASSUME NEW ls, NEW l, Len(ls) \in Nat
    PROVE  \E f : Retains(f, ls, l, Len(ls)) /\ Without(ls, l) = f[Len(ls)]
<1> DEFINE F(f) == [n \in 0..Len(ls) |-> IF n = 0 THEN <<>> ELSE (IF ls[n] = l THEN f[n - 1] ELSE Append(f[n - 1], ls[n]))]
           k == CHOOSE f : f = F(f)
<1>1. \E f : f = F(f)
  <2>1. PICK f : Retains(f, ls, l, Len(ls))
    BY RetainsExists
  <2>2. f = F(f)
    BY <2>1 DEF Retains
  <2> QED BY <2>2
<1>2. k = F(k)
  BY <1>1
<1>3. Retains(k, ls, l, Len(ls))
  <2> HIDE DEF k
  <2> QED BY <1>2 DEF Retains
<1>4. Without(ls, l) = k[Len(ls)]
  BY DEF Without
<1> HIDE DEF k
<1> QED BY <1>3, <1>4

LEMMA WithoutIs ==
    ASSUME NEW ls \in Seq(Labels), NEW l
    PROVE  Without(ls, l) \in Seq(Labels) /\ Range(Without(ls, l)) = Range(ls) \ {l}
<1>1. Len(ls) \in Nat /\ DOMAIN ls = 1..Len(ls) /\ \A i \in 1..Len(ls) : ls[i] \in Labels
  OBVIOUS
<1>2. PICK f : Retains(f, ls, l, Len(ls)) /\ Without(ls, l) = f[Len(ls)]
  BY <1>1, RetainsIs
<1>3. /\ f[0] = <<>>
      /\ \A n \in 1..Len(ls) : f[n] = IF ls[n] = l THEN f[n - 1] ELSE Append(f[n - 1], ls[n])
  <2>1. \A n \in 0..Len(ls) :
            f[n] = IF n = 0 THEN <<>> ELSE (IF ls[n] = l THEN f[n - 1] ELSE Append(f[n - 1], ls[n]))
    BY <1>1, <1>2 DEF Retains
  <2> QED BY <1>1, <2>1
<1> DEFINE Fine(n) == /\ f[n] \in Seq(Labels)
                      /\ \A i \in 1..Len(f[n]) : \E j \in 1..n : f[n][i] = ls[j] /\ ls[j] # l
                      /\ \A j \in 1..n : ls[j] # l => \E i \in 1..Len(f[n]) : f[n][i] = ls[j]
           T == {n \in 0..Len(ls) : ~ Fine(n)}
<1>4. Fine(0)
  <2>1. <<>> \in Seq(Labels) /\ Len(<<>>) = 0
    OBVIOUS
  <2> QED BY <1>3, <2>1
<1>5. ASSUME NEW n \in 1..Len(ls), Fine(n - 1) PROVE Fine(n)
  <2>1. PICK s : s = f[n - 1]
    OBVIOUS
  <2>2. s \in Seq(Labels) /\ Len(s) \in Nat
    BY <1>5, <2>1
  <2>3. /\ \A i \in 1..Len(s) : \E j \in 1..(n - 1) : s[i] = ls[j] /\ ls[j] # l
        /\ \A j \in 1..(n - 1) : ls[j] # l => \E i \in 1..Len(s) : s[i] = ls[j]
    BY <1>5, <2>1
  <2>4. CASE ls[n] = l
    <3>1. f[n] = s
      BY <1>3, <2>1, <2>4
    <3>2. \A j \in 1..n : ls[j] # l => j \in 1..(n - 1)
      BY <2>4
    <3>3. 1..(n - 1) \subseteq 1..n
      OBVIOUS
    <3> HIDE DEF T
    <3> QED BY <3>1, <3>2, <3>3, <2>2, <2>3
  <2>5. CASE ls[n] # l
    <3>1. PICK t : t = Append(s, ls[n])
      OBVIOUS
    <3>2. f[n] = t
      BY <1>3, <2>1, <2>5, <3>1
    <3>3. ls[n] \in Labels
      BY <1>1
    <3>4. t \in Seq(Labels) /\ Len(t) = Len(s) + 1 /\ t[Len(s) + 1] = ls[n]
      BY <2>2, <3>1, <3>3
    <3>5. \A i \in 1..Len(s) : t[i] = s[i]
      BY <2>2, <3>1, <3>3
    <3>6. \A i \in 1..Len(t) : \E j \in 1..n : t[i] = ls[j] /\ ls[j] # l
      <4> TAKE i \in 1..Len(t)
      <4>1. CASE i = Len(s) + 1
        BY <3>4, <4>1, <2>5, n \in 1..n
      <4>2. CASE i \in 1..Len(s)
        <5>1. PICK j \in 1..(n - 1) : s[i] = ls[j] /\ ls[j] # l
          BY <2>3, <4>2
        <5>2. j \in 1..n /\ t[i] = ls[j] /\ ls[j] # l
          BY <3>5, <4>2, <5>1
        <5> QED BY <5>2
      <4> QED BY <4>1, <4>2, <3>4, <2>2
    <3>7. \A j \in 1..n : ls[j] # l => \E i \in 1..Len(t) : t[i] = ls[j]
      <4> SUFFICES ASSUME NEW j \in 1..n, ls[j] # l PROVE \E i \in 1..Len(t) : t[i] = ls[j]
        OBVIOUS
      <4>1. CASE j = n
        <5>1. Len(s) + 1 \in 1..Len(t) /\ t[Len(s) + 1] = ls[j]
          BY <4>1, <3>4, <2>2
        <5> QED BY <5>1
      <4>2. CASE j \in 1..(n - 1)
        <5>1. PICK i \in 1..Len(s) : s[i] = ls[j]
          BY <2>3, <4>2
        <5>2. i \in 1..Len(t) /\ t[i] = ls[j]
          BY <3>4, <3>5, <5>1, <2>2
        <5> QED BY <5>2
      <4> QED BY <4>1, <4>2
    <3> HIDE DEF T
    <3> QED BY <3>2, <3>4, <3>6, <3>7
  <2> QED BY <2>4, <2>5
<1>6. T = {}
  <2>1. SUFFICES ASSUME T # {} PROVE FALSE
    OBVIOUS
  <2>2. T \subseteq Nat
    BY <1>1
  <2>3. PICK n \in T : \A y \in T : n <= y
    <3> HIDE DEF T
    <3> QED BY <2>1, <2>2, NatsHaveLeast
  <2> HIDE DEF Fine
  <2>4. n \in 1..Len(ls)
    BY <1>1, <1>4, <2>3
  <2>5. n - 1 \in 0..Len(ls) /\ n - 1 \notin T
    BY <1>1, <2>3, <2>4
  <2>6. Fine(n - 1)
    BY <2>5
  <2>7. Fine(n)
    BY <1>5, <2>4, <2>6
  <2> QED BY <2>7, <2>3
<1>7. Fine(Len(ls))
  <2>1. Len(ls) \in 0..Len(ls)
    BY <1>1
  <2> HIDE DEF Fine
  <2> QED BY <1>6, <2>1
<1>8. PICK t : t = Without(ls, l)
  OBVIOUS
<1>9. /\ t \in Seq(Labels) /\ DOMAIN t = 1..Len(t)
      /\ \A i \in 1..Len(t) : \E j \in 1..Len(ls) : t[i] = ls[j] /\ ls[j] # l
      /\ \A j \in 1..Len(ls) : ls[j] # l => \E i \in 1..Len(t) : t[i] = ls[j]
  BY <1>2, <1>7, <1>8
<1>10. Range(t) = Range(ls) \ {l}
  <2>1. Range(t) = {t[i] : i \in 1..Len(t)} /\ Range(ls) = {ls[i] : i \in 1..Len(ls)}
    BY <1>1, <1>9 DEF Range
  <2>2. \A x \in Range(t) : x \in Range(ls) \ {l}
    BY <1>9, <2>1
  <2>3. \A x \in Range(ls) \ {l} : x \in Range(t)
    BY <1>9, <2>1
  <2> QED BY <2>2, <2>3
<1> QED BY <1>8, <1>9, <1>10

LEMMA AddLabelGood ==
    ASSUME NEW g, Good(g), NEW n \in DOMAIN g.nodes, NEW l \in Labels, ~ HasLabel(g, n, l),
           NEW h, h = AddNodeLabel(g, n, l)
    PROVE  NodeNow(g, h, n, NodeOf(Append(g.nodes[n].labels, l), g.nodes[n].props))
<1>1. Shape(g) /\ NodesWell(g.nodes, g.nextNode) /\ IndexWell(g.index, LabelSets(g.nodes))
  BY DEF Good
<1>2. PICK N : N = g.nodes
  OBVIOUS
<1>3. PICK ls : ls = Append(N[n].labels, l)
  OBVIOUS
<1>4. PICK x : x = NodeOf(ls, N[n].props)
  OBVIOUS
<1>5. n \in DOMAIN N /\ NodeOK(N[n]) /\ IsMap(N) /\ N[n].labels \in Seq(Labels)
  BY <1>1, <1>2 DEF NodesWell, NodeOK
<1>6. ls \in Seq(Labels) /\ Range(ls) = Range(N[n].labels) \cup {l}
  <2>1. ls \in Seq(Labels) /\ Len(ls) = Len(N[n].labels) + 1 /\ ls[Len(N[n].labels) + 1] = l
    BY <1>3, <1>5
  <2>2. \A i \in 1..Len(N[n].labels) : ls[i] = N[n].labels[i]
    BY <1>3, <1>5
  <2>3. PICK old : old = N[n].labels
    OBVIOUS
  <2>4. /\ old \in Seq(Labels) /\ Len(old) \in Nat /\ DOMAIN old = 1..Len(old) /\ DOMAIN ls = 1..Len(ls)
        /\ Len(ls) = Len(old) + 1 /\ ls[Len(old) + 1] = l /\ \A i \in 1..Len(old) : ls[i] = old[i]
    BY <1>5, <2>1, <2>2, <2>3
  <2>5. Range(old) = {old[i] : i \in 1..Len(old)} /\ Range(ls) = {ls[i] : i \in 1..Len(ls)}
    BY <2>4 DEF Range
  <2>6. Range(ls) = Range(old) \cup {l}
    <3>1. 1..Len(ls) = 1..Len(old) \cup {Len(old) + 1}
      BY <2>4
    <3> QED BY <2>4, <2>5, <3>1
  <2> QED BY <2>1, <2>3, <2>6
<1>7. NodeOK(x) /\ x.labels = ls
  BY <1>4, <1>5, <1>6, NodeOfOK DEF NodeOK
<1>8. [N[n] EXCEPT !.labels = ls] = x
  BY <1>4, <1>5 DEF NodeOK, NodeOf
<1>9. [N EXCEPT ![n] = x] = Put(N, n, x)
  <2>1. DOMAIN N \cup {n} = DOMAIN N
    BY <1>5
  <2>2. Put(N, n, x) = [m \in DOMAIN N |-> IF m = n THEN x ELSE N[m]]
    BY <2>1 DEF Put
  <2> QED BY <2>2 DEF IsMap
<1>10. h = [g EXCEPT !.nodes[n].labels = Append(@, l), !.index[l] = @ \cup {n}]
  BY DEF AddNodeLabel, HasNode, HasLabel
<1>11. /\ h.nodes = [N EXCEPT ![n] = [N[n] EXCEPT !.labels = ls]] /\ h.edges = g.edges
       /\ h.out = g.out /\ h.inc = g.inc /\ h.index = [g.index EXCEPT ![l] = @ \cup {n}]
       /\ h.nextNode = g.nextNode /\ h.nextEdge = g.nextEdge /\ Shape(h)
  BY <1>1, <1>2, <1>3, <1>10 DEF Shape
<1>12. h = [nodes |-> Put(g.nodes, n, x), edges |-> g.edges, out |-> g.out, inc |-> g.inc,
            index |-> [g.index EXCEPT ![l] = @ \cup {n}], nextNode |-> g.nextNode, nextEdge |-> g.nextEdge]
  BY <1>2, <1>8, <1>9, <1>11 DEF Shape
<1>13. IndexWell([g.index EXCEPT ![l] = @ \cup {n}], Put(LabelSets(g.nodes), n, Range(x.labels)))
  <2>1. PICK L : L = LabelSets(g.nodes)
    OBVIOUS
  <2>2. n \in DOMAIN L
    BY <2>1, PartsAreMaps
  <2>3. L[n] = Range(N[n].labels)
    BY <1>2, <2>1 DEF LabelSets
  <2>4. Range(x.labels) = L[n] \cup {l}
    BY <1>6, <1>7, <2>3
  <2>5. IndexWell([g.index EXCEPT ![l] = @ \cup {n}], Put(L, n, L[n] \cup {l}))
    BY <1>1, <2>1, <2>2, IndexAddLabel
  <2> QED BY <2>1, <2>4, <2>5
<1>14. Good(h)
  BY <1>7, <1>12, <1>13, NodeChanged
<1> QED BY <1>2, <1>3, <1>4, <1>8, <1>9, <1>11, <1>14 DEF NodeNow

LEMMA RemoveLabelGood ==
    ASSUME NEW g, Good(g), NEW n \in DOMAIN g.nodes, NEW l \in Labels, HasLabel(g, n, l),
           NEW h, h = RemoveNodeLabel(g, n, l)
    PROVE  NodeNow(g, h, n, NodeOf(Without(g.nodes[n].labels, l), g.nodes[n].props))
<1>1. Shape(g) /\ NodesWell(g.nodes, g.nextNode) /\ IndexWell(g.index, LabelSets(g.nodes))
  BY DEF Good
<1>2. PICK N : N = g.nodes
  OBVIOUS
<1>3. PICK ls : ls = Without(N[n].labels, l)
  OBVIOUS
<1>4. PICK x : x = NodeOf(ls, N[n].props)
  OBVIOUS
<1>5. n \in DOMAIN N /\ NodeOK(N[n]) /\ IsMap(N) /\ N[n].labels \in Seq(Labels)
  BY <1>1, <1>2 DEF NodesWell, NodeOK
<1>6. ls \in Seq(Labels) /\ Range(ls) = Range(N[n].labels) \ {l}
  BY <1>3, <1>5, WithoutIs
<1>7. NodeOK(x) /\ x.labels = ls
  BY <1>4, <1>5, <1>6, NodeOfOK DEF NodeOK
<1>8. [N[n] EXCEPT !.labels = ls] = x
  BY <1>4, <1>5 DEF NodeOK, NodeOf
<1>9. [N EXCEPT ![n] = x] = Put(N, n, x)
  <2>1. DOMAIN N \cup {n} = DOMAIN N
    BY <1>5
  <2>2. Put(N, n, x) = [m \in DOMAIN N |-> IF m = n THEN x ELSE N[m]]
    BY <2>1 DEF Put
  <2> QED BY <2>2 DEF IsMap
<1>10. h = [g EXCEPT !.nodes[n].labels = Without(@, l), !.index[l] = @ \ {n}]
  BY DEF RemoveNodeLabel, HasNode, HasLabel
<1>11. /\ h.nodes = [N EXCEPT ![n] = [N[n] EXCEPT !.labels = ls]] /\ h.edges = g.edges
       /\ h.out = g.out /\ h.inc = g.inc /\ h.index = [g.index EXCEPT ![l] = @ \ {n}]
       /\ h.nextNode = g.nextNode /\ h.nextEdge = g.nextEdge /\ Shape(h)
  BY <1>1, <1>2, <1>3, <1>10 DEF Shape
<1>12. h = [nodes |-> Put(g.nodes, n, x), edges |-> g.edges, out |-> g.out, inc |-> g.inc,
            index |-> [g.index EXCEPT ![l] = @ \ {n}], nextNode |-> g.nextNode, nextEdge |-> g.nextEdge]
  BY <1>2, <1>8, <1>9, <1>11 DEF Shape
<1>13. IndexWell([g.index EXCEPT ![l] = @ \ {n}], Put(LabelSets(g.nodes), n, Range(x.labels)))
  <2>1. PICK L : L = LabelSets(g.nodes)
    OBVIOUS
  <2>2. n \in DOMAIN L
    BY <2>1, PartsAreMaps
  <2>3. L[n] = Range(N[n].labels)
    BY <1>2, <2>1 DEF LabelSets
  <2>4. Range(x.labels) = L[n] \ {l}
    BY <1>6, <1>7, <2>3
  <2>5. IndexWell([g.index EXCEPT ![l] = @ \ {n}], Put(L, n, L[n] \ {l}))
    BY <1>1, <2>1, <2>2, IndexRemoveLabel
  <2> QED BY <2>1, <2>4, <2>5
<1>14. Good(h)
  BY <1>7, <1>12, <1>13, NodeChanged
<1> QED BY <1>2, <1>3, <1>4, <1>8, <1>9, <1>11, <1>14 DEF NodeNow

LEMMA SetNodePropertyGood ==
    ASSUME NEW g, Good(g), NEW n \in DOMAIN g.nodes, NEW k, NEW v, NEW h, h = SetNodeProperty(g, n, k, v)
    PROVE  NodeNow(g, h, n, NodeOf(g.nodes[n].labels, Put(g.nodes[n].props, k, v)))
<1>1. PICK p : p = Put(g.nodes[n].props, k, v)
  OBVIOUS
<1>2. Shape(g) /\ IsMap(g.nodes) /\ NodeOK(g.nodes[n])
  BY DEF Good, NodesWell, EdgesWell
<1>3. PropMap(p)
  BY <1>1, <1>2, PropsPut DEF NodeOK
<1>4. h = [g EXCEPT !.nodes[n].props = Put(@, k, v)]
  BY DEF SetNodeProperty, HasNode
<1>5. h = NodeWith(g, n, p)
  BY <1>1, <1>4 DEF NodeWith
<1>6. NodeNow(g, h, n, NodeOf(g.nodes[n].labels, p))
  BY <1>3, <1>5, NodePropsGood
<1> QED BY <1>1, <1>6

LEMMA RemoveNodePropertyGood ==
    ASSUME NEW g, Good(g), NEW n \in DOMAIN g.nodes, NEW k, NEW h, h = RemoveNodeProperty(g, n, k)
    PROVE  NodeNow(g, h, n, NodeOf(g.nodes[n].labels, Drop(g.nodes[n].props, {k})))
<1>1. PICK p : p = Drop(g.nodes[n].props, {k})
  OBVIOUS
<1>2. Shape(g) /\ IsMap(g.nodes) /\ NodeOK(g.nodes[n])
  BY DEF Good, NodesWell, EdgesWell
<1>3. PropMap(p)
  BY <1>1, <1>2, PropsDrop DEF NodeOK
<1>4. h = [g EXCEPT !.nodes[n].props = Drop(@, {k})]
  BY DEF RemoveNodeProperty, HasNode
<1>5. h = NodeWith(g, n, p)
  BY <1>1, <1>4 DEF NodeWith
<1>6. NodeNow(g, h, n, NodeOf(g.nodes[n].labels, p))
  BY <1>3, <1>5, NodePropsGood
<1> QED BY <1>1, <1>6

LEMMA SetEdgePropertyGood ==
    ASSUME NEW g, Good(g), NEW e \in DOMAIN g.edges, NEW k, NEW v, NEW h, h = SetEdgeProperty(g, e, k, v)
    PROVE  EdgeNow(g, h, e, EdgeOf(g.edges[e].from, g.edges[e].to, Put(g.edges[e].props, k, v)))
<1>1. PICK p : p = Put(g.edges[e].props, k, v)
  OBVIOUS
<1>2. Shape(g) /\ IsMap(g.edges) /\ EdgeOK(g.edges[e])
  BY DEF Good, NodesWell, EdgesWell
<1>3. PropMap(p)
  BY <1>1, <1>2, PropsPut DEF EdgeOK
<1>4. h = [g EXCEPT !.edges[e].props = Put(@, k, v)]
  BY DEF SetEdgeProperty, HasEdge
<1>5. h = EdgeWith(g, e, p)
  BY <1>1, <1>4 DEF EdgeWith
<1>6. EdgeNow(g, h, e, EdgeOf(g.edges[e].from, g.edges[e].to, p))
  BY <1>3, <1>5, EdgePropsGood
<1> QED BY <1>1, <1>6

LEMMA RemoveEdgePropertyGood ==
    ASSUME NEW g, Good(g), NEW e \in DOMAIN g.edges, NEW k, NEW h, h = RemoveEdgeProperty(g, e, k)
    PROVE  EdgeNow(g, h, e, EdgeOf(g.edges[e].from, g.edges[e].to, Drop(g.edges[e].props, {k})))
<1>1. PICK p : p = Drop(g.edges[e].props, {k})
  OBVIOUS
<1>2. Shape(g) /\ IsMap(g.edges) /\ EdgeOK(g.edges[e])
  BY DEF Good, NodesWell, EdgesWell
<1>3. PropMap(p)
  BY <1>1, <1>2, PropsDrop DEF EdgeOK
<1>4. h = [g EXCEPT !.edges[e].props = Drop(@, {k})]
  BY DEF RemoveEdgeProperty, HasEdge
<1>5. h = EdgeWith(g, e, p)
  BY <1>1, <1>4 DEF EdgeWith
<1>6. EdgeNow(g, h, e, EdgeOf(g.edges[e].from, g.edges[e].to, p))
  BY <1>3, <1>5, EdgePropsGood
<1> QED BY <1>1, <1>6

-----------------------------------------------------------------------------
(* Replaying entries. f gives, for every n up to m, the graph after the first *)
(* n entries of wal.                                                          *)
Runs(f, g, wal, m) ==
    f = [n \in 0..m |-> IF n = 0 THEN g ELSE ApplyWal(f[n - 1], wal[n])]

LEMMA RunsStart ==
    ASSUME NEW g, NEW wal
    PROVE  \E f : Runs(f, g, wal, 0)
<1> DEFINE f == [n \in 0..0 |-> g]
<1>1. f = [n \in 0..0 |-> IF n = 0 THEN g ELSE ApplyWal(f[n - 1], wal[n])]
  OBVIOUS
<1> HIDE DEF f
<1>2. Runs(f, g, wal, 0)
  BY <1>1 DEF Runs
<1> QED BY <1>2

LEMMA RunsNext ==
    ASSUME NEW g, NEW wal, NEW m \in Nat, NEW f, Runs(f, g, wal, m)
    PROVE  \E h : Runs(h, g, wal, m + 1)
<1> DEFINE last == ApplyWal(f[(m + 1) - 1], wal[(m + 1)])
           h == [n \in 0..(m + 1) |-> IF n = m + 1 THEN last ELSE f[n]]
           F(n) == IF n = 0 THEN g ELSE ApplyWal(h[n - 1], wal[n])
<1>1. \A n \in 0..m : h[n] = f[n]
  OBVIOUS
<1>2. h[m + 1] = last
  OBVIOUS
<1>3. \A n \in 0..m : f[n] = IF n = 0 THEN g ELSE ApplyWal(f[n - 1], wal[n])
  BY DEF Runs
<1>4. h = [n \in 0..(m + 1) |-> h[n]]
  OBVIOUS
<1> HIDE DEF h
<1>5. \A n \in 0..(m + 1) : h[n] = F(n)
  <2> TAKE n \in 0..(m + 1)
  <2>1. CASE n = 0
    BY <2>1, <1>1, <1>3
  <2>2. CASE n \in 1..m
    <3>1. n \in 0..m /\ n - 1 \in 0..m /\ n # 0
      BY <2>2
    <3>2. h[n] = f[n] /\ h[n - 1] = f[n - 1]
      BY <3>1, <1>1
    <3>3. f[n] = ApplyWal(f[n - 1], wal[n])
      BY <3>1, <1>3
    <3> QED BY <3>1, <3>2, <3>3
  <2>3. CASE n = m + 1
    <3>1. n - 1 = m /\ n # 0 /\ m \in 0..m /\ (m + 1) - 1 = m
      BY <2>3
    <3>2. h[n - 1] = f[m]
      BY <3>1, <1>1
    <3> QED BY <2>3, <3>1, <3>2, <1>2
  <2> QED BY <2>1, <2>2, <2>3
<1>6. h = [n \in 0..(m + 1) |-> F(n)]
  BY <1>4, <1>5
<1>7. Runs(h, g, wal, m + 1)
  BY <1>6 DEF Runs
<1> QED BY <1>7

LEMMA RunsExists ==
    ASSUME NEW g, NEW wal, NEW m \in Nat
    PROVE  \E f : Runs(f, g, wal, m)
<1> DEFINE T == {n \in Nat : ~ \E f : Runs(f, g, wal, n)}
<1>1. T = {}
  <2>1. SUFFICES ASSUME T # {} PROVE FALSE
    OBVIOUS
  <2>2. T \subseteq Nat
    OBVIOUS
  <2>3. PICK n \in T : \A y \in T : n <= y
    <3> HIDE DEF T
    <3> QED BY <2>1, <2>2, NatsHaveLeast
  <2>4. n # 0
    BY RunsStart
  <2>5. n - 1 \in Nat /\ n - 1 \notin T
    BY <2>3, <2>4
  <2>6. PICK f : Runs(f, g, wal, n - 1)
    BY <2>5
  <2>7. \E h : Runs(h, g, wal, (n - 1) + 1)
    BY <2>5, <2>6, RunsNext
  <2>8. (n - 1) + 1 = n
    BY <2>5
  <2> QED BY <2>7, <2>8
<1> QED BY <1>1

LEMMA RunsIs ==
    ASSUME NEW g, NEW wal, Len(wal) \in Nat
    PROVE  \E f : Runs(f, g, wal, Len(wal)) /\ Replay(g, wal) = f[Len(wal)]
<1> DEFINE F(f) == [n \in 0..Len(wal) |-> IF n = 0 THEN g ELSE ApplyWal(f[n - 1], wal[n])]
           k == CHOOSE f : f = F(f)
<1>1. \E f : f = F(f)
  <2>1. PICK f : Runs(f, g, wal, Len(wal))
    BY RunsExists
  <2>2. f = F(f)
    BY <2>1 DEF Runs
  <2> QED BY <2>2
<1>2. k = F(k)
  BY <1>1
<1>3. Runs(k, g, wal, Len(wal))
  <2> HIDE DEF k
  <2> QED BY <1>2 DEF Runs
<1>4. Replay(g, wal) = k[Len(wal)]
  BY DEF Replay
<1> HIDE DEF k
<1> QED BY <1>3, <1>4

LEMMA RunsFirst ==
    ASSUME NEW g, NEW wal, NEW m \in Nat, NEW f, Runs(f, g, wal, m)
    PROVE  f[0] = g
<1>1. \A n \in 0..m : f[n] = IF n = 0 THEN g ELSE ApplyWal(f[n - 1], wal[n])
  BY DEF Runs
<1> QED BY <1>1

LEMMA RunsStep ==
    ASSUME NEW g, NEW wal, NEW m \in Nat, NEW f, Runs(f, g, wal, m)
    PROVE  \A n \in 1..m : f[n] = ApplyWal(f[n - 1], wal[n])
<1>1. \A n \in 0..m : f[n] = IF n = 0 THEN g ELSE ApplyWal(f[n - 1], wal[n])
  BY DEF Runs
<1> QED BY <1>1

(* Two runs over entries that agree so far agree.                             *)
LEMMA RunsAgree ==
    ASSUME NEW g, NEW a, NEW b, NEW k \in Nat, NEW m \in Nat, NEW n \in Nat, k <= m, k <= n,
           NEW f, Runs(f, g, a, m), NEW h, Runs(h, g, b, n), \A i \in 1..k : a[i] = b[i]
    PROVE  f[k] = h[k]
<1>1. f[0] = g /\ h[0] = g
  BY RunsFirst
<1>2. /\ \A i \in 1..m : f[i] = ApplyWal(f[i - 1], a[i])
      /\ \A i \in 1..n : h[i] = ApplyWal(h[i - 1], b[i])
  BY RunsStep
<1> DEFINE T == {i \in 0..k : f[i] # h[i]}
<1>3. T = {}
  <2>1. SUFFICES ASSUME T # {} PROVE FALSE
    OBVIOUS
  <2>2. T \subseteq Nat
    OBVIOUS
  <2>3. PICK i \in T : \A y \in T : i <= y
    <3> HIDE DEF T
    <3> QED BY <2>1, <2>2, NatsHaveLeast
  <2>4. i \in 1..k
    BY <1>1, <1>2, <2>3
  <2>5. i - 1 \in 0..k /\ i - 1 \notin T
    BY <2>3, <2>4
  <2>6. f[i - 1] = h[i - 1]
    BY <2>5
  <2>7. f[i] = ApplyWal(f[i - 1], a[i]) /\ h[i] = ApplyWal(h[i - 1], b[i]) /\ a[i] = b[i]
    BY <1>1, <1>2, <2>4
  <2> QED BY <2>3, <2>6, <2>7
<1> QED BY <1>3

IsSeq(s) == \E S : s \in Seq(S)

LEMMA SeqAppend ==
    ASSUME NEW s, IsSeq(s), NEW x
    PROVE  /\ IsSeq(Append(s, x)) /\ Len(s) \in Nat /\ Len(Append(s, x)) = Len(s) + 1
           /\ \A i \in 1..Len(s) : Append(s, x)[i] = s[i]
           /\ Append(s, x)[Len(s) + 1] = x
<1>1. PICK S : s \in Seq(S)
  BY DEF IsSeq
<1>2. s \in Seq(S \cup {x}) /\ x \in S \cup {x}
  BY <1>1
<1>3. Append(s, x) \in Seq(S \cup {x})
  BY <1>2
<1> QED BY <1>2, <1>3 DEF IsSeq

LEMMA SeqConcat ==
    ASSUME NEW s, IsSeq(s), NEW t, IsSeq(t)
    PROVE  /\ IsSeq(s \o t) /\ Len(s) \in Nat /\ Len(t) \in Nat /\ Len(s \o t) = Len(s) + Len(t)
           /\ \A i \in 1..Len(s) : (s \o t)[i] = s[i]
           /\ \A i \in 1..Len(t) : (s \o t)[Len(s) + i] = t[i]
<1>1. PICK S : s \in Seq(S)
  BY DEF IsSeq
<1>2. PICK T : t \in Seq(T)
  BY DEF IsSeq
<1>3. s \in Seq(S \cup T) /\ t \in Seq(S \cup T)
  BY <1>1, <1>2
<1>4. s \o t \in Seq(S \cup T)
  BY <1>3
<1>5. Len(s) \in Nat /\ Len(t) \in Nat /\ Len(s \o t) = Len(s) + Len(t)
  BY <1>3
<1>6. \A i \in 1..Len(s) : (s \o t)[i] = s[i]
  BY <1>3, <1>5
<1>7. \A i \in 1..Len(t) : (s \o t)[Len(s) + i] = t[i]
  BY <1>3, <1>5
<1> QED BY <1>4, <1>5, <1>6, <1>7 DEF IsSeq

LEMMA ReplayNothing ==
    ASSUME NEW g
    PROVE  Replay(g, <<>>) = g
<1>1. Len(<<>>) = 0
  OBVIOUS
<1>2. PICK f : Runs(f, g, <<>>, Len(<<>>)) /\ Replay(g, <<>>) = f[Len(<<>>)]
  BY <1>1, RunsIs
<1>3. f[0] = g
  BY <1>1, <1>2, RunsFirst
<1> QED BY <1>1, <1>2, <1>3

LEMMA ReplayOneMore ==
    ASSUME NEW g, NEW wal, IsSeq(wal), NEW w
    PROVE  Replay(g, Append(wal, w)) = ApplyWal(Replay(g, wal), w)
<1>1. PICK more : more = Append(wal, w)
  OBVIOUS
<1>2. PICK m : m = Len(wal)
  OBVIOUS
<1>3. /\ m \in Nat /\ Len(more) = m + 1 /\ more[m + 1] = w
      /\ \A i \in 1..m : more[i] = wal[i]
  BY <1>1, <1>2, SeqAppend
<1>4. PICK f : Runs(f, g, wal, m) /\ Replay(g, wal) = f[m]
  BY <1>2, <1>3, RunsIs
<1>5. PICK h : Runs(h, g, more, m + 1) /\ Replay(g, more) = h[m + 1]
  <2>1. Len(more) \in Nat
    BY <1>3
  <2> QED BY <1>3, <2>1, RunsIs
<1>6. f[m] = h[m]
  <2>1. m + 1 \in Nat /\ m <= m + 1
    BY <1>3
  <2>2. \A i \in 1..m : wal[i] = more[i]
    BY <1>3
  <2> QED BY <1>3, <1>4, <1>5, <2>1, <2>2, RunsAgree
<1>7. h[m + 1] = ApplyWal(h[m], w)
  <2>1. \A n \in 1..(m + 1) : h[n] = ApplyWal(h[n - 1], more[n])
    BY <1>3, <1>5, RunsStep
  <2>2. m + 1 \in 1..(m + 1) /\ (m + 1) - 1 = m
    BY <1>3
  <2> QED BY <1>3, <2>1, <2>2
<1> QED BY <1>1, <1>4, <1>5, <1>6, <1>7

LEMMA SeqNone == IsSeq(<<>>) /\ Len(<<>>) = 0
<1>1. <<>> \in Seq({})
  OBVIOUS
<1> QED BY <1>1 DEF IsSeq

LEMMA SameSeq ==
    ASSUME NEW s, IsSeq(s), NEW t, IsSeq(t), Len(s) = Len(t), \A i \in 1..Len(s) : s[i] = t[i]
    PROVE  s = t
<1>1. PICK S : s \in Seq(S)
  BY DEF IsSeq
<1>2. PICK T : t \in Seq(T)
  BY DEF IsSeq
<1>3. s \in Seq(S \cup T) /\ t \in Seq(S \cup T)
  BY <1>1, <1>2
<1> QED BY <1>3, SeqEqual

LEMMA SeqAssoc ==
    ASSUME NEW s, IsSeq(s), NEW t, IsSeq(t), NEW u, IsSeq(u)
    PROVE  (s \o t) \o u = s \o (t \o u)
<1>1. PICK S : s \in Seq(S)
  BY DEF IsSeq
<1>2. PICK T : t \in Seq(T)
  BY DEF IsSeq
<1>3. PICK U : u \in Seq(U)
  BY DEF IsSeq
<1>4. PICK W : W = S \cup T \cup U
  OBVIOUS
<1>5. s \in Seq(W) /\ t \in Seq(W) /\ u \in Seq(W)
  BY <1>1, <1>2, <1>3, <1>4
<1> QED BY <1>5, ConcatAssociative

Then(s, t) == s \o t

LEMMA ThenAssoc ==
    ASSUME NEW s, IsSeq(s), NEW t, IsSeq(t), NEW u, IsSeq(u)
    PROVE  Then(Then(s, t), u) = Then(s, Then(t, u))
<1>1. (s \o t) \o u = s \o (t \o u)
  BY SeqAssoc
<1> QED BY <1>1 DEF Then

(* The first i entries of s.                                                  *)
Prefix(s, i) == SubSeq(s, 1, i)

LEMMA PrefixIs ==
    ASSUME NEW s, IsSeq(s), NEW i \in 0..Len(s)
    PROVE  IsSeq(Prefix(s, i)) /\ Len(Prefix(s, i)) = i /\ \A j \in 1..i : Prefix(s, i)[j] = s[j]
<1>1. PICK S : s \in Seq(S)
  BY DEF IsSeq
<1>2. Len(s) \in Nat
  BY <1>1
<1>3. Prefix(s, i) \in Seq(S)
  BY <1>1, <1>2 DEF Prefix
<1>4. Len(Prefix(s, i)) = i
  BY <1>1, <1>2 DEF Prefix
<1>5. \A j \in 1..i : Prefix(s, i)[j] = s[j]
  BY <1>1, <1>2 DEF Prefix
<1> QED BY <1>3, <1>4, <1>5 DEF IsSeq

LEMMA PrefixWhole ==
    ASSUME NEW s, IsSeq(s)
    PROVE  Prefix(s, Len(s)) = s
<1>1. Len(s) \in Nat /\ Len(s) \in 0..Len(s)
  BY SeqAppend
<1>2. IsSeq(Prefix(s, Len(s))) /\ Len(Prefix(s, Len(s))) = Len(s)
  BY <1>1, PrefixIs
<1>3. \A j \in 1..Len(s) : Prefix(s, Len(s))[j] = s[j]
  BY <1>1, PrefixIs
<1> QED BY <1>2, <1>3, SameSeq

LEMMA PrefixNone ==
    ASSUME NEW s, IsSeq(s)
    PROVE  Prefix(s, 0) = <<>>
<1>1. 0 \in 0..Len(s)
  <2>1. Len(s) \in Nat
    BY SeqAppend
  <2> QED BY <2>1
<1>2. IsSeq(Prefix(s, 0)) /\ Len(Prefix(s, 0)) = 0
  BY <1>1, PrefixIs
<1>3. \A j \in 1..0 : Prefix(s, 0)[j] = <<>>[j]
  OBVIOUS
<1> QED BY <1>2, <1>3, SameSeq, SeqNone

LEMMA PrefixNext ==
    ASSUME NEW s, IsSeq(s), NEW i \in 1..Len(s)
    PROVE  Prefix(s, i) = Append(Prefix(s, i - 1), s[i])
<1>1. Len(s) \in Nat
  BY SeqAppend
<1>2. i \in 0..Len(s) /\ i - 1 \in 0..Len(s) /\ (i - 1) + 1 = i
  BY <1>1
<1>3. PICK p : p = Prefix(s, i)
  OBVIOUS
<1>4. PICK q : q = Prefix(s, i - 1)
  OBVIOUS
<1>5. IsSeq(p) /\ Len(p) = i /\ \A j \in 1..i : p[j] = s[j]
  BY <1>2, <1>3, PrefixIs
<1>6. IsSeq(q) /\ Len(q) = i - 1 /\ \A j \in 1..(i - 1) : q[j] = s[j]
  BY <1>2, <1>4, PrefixIs
<1>7. PICK t : t = Append(q, s[i])
  OBVIOUS
<1>8. IsSeq(t) /\ Len(t) = i /\ t[i] = s[i] /\ \A j \in 1..(i - 1) : t[j] = q[j]
  BY <1>2, <1>6, <1>7, SeqAppend
<1>9. \A j \in 1..i : p[j] = t[j]
  BY <1>2, <1>5, <1>6, <1>8
<1> QED BY <1>3, <1>4, <1>5, <1>7, <1>8, <1>9, SameSeq

LEMMA PrefixOfFirst ==
    ASSUME NEW s, IsSeq(s), NEW t, IsSeq(t), NEW i \in 0..Len(s)
    PROVE  Prefix(s \o t, i) = Prefix(s, i)
<1>1. PICK u : u = s \o t
  OBVIOUS
<1>2. /\ IsSeq(u) /\ Len(s) \in Nat /\ Len(t) \in Nat /\ Len(u) = Len(s) + Len(t)
      /\ \A j \in 1..Len(s) : u[j] = s[j]
  BY <1>1, SeqConcat
<1>3. i \in 0..Len(u)
  BY <1>2
<1>4. IsSeq(Prefix(u, i)) /\ Len(Prefix(u, i)) = i /\ \A j \in 1..i : Prefix(u, i)[j] = u[j]
  BY <1>2, <1>3, PrefixIs
<1>5. IsSeq(Prefix(s, i)) /\ Len(Prefix(s, i)) = i /\ \A j \in 1..i : Prefix(s, i)[j] = s[j]
  BY PrefixIs
<1>6. \A j \in 1..i : Prefix(u, i)[j] = Prefix(s, i)[j]
  BY <1>2, <1>4, <1>5
<1> QED BY <1>1, <1>4, <1>5, <1>6, SameSeq

LEMMA PrefixOfSecond ==
    ASSUME NEW s, IsSeq(s), NEW t, IsSeq(t), NEW i \in 0..Len(t)
    PROVE  Prefix(s \o t, Len(s) + i) = s \o Prefix(t, i)
<1>1. PICK u : u = s \o t
  OBVIOUS
<1>2. PICK n : n = Len(s) + i
  OBVIOUS
<1>3. /\ IsSeq(u) /\ Len(s) \in Nat /\ Len(t) \in Nat /\ Len(u) = Len(s) + Len(t)
      /\ \A j \in 1..Len(s) : u[j] = s[j]
      /\ \A k \in 1..Len(t) : u[Len(s) + k] = t[k]
  BY <1>1, SeqConcat
<1>4. n \in 0..Len(u)
  BY <1>2, <1>3
<1>5. PICK p : p = Prefix(u, n)
  OBVIOUS
<1>6. IsSeq(p) /\ Len(p) = n /\ \A j \in 1..n : p[j] = u[j]
  BY <1>3, <1>4, <1>5, PrefixIs
<1>7. PICK q : q = Prefix(t, i)
  OBVIOUS
<1>8. IsSeq(q) /\ Len(q) = i /\ \A j \in 1..i : q[j] = t[j]
  BY <1>7, PrefixIs
<1>9. PICK v : v = s \o q
  OBVIOUS
<1>10. /\ IsSeq(v) /\ Len(v) = n
       /\ \A j \in 1..Len(s) : v[j] = s[j]
       /\ \A k \in 1..i : v[Len(s) + k] = q[k]
  <2>1. IsSeq(v) /\ Len(v) = Len(s) + Len(q)
    BY <1>8, <1>9, SeqConcat
  <2>2. \A j \in 1..Len(s) : v[j] = s[j]
    BY <1>8, <1>9, SeqConcat
  <2>0. IsSeq(q)
    BY <1>8
  <2>3. \A k \in 1..Len(q) : (s \o q)[Len(s) + k] = q[k]
    BY <2>0, SeqConcat
  <2> QED BY <1>2, <1>8, <1>9, <2>1, <2>2, <2>3
<1>11. ASSUME NEW j \in 1..n PROVE p[j] = v[j]
  <2>1. CASE j \in 1..Len(s)
    BY <1>3, <1>6, <1>10, <2>1
  <2>2. CASE j \notin 1..Len(s)
    <3>1. PICK k \in 1..i : j = Len(s) + k
      <4>1. j - Len(s) \in 1..i /\ j = Len(s) + (j - Len(s))
        BY <1>2, <1>3, <2>2
      <4> QED BY <4>1
    <3>2. k \in 1..Len(t)
      BY <1>3
    <3>3. p[j] = t[k]
      BY <1>3, <1>6, <3>1, <3>2
    <3>4. v[j] = t[k]
      BY <1>8, <1>10, <3>1
    <3> QED BY <3>3, <3>4
  <2> QED BY <2>1, <2>2
<1> QED BY <1>1, <1>2, <1>5, <1>6, <1>7, <1>9, <1>10, <1>11, SameSeq

LEMMA ReplayBoth ==
    ASSUME NEW g, NEW a, IsSeq(a), NEW b, IsSeq(b)
    PROVE  \A i \in 0..Len(b) : Replay(g, a \o Prefix(b, i)) = Replay(Replay(g, a), Prefix(b, i))
<1>1. Len(b) \in Nat
  BY SeqAppend
<1> DEFINE Fine(i) == Replay(g, a \o Prefix(b, i)) = Replay(Replay(g, a), Prefix(b, i))
           T == {i \in 0..Len(b) : ~ Fine(i)}
<1>2. Fine(0)
  <2>1. a \o <<>> = a
    <3>1. PICK S : a \in Seq(S)
      BY DEF IsSeq
    <3> QED BY <3>1, ConcatEmptySeq
  <2> QED BY <2>1, PrefixNone, ReplayNothing
<1>3. ASSUME NEW i \in 1..Len(b), Fine(i - 1) PROVE Fine(i)
  <2>1. PICK p : p = Prefix(b, i - 1)
    OBVIOUS
  <2>2. Prefix(b, i) = Append(p, b[i])
    BY <2>1, PrefixNext
  <2>3. IsSeq(p)
    <3>1. i - 1 \in 0..Len(b)
      BY <1>1
    <3> QED BY <2>1, <3>1, PrefixIs
  <2>4. a \o Append(p, b[i]) = Append(a \o p, b[i])
    <3>1. PICK u : u = a \o p
      OBVIOUS
    <3>2. PICK q : q = Append(p, b[i])
      OBVIOUS
    <3>3. PICK A : a \in Seq(A)
      BY DEF IsSeq
    <3>4. PICK P : p \in Seq(P)
      BY <2>3 DEF IsSeq
    <3>5. PICK S : S = A \cup P \cup {b[i]}
      OBVIOUS
    <3>6. a \in Seq(S) /\ p \in Seq(S) /\ b[i] \in S
      BY <3>3, <3>4, <3>5
    <3> QED BY <3>6
  <2>5. IsSeq(a \o p)
    BY <2>3, SeqConcat
  <2>6. Replay(g, Append(a \o p, b[i])) = ApplyWal(Replay(g, a \o p), b[i])
    BY <2>5, ReplayOneMore
  <2>7. Replay(Replay(g, a), Append(p, b[i])) = ApplyWal(Replay(Replay(g, a), p), b[i])
    BY <2>3, ReplayOneMore
  <2> QED BY <1>3, <2>1, <2>2, <2>4, <2>6, <2>7
<1>4. T = {}
  <2>1. SUFFICES ASSUME T # {} PROVE FALSE
    OBVIOUS
  <2>2. T \subseteq Nat
    BY <1>1
  <2>3. PICK i \in T : \A y \in T : i <= y
    <3> HIDE DEF T
    <3> QED BY <2>1, <2>2, NatsHaveLeast
  <2> HIDE DEF Fine
  <2>4. i \in 1..Len(b)
    BY <1>1, <1>2, <2>3
  <2>5. i - 1 \in 0..Len(b) /\ i - 1 \notin T
    BY <1>1, <2>3, <2>4
  <2>6. Fine(i - 1)
    BY <2>5
  <2>7. Fine(i)
    BY <1>3, <2>4, <2>6
  <2> QED BY <2>7, <2>3
<1> HIDE DEF Fine
<1>5. \A i \in 0..Len(b) : Fine(i)
  BY <1>4
<1> QED BY <1>5 DEF Fine

-----------------------------------------------------------------------------
(* A follower's graph h mirrors the leader's g: the same nodes and edges,     *)
(* property values as the WAL conveys them.                                   *)

NodeMirror(x, y) == x.labels = y.labels /\ x.props = WalProps(y.props)
EdgeMirror(x, y) == x.from = y.from /\ x.to = y.to /\ x.props = WalProps(y.props)
NodesMirror(M, N) == DOMAIN M = DOMAIN N /\ \A n \in DOMAIN N : NodeMirror(M[n], N[n])
EdgesMirror(M, N) == DOMAIN M = DOMAIN N /\ \A e \in DOMAIN N : EdgeMirror(M[e], N[e])
Mirrors(h, g) == NodesMirror(h.nodes, g.nodes) /\ EdgesMirror(h.edges, g.edges)

(* Entry w turns mirrors of g into mirrors of i; entries wal do, and every    *)
(* graph on the way is good.                                                  *)
Sends(w, g, i) ==
    \A h : Good(h) /\ Mirrors(h, g) => Good(ApplyWal(h, w)) /\ Mirrors(ApplyWal(h, w), i)

AllGood(h, wal) == \A i \in 0..Len(wal) : Good(Replay(h, Prefix(wal, i)))

Conveys(wal, g, i) ==
    \A h : Good(h) /\ Mirrors(h, g) => AllGood(h, wal) /\ Mirrors(Replay(h, wal), i)

LEMMA ConveysNothing ==
    ASSUME NEW g
    PROVE  Conveys(<<>>, g, g)
<1> SUFFICES ASSUME NEW h, Good(h), Mirrors(h, g)
             PROVE  AllGood(h, <<>>) /\ Mirrors(Replay(h, <<>>), g)
  BY DEF Conveys
<1>1. Replay(h, <<>>) = h
  BY ReplayNothing
<1>2. \A i \in 0..Len(<<>>) : i = 0
  BY SeqNone
<1>3. Prefix(<<>>, 0) = <<>>
  BY SeqNone, PrefixNone
<1>4. AllGood(h, <<>>)
  BY <1>1, <1>2, <1>3 DEF AllGood
<1> QED BY <1>1, <1>4

LEMMA ConveysOne ==
    ASSUME NEW w, NEW g, NEW i, Sends(w, g, i)
    PROVE  Conveys(<<w>>, g, i)
<1> SUFFICES ASSUME NEW h, Good(h), Mirrors(h, g)
             PROVE  AllGood(h, <<w>>) /\ Mirrors(Replay(h, <<w>>), i)
  BY DEF Conveys
<1>1. Replay(h, <<>>) = h
  BY ReplayNothing
<1>2. <<w>> = Append(<<>>, w)
  OBVIOUS
<1>3. IsSeq(<<w>>) /\ Len(<<w>>) = 1
  <2>1. <<w>> \in Seq({w})
    OBVIOUS
  <2>2. Len(<<w>>) = 1
    OBVIOUS
  <2> QED BY <2>1, <2>2 DEF IsSeq
<1>4. Replay(h, <<w>>) = ApplyWal(h, w)
  <2>1. PICK none : none = <<>>
    OBVIOUS
  <2>2. IsSeq(none) /\ Replay(h, none) = h
    BY <1>1, <2>1, SeqNone
  <2>3. Replay(h, Append(none, w)) = ApplyWal(Replay(h, none), w)
    BY <2>2, ReplayOneMore
  <2>4. Append(none, w) = <<w>>
    BY <2>1
  <2> QED BY <2>2, <2>3, <2>4
<1>5. Good(ApplyWal(h, w)) /\ Mirrors(ApplyWal(h, w), i)
  BY DEF Sends
<1>6. Prefix(<<w>>, 0) = <<>> /\ Prefix(<<w>>, 1) = <<w>>
  BY <1>3, PrefixNone, PrefixWhole
<1>7. \A j \in 0..Len(<<w>>) : j = 0 \/ j = 1
  BY <1>3
<1>8. AllGood(h, <<w>>)
  BY <1>1, <1>4, <1>5, <1>6, <1>7 DEF AllGood
<1> QED BY <1>4, <1>5, <1>8

LEMMA ConveysBoth ==
    ASSUME NEW a, IsSeq(a), NEW b, IsSeq(b), NEW g, NEW i, NEW j, Conveys(a, g, i), Conveys(b, i, j)
    PROVE  Conveys(a \o b, g, j)
<1> SUFFICES ASSUME NEW h, Good(h), Mirrors(h, g)
             PROVE  AllGood(h, a \o b) /\ Mirrors(Replay(h, a \o b), j)
  BY DEF Conveys
<1>1. PICK k : k = Replay(h, a)
  OBVIOUS
<1>2. AllGood(h, a) /\ Mirrors(k, i)
  BY <1>1 DEF Conveys
<1>3. Good(k)
  <2>1. Len(a) \in 0..Len(a)
    <3>1. Len(a) \in Nat
      BY SeqAppend
    <3> QED BY <3>1
  <2>2. Good(Replay(h, Prefix(a, Len(a))))
    BY <1>2, <2>1 DEF AllGood
  <2> QED BY <1>1, <2>2, PrefixWhole
<1>4. AllGood(k, b) /\ Mirrors(Replay(k, b), j)
  BY <1>2, <1>3 DEF Conveys
<1>5. PICK u : u = a \o b
  OBVIOUS
<1>6. Len(a) \in Nat /\ Len(b) \in Nat /\ Len(u) = Len(a) + Len(b)
  BY <1>5, SeqConcat
<1>7. \A n \in 0..Len(b) : Replay(h, a \o Prefix(b, n)) = Replay(k, Prefix(b, n))
  BY <1>1, ReplayBoth
<1>8. Replay(h, u) = Replay(k, b)
  <2>1. Len(b) \in 0..Len(b)
    BY <1>6
  <2>2. Replay(h, a \o Prefix(b, Len(b))) = Replay(k, Prefix(b, Len(b)))
    BY <1>7, <2>1
  <2> QED BY <1>5, <2>2, PrefixWhole
<1>9. ASSUME NEW n \in 0..Len(u) PROVE Good(Replay(h, Prefix(u, n)))
  <2>1. CASE n \in 0..Len(a)
    <3>1. Prefix(u, n) = Prefix(a, n)
      BY <1>5, <2>1, PrefixOfFirst
    <3> QED BY <1>2, <2>1, <3>1 DEF AllGood
  <2>2. CASE n \notin 0..Len(a)
    <3>1. PICK m \in 0..Len(b) : n = Len(a) + m
      <4>1. n - Len(a) \in 0..Len(b) /\ n = Len(a) + (n - Len(a))
        BY <1>6, <2>2
      <4> QED BY <4>1
    <3>2. Prefix(u, n) = a \o Prefix(b, m)
      BY <1>5, <3>1, PrefixOfSecond
    <3>3. Replay(h, Prefix(u, n)) = Replay(k, Prefix(b, m))
      BY <1>7, <3>2
    <3> QED BY <1>4, <3>3 DEF AllGood
  <2> QED BY <2>1, <2>2
<1> QED BY <1>4, <1>5, <1>8, <1>9 DEF AllGood

LEMMA WalPropsPut ==
    ASSUME NEW p, NEW k, NEW v
    PROVE  WalProps(Put(p, k, v)) = Put(WalProps(p), k, WalRoundTrip(v))
  BY DEF WalProps, Put

LEMMA WalPropsDrop ==
    ASSUME NEW p, NEW K
    PROVE  WalProps(Drop(p, K)) = Drop(WalProps(p), K)
  BY DEF WalProps, Drop, Restrict

LEMMA WalPropsEmpty == WalProps(Empty) = Empty
  BY DEF WalProps, Empty

LEMMA NodesMirrorPut ==
    ASSUME NEW M, NEW N, NodesMirror(M, N), NEW n, NEW x, NEW y, NodeMirror(x, y)
    PROVE  NodesMirror(Put(M, n, x), Put(N, n, y))
<1>1. PICK P : P = Put(M, n, x)
  OBVIOUS
<1>2. PICK Q : Q = Put(N, n, y)
  OBVIOUS
<1>3. DOMAIN P = DOMAIN M \cup {n}
  BY <1>1, PutDomain
<1>4. DOMAIN Q = DOMAIN N \cup {n}
  BY <1>2, PutDomain
<1>5. P[n] = x
  BY <1>1, PutAt
<1>6. Q[n] = y
  BY <1>2, PutAt
<1>7. \A m \in DOMAIN M : m # n => P[m] = M[m]
  BY <1>1, PutOther
<1>8. \A m \in DOMAIN N : m # n => Q[m] = N[m]
  BY <1>2, PutOther
<1>9. DOMAIN P = DOMAIN Q
  BY <1>3, <1>4 DEF NodesMirror
<1>10. ASSUME NEW m \in DOMAIN Q PROVE NodeMirror(P[m], Q[m])
  <2>1. CASE m = n
    BY <1>5, <1>6, <2>1
  <2>2. CASE m # n
    <3>1. m \in DOMAIN N /\ m \in DOMAIN M
      BY <1>4, <2>2 DEF NodesMirror
    <3>2. NodeMirror(M[m], N[m])
      BY <3>1 DEF NodesMirror
    <3> QED BY <1>7, <1>8, <2>2, <3>1, <3>2
  <2> QED BY <2>1, <2>2
<1> QED BY <1>1, <1>2, <1>9, <1>10 DEF NodesMirror

LEMMA EdgesMirrorPut ==
    ASSUME NEW M, NEW N, EdgesMirror(M, N), NEW n, NEW x, NEW y, EdgeMirror(x, y)
    PROVE  EdgesMirror(Put(M, n, x), Put(N, n, y))
<1>1. PICK P : P = Put(M, n, x)
  OBVIOUS
<1>2. PICK Q : Q = Put(N, n, y)
  OBVIOUS
<1>3. DOMAIN P = DOMAIN M \cup {n}
  BY <1>1, PutDomain
<1>4. DOMAIN Q = DOMAIN N \cup {n}
  BY <1>2, PutDomain
<1>5. P[n] = x
  BY <1>1, PutAt
<1>6. Q[n] = y
  BY <1>2, PutAt
<1>7. \A m \in DOMAIN M : m # n => P[m] = M[m]
  BY <1>1, PutOther
<1>8. \A m \in DOMAIN N : m # n => Q[m] = N[m]
  BY <1>2, PutOther
<1>9. DOMAIN P = DOMAIN Q
  BY <1>3, <1>4 DEF EdgesMirror
<1>10. ASSUME NEW m \in DOMAIN Q PROVE EdgeMirror(P[m], Q[m])
  <2>1. CASE m = n
    BY <1>5, <1>6, <2>1
  <2>2. CASE m # n
    <3>1. m \in DOMAIN N /\ m \in DOMAIN M
      BY <1>4, <2>2 DEF EdgesMirror
    <3>2. EdgeMirror(M[m], N[m])
      BY <3>1 DEF EdgesMirror
    <3> QED BY <1>7, <1>8, <2>2, <3>1, <3>2
  <2> QED BY <2>1, <2>2
<1> QED BY <1>1, <1>2, <1>9, <1>10 DEF EdgesMirror

LEMMA NodesMirrorDrop ==
    ASSUME NEW M, NEW N, NodesMirror(M, N), NEW K
    PROVE  NodesMirror(Drop(M, K), Drop(N, K))
<1>1. PICK P : P = Drop(M, K)
  OBVIOUS
<1>2. PICK Q : Q = Drop(N, K)
  OBVIOUS
<1>3. DOMAIN P = DOMAIN M \ K
  BY <1>1, DropDomain
<1>4. DOMAIN Q = DOMAIN N \ K
  BY <1>2, DropDomain
<1>5. \A m \in DOMAIN M \ K : P[m] = M[m]
  BY <1>1, DropOther
<1>6. \A m \in DOMAIN N \ K : Q[m] = N[m]
  BY <1>2, DropOther
<1> QED BY <1>1, <1>2, <1>3, <1>4, <1>5, <1>6 DEF NodesMirror

LEMMA EdgesMirrorDrop ==
    ASSUME NEW M, NEW N, EdgesMirror(M, N), NEW K
    PROVE  EdgesMirror(Drop(M, K), Drop(N, K))
<1>1. PICK P : P = Drop(M, K)
  OBVIOUS
<1>2. PICK Q : Q = Drop(N, K)
  OBVIOUS
<1>3. DOMAIN P = DOMAIN M \ K
  BY <1>1, DropDomain
<1>4. DOMAIN Q = DOMAIN N \ K
  BY <1>2, DropDomain
<1>5. \A m \in DOMAIN M \ K : P[m] = M[m]
  BY <1>1, DropOther
<1>6. \A m \in DOMAIN N \ K : Q[m] = N[m]
  BY <1>2, DropOther
<1> QED BY <1>1, <1>2, <1>3, <1>4, <1>5, <1>6 DEF EdgesMirror

-----------------------------------------------------------------------------
(* What the entry of each mutation does to a follower.                        *)

CreateNodeEntry(n, ls) == [op |-> "CreateNode", id |-> n, labels |-> ls]
DeleteNodeEntry(n) == [op |-> "DeleteNode", id |-> n]
CreateEdgeEntry(e, from, to) == [op |-> "CreateEdge", id |-> e, from |-> from, to |-> to]
DeleteEdgeEntry(e) == [op |-> "DeleteEdge", id |-> e]
RemovePropEntry(node, i, k) == [op |-> "RemoveProperty", node |-> node, id |-> i, key |-> k]
AddLabelEntry(n, l) == [op |-> "AddLabel", id |-> n, label |-> l]
RemoveLabelEntry(n, l) == [op |-> "RemoveLabel", id |-> n, label |-> l]

LEMMA ApplyCreateNode ==
    ASSUME NEW h, NEW n, NEW ls
    PROVE  ApplyWal(h, CreateNodeEntry(n, ls)) = CreateNodeWithId(h, n, ls)
  BY DEF ApplyWal, CreateNodeEntry

LEMMA ApplyDeleteNode ==
    ASSUME NEW h, NEW n
    PROVE  ApplyWal(h, DeleteNodeEntry(n)) = DeleteNode(h, n)
  BY DEF ApplyWal, DeleteNodeEntry

LEMMA ApplyCreateEdge ==
    ASSUME NEW h, NEW e, NEW from, NEW to
    PROVE  ApplyWal(h, CreateEdgeEntry(e, from, to)) = CreateEdgeWithId(h, e, from, to)
  BY DEF ApplyWal, CreateEdgeEntry

LEMMA ApplyDeleteEdge ==
    ASSUME NEW h, NEW e
    PROVE  ApplyWal(h, DeleteEdgeEntry(e)) = DeleteEdge(h, e)
  BY DEF ApplyWal, DeleteEdgeEntry

LEMMA ApplySetNodeProperty ==
    ASSUME NEW h, NEW n, NEW k, NEW v
    PROVE  ApplyWal(h, SetPropEntry(TRUE, n, k, v)) = SetNodeProperty(h, n, k, WalRoundTrip(v))
  BY DEF ApplyWal, SetPropEntry

LEMMA ApplySetEdgeProperty ==
    ASSUME NEW h, NEW e, NEW k, NEW v
    PROVE  ApplyWal(h, SetPropEntry(FALSE, e, k, v)) = SetEdgeProperty(h, e, k, WalRoundTrip(v))
  BY DEF ApplyWal, SetPropEntry

LEMMA ApplyRemoveNodeProperty ==
    ASSUME NEW h, NEW n, NEW k
    PROVE  ApplyWal(h, RemovePropEntry(TRUE, n, k)) = RemoveNodeProperty(h, n, k)
  BY DEF ApplyWal, RemovePropEntry

LEMMA ApplyRemoveEdgeProperty ==
    ASSUME NEW h, NEW e, NEW k
    PROVE  ApplyWal(h, RemovePropEntry(FALSE, e, k)) = RemoveEdgeProperty(h, e, k)
  BY DEF ApplyWal, RemovePropEntry

LEMMA ApplyAddLabel ==
    ASSUME NEW h, NEW n, NEW l
    PROVE  ApplyWal(h, AddLabelEntry(n, l)) = AddNodeLabel(h, n, l)
  BY DEF ApplyWal, AddLabelEntry

LEMMA ApplyRemoveLabel ==
    ASSUME NEW h, NEW n, NEW l
    PROVE  ApplyWal(h, RemoveLabelEntry(n, l)) = RemoveNodeLabel(h, n, l)
  BY DEF ApplyWal, RemoveLabelEntry

LEMMA MirrorHas ==
    ASSUME NEW h, NEW g, Mirrors(h, g)
    PROVE  DOMAIN h.nodes = DOMAIN g.nodes /\ DOMAIN h.edges = DOMAIN g.edges
  BY DEF Mirrors, NodesMirror, EdgesMirror

LEMMA MirrorNode ==
    ASSUME NEW h, NEW g, Mirrors(h, g), NEW n \in DOMAIN g.nodes
    PROVE  h.nodes[n].labels = g.nodes[n].labels /\ h.nodes[n].props = WalProps(g.nodes[n].props)
  BY DEF Mirrors, NodesMirror, NodeMirror

LEMMA MirrorEdge ==
    ASSUME NEW h, NEW g, Mirrors(h, g), NEW e \in DOMAIN g.edges
    PROVE  /\ h.edges[e].from = g.edges[e].from /\ h.edges[e].to = g.edges[e].to
           /\ h.edges[e].props = WalProps(g.edges[e].props)
  BY DEF Mirrors, EdgesMirror, EdgeMirror

LEMMA NodeOfMirrors ==
    ASSUME NEW ls, NEW p, NEW q, p = WalProps(q)
    PROVE  NodeMirror(NodeOf(ls, p), NodeOf(ls, q))
  BY DEF NodeMirror, NodeOf

LEMMA EdgeOfMirrors ==
    ASSUME NEW from, NEW to, NEW p, NEW q, p = WalProps(q)
    PROVE  EdgeMirror(EdgeOf(from, to, p), EdgeOf(from, to, q))
  BY DEF EdgeMirror, EdgeOf

LEMMA SendsCreateNode ==
    ASSUME NEW g, Good(g), NEW n \in Nat, n \notin DOMAIN g.nodes, NEW ls \in Seq(Labels),
           NEW i, i = CreateNodeWithId(g, n, ls)
    PROVE  Sends(CreateNodeEntry(n, ls), g, i)
<1> SUFFICES ASSUME NEW h, Good(h), Mirrors(h, g), NEW k, k = ApplyWal(h, CreateNodeEntry(n, ls))
             PROVE  Good(k) /\ Mirrors(k, i)
  BY DEF Sends
<1>1. k = CreateNodeWithId(h, n, ls)
  BY ApplyCreateNode
<1>2. n \notin DOMAIN h.nodes
  BY MirrorHas
<1>3. Good(k) /\ k.nodes = Put(h.nodes, n, NodeOf(ls, Empty)) /\ k.edges = h.edges
  BY <1>1, <1>2, CreateNodeGood
<1>4. i.nodes = Put(g.nodes, n, NodeOf(ls, Empty)) /\ i.edges = g.edges
  BY CreateNodeGood
<1>5. NodeMirror(NodeOf(ls, Empty), NodeOf(ls, Empty))
  BY WalPropsEmpty, NodeOfMirrors
<1>6. NodesMirror(h.nodes, g.nodes) /\ EdgesMirror(h.edges, g.edges)
  BY DEF Mirrors
<1>7. NodesMirror(k.nodes, i.nodes)
  BY <1>3, <1>4, <1>5, <1>6, NodesMirrorPut
<1> QED BY <1>3, <1>4, <1>6, <1>7 DEF Mirrors

LEMMA SendsDeleteNode ==
    ASSUME NEW g, Good(g), NEW n \in DOMAIN g.nodes, NEW i, i = DeleteNode(g, n)
    PROVE  Sends(DeleteNodeEntry(n), g, i)
<1> SUFFICES ASSUME NEW h, Good(h), Mirrors(h, g), NEW k, k = ApplyWal(h, DeleteNodeEntry(n))
             PROVE  Good(k) /\ Mirrors(k, i)
  BY DEF Sends
<1>1. k = DeleteNode(h, n)
  BY ApplyDeleteNode
<1>2. n \in DOMAIN h.nodes
  BY MirrorHas
<1>3. Good(k) /\ k.nodes = Drop(h.nodes, {n}) /\ k.edges = Drop(h.edges, h.out[n] \cup h.inc[n])
  BY <1>1, <1>2, DeleteNodeGood
<1>4. i.nodes = Drop(g.nodes, {n}) /\ i.edges = Drop(g.edges, g.out[n] \cup g.inc[n])
  BY DeleteNodeGood
<1>5. h.out[n] = g.out[n] /\ h.inc[n] = g.inc[n]
  <2>1. /\ h.out[n] = {e \in DOMAIN h.edges : h.edges[e].from = n}
        /\ h.inc[n] = {e \in DOMAIN h.edges : h.edges[e].to = n}
    BY <1>2, GoodIsConsistent DEF Consistent
  <2>2. /\ g.out[n] = {e \in DOMAIN g.edges : g.edges[e].from = n}
        /\ g.inc[n] = {e \in DOMAIN g.edges : g.edges[e].to = n}
    BY GoodIsConsistent DEF Consistent
  <2>3. DOMAIN h.edges = DOMAIN g.edges
    BY MirrorHas
  <2>4. \A e \in DOMAIN g.edges : h.edges[e].from = g.edges[e].from /\ h.edges[e].to = g.edges[e].to
    BY MirrorEdge
  <2> QED BY <2>1, <2>2, <2>3, <2>4
<1>6. NodesMirror(h.nodes, g.nodes) /\ EdgesMirror(h.edges, g.edges)
  BY DEF Mirrors
<1>7. NodesMirror(k.nodes, i.nodes)
  BY <1>3, <1>4, <1>6, NodesMirrorDrop
<1>8. EdgesMirror(k.edges, i.edges)
  BY <1>3, <1>4, <1>5, <1>6, EdgesMirrorDrop
<1> QED BY <1>3, <1>7, <1>8 DEF Mirrors

LEMMA SendsCreateEdge ==
    ASSUME NEW g, Good(g), NEW e \in Nat, e \notin DOMAIN g.edges,
           NEW from \in DOMAIN g.nodes, NEW to \in DOMAIN g.nodes,
           NEW i, i = CreateEdgeWithId(g, e, from, to)
    PROVE  Sends(CreateEdgeEntry(e, from, to), g, i)
<1> SUFFICES ASSUME NEW h, Good(h), Mirrors(h, g), NEW k, k = ApplyWal(h, CreateEdgeEntry(e, from, to))
             PROVE  Good(k) /\ Mirrors(k, i)
  BY DEF Sends
<1>1. k = CreateEdgeWithId(h, e, from, to)
  BY ApplyCreateEdge
<1>2. e \notin DOMAIN h.edges /\ from \in DOMAIN h.nodes /\ to \in DOMAIN h.nodes
  BY MirrorHas
<1>3. Good(k) /\ k.edges = Put(h.edges, e, EdgeOf(from, to, Empty)) /\ k.nodes = h.nodes
  BY <1>1, <1>2, CreateEdgeGood
<1>4. i.edges = Put(g.edges, e, EdgeOf(from, to, Empty)) /\ i.nodes = g.nodes
  BY CreateEdgeGood
<1>5. EdgeMirror(EdgeOf(from, to, Empty), EdgeOf(from, to, Empty))
  BY WalPropsEmpty, EdgeOfMirrors
<1>6. NodesMirror(h.nodes, g.nodes) /\ EdgesMirror(h.edges, g.edges)
  BY DEF Mirrors
<1>7. EdgesMirror(k.edges, i.edges)
  BY <1>3, <1>4, <1>5, <1>6, EdgesMirrorPut
<1> QED BY <1>3, <1>4, <1>6, <1>7 DEF Mirrors

LEMMA SendsDeleteEdge ==
    ASSUME NEW g, Good(g), NEW e \in DOMAIN g.edges, NEW i, i = DeleteEdge(g, e)
    PROVE  Sends(DeleteEdgeEntry(e), g, i)
<1> SUFFICES ASSUME NEW h, Good(h), Mirrors(h, g), NEW k, k = ApplyWal(h, DeleteEdgeEntry(e))
             PROVE  Good(k) /\ Mirrors(k, i)
  BY DEF Sends
<1>1. k = DeleteEdge(h, e)
  BY ApplyDeleteEdge
<1>2. e \in DOMAIN h.edges
  BY MirrorHas
<1>3. Good(k) /\ k.edges = Drop(h.edges, {e}) /\ k.nodes = h.nodes
  BY <1>1, <1>2, DeleteEdgeGood
<1>4. i.edges = Drop(g.edges, {e}) /\ i.nodes = g.nodes
  BY DeleteEdgeGood
<1>5. NodesMirror(h.nodes, g.nodes) /\ EdgesMirror(h.edges, g.edges)
  BY DEF Mirrors
<1>6. EdgesMirror(k.edges, i.edges)
  BY <1>3, <1>4, <1>5, EdgesMirrorDrop
<1> QED BY <1>3, <1>4, <1>5, <1>6 DEF Mirrors

LEMMA SendsSetNodeProperty ==
    ASSUME NEW g, Good(g), NEW n \in DOMAIN g.nodes, NEW k, NEW v, NEW i, i = SetNodeProperty(g, n, k, v)
    PROVE  Sends(SetPropEntry(TRUE, n, k, v), g, i)
<1> SUFFICES ASSUME NEW h, Good(h), Mirrors(h, g), NEW j, j = ApplyWal(h, SetPropEntry(TRUE, n, k, v))
             PROVE  Good(j) /\ Mirrors(j, i)
  BY DEF Sends
<1>1. j = SetNodeProperty(h, n, k, WalRoundTrip(v))
  BY ApplySetNodeProperty
<1>2. n \in DOMAIN h.nodes
  BY MirrorHas
<1>3. PICK p : p = Put(g.nodes[n].props, k, v)
  OBVIOUS
<1>4. PICK q : q = Put(h.nodes[n].props, k, WalRoundTrip(v))
  OBVIOUS
<1>5. Good(j) /\ j.nodes = Put(h.nodes, n, NodeOf(h.nodes[n].labels, q)) /\ j.edges = h.edges
  <2>1. NodeNow(h, j, n, NodeOf(h.nodes[n].labels, Put(h.nodes[n].props, k, WalRoundTrip(v))))
    BY <1>1, <1>2, SetNodePropertyGood
  <2> QED BY <1>4, <2>1 DEF NodeNow
<1>6. i.nodes = Put(g.nodes, n, NodeOf(g.nodes[n].labels, p)) /\ i.edges = g.edges
  <2>1. NodeNow(g, i, n, NodeOf(g.nodes[n].labels, Put(g.nodes[n].props, k, v)))
    BY SetNodePropertyGood
  <2> QED BY <1>3, <2>1 DEF NodeNow
<1>7. q = WalProps(p)
  BY <1>3, <1>4, MirrorNode, WalPropsPut
<1>8. NodeMirror(NodeOf(h.nodes[n].labels, q), NodeOf(g.nodes[n].labels, p))
  BY <1>7, MirrorNode, NodeOfMirrors
<1>9. NodesMirror(h.nodes, g.nodes) /\ EdgesMirror(h.edges, g.edges)
  BY DEF Mirrors
<1>10. NodesMirror(j.nodes, i.nodes)
  BY <1>5, <1>6, <1>8, <1>9, NodesMirrorPut
<1> QED BY <1>5, <1>6, <1>9, <1>10 DEF Mirrors

LEMMA SendsRemoveNodeProperty ==
    ASSUME NEW g, Good(g), NEW n \in DOMAIN g.nodes, NEW k, NEW i, i = RemoveNodeProperty(g, n, k)
    PROVE  Sends(RemovePropEntry(TRUE, n, k), g, i)
<1> SUFFICES ASSUME NEW h, Good(h), Mirrors(h, g), NEW j, j = ApplyWal(h, RemovePropEntry(TRUE, n, k))
             PROVE  Good(j) /\ Mirrors(j, i)
  BY DEF Sends
<1>1. j = RemoveNodeProperty(h, n, k)
  BY ApplyRemoveNodeProperty
<1>2. n \in DOMAIN h.nodes
  BY MirrorHas
<1>3. PICK p : p = Drop(g.nodes[n].props, {k})
  OBVIOUS
<1>4. PICK q : q = Drop(h.nodes[n].props, {k})
  OBVIOUS
<1>5. Good(j) /\ j.nodes = Put(h.nodes, n, NodeOf(h.nodes[n].labels, q)) /\ j.edges = h.edges
  <2>1. NodeNow(h, j, n, NodeOf(h.nodes[n].labels, Drop(h.nodes[n].props, {k})))
    BY <1>1, <1>2, RemoveNodePropertyGood
  <2> QED BY <1>4, <2>1 DEF NodeNow
<1>6. i.nodes = Put(g.nodes, n, NodeOf(g.nodes[n].labels, p)) /\ i.edges = g.edges
  <2>1. NodeNow(g, i, n, NodeOf(g.nodes[n].labels, Drop(g.nodes[n].props, {k})))
    BY RemoveNodePropertyGood
  <2> QED BY <1>3, <2>1 DEF NodeNow
<1>7. q = WalProps(p)
  BY <1>3, <1>4, MirrorNode, WalPropsDrop
<1>8. NodeMirror(NodeOf(h.nodes[n].labels, q), NodeOf(g.nodes[n].labels, p))
  BY <1>7, MirrorNode, NodeOfMirrors
<1>9. NodesMirror(h.nodes, g.nodes) /\ EdgesMirror(h.edges, g.edges)
  BY DEF Mirrors
<1>10. NodesMirror(j.nodes, i.nodes)
  BY <1>5, <1>6, <1>8, <1>9, NodesMirrorPut
<1> QED BY <1>5, <1>6, <1>9, <1>10 DEF Mirrors

LEMMA SendsSetEdgeProperty ==
    ASSUME NEW g, Good(g), NEW e \in DOMAIN g.edges, NEW k, NEW v, NEW i, i = SetEdgeProperty(g, e, k, v)
    PROVE  Sends(SetPropEntry(FALSE, e, k, v), g, i)
<1> SUFFICES ASSUME NEW h, Good(h), Mirrors(h, g), NEW j, j = ApplyWal(h, SetPropEntry(FALSE, e, k, v))
             PROVE  Good(j) /\ Mirrors(j, i)
  BY DEF Sends
<1>1. j = SetEdgeProperty(h, e, k, WalRoundTrip(v))
  BY ApplySetEdgeProperty
<1>2. e \in DOMAIN h.edges
  BY MirrorHas
<1>3. PICK p : p = Put(g.edges[e].props, k, v)
  OBVIOUS
<1>4. PICK q : q = Put(h.edges[e].props, k, WalRoundTrip(v))
  OBVIOUS
<1>5. Good(j) /\ j.edges = Put(h.edges, e, EdgeOf(h.edges[e].from, h.edges[e].to, q)) /\ j.nodes = h.nodes
  <2>1. EdgeNow(h, j, e, EdgeOf(h.edges[e].from, h.edges[e].to, Put(h.edges[e].props, k, WalRoundTrip(v))))
    BY <1>1, <1>2, SetEdgePropertyGood
  <2> QED BY <1>4, <2>1 DEF EdgeNow
<1>6. i.edges = Put(g.edges, e, EdgeOf(g.edges[e].from, g.edges[e].to, p)) /\ i.nodes = g.nodes
  <2>1. EdgeNow(g, i, e, EdgeOf(g.edges[e].from, g.edges[e].to, Put(g.edges[e].props, k, v)))
    BY SetEdgePropertyGood
  <2> QED BY <1>3, <2>1 DEF EdgeNow
<1>7. q = WalProps(p)
  BY <1>3, <1>4, MirrorEdge, WalPropsPut
<1>8. EdgeMirror(EdgeOf(h.edges[e].from, h.edges[e].to, q), EdgeOf(g.edges[e].from, g.edges[e].to, p))
  BY <1>7, MirrorEdge, EdgeOfMirrors
<1>9. NodesMirror(h.nodes, g.nodes) /\ EdgesMirror(h.edges, g.edges)
  BY DEF Mirrors
<1>10. EdgesMirror(j.edges, i.edges)
  BY <1>5, <1>6, <1>8, <1>9, EdgesMirrorPut
<1> QED BY <1>5, <1>6, <1>9, <1>10 DEF Mirrors

LEMMA SendsRemoveEdgeProperty ==
    ASSUME NEW g, Good(g), NEW e \in DOMAIN g.edges, NEW k, NEW i, i = RemoveEdgeProperty(g, e, k)
    PROVE  Sends(RemovePropEntry(FALSE, e, k), g, i)
<1> SUFFICES ASSUME NEW h, Good(h), Mirrors(h, g), NEW j, j = ApplyWal(h, RemovePropEntry(FALSE, e, k))
             PROVE  Good(j) /\ Mirrors(j, i)
  BY DEF Sends
<1>1. j = RemoveEdgeProperty(h, e, k)
  BY ApplyRemoveEdgeProperty
<1>2. e \in DOMAIN h.edges
  BY MirrorHas
<1>3. PICK p : p = Drop(g.edges[e].props, {k})
  OBVIOUS
<1>4. PICK q : q = Drop(h.edges[e].props, {k})
  OBVIOUS
<1>5. Good(j) /\ j.edges = Put(h.edges, e, EdgeOf(h.edges[e].from, h.edges[e].to, q)) /\ j.nodes = h.nodes
  <2>1. EdgeNow(h, j, e, EdgeOf(h.edges[e].from, h.edges[e].to, Drop(h.edges[e].props, {k})))
    BY <1>1, <1>2, RemoveEdgePropertyGood
  <2> QED BY <1>4, <2>1 DEF EdgeNow
<1>6. i.edges = Put(g.edges, e, EdgeOf(g.edges[e].from, g.edges[e].to, p)) /\ i.nodes = g.nodes
  <2>1. EdgeNow(g, i, e, EdgeOf(g.edges[e].from, g.edges[e].to, Drop(g.edges[e].props, {k})))
    BY RemoveEdgePropertyGood
  <2> QED BY <1>3, <2>1 DEF EdgeNow
<1>7. q = WalProps(p)
  BY <1>3, <1>4, MirrorEdge, WalPropsDrop
<1>8. EdgeMirror(EdgeOf(h.edges[e].from, h.edges[e].to, q), EdgeOf(g.edges[e].from, g.edges[e].to, p))
  BY <1>7, MirrorEdge, EdgeOfMirrors
<1>9. NodesMirror(h.nodes, g.nodes) /\ EdgesMirror(h.edges, g.edges)
  BY DEF Mirrors
<1>10. EdgesMirror(j.edges, i.edges)
  BY <1>5, <1>6, <1>8, <1>9, EdgesMirrorPut
<1> QED BY <1>5, <1>6, <1>9, <1>10 DEF Mirrors

LEMMA SendsAddLabel ==
    ASSUME NEW g, Good(g), NEW n \in DOMAIN g.nodes, NEW l \in Labels, ~ HasLabel(g, n, l), NEW i, i = AddNodeLabel(g, n, l)
    PROVE  Sends(AddLabelEntry(n, l), g, i)
<1> SUFFICES ASSUME NEW h, Good(h), Mirrors(h, g), NEW j, j = ApplyWal(h, AddLabelEntry(n, l))
             PROVE  Good(j) /\ Mirrors(j, i)
  BY DEF Sends
<1>1. j = AddNodeLabel(h, n, l)
  BY ApplyAddLabel
<1>2. n \in DOMAIN h.nodes
  BY MirrorHas
<1>3. h.nodes[n].labels = g.nodes[n].labels /\ h.nodes[n].props = WalProps(g.nodes[n].props)
  BY MirrorNode
<1>4. ~ HasLabel(h, n, l)
  BY <1>2, <1>3 DEF HasLabel, HasNode
<1>5. PICK ls : ls = Append(g.nodes[n].labels, l)
  OBVIOUS
<1>6. Good(j) /\ j.nodes = Put(h.nodes, n, NodeOf(ls, h.nodes[n].props)) /\ j.edges = h.edges
  <2>1. NodeNow(h, j, n, NodeOf(Append(h.nodes[n].labels, l), h.nodes[n].props))
    BY <1>1, <1>2, <1>4, AddLabelGood
  <2> QED BY <1>3, <1>5, <2>1 DEF NodeNow
<1>7. i.nodes = Put(g.nodes, n, NodeOf(ls, g.nodes[n].props)) /\ i.edges = g.edges
  <2>1. NodeNow(g, i, n, NodeOf(Append(g.nodes[n].labels, l), g.nodes[n].props))
    BY AddLabelGood
  <2> QED BY <1>5, <2>1 DEF NodeNow
<1>8. NodeMirror(NodeOf(ls, h.nodes[n].props), NodeOf(ls, g.nodes[n].props))
  BY <1>3, NodeOfMirrors
<1>9. NodesMirror(h.nodes, g.nodes) /\ EdgesMirror(h.edges, g.edges)
  BY DEF Mirrors
<1>10. NodesMirror(j.nodes, i.nodes)
  BY <1>6, <1>7, <1>8, <1>9, NodesMirrorPut
<1> QED BY <1>6, <1>7, <1>9, <1>10 DEF Mirrors

LEMMA SendsRemoveLabel ==
    ASSUME NEW g, Good(g), NEW n \in DOMAIN g.nodes, NEW l \in Labels, HasLabel(g, n, l), NEW i, i = RemoveNodeLabel(g, n, l)
    PROVE  Sends(RemoveLabelEntry(n, l), g, i)
<1> SUFFICES ASSUME NEW h, Good(h), Mirrors(h, g), NEW j, j = ApplyWal(h, RemoveLabelEntry(n, l))
             PROVE  Good(j) /\ Mirrors(j, i)
  BY DEF Sends
<1>1. j = RemoveNodeLabel(h, n, l)
  BY ApplyRemoveLabel
<1>2. n \in DOMAIN h.nodes
  BY MirrorHas
<1>3. h.nodes[n].labels = g.nodes[n].labels /\ h.nodes[n].props = WalProps(g.nodes[n].props)
  BY MirrorNode
<1>4. HasLabel(h, n, l)
  BY <1>2, <1>3 DEF HasLabel, HasNode
<1>5. PICK ls : ls = Without(g.nodes[n].labels, l)
  OBVIOUS
<1>6. Good(j) /\ j.nodes = Put(h.nodes, n, NodeOf(ls, h.nodes[n].props)) /\ j.edges = h.edges
  <2>1. NodeNow(h, j, n, NodeOf(Without(h.nodes[n].labels, l), h.nodes[n].props))
    BY <1>1, <1>2, <1>4, RemoveLabelGood
  <2> QED BY <1>3, <1>5, <2>1 DEF NodeNow
<1>7. i.nodes = Put(g.nodes, n, NodeOf(ls, g.nodes[n].props)) /\ i.edges = g.edges
  <2>1. NodeNow(g, i, n, NodeOf(Without(g.nodes[n].labels, l), g.nodes[n].props))
    BY RemoveLabelGood
  <2> QED BY <1>5, <2>1 DEF NodeNow
<1>8. NodeMirror(NodeOf(ls, h.nodes[n].props), NodeOf(ls, g.nodes[n].props))
  BY <1>3, NodeOfMirrors
<1>9. NodesMirror(h.nodes, g.nodes) /\ EdgesMirror(h.edges, g.edges)
  BY DEF Mirrors
<1>10. NodesMirror(j.nodes, i.nodes)
  BY <1>6, <1>7, <1>8, <1>9, NodesMirrorPut
<1> QED BY <1>6, <1>7, <1>9, <1>10 DEF Mirrors

(* A property written to an element that does not exist.                      *)
LEMMA SendsNodeNothing ==
    ASSUME NEW g, NEW n, n \notin DOMAIN g.nodes, NEW k, NEW v
    PROVE  Sends(SetPropEntry(TRUE, n, k, v), g, g)
<1> SUFFICES ASSUME NEW h, Good(h), Mirrors(h, g)
             PROVE  ApplyWal(h, SetPropEntry(TRUE, n, k, v)) = h
  BY DEF Sends
<1>1. n \notin DOMAIN h.nodes
  BY MirrorHas
<1> QED BY <1>1, ApplySetNodeProperty DEF SetNodeProperty, HasNode

(* A property written to an element that does not exist.                      *)
LEMMA SendsEdgeNothing ==
    ASSUME NEW g, NEW e, e \notin DOMAIN g.edges, NEW k, NEW v
    PROVE  Sends(SetPropEntry(FALSE, e, k, v), g, g)
<1> SUFFICES ASSUME NEW h, Good(h), Mirrors(h, g)
             PROVE  ApplyWal(h, SetPropEntry(FALSE, e, k, v)) = h
  BY DEF Sends
<1>1. e \notin DOMAIN h.edges
  BY MirrorHas
<1> QED BY <1>1, ApplySetEdgeProperty DEF SetEdgeProperty, HasEdge

-----------------------------------------------------------------------------
(* The elements of a finite set in some order, each once.                     *)

LEMMA SetToSeqIs ==
    ASSUME NEW S, IsFiniteSet(S)
    PROVE  /\ SetToSeq(S) \in Seq(S)
           /\ \A i, j \in 1..Len(SetToSeq(S)) : SetToSeq(S)[i] = SetToSeq(S)[j] => i = j
           /\ \A x \in S : \E i \in 1..Len(SetToSeq(S)) : SetToSeq(S)[i] = x
<1>1. PICK c \in Nat : c = Cardinality(S)
  BY FS_CardinalityType
<1>2. PICK b : b \in Bijection(1..c, S)
  BY <1>1, FS_CardinalityType DEF ExistsBijection
<1>3. b \in [1..c -> S] /\ IsInjective(b)
  BY <1>2 DEF Bijection, Injection
<1>4. PICK f : f = SetToSeq(S)
  OBVIOUS
<1>5. f \in [1..c -> S] /\ IsInjective(f)
  BY <1>1, <1>3, <1>4 DEF SetToSeq
<1>6. f \in Injection(1..c, S)
  BY <1>5 DEF Injection
<1>7. Cardinality(1..c) = c
  BY FS_Interval
<1>8. f \in Surjection(1..c, S)
  BY <1>1, <1>6, <1>7, FS_Injection
<1>9. f \in Seq(S) /\ Len(f) = c
  BY <1>5
<1>10. \A x \in S : \E i \in 1..c : f[i] = x
  BY <1>8 DEF Surjection
<1>11. \A i, j \in 1..c : f[i] = f[j] => i = j
  BY <1>5 DEF IsInjective
<1> QED BY <1>4, <1>9, <1>10, <1>11

(* A graph with the properties of one element written one after the other.    *)
LEMMA NodeWithAgain ==
    ASSUME NEW g, Good(g), NEW n \in DOMAIN g.nodes, NEW q, PropMap(q), NEW k, NEW v
    PROVE  SetNodeProperty(NodeWith(g, n, q), n, k, v) = NodeWith(g, n, Put(q, k, v))
<1>1. PICK N : N = g.nodes
  OBVIOUS
<1>2. PICK p : p = Put(q, k, v)
  OBVIOUS
<1>3. PICK h : h = NodeWith(g, n, q)
  OBVIOUS
<1>4. Shape(g) /\ n \in DOMAIN N /\ NodeOK(N[n]) /\ IsMap(N)
  BY <1>1 DEF Good, NodesWell
<1>5. h = [g EXCEPT !.nodes = [N EXCEPT ![n] = [N[n] EXCEPT !.props = q]]]
  BY <1>1, <1>3, <1>4 DEF NodeWith, Shape
<1>6. h.nodes = [N EXCEPT ![n] = [N[n] EXCEPT !.props = q]]
  BY <1>4, <1>5 DEF Shape
<1>7. DOMAIN h.nodes = DOMAIN N /\ h.nodes[n] = [N[n] EXCEPT !.props = q]
  BY <1>4, <1>6
<1>8. h.nodes[n].props = q /\ [h.nodes[n] EXCEPT !.props = p] = [N[n] EXCEPT !.props = p]
  BY <1>4, <1>7 DEF NodeOK, NodeOf
<1>9. SetNodeProperty(h, n, k, v) = [h EXCEPT !.nodes[n].props = Put(@, k, v)]
  BY <1>4, <1>7 DEF SetNodeProperty, HasNode
<1>10. [h EXCEPT !.nodes[n].props = Put(@, k, v)] = [h EXCEPT !.nodes = [h.nodes EXCEPT ![n] = [h.nodes[n] EXCEPT !.props = p]]]
  BY <1>2, <1>4, <1>5, <1>8 DEF Shape
<1>11. [h.nodes EXCEPT ![n] = [h.nodes[n] EXCEPT !.props = p]] = [N EXCEPT ![n] = [N[n] EXCEPT !.props = p]]
  BY <1>6, <1>8
<1>12. NodeWith(g, n, p) = [g EXCEPT !.nodes = [N EXCEPT ![n] = [N[n] EXCEPT !.props = p]]]
  BY <1>1, <1>4 DEF NodeWith, Shape
<1>13. [h EXCEPT !.nodes = [N EXCEPT ![n] = [N[n] EXCEPT !.props = p]]] = [g EXCEPT !.nodes = [N EXCEPT ![n] = [N[n] EXCEPT !.props = p]]]
  BY <1>4, <1>5 DEF Shape
<1> QED BY <1>2, <1>3, <1>9, <1>10, <1>11, <1>12, <1>13

LEMMA EdgeWithAgain ==
    ASSUME NEW g, Good(g), NEW e \in DOMAIN g.edges, NEW q, PropMap(q), NEW k, NEW v
    PROVE  SetEdgeProperty(EdgeWith(g, e, q), e, k, v) = EdgeWith(g, e, Put(q, k, v))
<1>1. PICK E : E = g.edges
  OBVIOUS
<1>2. PICK p : p = Put(q, k, v)
  OBVIOUS
<1>3. PICK h : h = EdgeWith(g, e, q)
  OBVIOUS
<1>4. Shape(g) /\ e \in DOMAIN E /\ EdgeOK(E[e]) /\ IsMap(E)
  BY <1>1 DEF Good, EdgesWell
<1>5. h = [g EXCEPT !.edges = [E EXCEPT ![e] = [E[e] EXCEPT !.props = q]]]
  BY <1>1, <1>3, <1>4 DEF EdgeWith, Shape
<1>6. h.edges = [E EXCEPT ![e] = [E[e] EXCEPT !.props = q]]
  BY <1>4, <1>5 DEF Shape
<1>7. DOMAIN h.edges = DOMAIN E /\ h.edges[e] = [E[e] EXCEPT !.props = q]
  BY <1>4, <1>6
<1>8. h.edges[e].props = q /\ [h.edges[e] EXCEPT !.props = p] = [E[e] EXCEPT !.props = p]
  BY <1>4, <1>7 DEF EdgeOK, EdgeOf
<1>9. SetEdgeProperty(h, e, k, v) = [h EXCEPT !.edges[e].props = Put(@, k, v)]
  BY <1>4, <1>7 DEF SetEdgeProperty, HasEdge
<1>10. [h EXCEPT !.edges[e].props = Put(@, k, v)] = [h EXCEPT !.edges = [h.edges EXCEPT ![e] = [h.edges[e] EXCEPT !.props = p]]]
  BY <1>2, <1>4, <1>5, <1>8 DEF Shape
<1>11. [h.edges EXCEPT ![e] = [h.edges[e] EXCEPT !.props = p]] = [E EXCEPT ![e] = [E[e] EXCEPT !.props = p]]
  BY <1>6, <1>8
<1>12. EdgeWith(g, e, p) = [g EXCEPT !.edges = [E EXCEPT ![e] = [E[e] EXCEPT !.props = p]]]
  BY <1>1, <1>4 DEF EdgeWith, Shape
<1>13. [h EXCEPT !.edges = [E EXCEPT ![e] = [E[e] EXCEPT !.props = p]]] = [g EXCEPT !.edges = [E EXCEPT ![e] = [E[e] EXCEPT !.props = p]]]
  BY <1>4, <1>5 DEF Shape
<1> QED BY <1>2, <1>3, <1>9, <1>10, <1>11, <1>12, <1>13

(* The first i of the properties p, taken in the order ks.                    *)
Some(p, ks, i) == [k \in {ks[j] : j \in 1..i} |-> p[k]]

LEMMA SomeStart ==
    ASSUME NEW p, NEW ks
    PROVE  Some(p, ks, 0) = Empty
<1>1. {ks[j] : j \in 1..0} = {}
  OBVIOUS
<1> QED BY <1>1 DEF Some, Empty

LEMMA SomeNext ==
    ASSUME NEW p, NEW ks, NEW i \in Nat
    PROVE  Some(p, ks, i + 1) = Put(Some(p, ks, i), ks[i + 1], p[ks[i + 1]])
<1>1. PICK D : D = {ks[j] : j \in 1..i}
  OBVIOUS
<1>2. PICK C : C = {ks[j] : j \in 1..(i + 1)}
  OBVIOUS
<1>3. PICK k : k = ks[i + 1]
  OBVIOUS
<1>4. 1..(i + 1) = 1..i \cup {i + 1}
  OBVIOUS
<1>5. C = D \cup {k}
  BY <1>1, <1>2, <1>3, <1>4
<1>6. PICK q : q = Some(p, ks, i)
  OBVIOUS
<1>7. q = [x \in D |-> p[x]]
  BY <1>1, <1>6 DEF Some
<1>8. Put(q, k, p[k]) = [x \in D \cup {k} |-> IF x = k THEN p[k] ELSE q[x]]
  BY <1>7 DEF Put
<1>9. [x \in D \cup {k} |-> IF x = k THEN p[k] ELSE q[x]] = [x \in D \cup {k} |-> p[x]]
  BY <1>7
<1>10. Some(p, ks, i + 1) = [x \in C |-> p[x]]
  BY <1>2 DEF Some
<1> QED BY <1>3, <1>5, <1>6, <1>8, <1>9, <1>10

LEMMA SomeOK ==
    ASSUME NEW p, PropMap(p), NEW ks \in Seq(DOMAIN p), NEW i \in 0..Len(ks)
    PROVE  PropMap(Some(p, ks, i))
<1>1. PICK q : q = Some(p, ks, i)
  OBVIOUS
<1>2. IsMap(q) /\ DOMAIN q = {ks[j] : j \in 1..i}
  BY <1>1 DEF Some, IsMap
<1>3. \A j \in 1..i : ks[j] \in DOMAIN p
  OBVIOUS
<1>4. DOMAIN q \subseteq DOMAIN p
  BY <1>2, <1>3
<1>5. IsFiniteSet(DOMAIN q)
  BY <1>4, FS_Subset DEF PropMap
<1> QED BY <1>1, <1>2, <1>5 DEF PropMap

LEMMA SomeAll ==
    ASSUME NEW p, PropMap(p), NEW ks, ks = SetToSeq(DOMAIN p)
    PROVE  Some(p, ks, Len(ks)) = p
<1>1. IsFiniteSet(DOMAIN p) /\ IsMap(p)
  BY DEF PropMap
<1>2. ks \in Seq(DOMAIN p)
  BY <1>1, SetToSeqIs
<1>3. \A x \in DOMAIN p : \E i \in 1..Len(ks) : ks[i] = x
  BY <1>1, SetToSeqIs
<1>4. {ks[j] : j \in 1..Len(ks)} = DOMAIN p
  <2>1. \A j \in 1..Len(ks) : ks[j] \in DOMAIN p
    BY <1>2
  <2>2. PICK D : D = DOMAIN p
    OBVIOUS
  <2> QED BY <1>3, <2>1, <2>2
<1> QED BY <1>1, <1>4 DEF Some, IsMap

LEMMA NodeWithNothing ==
    ASSUME NEW g, Good(g), NEW n \in DOMAIN g.nodes, g.nodes[n].props = Empty
    PROVE  NodeWith(g, n, Empty) = g
<1>1. PICK N : N = g.nodes
  OBVIOUS
<1>2. Shape(g) /\ n \in DOMAIN N /\ NodeOK(N[n]) /\ IsMap(N) /\ N[n].props = Empty
  BY <1>1 DEF Good, NodesWell
<1>3. NodeWith(g, n, Empty) = [g EXCEPT !.nodes = [N EXCEPT ![n] = [N[n] EXCEPT !.props = Empty]]]
  BY <1>1, <1>2 DEF NodeWith, Shape
<1>4. [N[n] EXCEPT !.props = Empty] = N[n]
  BY <1>2 DEF NodeOK, NodeOf
<1>5. [N EXCEPT ![n] = N[n]] = N
  BY <1>2 DEF IsMap
<1>6. [g EXCEPT !.nodes = N] = g
  BY <1>1, <1>2 DEF Shape
<1> QED BY <1>3, <1>4, <1>5, <1>6

(* The entries that restore the properties of a node do.                       *)
LEMMA RestoresNode ==
    ASSUME NEW g, Good(g), NEW n \in DOMAIN g.nodes, g.nodes[n].props = Empty, NEW p, PropMap(p)
    PROVE  /\ IsSeq(SetPropEntries(TRUE, n, p))
           /\ Conveys(SetPropEntries(TRUE, n, p), g, NodeWith(g, n, p))
<1>1. PICK ks : ks = SetToSeq(DOMAIN p)
  OBVIOUS
<1>2. PICK es : es = SetPropEntries(TRUE, n, p)
  OBVIOUS
<1>3. ks \in Seq(DOMAIN p)
  BY <1>1, SetToSeqIs DEF PropMap
<1>4. Len(ks) \in Nat
  BY <1>3
<1>5. es = [i \in 1..Len(ks) |-> SetPropEntry(TRUE, n, ks[i], p[ks[i]])]
  BY <1>1, <1>2 DEF SetPropEntries
<1>6. IsSeq(es) /\ Len(es) = Len(ks)
  <2>1. PICK S : S = {SetPropEntry(TRUE, n, ks[i], p[ks[i]]) : i \in 1..Len(ks)}
    OBVIOUS
  <2>2. \A i \in 1..Len(ks) : SetPropEntry(TRUE, n, ks[i], p[ks[i]]) \in S
    BY <2>1
  <2>3. es \in [1..Len(ks) -> S]
    BY <1>5, <2>2
  <2>4. es \in Seq(S) /\ Len(es) = Len(ks)
    BY <1>4, <2>3
  <2> QED BY <2>4 DEF IsSeq
<1>7. \A i \in 1..Len(ks) : es[i] = SetPropEntry(TRUE, n, ks[i], p[ks[i]])
  BY <1>5
<1> DEFINE Fine(i) == Conveys(Prefix(es, i), g, NodeWith(g, n, Some(p, ks, i)))
           T == {i \in 0..Len(ks) : ~ Fine(i)}
<1>8. Fine(0)
  BY <1>6, SomeStart, NodeWithNothing, PrefixNone, ConveysNothing
<1>9. ASSUME NEW i \in 1..Len(ks), Fine(i - 1) PROVE Fine(i)
  <2>1. i - 1 \in Nat /\ i - 1 \in 0..Len(ks) /\ (i - 1) + 1 = i
    BY <1>4
  <2>2. PICK q : q = Some(p, ks, i - 1)
    OBVIOUS
  <2>3. PICK h : h = NodeWith(g, n, q)
    OBVIOUS
  <2>4. PropMap(q)
    BY <1>3, <2>1, <2>2, SomeOK
  <2>5. NodeNow(g, h, n, NodeOf(g.nodes[n].labels, q))
    BY <2>3, <2>4, NodePropsGood
  <2>6. Good(h) /\ n \in DOMAIN h.nodes
    <3>1. Good(h)
      BY <2>5 DEF NodeNow
    <3>2. PICK x : h.nodes = Put(g.nodes, n, x)
      BY <2>5 DEF NodeNow
    <3>3. PICK P : P = Put(g.nodes, n, x)
      OBVIOUS
    <3>4. DOMAIN P = DOMAIN g.nodes
      BY <3>3, PutDomainSame
    <3> QED BY <3>1, <3>2, <3>3, <3>4
  <2>7. Sends(es[i], h, SetNodeProperty(h, n, ks[i], p[ks[i]]))
    <3>1. PICK k : k = ks[i]
      OBVIOUS
    <3>2. PICK v : v = p[ks[i]]
      OBVIOUS
    <3>3. Sends(SetPropEntry(TRUE, n, k, v), h, SetNodeProperty(h, n, k, v))
      BY <2>6, SendsSetNodeProperty
    <3>4. es[i] = SetPropEntry(TRUE, n, k, v)
      BY <1>7, <3>1, <3>2
    <3> QED BY <3>1, <3>2, <3>3, <3>4
  <2>8. SetNodeProperty(h, n, ks[i], p[ks[i]]) = NodeWith(g, n, Some(p, ks, i))
    <3>1. Some(p, ks, i) = Put(q, ks[i], p[ks[i]])
      <4>1. Some(p, ks, (i - 1) + 1) = Put(Some(p, ks, i - 1), ks[(i - 1) + 1], p[ks[(i - 1) + 1]])
        BY <2>1, SomeNext
      <4> QED BY <2>1, <2>2, <4>1
    <3> QED BY <2>3, <2>4, <3>1, NodeWithAgain
  <2>9. Conveys(<<es[i]>>, h, NodeWith(g, n, Some(p, ks, i)))
    BY <2>7, <2>8, ConveysOne
  <2>10. IsSeq(Prefix(es, i - 1)) /\ IsSeq(<<es[i]>>)
    <3>1. IsSeq(Prefix(es, i - 1))
      BY <1>6, <2>1, PrefixIs
    <3>2. <<es[i]>> \in Seq({es[i]})
      OBVIOUS
    <3> QED BY <3>1, <3>2 DEF IsSeq
  <2>11. Conveys(Prefix(es, i - 1) \o <<es[i]>>, g, NodeWith(g, n, Some(p, ks, i)))
    BY <1>9, <2>2, <2>3, <2>9, <2>10, ConveysBoth
  <2>12. Prefix(es, i) = Prefix(es, i - 1) \o <<es[i]>>
    <3>1. Prefix(es, i) = Append(Prefix(es, i - 1), es[i])
      BY <1>6, PrefixNext
    <3>2. PICK S : Prefix(es, i - 1) \in Seq(S)
      BY <2>10 DEF IsSeq
    <3>3. Prefix(es, i - 1) \in Seq(S \cup {es[i]}) /\ es[i] \in S \cup {es[i]}
      BY <3>2
    <3> QED BY <3>1, <3>3, AppendIsConcat
  <2> QED BY <2>11, <2>12
<1>10. T = {}
  <2>1. SUFFICES ASSUME T # {} PROVE FALSE
    OBVIOUS
  <2>2. T \subseteq Nat
    BY <1>4
  <2>3. PICK i \in T : \A y \in T : i <= y
    <3> HIDE DEF T
    <3> QED BY <2>1, <2>2, NatsHaveLeast
  <2> HIDE DEF Fine
  <2>4. i \in 1..Len(ks)
    BY <1>4, <1>8, <2>3
  <2>5. i - 1 \in 0..Len(ks) /\ i - 1 \notin T
    BY <1>4, <2>3, <2>4
  <2>6. Fine(i - 1)
    BY <2>5
  <2>7. Fine(i)
    BY <1>9, <2>4, <2>6
  <2> QED BY <2>7, <2>3
<1>11. Fine(Len(ks))
  <2>1. Len(ks) \in 0..Len(ks)
    BY <1>4
  <2> HIDE DEF Fine
  <2> QED BY <1>10, <2>1
<1>12. Prefix(es, Len(ks)) = es
  BY <1>6, PrefixWhole
<1>13. Some(p, ks, Len(ks)) = p
  BY <1>1, SomeAll
<1> QED BY <1>2, <1>6, <1>11, <1>12, <1>13

LEMMA EdgeWithNothing ==
    ASSUME NEW g, Good(g), NEW e \in DOMAIN g.edges, g.edges[e].props = Empty
    PROVE  EdgeWith(g, e, Empty) = g
<1>1. PICK E : E = g.edges
  OBVIOUS
<1>2. Shape(g) /\ e \in DOMAIN E /\ EdgeOK(E[e]) /\ IsMap(E) /\ E[e].props = Empty
  BY <1>1 DEF Good, EdgesWell
<1>3. EdgeWith(g, e, Empty) = [g EXCEPT !.edges = [E EXCEPT ![e] = [E[e] EXCEPT !.props = Empty]]]
  BY <1>1, <1>2 DEF EdgeWith, Shape
<1>4. [E[e] EXCEPT !.props = Empty] = E[e]
  BY <1>2 DEF EdgeOK, EdgeOf
<1>5. [E EXCEPT ![e] = E[e]] = E
  BY <1>2 DEF IsMap
<1>6. [g EXCEPT !.edges = E] = g
  BY <1>1, <1>2 DEF Shape
<1> QED BY <1>3, <1>4, <1>5, <1>6

(* The entries that restore the properties of an edge do.                       *)
LEMMA RestoresEdge ==
    ASSUME NEW g, Good(g), NEW e \in DOMAIN g.edges, g.edges[e].props = Empty, NEW p, PropMap(p)
    PROVE  /\ IsSeq(SetPropEntries(FALSE, e, p))
           /\ Conveys(SetPropEntries(FALSE, e, p), g, EdgeWith(g, e, p))
<1>1. PICK ks : ks = SetToSeq(DOMAIN p)
  OBVIOUS
<1>2. PICK es : es = SetPropEntries(FALSE, e, p)
  OBVIOUS
<1>3. ks \in Seq(DOMAIN p)
  BY <1>1, SetToSeqIs DEF PropMap
<1>4. Len(ks) \in Nat
  BY <1>3
<1>5. es = [i \in 1..Len(ks) |-> SetPropEntry(FALSE, e, ks[i], p[ks[i]])]
  BY <1>1, <1>2 DEF SetPropEntries
<1>6. IsSeq(es) /\ Len(es) = Len(ks)
  <2>1. PICK S : S = {SetPropEntry(FALSE, e, ks[i], p[ks[i]]) : i \in 1..Len(ks)}
    OBVIOUS
  <2>2. \A i \in 1..Len(ks) : SetPropEntry(FALSE, e, ks[i], p[ks[i]]) \in S
    BY <2>1
  <2>3. es \in [1..Len(ks) -> S]
    BY <1>5, <2>2
  <2>4. es \in Seq(S) /\ Len(es) = Len(ks)
    BY <1>4, <2>3
  <2> QED BY <2>4 DEF IsSeq
<1>7. \A i \in 1..Len(ks) : es[i] = SetPropEntry(FALSE, e, ks[i], p[ks[i]])
  BY <1>5
<1> DEFINE Fine(i) == Conveys(Prefix(es, i), g, EdgeWith(g, e, Some(p, ks, i)))
           T == {i \in 0..Len(ks) : ~ Fine(i)}
<1>8. Fine(0)
  BY <1>6, SomeStart, EdgeWithNothing, PrefixNone, ConveysNothing
<1>9. ASSUME NEW i \in 1..Len(ks), Fine(i - 1) PROVE Fine(i)
  <2>1. i - 1 \in Nat /\ i - 1 \in 0..Len(ks) /\ (i - 1) + 1 = i
    BY <1>4
  <2>2. PICK q : q = Some(p, ks, i - 1)
    OBVIOUS
  <2>3. PICK h : h = EdgeWith(g, e, q)
    OBVIOUS
  <2>4. PropMap(q)
    BY <1>3, <2>1, <2>2, SomeOK
  <2>5. EdgeNow(g, h, e, EdgeOf(g.edges[e].from, g.edges[e].to, q))
    BY <2>3, <2>4, EdgePropsGood
  <2>6. Good(h) /\ e \in DOMAIN h.edges
    <3>1. Good(h)
      BY <2>5 DEF EdgeNow
    <3>2. PICK x : h.edges = Put(g.edges, e, x)
      BY <2>5 DEF EdgeNow
    <3>3. PICK P : P = Put(g.edges, e, x)
      OBVIOUS
    <3>4. DOMAIN P = DOMAIN g.edges
      BY <3>3, PutDomainSame
    <3> QED BY <3>1, <3>2, <3>3, <3>4
  <2>7. Sends(es[i], h, SetEdgeProperty(h, e, ks[i], p[ks[i]]))
    <3>1. PICK k : k = ks[i]
      OBVIOUS
    <3>2. PICK v : v = p[ks[i]]
      OBVIOUS
    <3>3. Sends(SetPropEntry(FALSE, e, k, v), h, SetEdgeProperty(h, e, k, v))
      BY <2>6, SendsSetEdgeProperty
    <3>4. es[i] = SetPropEntry(FALSE, e, k, v)
      BY <1>7, <3>1, <3>2
    <3> QED BY <3>1, <3>2, <3>3, <3>4
  <2>8. SetEdgeProperty(h, e, ks[i], p[ks[i]]) = EdgeWith(g, e, Some(p, ks, i))
    <3>1. Some(p, ks, i) = Put(q, ks[i], p[ks[i]])
      <4>1. Some(p, ks, (i - 1) + 1) = Put(Some(p, ks, i - 1), ks[(i - 1) + 1], p[ks[(i - 1) + 1]])
        BY <2>1, SomeNext
      <4> QED BY <2>1, <2>2, <4>1
    <3> QED BY <2>3, <2>4, <3>1, EdgeWithAgain
  <2>9. Conveys(<<es[i]>>, h, EdgeWith(g, e, Some(p, ks, i)))
    BY <2>7, <2>8, ConveysOne
  <2>10. IsSeq(Prefix(es, i - 1)) /\ IsSeq(<<es[i]>>)
    <3>1. IsSeq(Prefix(es, i - 1))
      BY <1>6, <2>1, PrefixIs
    <3>2. <<es[i]>> \in Seq({es[i]})
      OBVIOUS
    <3> QED BY <3>1, <3>2 DEF IsSeq
  <2>11. Conveys(Prefix(es, i - 1) \o <<es[i]>>, g, EdgeWith(g, e, Some(p, ks, i)))
    BY <1>9, <2>2, <2>3, <2>9, <2>10, ConveysBoth
  <2>12. Prefix(es, i) = Prefix(es, i - 1) \o <<es[i]>>
    <3>1. Prefix(es, i) = Append(Prefix(es, i - 1), es[i])
      BY <1>6, PrefixNext
    <3>2. PICK S : Prefix(es, i - 1) \in Seq(S)
      BY <2>10 DEF IsSeq
    <3>3. Prefix(es, i - 1) \in Seq(S \cup {es[i]}) /\ es[i] \in S \cup {es[i]}
      BY <3>2
    <3> QED BY <3>1, <3>3, AppendIsConcat
  <2> QED BY <2>11, <2>12
<1>10. T = {}
  <2>1. SUFFICES ASSUME T # {} PROVE FALSE
    OBVIOUS
  <2>2. T \subseteq Nat
    BY <1>4
  <2>3. PICK i \in T : \A y \in T : i <= y
    <3> HIDE DEF T
    <3> QED BY <2>1, <2>2, NatsHaveLeast
  <2> HIDE DEF Fine
  <2>4. i \in 1..Len(ks)
    BY <1>4, <1>8, <2>3
  <2>5. i - 1 \in 0..Len(ks) /\ i - 1 \notin T
    BY <1>4, <2>3, <2>4
  <2>6. Fine(i - 1)
    BY <2>5
  <2>7. Fine(i)
    BY <1>9, <2>4, <2>6
  <2> QED BY <2>7, <2>3
<1>11. Fine(Len(ks))
  <2>1. Len(ks) \in 0..Len(ks)
    BY <1>4
  <2> HIDE DEF Fine
  <2> QED BY <1>10, <2>1
<1>12. Prefix(es, Len(ks)) = es
  BY <1>6, PrefixWhole
<1>13. Some(p, ks, Len(ks)) = p
  BY <1>1, SomeAll
<1> QED BY <1>2, <1>6, <1>11, <1>12, <1>13

-----------------------------------------------------------------------------
(* Undo records and what a recorded mutation adds to a recording.             *)

UndoOps == {"CreateNode", "DeleteNode", "SetProperty", "CreateEdge", "DeleteEdge", "AddLabel", "RemoveLabel"}

(* Undo record u can be applied to graph g: what it restores has an id that   *)
(* was given out and is not in use.                                           *)
Fits(g, u) ==
    /\ u.op \in UndoOps
    /\ u.op = "DeleteNode" => /\ u.id \in Nat /\ u.id < g.nextNode /\ u.id \notin DOMAIN g.nodes
                              /\ u.labels \in Seq(Labels) /\ PropMap(u.props)
    /\ u.op = "DeleteEdge" => /\ u.id \in Nat /\ u.id < g.nextEdge /\ u.id \notin DOMAIN g.edges
                              /\ PropMap(u.props)
    /\ u.op = "AddLabel" => u.label \in Labels
    /\ u.op = "RemoveLabel" => u.label \in Labels
    /\ u.op = "SetProperty" => u.node = TRUE \/ u.node = FALSE

(* What u would restore is still in g.                                        *)
Present(g, u) ==
    /\ u.op = "DeleteNode" => u.id \in DOMAIN g.nodes
    /\ u.op = "DeleteEdge" => u.id \in DOMAIN g.edges

(* Both records would restore the same element.                               *)
Clash(u, v) == u.op = v.op /\ u.id = v.id /\ u.op \in {"DeleteNode", "DeleteEdge"}

(* From g to h counters only grow, and no id that g has given out comes back. *)
Onward(g, h) ==
    /\ g.nextNode <= h.nextNode /\ g.nextEdge <= h.nextEdge
    /\ \A n \in DOMAIN h.nodes : n \in DOMAIN g.nodes \/ n >= g.nextNode
    /\ \A e \in DOMAIN h.edges : e \in DOMAIN g.edges \/ e >= g.nextEdge

IsRec(r) == Good(r.graph) /\ IsSeq(r.wal) /\ IsSeq(r.undo)

Adds(r, s, w, us) ==
    /\ IsSeq(w) /\ IsSeq(us)
    /\ s.wal = r.wal \o w /\ s.undo = r.undo \o us
    /\ Conveys(w, r.graph, s.graph)
    /\ \A i \in 1..Len(us) : Fits(s.graph, us[i]) /\ Present(r.graph, us[i])
    /\ \A i, j \in 1..Len(us) : i # j => ~ Clash(us[i], us[j])

Goes(r, s) == Good(s.graph) /\ Onward(r.graph, s.graph) /\ \E w, us : Adds(r, s, w, us)

LEMMA FitsOnward ==
    ASSUME NEW g, Good(g), NEW h, Good(h), Onward(g, h), NEW u, Fits(g, u)
    PROVE  Fits(h, u)
<1>1. g.nextNode \in Nat /\ h.nextNode \in Nat /\ g.nextEdge \in Nat /\ h.nextEdge \in Nat
  BY DEF Good, NodesWell, EdgesWell
<1>2. u.op = "DeleteNode" => u.id < h.nextNode /\ u.id \notin DOMAIN h.nodes
  BY <1>1 DEF Fits, Onward
<1>3. u.op = "DeleteEdge" => u.id < h.nextEdge /\ u.id \notin DOMAIN h.edges
  BY <1>1 DEF Fits, Onward
<1> QED BY <1>2, <1>3 DEF Fits

LEMMA OnwardSame ==
    ASSUME NEW g, Good(g)
    PROVE  Onward(g, g)
<1>1. g.nextNode \in Nat /\ g.nextEdge \in Nat
  BY DEF Good, NodesWell, EdgesWell
<1> QED BY <1>1 DEF Onward

LEMMA OnwardNode ==
    ASSUME NEW g, Good(g), NEW n \in DOMAIN g.nodes, NEW x, NEW h, NodeNow(g, h, n, x)
    PROVE  Onward(g, h) /\ Good(h)
<1>1. g.nextNode \in Nat /\ g.nextEdge \in Nat
  BY DEF Good, NodesWell, EdgesWell
<1>2. h.edges = g.edges /\ h.nextNode = g.nextNode /\ h.nextEdge = g.nextEdge /\ Good(h)
  BY DEF NodeNow
<1>3. h.nodes = Put(g.nodes, n, x)
  BY DEF NodeNow
<1>4. DOMAIN h.nodes = DOMAIN g.nodes
  BY <1>3, PutDomainSame
<1> QED BY <1>1, <1>2, <1>4 DEF Onward

LEMMA OnwardEdge ==
    ASSUME NEW g, Good(g), NEW e \in DOMAIN g.edges, NEW x, NEW h, EdgeNow(g, h, e, x)
    PROVE  Onward(g, h) /\ Good(h)
<1>1. g.nextNode \in Nat /\ g.nextEdge \in Nat
  BY DEF Good, NodesWell, EdgesWell
<1>2. h.nodes = g.nodes /\ h.nextNode = g.nextNode /\ h.nextEdge = g.nextEdge /\ Good(h)
  BY DEF EdgeNow
<1>3. h.edges = Put(g.edges, e, x)
  BY DEF EdgeNow
<1>4. DOMAIN h.edges = DOMAIN g.edges
  BY <1>3, PutDomainSame
<1> QED BY <1>1, <1>2, <1>4 DEF Onward

(* Nothing comes back when elements are only removed.                         *)
LEMMA OnwardFewer ==
    ASSUME NEW g, Good(g), NEW h, h.nextNode = g.nextNode, h.nextEdge = g.nextEdge,
           DOMAIN h.nodes \subseteq DOMAIN g.nodes, DOMAIN h.edges \subseteq DOMAIN g.edges
    PROVE  Onward(g, h)
<1>1. g.nextNode \in Nat /\ g.nextEdge \in Nat
  BY DEF Good, NodesWell, EdgesWell
<1> QED BY <1>1 DEF Onward

LEMMA SeqOne ==
    ASSUME NEW x
    PROVE  IsSeq(<<x>>) /\ Len(<<x>>) = 1 /\ <<x>>[1] = x
<1>1. <<x>> \in Seq({x})
  OBVIOUS
<1>2. Len(<<x>>) = 1 /\ <<x>>[1] = x
  OBVIOUS
<1> QED BY <1>1, <1>2 DEF IsSeq

LEMMA SeqNothingMore ==
    ASSUME NEW s, IsSeq(s)
    PROVE  s \o <<>> = s
<1>1. PICK S : s \in Seq(S)
  BY DEF IsSeq
<1> QED BY <1>1, ConcatEmptySeq

LEMMA GoesNowhere ==
    ASSUME NEW r, IsRec(r)
    PROVE  Goes(r, r)
<1>1. Good(r.graph) /\ IsSeq(r.wal) /\ IsSeq(r.undo)
  BY DEF IsRec
<1>2. PICK none : none = <<>>
  OBVIOUS
<1>3. IsSeq(none) /\ Len(none) = 0
  BY <1>2, SeqNone
<1>4. r.wal = r.wal \o none /\ r.undo = r.undo \o none
  BY <1>1, <1>2, SeqNothingMore
<1>5. Conveys(none, r.graph, r.graph)
  BY <1>2, ConveysNothing
<1>6. \A i \in 1..Len(none) : FALSE
  BY <1>3
<1>7. Adds(r, r, none, none)
  BY <1>3, <1>4, <1>5, <1>6 DEF Adds
<1> QED BY <1>1, <1>7, OnwardSame DEF Goes

LEMMA GoesOne ==
    ASSUME NEW r, IsRec(r), NEW h, Good(h), Onward(r.graph, h), NEW w, Sends(w, r.graph, h),
           NEW u, Fits(h, u), Present(r.graph, u), NEW s, s = Recorded(r, h, <<w>>, <<u>>)
    PROVE  Goes(r, s)
<1>1. s.graph = h /\ s.wal = r.wal \o <<w>> /\ s.undo = r.undo \o <<u>>
  BY DEF Recorded
<1>2. PICK ws : ws = <<w>>
  OBVIOUS
<1>3. PICK us : us = <<u>>
  OBVIOUS
<1>4. IsSeq(ws) /\ IsSeq(us) /\ Len(us) = 1 /\ us[1] = u
  BY <1>2, <1>3, SeqOne
<1>5. Conveys(ws, r.graph, s.graph)
  BY <1>1, <1>2, ConveysOne
<1>6. \A i \in 1..Len(us) : i = 1
  BY <1>4
<1>7. \A i \in 1..Len(us) : Fits(s.graph, us[i]) /\ Present(r.graph, us[i])
  BY <1>1, <1>4, <1>6
<1>8. \A i, j \in 1..Len(us) : i # j => ~ Clash(us[i], us[j])
  BY <1>6
<1>9. Adds(r, s, ws, us)
  BY <1>1, <1>2, <1>3, <1>4, <1>5, <1>7, <1>8 DEF Adds
<1> QED BY <1>1, <1>9 DEF Goes

(* The records that restore nothing.                                          *)
LEMMA FitsPlain ==
    ASSUME NEW g, NEW h, NEW u,
           \/ u.op = "CreateNode" \/ u.op = "CreateEdge"
           \/ u.op = "AddLabel" /\ u.label \in Labels
           \/ u.op = "RemoveLabel" /\ u.label \in Labels
           \/ u.op = "SetProperty" /\ (u.node = TRUE \/ u.node = FALSE)
    PROVE  Fits(h, u) /\ Present(g, u)
  BY DEF Fits, Present, UndoOps

-----------------------------------------------------------------------------
(* Every recorded mutation.                                                   *)

LEMMA NewNodeIs ==
    ASSUME NEW g, Good(g), NEW ls
    PROVE  /\ g.nextNode \in Nat /\ g.nextNode \notin DOMAIN g.nodes
           /\ CreateNodeWithLabels(g, ls) = CreateNodeWithId(g, g.nextNode, ls)
<1>1. PICK n : n = g.nextNode
  OBVIOUS
<1>2. n \in Nat /\ n \notin DOMAIN g.nodes
  BY <1>1 DEF Good, NodesWell
<1>3. AtLeast(n, n + 1) = n + 1
  BY <1>2 DEF AtLeast
<1>4. DOMAIN g.out = DOMAIN g.nodes /\ DOMAIN g.inc = DOMAIN g.nodes
  BY DEF Good, AdjWell
<1>5. EntryOrDefault(g.out, n) = Put(g.out, n, {}) /\ EntryOrDefault(g.inc, n) = Put(g.inc, n, {})
  BY <1>2, <1>4 DEF EntryOrDefault
<1>6. CreateNodeWithLabels(g, ls) = CreateNodeWithId(g, n, ls)
  BY <1>1, <1>3, <1>5 DEF CreateNodeWithLabels, CreateNodeWithId, Good, Shape
<1> QED BY <1>1, <1>2, <1>6

LEMMA NewEdgeIs ==
    ASSUME NEW g, Good(g), NEW from, NEW to, EndpointsExist(g, from, to)
    PROVE  /\ g.nextEdge \in Nat /\ g.nextEdge \notin DOMAIN g.edges
           /\ CreateEdge(g, from, to) = CreateEdgeWithId(g, g.nextEdge, from, to)
<1>1. PICK e : e = g.nextEdge
  OBVIOUS
<1>2. e \in Nat /\ e \notin DOMAIN g.edges
  BY <1>1 DEF Good, EdgesWell
<1>3. AtLeast(e, e + 1) = e + 1
  BY <1>2 DEF AtLeast
<1>4. PICK i : i = InsertEdge(g, e, from, to)
  OBVIOUS
<1>5. i.nextEdge = e
  BY <1>1, <1>4 DEF InsertEdge, Good, Shape
<1>6. CreateEdge(g, from, to) = [i EXCEPT !.nextEdge = @ + 1]
  BY <1>1, <1>4 DEF CreateEdge
<1>7. CreateEdgeWithId(g, e, from, to) = [i EXCEPT !.nextEdge = AtLeast(@, e + 1)]
  BY <1>4 DEF CreateEdgeWithId
<1> QED BY <1>1, <1>2, <1>3, <1>5, <1>6, <1>7

LEMMA RecCreateNodeGoes ==
    ASSUME NEW r, IsRec(r), NEW ls \in Seq(Labels)
    PROVE  Goes(r, RecCreateNode(r, ls))
<1>1. PICK g : g = r.graph
  OBVIOUS
<1>2. PICK n : n = g.nextNode
  OBVIOUS
<1>3. PICK h : h = CreateNodeWithId(g, n, ls)
  OBVIOUS
<1>4. Good(g)
  BY <1>1 DEF IsRec
<1>5. n \in Nat /\ n \notin DOMAIN g.nodes /\ CreateNodeWithLabels(g, ls) = h
  BY <1>2, <1>3, <1>4, NewNodeIs
<1>6. /\ Good(h) /\ h.nodes = Put(g.nodes, n, NodeOf(ls, Empty)) /\ h.edges = g.edges
      /\ h.nextNode >= g.nextNode /\ h.nextEdge = g.nextEdge
  BY <1>3, <1>4, <1>5, CreateNodeGood
<1>7. Onward(g, h)
  <2>1. h.nodes = Put(g.nodes, n, NodeOf(ls, Empty))
    BY <1>6
  <2>2. DOMAIN h.nodes = DOMAIN g.nodes \cup {n}
    BY <2>1, PutDomain
  <2>3. g.nextNode \in Nat /\ h.nextNode \in Nat /\ g.nextEdge \in Nat
    BY <1>4, <1>6 DEF Good, NodesWell, EdgesWell
  <2> QED BY <1>2, <1>6, <2>2, <2>3 DEF Onward
<1>8. Sends(CreateNodeEntry(n, ls), g, h)
  BY <1>3, <1>4, <1>5, SendsCreateNode
<1>9. PICK u : u = [op |-> "CreateNode", id |-> n]
  OBVIOUS
<1>10. Fits(h, u) /\ Present(g, u)
  <2>1. u.op = "CreateNode"
    BY <1>9
  <2> QED BY <2>1, FitsPlain
<1>11. RecCreateNode(r, ls) = Recorded(r, h, <<CreateNodeEntry(n, ls)>>, <<u>>)
  BY <1>1, <1>2, <1>5, <1>9 DEF RecCreateNode, CreateNodeEntry
<1> QED BY <1>1, <1>6, <1>7, <1>8, <1>10, <1>11, GoesOne

LEMMA RecCreateEdgeGoes ==
    ASSUME NEW r, IsRec(r), NEW from, NEW to
    PROVE  Goes(r, RecCreateEdge(r, from, to))
<1>1. PICK g : g = r.graph
  OBVIOUS
<1>2. CASE ~ EndpointsExist(g, from, to)
  BY <1>1, <1>2, GoesNowhere DEF RecCreateEdge
<1>3. CASE EndpointsExist(g, from, to)
  <2>1. PICK e : e = g.nextEdge
    OBVIOUS
  <2>2. PICK h : h = CreateEdgeWithId(g, e, from, to)
    OBVIOUS
  <2>3. Good(g) /\ from \in DOMAIN g.nodes /\ to \in DOMAIN g.nodes
    BY <1>1, <1>3 DEF IsRec, EndpointsExist, HasNode
  <2>4. e \in Nat /\ e \notin DOMAIN g.edges /\ CreateEdge(g, from, to) = h
    BY <1>3, <2>1, <2>2, <2>3, NewEdgeIs
  <2>5. /\ Good(h) /\ h.edges = Put(g.edges, e, EdgeOf(from, to, Empty)) /\ h.nodes = g.nodes
        /\ h.nextEdge >= g.nextEdge /\ h.nextNode = g.nextNode
    BY <2>2, <2>3, <2>4, CreateEdgeGood
  <2>6. Onward(g, h)
    <3>1. h.edges = Put(g.edges, e, EdgeOf(from, to, Empty))
      BY <2>5
    <3>2. DOMAIN h.edges = DOMAIN g.edges \cup {e}
      BY <3>1, PutDomain
    <3>3. g.nextEdge \in Nat /\ h.nextEdge \in Nat /\ g.nextNode \in Nat
      BY <2>3, <2>5 DEF Good, NodesWell, EdgesWell
    <3> QED BY <2>1, <2>5, <3>2, <3>3 DEF Onward
  <2>7. Sends(CreateEdgeEntry(e, from, to), g, h)
    BY <2>2, <2>3, <2>4, SendsCreateEdge
  <2>8. PICK u : u = [op |-> "CreateEdge", id |-> e]
    OBVIOUS
  <2>9. Fits(h, u) /\ Present(g, u)
    <3>1. u.op = "CreateEdge"
      BY <2>8
    <3> QED BY <3>1, FitsPlain
  <2>10. RecCreateEdge(r, from, to) = Recorded(r, h, <<CreateEdgeEntry(e, from, to)>>, <<u>>)
    BY <1>1, <1>3, <2>1, <2>4, <2>8 DEF RecCreateEdge, CreateEdgeEntry
  <2> QED BY <1>1, <2>5, <2>6, <2>7, <2>9, <2>10, GoesOne
<1> QED BY <1>2, <1>3

LEMMA RecDeleteEdgeGoes ==
    ASSUME NEW r, IsRec(r), NEW e
    PROVE  Goes(r, RecDeleteEdge(r, e))
<1>1. PICK g : g = r.graph
  OBVIOUS
<1>2. CASE ~ HasEdge(g, e)
  BY <1>1, <1>2, GoesNowhere DEF RecDeleteEdge
<1>3. CASE HasEdge(g, e)
  <2>1. Good(g) /\ e \in DOMAIN g.edges
    BY <1>1, <1>3 DEF IsRec, HasEdge
  <2>2. PICK h : h = DeleteEdge(g, e)
    OBVIOUS
  <2>3. /\ Good(h) /\ h.edges = Drop(g.edges, {e}) /\ h.nodes = g.nodes
        /\ h.nextNode = g.nextNode /\ h.nextEdge = g.nextEdge
    BY <2>1, <2>2, DeleteEdgeGood
  <2>4. DOMAIN h.edges = DOMAIN g.edges \ {e}
    <3>1. h.edges = Drop(g.edges, {e})
      BY <2>3
    <3> QED BY <3>1, DropDomain
  <2>5. Onward(g, h)
    BY <2>1, <2>3, <2>4, OnwardFewer
  <2>6. Sends(DeleteEdgeEntry(e), g, h)
    BY <2>1, <2>2, SendsDeleteEdge
  <2>7. PICK u : u = DeleteEdgeUndo(g, e)
    OBVIOUS
  <2>8. u.op = "DeleteEdge" /\ u.id = e /\ u.props = g.edges[e].props
    BY <2>7 DEF DeleteEdgeUndo
  <2>9. e \in Nat /\ e < g.nextEdge /\ PropMap(g.edges[e].props)
    BY <2>1 DEF Good, EdgesWell, EdgeOK
  <2>10. Fits(h, u) /\ Present(g, u)
    BY <2>1, <2>3, <2>4, <2>8, <2>9 DEF Fits, Present, UndoOps
  <2>11. RecDeleteEdge(r, e) = Recorded(r, h, <<DeleteEdgeEntry(e)>>, <<u>>)
    BY <1>1, <1>3, <2>2, <2>7 DEF RecDeleteEdge, DeleteEdgeEntry
  <2> QED BY <1>1, <2>3, <2>5, <2>6, <2>10, <2>11, GoesOne
<1> QED BY <1>2, <1>3

LEMMA RecSetNodePropertyGoes ==
    ASSUME NEW r, IsRec(r), NEW n, NEW k, NEW v
    PROVE  Goes(r, RecSetNodeProperty(r, n, k, v))
<1>1. PICK g : g = r.graph
  OBVIOUS
<1>2. Good(g)
  BY <1>1 DEF IsRec
<1>3. PICK u : u = [op |-> "SetProperty", node |-> TRUE, id |-> n, key |-> k,
                    old |-> IF HasNode(g, n) THEN OldValue(g.nodes[n].props, k) ELSE <<>>]
  OBVIOUS
<1>4. PICK h : h = SetNodeProperty(g, n, k, v)
  OBVIOUS
<1>5. RecSetNodeProperty(r, n, k, v) = Recorded(r, h, <<SetPropEntry(TRUE, n, k, v)>>, <<u>>)
  BY <1>1, <1>3, <1>4 DEF RecSetNodeProperty
<1>6. Fits(h, u) /\ Present(g, u)
  <2>1. u.op = "SetProperty" /\ (u.node = TRUE \/ u.node = FALSE)
    BY <1>3
  <2> QED BY <2>1, FitsPlain
<1>7. Good(h) /\ Onward(g, h) /\ Sends(SetPropEntry(TRUE, n, k, v), g, h)
  <2>1. CASE n \in DOMAIN g.nodes
    <3>1. NodeNow(g, h, n, NodeOf(g.nodes[n].labels, Put(g.nodes[n].props, k, v)))
      BY <1>2, <1>4, <2>1, SetNodePropertyGood
    <3>2. Sends(SetPropEntry(TRUE, n, k, v), g, h)
      BY <1>2, <1>4, <2>1, SendsSetNodeProperty
    <3> QED BY <1>2, <2>1, <3>1, <3>2, OnwardNode
  <2>2. CASE n \notin DOMAIN g.nodes
    <3>1. h = g
      BY <1>4, <2>2 DEF SetNodeProperty, HasNode
    <3>2. Sends(SetPropEntry(TRUE, n, k, v), g, g)
      BY <2>2, SendsNodeNothing
    <3> QED BY <1>2, <3>1, <3>2, OnwardSame
  <2> QED BY <2>1, <2>2
<1> QED BY <1>1, <1>5, <1>6, <1>7, GoesOne

LEMMA RecRemoveNodePropertyGoes ==
    ASSUME NEW r, IsRec(r), NEW n, NEW k
    PROVE  Goes(r, RecRemoveNodeProperty(r, n, k))
<1>1. PICK g : g = r.graph
  OBVIOUS
<1>2. CASE ~ HasNode(g, n) \/ k \notin DOMAIN g.nodes[n].props
  BY <1>1, <1>2, GoesNowhere DEF RecRemoveNodeProperty
<1>3. CASE HasNode(g, n) /\ k \in DOMAIN g.nodes[n].props
  <2>1. Good(g) /\ n \in DOMAIN g.nodes
    BY <1>1, <1>3 DEF IsRec, HasNode
  <2>2. PICK h : h = RemoveNodeProperty(g, n, k)
    OBVIOUS
  <2>3. PICK u : u = [op |-> "SetProperty", node |-> TRUE, id |-> n, key |-> k,
                      old |-> OldValue(g.nodes[n].props, k)]
    OBVIOUS
  <2>4. RecRemoveNodeProperty(r, n, k) = Recorded(r, h, <<RemovePropEntry(TRUE, n, k)>>, <<u>>)
    BY <1>1, <1>3, <2>2, <2>3 DEF RecRemoveNodeProperty, RemovePropEntry
  <2>5. Fits(h, u) /\ Present(g, u)
    <3>1. u.op = "SetProperty" /\ (u.node = TRUE \/ u.node = FALSE)
      BY <2>3
    <3> QED BY <3>1, FitsPlain
  <2>6. NodeNow(g, h, n, NodeOf(g.nodes[n].labels, Drop(g.nodes[n].props, {k})))
    BY <2>1, <2>2, RemoveNodePropertyGood
  <2>7. Good(h) /\ Onward(g, h)
    BY <2>1, <2>6, OnwardNode
  <2>8. Sends(RemovePropEntry(TRUE, n, k), g, h)
    BY <2>1, <2>2, SendsRemoveNodeProperty
  <2> QED BY <1>1, <2>4, <2>5, <2>7, <2>8, GoesOne
<1> QED BY <1>2, <1>3

LEMMA RecSetEdgePropertyGoes ==
    ASSUME NEW r, IsRec(r), NEW e, NEW k, NEW v
    PROVE  Goes(r, RecSetEdgeProperty(r, e, k, v))
<1>1. PICK g : g = r.graph
  OBVIOUS
<1>2. Good(g)
  BY <1>1 DEF IsRec
<1>3. PICK u : u = [op |-> "SetProperty", node |-> FALSE, id |-> e, key |-> k,
                    old |-> IF HasEdge(g, e) THEN OldValue(g.edges[e].props, k) ELSE <<>>]
  OBVIOUS
<1>4. PICK h : h = SetEdgeProperty(g, e, k, v)
  OBVIOUS
<1>5. RecSetEdgeProperty(r, e, k, v) = Recorded(r, h, <<SetPropEntry(FALSE, e, k, v)>>, <<u>>)
  BY <1>1, <1>3, <1>4 DEF RecSetEdgeProperty
<1>6. Fits(h, u) /\ Present(g, u)
  <2>1. u.op = "SetProperty" /\ (u.node = TRUE \/ u.node = FALSE)
    BY <1>3
  <2> QED BY <2>1, FitsPlain
<1>7. Good(h) /\ Onward(g, h) /\ Sends(SetPropEntry(FALSE, e, k, v), g, h)
  <2>1. CASE e \in DOMAIN g.edges
    <3>1. EdgeNow(g, h, e, EdgeOf(g.edges[e].from, g.edges[e].to, Put(g.edges[e].props, k, v)))
      BY <1>2, <1>4, <2>1, SetEdgePropertyGood
    <3>2. Sends(SetPropEntry(FALSE, e, k, v), g, h)
      BY <1>2, <1>4, <2>1, SendsSetEdgeProperty
    <3> QED BY <1>2, <2>1, <3>1, <3>2, OnwardEdge
  <2>2. CASE e \notin DOMAIN g.edges
    <3>1. h = g
      BY <1>4, <2>2 DEF SetEdgeProperty, HasEdge
    <3>2. Sends(SetPropEntry(FALSE, e, k, v), g, g)
      BY <2>2, SendsEdgeNothing
    <3> QED BY <1>2, <3>1, <3>2, OnwardSame
  <2> QED BY <2>1, <2>2
<1> QED BY <1>1, <1>5, <1>6, <1>7, GoesOne

LEMMA RecRemoveEdgePropertyGoes ==
    ASSUME NEW r, IsRec(r), NEW e, NEW k
    PROVE  Goes(r, RecRemoveEdgeProperty(r, e, k))
<1>1. PICK g : g = r.graph
  OBVIOUS
<1>2. CASE ~ HasEdge(g, e) \/ k \notin DOMAIN g.edges[e].props
  BY <1>1, <1>2, GoesNowhere DEF RecRemoveEdgeProperty
<1>3. CASE HasEdge(g, e) /\ k \in DOMAIN g.edges[e].props
  <2>1. Good(g) /\ e \in DOMAIN g.edges
    BY <1>1, <1>3 DEF IsRec, HasEdge
  <2>2. PICK h : h = RemoveEdgeProperty(g, e, k)
    OBVIOUS
  <2>3. PICK u : u = [op |-> "SetProperty", node |-> FALSE, id |-> e, key |-> k,
                      old |-> OldValue(g.edges[e].props, k)]
    OBVIOUS
  <2>4. RecRemoveEdgeProperty(r, e, k) = Recorded(r, h, <<RemovePropEntry(FALSE, e, k)>>, <<u>>)
    BY <1>1, <1>3, <2>2, <2>3 DEF RecRemoveEdgeProperty, RemovePropEntry
  <2>5. Fits(h, u) /\ Present(g, u)
    <3>1. u.op = "SetProperty" /\ (u.node = TRUE \/ u.node = FALSE)
      BY <2>3
    <3> QED BY <3>1, FitsPlain
  <2>6. EdgeNow(g, h, e, EdgeOf(g.edges[e].from, g.edges[e].to, Drop(g.edges[e].props, {k})))
    BY <2>1, <2>2, RemoveEdgePropertyGood
  <2>7. Good(h) /\ Onward(g, h)
    BY <2>1, <2>6, OnwardEdge
  <2>8. Sends(RemovePropEntry(FALSE, e, k), g, h)
    BY <2>1, <2>2, SendsRemoveEdgeProperty
  <2> QED BY <1>1, <2>4, <2>5, <2>7, <2>8, GoesOne
<1> QED BY <1>2, <1>3

LEMMA RecAddLabelGoes ==
    ASSUME NEW r, IsRec(r), NEW n, NEW l \in Labels
    PROVE  Goes(r, RecAddNodeLabel(r, n, l))
<1>1. PICK g : g = r.graph
  OBVIOUS
<1>2. CASE ~ HasNode(g, n) \/ HasLabel(g, n, l)
  BY <1>1, <1>2, GoesNowhere DEF RecAddNodeLabel
<1>3. CASE HasNode(g, n) /\ ~ HasLabel(g, n, l)
  <2>1. Good(g) /\ n \in DOMAIN g.nodes
    BY <1>1, <1>3 DEF IsRec, HasNode, HasLabel
  <2>2. PICK h : h = AddNodeLabel(g, n, l)
    OBVIOUS
  <2>3. PICK u : u = [op |-> "AddLabel", id |-> n, label |-> l]
    OBVIOUS
  <2>4. RecAddNodeLabel(r, n, l) = Recorded(r, h, <<AddLabelEntry(n, l)>>, <<u>>)
    BY <1>1, <1>3, <2>2, <2>3 DEF RecAddNodeLabel, AddLabelEntry
  <2>5. Fits(h, u) /\ Present(g, u)
    <3>1. u.op = "AddLabel" /\ u.label \in Labels
      BY <2>3
    <3> QED BY <3>1, FitsPlain
  <2>6. NodeNow(g, h, n, NodeOf(Append(g.nodes[n].labels, l), g.nodes[n].props))
    BY <1>3, <2>1, <2>2, AddLabelGood
  <2>7. Good(h) /\ Onward(g, h)
    BY <2>1, <2>6, OnwardNode
  <2>8. Sends(AddLabelEntry(n, l), g, h)
    BY <1>3, <2>1, <2>2, SendsAddLabel
  <2> QED BY <1>1, <2>4, <2>5, <2>7, <2>8, GoesOne
<1> QED BY <1>2, <1>3

LEMMA RecRemoveLabelGoes ==
    ASSUME NEW r, IsRec(r), NEW n, NEW l \in Labels
    PROVE  Goes(r, RecRemoveNodeLabel(r, n, l))
<1>1. PICK g : g = r.graph
  OBVIOUS
<1>2. CASE ~ HasLabel(g, n, l)
  BY <1>1, <1>2, GoesNowhere DEF RecRemoveNodeLabel
<1>3. CASE HasLabel(g, n, l)
  <2>1. Good(g) /\ n \in DOMAIN g.nodes
    BY <1>1, <1>3 DEF IsRec, HasNode, HasLabel
  <2>2. PICK h : h = RemoveNodeLabel(g, n, l)
    OBVIOUS
  <2>3. PICK u : u = [op |-> "RemoveLabel", id |-> n, label |-> l]
    OBVIOUS
  <2>4. RecRemoveNodeLabel(r, n, l) = Recorded(r, h, <<RemoveLabelEntry(n, l)>>, <<u>>)
    BY <1>1, <1>3, <2>2, <2>3 DEF RecRemoveNodeLabel, RemoveLabelEntry
  <2>5. Fits(h, u) /\ Present(g, u)
    <3>1. u.op = "RemoveLabel" /\ u.label \in Labels
      BY <2>3
    <3> QED BY <3>1, FitsPlain
  <2>6. NodeNow(g, h, n, NodeOf(Without(g.nodes[n].labels, l), g.nodes[n].props))
    BY <1>3, <2>1, <2>2, RemoveLabelGood
  <2>7. Good(h) /\ Onward(g, h)
    BY <2>1, <2>6, OnwardNode
  <2>8. Sends(RemoveLabelEntry(n, l), g, h)
    BY <1>3, <2>1, <2>2, SendsRemoveLabel
  <2> QED BY <1>1, <2>4, <2>5, <2>7, <2>8, GoesOne
<1> QED BY <1>2, <1>3

LEMMA RecDeleteNodeGoes ==
    ASSUME NEW r, IsRec(r), NEW n
    PROVE  Goes(r, RecDeleteNode(r, n))
<1>1. PICK g : g = r.graph
  OBVIOUS
<1>2. CASE ~ HasNode(g, n)
  BY <1>1, <1>2, GoesNowhere DEF RecDeleteNode
<1>3. CASE HasNode(g, n)
  <2>1. Good(g) /\ n \in DOMAIN g.nodes
    BY <1>1, <1>3 DEF IsRec, HasNode
  <2>2. PICK h : h = DeleteNode(g, n)
    OBVIOUS
  <2>3. PICK gone : gone = g.out[n] \cup g.inc[n]
    OBVIOUS
  <2>4. /\ Good(h) /\ h.nodes = Drop(g.nodes, {n}) /\ h.edges = Drop(g.edges, gone)
        /\ h.nextNode = g.nextNode /\ h.nextEdge = g.nextEdge
    BY <2>1, <2>2, <2>3, DeleteNodeGood
  <2>5. DOMAIN h.nodes = DOMAIN g.nodes \ {n}
    <3>1. h.nodes = Drop(g.nodes, {n})
      BY <2>4
    <3> QED BY <3>1, DropDomain
  <2>6. DOMAIN h.edges = DOMAIN g.edges \ gone
    <3>1. h.edges = Drop(g.edges, gone)
      BY <2>4
    <3> QED BY <3>1, DropDomain
  <2>7. Onward(g, h)
    BY <2>1, <2>4, <2>5, <2>6, OnwardFewer
  <2>8. Sends(DeleteNodeEntry(n), g, h)
    BY <2>1, <2>2, SendsDeleteNode
  <2>9. gone \subseteq DOMAIN g.edges
    <3>1. /\ g.out[n] = {e \in DOMAIN g.edges : g.edges[e].from = n}
          /\ g.inc[n] = {e \in DOMAIN g.edges : g.edges[e].to = n}
      BY <2>1, GoodIsConsistent DEF Consistent
    <3> QED BY <2>3, <3>1
  <2>10. /\ DOMAIN g.edges \subseteq Nat /\ g.nextEdge \in Nat
         /\ \A e \in DOMAIN g.edges : e < g.nextEdge /\ PropMap(g.edges[e].props)
    BY <2>1 DEF Good, EdgesWell, EdgeOK
  <2>11. IsFiniteSet(gone)
    <3>1. gone \in SUBSET Nat /\ \A e \in gone : e <= g.nextEdge
      BY <2>9, <2>10
    <3> QED BY <2>10, <3>1, FS_BoundedSetOfNaturals
  <2>12. PICK es : es = SetToSeq(gone)
    OBVIOUS
  <2>13. es \in Seq(gone) /\ \A i, j \in 1..Len(es) : es[i] = es[j] => i = j
    BY <2>11, <2>12, SetToSeqIs
  <2>14. Len(es) \in Nat /\ \A i \in 1..Len(es) : es[i] \in gone
    BY <2>13
  <2>15. PICK vs : vs = [i \in 1..Len(es) |-> DeleteEdgeUndo(g, es[i])]
    OBVIOUS
  <2>16. IsSeq(vs) /\ Len(vs) = Len(es)
    <3>1. PICK S : S = {DeleteEdgeUndo(g, es[i]) : i \in 1..Len(es)}
      OBVIOUS
    <3>2. \A i \in 1..Len(es) : DeleteEdgeUndo(g, es[i]) \in S
      BY <3>1
    <3>3. vs \in [1..Len(es) -> S]
      BY <2>15, <3>2
    <3>4. vs \in Seq(S) /\ Len(vs) = Len(es)
      BY <2>14, <3>3
    <3> QED BY <3>4 DEF IsSeq
  <2>17. \A i \in 1..Len(es) : vs[i] = DeleteEdgeUndo(g, es[i])
    BY <2>15
  <2>18. \A i \in 1..Len(es) : vs[i].op = "DeleteEdge" /\ vs[i].id = es[i] /\ vs[i].props = g.edges[es[i]].props
    <3> TAKE i \in 1..Len(es)
    <3>1. PICK e : e = es[i]
      OBVIOUS
    <3>2. PICK v : v = DeleteEdgeUndo(g, e)
      OBVIOUS
    <3>3. v.op = "DeleteEdge" /\ v.id = e /\ v.props = g.edges[e].props
      BY <3>2 DEF DeleteEdgeUndo
    <3>4. vs[i] = v
      BY <2>17, <3>1, <3>2
    <3> QED BY <3>1, <3>3, <3>4
  <2>19. PICK u : u = [op |-> "DeleteNode", id |-> n, labels |-> g.nodes[n].labels, props |-> g.nodes[n].props]
    OBVIOUS
  <2>20. u.op = "DeleteNode" /\ u.id = n /\ u.labels = g.nodes[n].labels /\ u.props = g.nodes[n].props
    BY <2>19
  <2>21. PICK us : us = vs \o <<u>>
    OBVIOUS
  <2>22. PICK ws : ws = <<DeleteNodeEntry(n)>>
    OBVIOUS
  <2>23. PICK s : s = Recorded(r, h, ws, us)
    OBVIOUS
  <2>24. RecDeleteNode(r, n) = s
    BY <1>1, <1>3, <2>2, <2>3, <2>12, <2>15, <2>19, <2>21, <2>22, <2>23 DEF RecDeleteNode, DeleteNodeEntry
  <2>25. IsSeq(us) /\ Len(us) = Len(es) + 1 /\ us[Len(es) + 1] = u
    <3>1. PICK one : one = <<u>>
      OBVIOUS
    <3>2. IsSeq(one) /\ Len(one) = 1 /\ one[1] = u
      BY <3>1, SeqOne
    <3>3. IsSeq(vs \o one) /\ Len(vs \o one) = Len(vs) + Len(one)
      BY <2>16, <3>2, SeqConcat
    <3>4. \A i \in 1..Len(one) : (vs \o one)[Len(vs) + i] = one[i]
      <4>1. IsSeq(vs) /\ IsSeq(one)
        BY <2>16, <3>2
      <4> QED BY <4>1, SeqConcat
    <3>5. 1 \in 1..Len(one)
      BY <3>2
    <3>6. (vs \o one)[Len(vs) + 1] = one[1]
      BY <3>4, <3>5
    <3> QED BY <2>16, <2>21, <3>1, <3>2, <3>3, <3>6
  <2>26. \A i \in 1..Len(es) : us[i] = vs[i]
    <3>1. IsSeq(<<u>>)
      BY SeqOne
    <3>2. \A i \in 1..Len(vs) : (vs \o <<u>>)[i] = vs[i]
      BY <2>16, <3>1, SeqConcat
    <3> QED BY <2>16, <2>21, <3>2
  <2>27. \A i \in 1..Len(us) : i \in 1..Len(es) \/ i = Len(es) + 1
    BY <2>14, <2>25
  <2>28. Fits(h, u) /\ Present(g, u)
    <3>1. n \in Nat /\ n < g.nextNode /\ NodeOK(g.nodes[n])
      BY <2>1 DEF Good, NodesWell
    <3> QED BY <2>1, <2>4, <2>5, <2>20, <3>1 DEF Fits, Present, UndoOps, NodeOK
  <2>29. ASSUME NEW i \in 1..Len(es) PROVE Fits(h, vs[i]) /\ Present(g, vs[i])
    <3>1. PICK e : e = es[i]
      OBVIOUS
    <3>2. PICK v : v = vs[i]
      OBVIOUS
    <3>3. e \in gone /\ v.op = "DeleteEdge" /\ v.id = e /\ v.props = g.edges[e].props
      BY <2>14, <2>18, <3>1, <3>2
    <3>4. e \in DOMAIN g.edges /\ e \in Nat /\ e < h.nextEdge /\ e \notin DOMAIN h.edges /\ PropMap(v.props)
      BY <2>4, <2>6, <2>9, <2>10, <3>3
    <3> QED BY <3>2, <3>3, <3>4 DEF Fits, Present, UndoOps
  <2>30. \A i \in 1..Len(us) : Fits(h, us[i]) /\ Present(g, us[i])
    BY <2>25, <2>26, <2>27, <2>28, <2>29
  <2>31. ASSUME NEW i \in 1..Len(us), NEW j \in 1..Len(us), i # j PROVE ~ Clash(us[i], us[j])
    <3>1. CASE i \in 1..Len(es) /\ j \in 1..Len(es)
      <4>1. es[i] # es[j]
        BY <2>13, <2>31, <3>1
      <4>2. us[i].id = es[i] /\ us[j].id = es[j]
        BY <2>18, <2>26, <3>1
      <4> QED BY <4>1, <4>2 DEF Clash
    <3>2. CASE i \in 1..Len(es) /\ j = Len(es) + 1
      <4>1. us[i].op = "DeleteEdge" /\ us[j].op = "DeleteNode"
        BY <2>18, <2>20, <2>25, <2>26, <3>2
      <4> QED BY <4>1 DEF Clash
    <3>3. CASE i = Len(es) + 1 /\ j \in 1..Len(es)
      <4>1. us[j].op = "DeleteEdge" /\ us[i].op = "DeleteNode"
        BY <2>18, <2>20, <2>25, <2>26, <3>3
      <4> QED BY <4>1 DEF Clash
    <3> QED BY <2>27, <2>31, <3>1, <3>2, <3>3
  <2>32. s.graph = h /\ s.wal = r.wal \o ws /\ s.undo = r.undo \o us
    BY <2>23 DEF Recorded
  <2>33. IsSeq(ws) /\ Conveys(ws, g, h)
    BY <2>8, <2>22, SeqOne, ConveysOne
  <2>34. Adds(r, s, ws, us)
    BY <1>1, <2>25, <2>30, <2>31, <2>32, <2>33 DEF Adds
  <2> QED BY <1>1, <2>4, <2>7, <2>24, <2>32, <2>34 DEF Goes
<1> QED BY <1>2, <1>3

-----------------------------------------------------------------------------
(* Applying one undo record: s after r. The other records that fit still do.  *)

Undoes(r, s, u) ==
    /\ IsRec(s)
    /\ \E w : IsSeq(w) /\ s.wal = r.wal \o w /\ Conveys(w, r.graph, s.graph)
    /\ \A v : Fits(r.graph, v) /\ ~ Clash(u, v) => Fits(s.graph, v)

LEMMA GoesUndoes ==
    ASSUME NEW r, IsRec(r), NEW s, Goes(r, s), NEW u
    PROVE  Undoes(r, s, u)
<1>1. PICK w, us : Adds(r, s, w, us)
  BY DEF Goes
<1>2. IsSeq(w) /\ IsSeq(us) /\ s.wal = r.wal \o w /\ s.undo = r.undo \o us /\ Conveys(w, r.graph, s.graph)
  BY <1>1 DEF Adds
<1>3. Good(r.graph) /\ IsSeq(r.wal) /\ IsSeq(r.undo) /\ Good(s.graph) /\ Onward(r.graph, s.graph)
  BY DEF IsRec, Goes
<1>4. IsSeq(s.wal) /\ IsSeq(s.undo)
  BY <1>2, <1>3, SeqConcat
<1>5. \A v : Fits(r.graph, v) => Fits(s.graph, v)
  BY <1>3, FitsOnward
<1> QED BY <1>2, <1>3, <1>4, <1>5 DEF Undoes, IsRec

LEMMA UndoDeleteNodeUndoes ==
    ASSUME NEW r, IsRec(r), NEW u, Fits(r.graph, u), u.op = "DeleteNode"
    PROVE  Undoes(r, UndoDeleteNode(r, u), u)
<1>1. PICK g : g = r.graph
  OBVIOUS
<1>2. PICK n : n = u.id
  OBVIOUS
<1>3. PICK p : p = u.props
  OBVIOUS
<1>4. PICK ls : ls = u.labels
  OBVIOUS
<1>5. /\ Good(g) /\ n \in Nat /\ n < g.nextNode /\ n \notin DOMAIN g.nodes /\ ls \in Seq(Labels) /\ PropMap(p)
      /\ IsSeq(r.wal) /\ IsSeq(r.undo)
  BY <1>1, <1>2, <1>3, <1>4 DEF IsRec, Fits
<1>6. PICK i : i = CreateNodeWithId(g, n, ls)
  OBVIOUS
<1>7. /\ Good(i) /\ i.nodes = Put(g.nodes, n, NodeOf(ls, Empty)) /\ i.edges = g.edges
      /\ i.nextNode >= g.nextNode /\ i.nextEdge = g.nextEdge
  BY <1>5, <1>6, CreateNodeGood
<1>8. DOMAIN i.nodes = DOMAIN g.nodes \cup {n} /\ i.nodes[n].props = Empty
  <2>1. PICK x : x = NodeOf(ls, Empty)
    OBVIOUS
  <2>2. i.nodes = Put(g.nodes, n, x)
    BY <1>7, <2>1
  <2>3. DOMAIN i.nodes = DOMAIN g.nodes \cup {n}
    <3>1. DOMAIN Put(g.nodes, n, x) = DOMAIN g.nodes \cup {n}
      BY PutDomain, Zenon
    <3> QED BY <2>2, <3>1
  <2>4. i.nodes[n] = x
    BY <2>2, PutAt
  <2>5. x.props = Empty
    BY <2>1 DEF NodeOf
  <2> QED BY <2>3, <2>4, <2>5
<1>9. PICK h : h = NodeWith(i, n, p)
  OBVIOUS
<1>10. n \in DOMAIN i.nodes
  BY <1>8
<1>11. NodeNow(i, h, n, NodeOf(i.nodes[n].labels, p))
  BY <1>5, <1>7, <1>9, <1>10, NodePropsGood
<1>12. Good(h) /\ h.edges = g.edges /\ h.nextNode >= g.nextNode /\ h.nextEdge = g.nextEdge
  BY <1>7, <1>11 DEF NodeNow
<1>13. DOMAIN h.nodes = DOMAIN g.nodes \cup {n}
  <2>1. PICK x : h.nodes = Put(i.nodes, n, x)
    BY <1>11 DEF NodeNow
  <2>2. DOMAIN h.nodes = DOMAIN i.nodes
    BY <1>10, <2>1, PutDomainSame
  <2> QED BY <1>8, <2>2
<1>14. PICK es : es = SetPropEntries(TRUE, n, p)
  OBVIOUS
<1>15. IsSeq(es) /\ Conveys(es, i, h)
  BY <1>5, <1>7, <1>8, <1>9, <1>10, <1>14, RestoresNode
<1>16. PICK ws : ws = <<CreateNodeEntry(n, ls)>>
  OBVIOUS
<1>17. IsSeq(ws) /\ Conveys(ws, g, i)
  <2>1. Sends(CreateNodeEntry(n, ls), g, i)
    BY <1>5, <1>6, SendsCreateNode
  <2> QED BY <1>16, <2>1, SeqOne, ConveysOne
<1>18. IsSeq(ws \o es) /\ Conveys(ws \o es, g, h)
  BY <1>15, <1>17, SeqConcat, ConveysBoth
<1>19. PICK s : s = UndoDeleteNode(r, u)
  OBVIOUS
<1>20. s = Recorded(r, h, ws \o es, <<>>)
  <2>1. [i EXCEPT !.nodes[n] = WithProps(@, p)] = h
    BY <1>9 DEF NodeWith, WithProps
  <2> QED BY <1>1, <1>2, <1>3, <1>4, <1>6, <1>14, <1>16, <1>19, <2>1 DEF UndoDeleteNode, CreateNodeEntry
<1>21. s.graph = h /\ s.wal = r.wal \o (ws \o es) /\ s.undo = r.undo \o <<>>
  BY <1>20 DEF Recorded
<1>22. IsSeq(s.wal) /\ IsSeq(s.undo)
  BY <1>5, <1>18, <1>21, SeqConcat, SeqNothingMore
<1>23. ASSUME NEW v, Fits(g, v), ~ Clash(u, v) PROVE Fits(h, v)
  <2>1. g.nextNode \in Nat /\ h.nextNode \in Nat
    BY <1>5, <1>12 DEF Good, NodesWell
  <2>2. v.op = "DeleteNode" => v.id < h.nextNode /\ v.id \notin DOMAIN h.nodes
    BY <1>2, <1>12, <1>13, <1>23, <2>1 DEF Fits, Clash
  <2> QED BY <1>12, <1>23, <2>2 DEF Fits
<1>24. PICK w : w = ws \o es
  OBVIOUS
<1>25. IsSeq(w) /\ s.wal = r.wal \o w /\ Conveys(w, r.graph, s.graph)
  BY <1>1, <1>18, <1>21, <1>24
<1> QED BY <1>1, <1>12, <1>19, <1>21, <1>22, <1>23, <1>25 DEF Undoes, IsRec

LEMMA UndoDeleteEdgeUndoes ==
    ASSUME NEW r, IsRec(r), NEW u, Fits(r.graph, u), u.op = "DeleteEdge"
    PROVE  Undoes(r, UndoDeleteEdge(r, u), u)
<1>1. PICK g : g = r.graph
  OBVIOUS
<1>a. PICK from : from = u.from
  OBVIOUS
<1>b. PICK to : to = u.to
  OBVIOUS
<1>c. CASE ~ EndpointsExist(g, from, to)
  <2>1. UndoDeleteEdge(r, u) = r
    BY <1>1, <1>a, <1>b, <1>c DEF UndoDeleteEdge
  <2> QED BY <2>1, GoesNowhere, GoesUndoes
<1>d. CASE EndpointsExist(g, from, to)
  <2>2. PICK e : e = u.id
    OBVIOUS
  <2>3. PICK p : p = u.props
    OBVIOUS
  <2>5. /\ Good(g) /\ e \in Nat /\ e < g.nextEdge /\ e \notin DOMAIN g.edges /\ PropMap(p)
        /\ IsSeq(r.wal) /\ IsSeq(r.undo)
    BY <1>1, <2>2, <2>3 DEF IsRec, Fits
  <2>e. from \in DOMAIN g.nodes /\ to \in DOMAIN g.nodes
    BY <1>d DEF EndpointsExist, HasNode
  <2>6. PICK i : i = CreateEdgeWithId(g, e, from, to)
    OBVIOUS
  <2>7. /\ Good(i) /\ i.edges = Put(g.edges, e, EdgeOf(from, to, Empty)) /\ i.nodes = g.nodes
        /\ i.nextEdge >= g.nextEdge /\ i.nextNode = g.nextNode
    BY <2>5, <2>6, <2>e, CreateEdgeGood
  <2>8. DOMAIN i.edges = DOMAIN g.edges \cup {e} /\ i.edges[e].props = Empty
    <3>1. PICK x : x = EdgeOf(from, to, Empty)
      OBVIOUS
    <3>2. i.edges = Put(g.edges, e, x)
      BY <2>7, <3>1
    <3>3. DOMAIN i.edges = DOMAIN g.edges \cup {e}
      <4>1. DOMAIN Put(g.edges, e, x) = DOMAIN g.edges \cup {e}
        BY PutDomain, Zenon
      <4> QED BY <3>2, <4>1
    <3>4. i.edges[e] = x
      BY <3>2, PutAt
    <3>5. x.props = Empty
      BY <3>1 DEF EdgeOf
    <3> QED BY <3>3, <3>4, <3>5
  <2>9. PICK h : h = EdgeWith(i, e, p)
    OBVIOUS
  <2>10. e \in DOMAIN i.edges
    BY <2>8
  <2>11. EdgeNow(i, h, e, EdgeOf(i.edges[e].from, i.edges[e].to, p))
    BY <2>5, <2>7, <2>9, <2>10, EdgePropsGood
  <2>12. Good(h) /\ h.nodes = g.nodes /\ h.nextEdge >= g.nextEdge /\ h.nextNode = g.nextNode
    BY <2>7, <2>11 DEF EdgeNow
  <2>13. DOMAIN h.edges = DOMAIN g.edges \cup {e}
    <3>1. PICK x : h.edges = Put(i.edges, e, x)
      BY <2>11 DEF EdgeNow
    <3>2. DOMAIN h.edges = DOMAIN i.edges
      BY <2>10, <3>1, PutDomainSame
    <3> QED BY <2>8, <3>2
  <2>14. PICK es : es = SetPropEntries(FALSE, e, p)
    OBVIOUS
  <2>15. IsSeq(es) /\ Conveys(es, i, h)
    BY <2>5, <2>7, <2>8, <2>9, <2>10, <2>14, RestoresEdge
  <2>16. PICK ws : ws = <<CreateEdgeEntry(e, from, to)>>
    OBVIOUS
  <2>17. IsSeq(ws) /\ Conveys(ws, g, i)
    <3>1. Sends(CreateEdgeEntry(e, from, to), g, i)
      BY <2>5, <2>6, <2>e, SendsCreateEdge
    <3> QED BY <2>16, <3>1, SeqOne, ConveysOne
  <2>18. IsSeq(ws \o es) /\ Conveys(ws \o es, g, h)
    BY <2>15, <2>17, SeqConcat, ConveysBoth
  <2>19. PICK s : s = UndoDeleteEdge(r, u)
    OBVIOUS
  <2>20. s = Recorded(r, h, ws \o es, <<>>)
    <3>1. [i EXCEPT !.edges[e] = WithProps(@, p)] = h
      BY <2>9 DEF EdgeWith, WithProps
    <3> QED BY <1>1, <1>a, <1>b, <1>d, <2>2, <2>3, <2>6, <2>14, <2>16, <2>19, <3>1
            DEF UndoDeleteEdge, CreateEdgeEntry
  <2>21. s.graph = h /\ s.wal = r.wal \o (ws \o es) /\ s.undo = r.undo \o <<>>
    BY <2>20 DEF Recorded
  <2>22. IsSeq(s.wal) /\ IsSeq(s.undo)
    BY <2>5, <2>18, <2>21, SeqConcat, SeqNothingMore
  <2>23. ASSUME NEW v, Fits(g, v), ~ Clash(u, v) PROVE Fits(h, v)
    <3>1. g.nextEdge \in Nat /\ h.nextEdge \in Nat
      BY <2>5, <2>12 DEF Good, EdgesWell
    <3>2. v.op = "DeleteEdge" => v.id < h.nextEdge /\ v.id \notin DOMAIN h.edges
      BY <2>2, <2>12, <2>13, <2>23, <3>1 DEF Fits, Clash
    <3> QED BY <2>12, <2>23, <3>2 DEF Fits
  <2>24. PICK w : w = ws \o es
    OBVIOUS
  <2>25. IsSeq(w) /\ s.wal = r.wal \o w /\ Conveys(w, r.graph, s.graph)
    BY <1>1, <2>18, <2>21, <2>24
  <2> QED BY <1>1, <2>12, <2>19, <2>21, <2>22, <2>23, <2>25 DEF Undoes, IsRec
<1> QED BY <1>c, <1>d

LEMMA ApplyUndoUndoes ==
    ASSUME NEW r, IsRec(r), NEW u, Fits(r.graph, u)
    PROVE  Undoes(r, ApplyUndo(r, u), u)
<1>1. u.op \in UndoOps
  BY DEF Fits
<1>2. CASE u.op = "CreateNode"
  <2>1. ApplyUndo(r, u) = RecDeleteNode(r, u.id)
    BY <1>2 DEF ApplyUndo
  <2> QED BY <2>1, RecDeleteNodeGoes, GoesUndoes
<1>3. CASE u.op = "DeleteNode"
  <2>1. ApplyUndo(r, u) = UndoDeleteNode(r, u)
    BY <1>3 DEF ApplyUndo
  <2> QED BY <1>3, <2>1, UndoDeleteNodeUndoes
<1>4. CASE u.op = "CreateEdge"
  <2>1. ApplyUndo(r, u) = RecDeleteEdge(r, u.id)
    BY <1>4 DEF ApplyUndo
  <2> QED BY <2>1, RecDeleteEdgeGoes, GoesUndoes
<1>5. CASE u.op = "DeleteEdge"
  <2>1. ApplyUndo(r, u) = UndoDeleteEdge(r, u)
    BY <1>5 DEF ApplyUndo
  <2> QED BY <1>5, <2>1, UndoDeleteEdgeUndoes
<1>6. CASE u.op = "AddLabel"
  <2>1. ApplyUndo(r, u) = RecRemoveNodeLabel(r, u.id, u.label)
    BY <1>6 DEF ApplyUndo
  <2>2. u.label \in Labels
    BY <1>6 DEF Fits
  <2> QED BY <2>1, <2>2, RecRemoveLabelGoes, GoesUndoes
<1>7. CASE u.op = "RemoveLabel"
  <2>1. ApplyUndo(r, u) = RecAddNodeLabel(r, u.id, u.label)
    BY <1>7 DEF ApplyUndo
  <2>2. u.label \in Labels
    BY <1>7 DEF Fits
  <2> QED BY <2>1, <2>2, RecAddLabelGoes, GoesUndoes
<1>8. CASE u.op = "SetProperty"
  <2>1. ApplyUndo(r, u) = UndoSetProperty(r, u)
    BY <1>8 DEF ApplyUndo
  <2>2. u.node = TRUE \/ u.node = FALSE
    BY <1>8 DEF Fits
  <2>3. CASE u.node = TRUE /\ u.old # <<>>
    <3>1. UndoSetProperty(r, u) = RecSetNodeProperty(r, u.id, u.key, u.old[1])
      BY <2>3 DEF UndoSetProperty
    <3> QED BY <2>1, <3>1, RecSetNodePropertyGoes, GoesUndoes
  <2>4. CASE u.node = TRUE /\ u.old = <<>>
    <3>1. UndoSetProperty(r, u) = RecRemoveNodeProperty(r, u.id, u.key)
      BY <2>4 DEF UndoSetProperty
    <3> QED BY <2>1, <3>1, RecRemoveNodePropertyGoes, GoesUndoes
  <2>5. CASE u.node = FALSE /\ u.old # <<>>
    <3>1. UndoSetProperty(r, u) = RecSetEdgeProperty(r, u.id, u.key, u.old[1])
      BY <2>5 DEF UndoSetProperty
    <3> QED BY <2>1, <3>1, RecSetEdgePropertyGoes, GoesUndoes
  <2>6. CASE u.node = FALSE /\ u.old = <<>>
    <3>1. UndoSetProperty(r, u) = RecRemoveEdgeProperty(r, u.id, u.key)
      BY <2>6 DEF UndoSetProperty
    <3> QED BY <2>1, <3>1, RecRemoveEdgePropertyGoes, GoesUndoes
  <2> QED BY <2>2, <2>3, <2>4, <2>5, <2>6
<1> QED BY <1>1, <1>2, <1>3, <1>4, <1>5, <1>6, <1>7, <1>8 DEF UndoOps

-----------------------------------------------------------------------------
(* Rolling back. f gives, for every n up to m, the recording after the newest *)
(* n records of undo have been applied to g.                                  *)
Unwinds(f, g, undo, m) ==
    f = [n \in 0..m |-> IF n = 0 THEN Recording(g) ELSE ApplyUndo(f[n - 1], undo[Len(undo) + 1 - n])]

LEMMA UnwindsStart ==
    ASSUME NEW g, NEW undo
    PROVE  \E f : Unwinds(f, g, undo, 0)
<1> DEFINE f == [n \in 0..0 |-> Recording(g)]
<1>1. f = [n \in 0..0 |-> IF n = 0 THEN Recording(g) ELSE ApplyUndo(f[n - 1], undo[Len(undo) + 1 - n])]
  OBVIOUS
<1> HIDE DEF f
<1>2. Unwinds(f, g, undo, 0)
  BY <1>1 DEF Unwinds
<1> QED BY <1>2

LEMMA UnwindsNext ==
    ASSUME NEW g, NEW undo, NEW m \in Nat, NEW f, Unwinds(f, g, undo, m)
    PROVE  \E h : Unwinds(h, g, undo, m + 1)
<1> DEFINE last == ApplyUndo(f[(m + 1) - 1], undo[Len(undo) + 1 - (m + 1)])
           h == [n \in 0..(m + 1) |-> IF n = m + 1 THEN last ELSE f[n]]
           F(n) == IF n = 0 THEN Recording(g) ELSE ApplyUndo(h[n - 1], undo[Len(undo) + 1 - n])
<1>1. \A n \in 0..m : h[n] = f[n]
  OBVIOUS
<1>2. h[m + 1] = last
  OBVIOUS
<1>3. \A n \in 0..m : f[n] = IF n = 0 THEN Recording(g) ELSE ApplyUndo(f[n - 1], undo[Len(undo) + 1 - n])
  BY DEF Unwinds
<1>4. h = [n \in 0..(m + 1) |-> h[n]]
  OBVIOUS
<1> HIDE DEF h
<1>5. \A n \in 0..(m + 1) : h[n] = F(n)
  <2> TAKE n \in 0..(m + 1)
  <2>1. CASE n = 0
    BY <2>1, <1>1, <1>3
  <2>2. CASE n \in 1..m
    <3>1. n \in 0..m /\ n - 1 \in 0..m /\ n # 0
      BY <2>2
    <3>2. h[n] = f[n] /\ h[n - 1] = f[n - 1]
      BY <3>1, <1>1
    <3>3. f[n] = ApplyUndo(f[n - 1], undo[Len(undo) + 1 - n])
      BY <3>1, <1>3
    <3> QED BY <3>1, <3>2, <3>3
  <2>3. CASE n = m + 1
    <3>1. n - 1 = m /\ n # 0 /\ m \in 0..m /\ (m + 1) - 1 = m
      BY <2>3
    <3>2. h[n - 1] = f[m]
      BY <3>1, <1>1
    <3> QED BY <2>3, <3>1, <3>2, <1>2
  <2> QED BY <2>1, <2>2, <2>3
<1>6. h = [n \in 0..(m + 1) |-> F(n)]
  BY <1>4, <1>5
<1>7. Unwinds(h, g, undo, m + 1)
  BY <1>6 DEF Unwinds
<1> QED BY <1>7

LEMMA UnwindsExists ==
    ASSUME NEW g, NEW undo, NEW m \in Nat
    PROVE  \E f : Unwinds(f, g, undo, m)
<1> DEFINE T == {n \in Nat : ~ \E f : Unwinds(f, g, undo, n)}
<1>1. T = {}
  <2>1. SUFFICES ASSUME T # {} PROVE FALSE
    OBVIOUS
  <2>2. T \subseteq Nat
    OBVIOUS
  <2>3. PICK n \in T : \A y \in T : n <= y
    <3> HIDE DEF T
    <3> QED BY <2>1, <2>2, NatsHaveLeast
  <2>4. n # 0
    BY UnwindsStart
  <2>5. n - 1 \in Nat /\ n - 1 \notin T
    BY <2>3, <2>4
  <2>6. PICK f : Unwinds(f, g, undo, n - 1)
    BY <2>5
  <2>7. \E h : Unwinds(h, g, undo, (n - 1) + 1)
    BY <2>5, <2>6, UnwindsNext
  <2>8. (n - 1) + 1 = n
    BY <2>5
  <2> QED BY <2>7, <2>8
<1> QED BY <1>1

LEMMA UnwindsIs ==
    ASSUME NEW g, NEW undo, Len(undo) \in Nat
    PROVE  \E f : Unwinds(f, g, undo, Len(undo)) /\ ApplyUndoLog(g, undo) = f[Len(undo)]
<1> DEFINE F(f) == [n \in 0..Len(undo) |-> IF n = 0 THEN Recording(g) ELSE ApplyUndo(f[n - 1], undo[Len(undo) + 1 - n])]
           k == CHOOSE f : f = F(f)
<1>1. \E f : f = F(f)
  <2>1. PICK f : Unwinds(f, g, undo, Len(undo))
    BY UnwindsExists
  <2>2. f = F(f)
    BY <2>1 DEF Unwinds
  <2> QED BY <2>2
<1>2. k = F(k)
  BY <1>1
<1>3. Unwinds(k, g, undo, Len(undo))
  <2> HIDE DEF k
  <2> QED BY <1>2 DEF Unwinds
<1>4. ApplyUndoLog(g, undo) = k[Len(undo)]
  BY DEF ApplyUndoLog
<1> HIDE DEF k
<1> QED BY <1>3, <1>4

LEMMA UnwindsFirst ==
    ASSUME NEW g, NEW undo, NEW m \in Nat, NEW f, Unwinds(f, g, undo, m)
    PROVE  f[0] = Recording(g)
<1>1. \A n \in 0..m : f[n] = IF n = 0 THEN Recording(g) ELSE ApplyUndo(f[n - 1], undo[Len(undo) + 1 - n])
  BY DEF Unwinds
<1> QED BY <1>1

LEMMA UnwindsStep ==
    ASSUME NEW g, NEW undo, NEW m \in Nat, NEW f, Unwinds(f, g, undo, m)
    PROVE  \A n \in 1..m : f[n] = ApplyUndo(f[n - 1], undo[Len(undo) + 1 - n])
<1>1. \A n \in 0..m : f[n] = IF n = 0 THEN Recording(g) ELSE ApplyUndo(f[n - 1], undo[Len(undo) + 1 - n])
  BY DEF Unwinds
<1> QED BY <1>1

(* A whole undo log, applied newest first, conveyed to the followers. The     *)
(* records of other logs still fit.                                           *)
LEMMA UndoLogUndoes ==
    ASSUME NEW g, Good(g), NEW undo, IsSeq(undo), \A i \in 1..Len(undo) : Fits(g, undo[i]),
           \A i, j \in 1..Len(undo) : Clash(undo[i], undo[j]) => i = j,
           NEW s, s = ApplyUndoLog(g, undo)
    PROVE  /\ Good(s.graph) /\ IsSeq(s.wal) /\ Conveys(s.wal, g, s.graph)
           /\ \A v : Fits(g, v) /\ (\A i \in 1..Len(undo) : ~ Clash(undo[i], v)) => Fits(s.graph, v)
<1>1. PICK n : n = Len(undo)
  OBVIOUS
<1>2. n \in Nat
  BY <1>1, SeqAppend
<1>3. PICK f : Unwinds(f, g, undo, n) /\ s = f[n]
  BY <1>1, <1>2, UnwindsIs
<1>4. f[0] = Recording(g)
  BY <1>2, <1>3, UnwindsFirst
<1>5. \A i \in 1..n : f[i] = ApplyUndo(f[i - 1], undo[n + 1 - i])
  BY <1>1, <1>2, <1>3, UnwindsStep
<1> DEFINE Spared(v, i) == \A j \in 1..n : j > n - i => ~ Clash(undo[j], v)
           Fine(i) == /\ IsRec(f[i]) /\ Conveys(f[i].wal, g, f[i].graph)
                      /\ \A v : Fits(g, v) /\ Spared(v, i) => Fits(f[i].graph, v)
           T == {i \in 0..n : ~ Fine(i)}
<1>6. Fine(0)
  <2>1. f[0].graph = g /\ f[0].wal = <<>> /\ f[0].undo = <<>>
    BY <1>4 DEF Recording
  <2>2. IsRec(f[0]) /\ Conveys(f[0].wal, g, f[0].graph)
    BY <2>1, SeqNone, ConveysNothing DEF IsRec
  <2>3. \A v : Fits(g, v) => Fits(f[0].graph, v)
    BY <2>1
  <2> QED BY <2>2, <2>3
<1>7. ASSUME NEW i \in 1..n, Fine(i - 1) PROVE Fine(i)
  <2>1. PICK r : r = f[i - 1]
    OBVIOUS
  <2>2. PICK k \in 1..n : k = n + 1 - i
    <3>1. n + 1 - i \in 1..n
      BY <1>2
    <3> QED BY <3>1
  <2>3. PICK u : u = undo[k]
    OBVIOUS
  <2>4. PICK t : t = f[i]
    OBVIOUS
  <2>5. t = ApplyUndo(r, u)
    BY <1>5, <2>1, <2>2, <2>3, <2>4
  <2>6. IsRec(r) /\ Conveys(r.wal, g, r.graph) /\ \A v : Fits(g, v) /\ Spared(v, i - 1) => Fits(r.graph, v)
    BY <1>7, <2>1
  <2>7. Fits(r.graph, u)
    <3>1. Fits(g, u)
      BY <1>1, <2>3
    <3>2. \A j \in 1..n : j > n - (i - 1) => j # k
      BY <1>2, <2>2
    <3>3. Spared(u, i - 1)
      BY <1>1, <2>3, <3>2
    <3> HIDE DEF Spared
    <3> QED BY <2>6, <3>1, <3>3
  <2>8. Undoes(r, t, u)
    BY <2>5, <2>6, <2>7, ApplyUndoUndoes
  <2>9. PICK w : IsSeq(w) /\ t.wal = r.wal \o w /\ Conveys(w, r.graph, t.graph)
    BY <2>8 DEF Undoes
  <2>10. IsRec(t) /\ \A v : Fits(r.graph, v) /\ ~ Clash(u, v) => Fits(t.graph, v)
    BY <2>8 DEF Undoes
  <2>11. Conveys(t.wal, g, t.graph)
    <3>1. IsSeq(r.wal)
      BY <2>6 DEF IsRec
    <3>2. Conveys(r.wal, g, r.graph)
      BY <2>6
    <3> QED BY <2>9, <3>1, <3>2, ConveysBoth
  <2>12. ASSUME NEW v, Fits(g, v), Spared(v, i) PROVE Fits(t.graph, v)
    <3>1. \A j \in 1..n : j > n - (i - 1) => j > n - i
      BY <1>2
    <3>2. k > n - i
      BY <1>2, <2>2
    <3>3. Spared(v, i - 1)
      BY <2>12, <3>1
    <3>4. ~ Clash(u, v)
      BY <2>3, <2>12, <3>2
    <3> HIDE DEF Spared
    <3>5. Fits(r.graph, v)
      BY <2>6, <2>12, <3>3
    <3> QED BY <2>10, <3>4, <3>5
  <2> HIDE DEF Spared
  <2> QED BY <2>4, <2>10, <2>11, <2>12
<1>8. T = {}
  <2>1. SUFFICES ASSUME T # {} PROVE FALSE
    OBVIOUS
  <2>2. T \subseteq Nat
    BY <1>2
  <2>3. PICK i \in T : \A y \in T : i <= y
    <3> HIDE DEF T
    <3> QED BY <2>1, <2>2, NatsHaveLeast
  <2> HIDE DEF Fine
  <2>4. i \in 1..n
    BY <1>2, <1>6, <2>3
  <2>5. i - 1 \in 0..n /\ i - 1 \notin T
    BY <1>2, <2>3, <2>4
  <2>6. Fine(i - 1)
    BY <2>5
  <2>7. Fine(i)
    BY <1>7, <2>4, <2>6
  <2> QED BY <2>7, <2>3
<1>9. Fine(n)
  <2>1. n \in 0..n
    BY <1>2
  <2> HIDE DEF Fine
  <2> QED BY <1>8, <2>1
<1>10. Good(s.graph) /\ IsSeq(s.wal) /\ Conveys(s.wal, g, s.graph)
  BY <1>3, <1>9 DEF IsRec
<1>11. ASSUME NEW v, Fits(g, v), \A i \in 1..Len(undo) : ~ Clash(undo[i], v) PROVE Fits(s.graph, v)
  <2>1. Spared(v, n)
    BY <1>1, <1>11
  <2> HIDE DEF Spared
  <2> QED BY <1>3, <1>9, <1>11, <2>1
<1> QED BY <1>10, <1>11

-----------------------------------------------------------------------------
(* The undo records that may still be applied: those of the running statement *)
(* at 0, those of transaction t at t.  Each fits the graph and no two of them *)
(* restore the same element.                                                  *)

Logs(ts, gt) == [c \in 0..Len(ts) |-> IF c = 0 THEN gt.undo ELSE ts[c].undo]

AllFit(g, P) == \A c \in DOMAIN P : \A i \in 1..Len(P[c]) : Fits(g, P[c][i])

Apart(P) ==
    \A c, d \in DOMAIN P : \A i \in 1..Len(P[c]) : \A j \in 1..Len(P[d]) :
        Clash(P[c][i], P[d][j]) => c = d /\ i = j

LEMMA NoClash ==
    ASSUME NEW g, NEW u, Present(g, u), NEW v, Fits(g, v)
    PROVE  ~ Clash(u, v) /\ ~ Clash(v, u)
  BY DEF Present, Fits, Clash

LEMMA ConcatAt ==
    ASSUME NEW s, IsSeq(s), NEW t, IsSeq(t), NEW i \in 1..Len(s \o t)
    PROVE  \/ i \in 1..Len(s) /\ (s \o t)[i] = s[i]
           \/ \E j \in 1..Len(t) : i = Len(s) + j /\ (s \o t)[i] = t[j]
<1>1. PICK u : u = s \o t
  OBVIOUS
<1>2. /\ Len(s) \in Nat /\ Len(t) \in Nat /\ Len(u) = Len(s) + Len(t)
      /\ \A k \in 1..Len(s) : u[k] = s[k]
      /\ \A k \in 1..Len(t) : u[Len(s) + k] = t[k]
  BY <1>1, SeqConcat
<1>3. CASE i \in 1..Len(s)
  BY <1>1, <1>2, <1>3
<1>4. CASE i \notin 1..Len(s)
  <2>1. PICK j \in 1..Len(t) : i = Len(s) + j
    <3>1. i - Len(s) \in 1..Len(t) /\ i = Len(s) + (i - Len(s))
      BY <1>1, <1>2, <1>4
    <3> QED BY <3>1
  <2> QED BY <1>1, <1>2, <2>1
<1> QED BY <1>3, <1>4

LEMMA PendingLess ==
    ASSUME NEW g, NEW P, AllFit(g, P), Apart(P), NEW Q,
           \A c \in DOMAIN Q : Q[c] = <<>> \/ (c \in DOMAIN P /\ Q[c] = P[c])
    PROVE  AllFit(g, Q) /\ Apart(Q)
<1>1. \A c \in DOMAIN Q : \A i \in 1..Len(Q[c]) : c \in DOMAIN P /\ Q[c] = P[c]
  BY SeqNone
<1>2. AllFit(g, Q)
  BY <1>1 DEF AllFit
<1>3. Apart(Q)
  BY <1>1 DEF Apart
<1> QED BY <1>2, <1>3

LEMMA PendingMore ==
    ASSUME NEW g, Good(g), NEW h, Good(h), Onward(g, h),
           NEW P, AllFit(g, P), Apart(P), 0 \in DOMAIN P, IsSeq(P[0]), NEW us, IsSeq(us),
           \A i \in 1..Len(us) : Fits(h, us[i]) /\ Present(g, us[i]),
           \A i, j \in 1..Len(us) : i # j => ~ Clash(us[i], us[j]),
           NEW Q, DOMAIN Q = DOMAIN P, Q[0] = P[0] \o us, \A c \in DOMAIN P \ {0} : Q[c] = P[c]
    PROVE  AllFit(h, Q) /\ Apart(Q)
<1> DEFINE Old(c, i) == c \in DOMAIN P /\ i \in 1..Len(P[c]) /\ Q[c][i] = P[c][i]
           New(c, i) == c = 0 /\ \E k \in 1..Len(us) : i = Len(P[0]) + k /\ Q[c][i] = us[k]
<1>1. ASSUME NEW c \in DOMAIN Q, NEW i \in 1..Len(Q[c]) PROVE Old(c, i) \/ New(c, i)
  <2>1. CASE c = 0
    <3>1. i \in 1..Len(P[0] \o us)
      BY <1>1, <2>1
    <3>2. \/ i \in 1..Len(P[0]) /\ (P[0] \o us)[i] = P[0][i]
          \/ \E j \in 1..Len(us) : i = Len(P[0]) + j /\ (P[0] \o us)[i] = us[j]
      BY <3>1, ConcatAt
    <3> QED BY <2>1, <3>2
  <2>2. CASE c # 0
    BY <1>1, <2>2
  <2> QED BY <2>1, <2>2
<1>2. \A c, i : Old(c, i) => Fits(g, Q[c][i]) /\ Fits(h, Q[c][i])
  <2>1. ASSUME NEW c, NEW i, Old(c, i) PROVE Fits(g, Q[c][i]) /\ Fits(h, Q[c][i])
    <3>1. Fits(g, P[c][i])
      BY <2>1 DEF AllFit
    <3>2. Fits(h, P[c][i])
      BY <3>1, FitsOnward
    <3> QED BY <2>1, <3>1, <3>2
  <2> HIDE DEF Old
  <2> QED BY <2>1
<1>3. \A c, i : New(c, i) => Fits(h, Q[c][i]) /\ Present(g, Q[c][i])
  OBVIOUS
<1>4. \A c, i, d, j : New(c, i) /\ New(d, j) /\ Clash(Q[c][i], Q[d][j]) => c = d /\ i = j
  OBVIOUS
<1>5. \A c, i, d, j : Old(c, i) /\ Old(d, j) /\ Clash(Q[c][i], Q[d][j]) => c = d /\ i = j
  BY DEF Apart
<1> HIDE DEF Old, New
<1>6. \A c, i, d, j : Old(c, i) /\ New(d, j) => ~ Clash(Q[c][i], Q[d][j]) /\ ~ Clash(Q[d][j], Q[c][i])
  BY <1>2, <1>3, NoClash
<1>7. AllFit(h, Q)
  BY <1>1, <1>2, <1>3 DEF AllFit
<1>8. ASSUME NEW c \in DOMAIN Q, NEW d \in DOMAIN Q, NEW i \in 1..Len(Q[c]), NEW j \in 1..Len(Q[d]),
             Clash(Q[c][i], Q[d][j])
      PROVE  c = d /\ i = j
  <2>1. (Old(c, i) \/ New(c, i)) /\ (Old(d, j) \/ New(d, j))
    BY <1>1
  <2>2. ~ (Old(c, i) /\ New(d, j)) /\ ~ (New(c, i) /\ Old(d, j))
    BY <1>6, <1>8
  <2>3. CASE Old(c, i) /\ Old(d, j)
    BY <1>5, <1>8, <2>3
  <2>4. CASE New(c, i) /\ New(d, j)
    BY <1>4, <1>8, <2>4
  <2> QED BY <2>1, <2>2, <2>3, <2>4
<1>9. Apart(Q)
  BY <1>8, Zenon DEF Apart
<1> QED BY <1>7, <1>9

LEMMA PendingMoved ==
    ASSUME NEW g, NEW P, AllFit(g, P), Apart(P), 0 \in DOMAIN P, IsSeq(P[0]),
           NEW t \in DOMAIN P, t # 0, IsSeq(P[t]),
           NEW Q, DOMAIN Q = DOMAIN P, Q[0] = <<>>, Q[t] = P[t] \o P[0],
           \A c \in DOMAIN P \ {0, t} : Q[c] = P[c]
    PROVE  AllFit(g, Q) /\ Apart(Q)
<1> DEFINE Old(c, i) == c \in DOMAIN P /\ c # 0 /\ i \in 1..Len(P[c]) /\ Q[c][i] = P[c][i]
           Moved(c, i) == c = t /\ \E k \in 1..Len(P[0]) : i = Len(P[t]) + k /\ Q[c][i] = P[0][k]
<1>1. ASSUME NEW c \in DOMAIN Q, NEW i \in 1..Len(Q[c]) PROVE Old(c, i) \/ Moved(c, i)
  <2>1. CASE c = t
    <3>1. \/ i \in 1..Len(P[t]) /\ (P[t] \o P[0])[i] = P[t][i]
          \/ \E j \in 1..Len(P[0]) : i = Len(P[t]) + j /\ (P[t] \o P[0])[i] = P[0][j]
      BY <1>1, <2>1, ConcatAt
    <3> QED BY <2>1, <3>1
  <2>2. CASE c = 0
    BY <1>1, <2>2, SeqNone
  <2>3. CASE c # 0 /\ c # t
    BY <1>1, <2>3
  <2> QED BY <2>1, <2>2, <2>3
<1>2. \A c, i : Old(c, i) \/ Moved(c, i) => Fits(g, Q[c][i])
  BY DEF AllFit
<1>3. \A c, i, d, j : Old(c, i) /\ Old(d, j) /\ Clash(Q[c][i], Q[d][j]) => c = d /\ i = j
  BY DEF Apart
<1>4. \A c, i, d, j : Moved(c, i) /\ Moved(d, j) /\ Clash(Q[c][i], Q[d][j]) => c = d /\ i = j
  BY DEF Apart
<1>5. \A c, i, d, j : Old(c, i) /\ Moved(d, j) => ~ Clash(Q[c][i], Q[d][j]) /\ ~ Clash(Q[d][j], Q[c][i])
  BY DEF Apart
<1> HIDE DEF Old, Moved
<1>6. AllFit(g, Q)
  BY <1>1, <1>2 DEF AllFit
<1>7. ASSUME NEW c \in DOMAIN Q, NEW d \in DOMAIN Q, NEW i \in 1..Len(Q[c]), NEW j \in 1..Len(Q[d]),
             Clash(Q[c][i], Q[d][j])
      PROVE  c = d /\ i = j
  <2>1. (Old(c, i) \/ Moved(c, i)) /\ (Old(d, j) \/ Moved(d, j))
    BY <1>1
  <2>2. ~ (Old(c, i) /\ Moved(d, j)) /\ ~ (Moved(c, i) /\ Old(d, j))
    BY <1>5, <1>7
  <2>3. CASE Old(c, i) /\ Old(d, j)
    BY <1>3, <1>7, <2>3
  <2>4. CASE Moved(c, i) /\ Moved(d, j)
    BY <1>4, <1>7, <2>4
  <2> QED BY <2>1, <2>2, <2>3, <2>4
<1>8. Apart(Q)
  BY <1>7, Zenon DEF Apart
<1> QED BY <1>6, <1>8

(* What fits g and does not clash with a record of undo fits h too.           *)
Spares(g, h, undo) ==
    \A v : Fits(g, v) /\ (\A i \in 1..Len(undo) : ~ Clash(undo[i], v)) => Fits(h, v)

LEMMA PendingUndone ==
    ASSUME NEW g, NEW h, NEW P, AllFit(g, P), Apart(P), NEW t \in DOMAIN P, Spares(g, h, P[t]),
           NEW Q, DOMAIN Q = DOMAIN P, Q[t] = <<>>, \A c \in DOMAIN P \ {t} : Q[c] = P[c]
    PROVE  AllFit(h, Q) /\ Apart(Q)
<1>1. \A c \in DOMAIN Q : Q[c] = <<>> \/ (c \in DOMAIN P /\ Q[c] = P[c])
  OBVIOUS
<1>2. Apart(Q)
  BY <1>1, PendingLess
<1>3. ASSUME NEW c \in DOMAIN Q, NEW i \in 1..Len(Q[c]) PROVE Fits(h, Q[c][i])
  <2>1. c # t /\ Q[c] = P[c]
    BY <1>3, SeqNone
  <2>2. PICK v : v = P[c][i]
    OBVIOUS
  <2>3. Fits(g, v)
    BY <1>3, <2>1, <2>2 DEF AllFit
  <2>4. \A k \in 1..Len(P[t]) : ~ Clash(P[t][k], v)
    BY <1>3, <2>1, <2>2 DEF Apart
  <2>5. Fits(h, v)
    BY <2>3, <2>4 DEF Spares
  <2> QED BY <2>1, <2>2, <2>5
<1>4. AllFit(h, Q)
  BY <1>3 DEF AllFit
<1> QED BY <1>2, <1>4

-----------------------------------------------------------------------------
(* The state of the server.                                                   *)

LEMMA SeqOfLen ==
    ASSUME NEW f, IsMap(f), NEW n \in Nat, DOMAIN f = 1..n
    PROVE  IsSeq(f) /\ Len(f) = n
<1>1. PICK S : S = {f[i] : i \in 1..n}
  OBVIOUS
<1>2. f \in [1..n -> S]
  BY <1>1 DEF IsMap
<1>3. f \in Seq(S)
  BY <1>2
<1>4. Len(f) = n
  BY <1>2, <1>3
<1> QED BY <1>3, <1>4 DEF IsSeq

LEMMA SeqMap ==
    ASSUME NEW s, IsSeq(s)
    PROVE  IsMap(s) /\ DOMAIN s = 1..Len(s)
<1>1. PICK S : s \in Seq(S)
  BY DEF IsSeq
<1> QED BY <1>1 DEF IsMap

SetAt(s, t, x) == [s EXCEPT ![t] = x]

LEMMA SeqChanged ==
    ASSUME NEW s, IsSeq(s), NEW t \in 1..Len(s), NEW x, NEW r, r = SetAt(s, t, x)
    PROVE  IsSeq(r) /\ Len(r) = Len(s) /\ r[t] = x /\ \A i \in 1..Len(s) \ {t} : r[i] = s[i]
<1>1. IsMap(s) /\ DOMAIN s = 1..Len(s) /\ Len(s) \in Nat
  BY SeqMap, SeqAppend
<1>2. IsMap(r) /\ DOMAIN r = 1..Len(s)
  BY <1>1 DEF IsMap, SetAt
<1>3. r[t] = x /\ \A i \in 1..Len(s) \ {t} : r[i] = s[i]
  BY <1>1 DEF SetAt
<1>4. IsSeq(r) /\ Len(r) = Len(s)
  BY <1>1, <1>2, SeqOfLen
<1> QED BY <1>3, <1>4

(* Emitting the oldest entry of w keeps what l and w are together.            *)
LEMMA EmitKeeps ==
    ASSUME NEW l, IsSeq(l), NEW w, IsSeq(w), w # <<>>
    PROVE  IsSeq(Append(l, Head(w))) /\ IsSeq(Tail(w)) /\ Append(l, Head(w)) \o Tail(w) = l \o w
<1>1. PICK S : l \in Seq(S)
  BY DEF IsSeq
<1>2. PICK T : w \in Seq(T)
  BY DEF IsSeq
<1>3. l \in Seq(S \cup T) /\ w \in Seq(S \cup T)
  BY <1>1, <1>2
<1>4. Head(w) \in S \cup T /\ Tail(w) \in Seq(S \cup T)
  BY <1>3
<1>5. Append(l, Head(w)) \in Seq(S \cup T)
  BY <1>3, <1>4
<1>6. Append(l, Head(w)) \o Tail(w) = l \o w
  <2>1. Append(l, Head(w)) \o Tail(w) \in Seq(S \cup T) /\ l \o w \in Seq(S \cup T)
    BY <1>3, <1>4, <1>5
  <2>2. Len(Append(l, Head(w)) \o Tail(w)) = Len(l \o w)
    BY <1>3, <1>4, <1>5
  <2>3. \A i \in 1..Len(l \o w) : (Append(l, Head(w)) \o Tail(w))[i] = (l \o w)[i]
    BY <1>3, <1>4, <1>5
  <2> QED BY <2>1, <2>2, <2>3, SeqEqual
<1> QED BY <1>4, <1>5, <1>6 DEF IsSeq

TxOK(x) ==
    /\ x = [state |-> x.state, undo |-> x.undo, base |-> x.base, alone |-> x.alone]
    /\ IsSeq(x.undo)
    /\ x.state # "active" => x.undo = <<>>

TxsOK(ts) == IsSeq(ts) /\ \A t \in 1..Len(ts) : TxOK(ts[t])

GateOK(gt, n) ==
    /\ gt = [phase |-> gt.phase, tx |-> gt.tx, wal |-> gt.wal, undo |-> gt.undo]
    /\ gt.phase \in {"free", "executing", "recording", "emitting"}
    /\ gt.tx \in 0..n
    /\ IsSeq(gt.wal) /\ IsSeq(gt.undo)
    /\ gt.phase = "free" => gt = Free
    /\ gt.phase = "recording" => gt.tx # NoTx

(* Graph g is good, it is what the log and the entries still to be emitted    *)
(* make of the loaded database, and every pending undo record fits it.        *)
StateInv(g, ts, gt, l) ==
    /\ TxsOK(ts) /\ GateOK(gt, Len(ts)) /\ IsSeq(l)
    /\ Good(g) /\ Conveys(l \o gt.wal, Loaded, g)
    /\ AllFit(g, Logs(ts, gt)) /\ Apart(Logs(ts, gt))

LEMMA StateParts ==
    ASSUME NEW g, NEW ts, NEW gt, NEW l, StateInv(g, ts, gt, l)
    PROVE  /\ TxsOK(ts) /\ IsSeq(ts) /\ Len(ts) \in Nat /\ GateOK(gt, Len(ts)) /\ IsSeq(l)
           /\ IsSeq(gt.wal) /\ IsSeq(gt.undo)
           /\ Good(g) /\ Conveys(l \o gt.wal, Loaded, g)
           /\ AllFit(g, Logs(ts, gt)) /\ Apart(Logs(ts, gt))
  BY SeqAppend DEF StateInv, TxsOK, GateOK

LEMMA LogsAt ==
    ASSUME NEW ts, NEW gt, Len(ts) \in Nat
    PROVE  /\ DOMAIN Logs(ts, gt) = 0..Len(ts) /\ 0 \in 0..Len(ts)
           /\ Logs(ts, gt)[0] = gt.undo
           /\ \A t \in 1..Len(ts) : t \in 0..Len(ts) /\ t # 0 /\ Logs(ts, gt)[t] = ts[t].undo
           /\ \A c \in 0..Len(ts) : c = 0 \/ c \in 1..Len(ts)
<1>1. 0 \in 0..Len(ts) /\ \A t \in 1..Len(ts) : t \in 0..Len(ts) /\ t # 0
  OBVIOUS
<1>2. \A c \in 0..Len(ts) : c = 0 \/ c \in 1..Len(ts)
  OBVIOUS
<1> QED BY <1>1, <1>2 DEF Logs

(* A step that leaves the graph alone, keeps log and entries together, and    *)
(* keeps or drops whole undo logs.                                            *)
LEMMA QuietStep ==
    ASSUME NEW g, NEW ts, NEW gt, NEW l, StateInv(g, ts, gt, l),
           NEW us, TxsOK(us), NEW hg, GateOK(hg, Len(us)), NEW m, IsSeq(m),
           m \o hg.wal = l \o gt.wal, Len(us) >= Len(ts),
           hg.undo = <<>> \/ hg.undo = gt.undo,
           \A t \in 1..Len(us) : us[t].undo = <<>> \/ (t \in 1..Len(ts) /\ us[t].undo = ts[t].undo)
    PROVE  StateInv(g, us, hg, m)
<1>1. Len(ts) \in Nat /\ Len(us) \in Nat
  BY SeqAppend, StateParts DEF TxsOK
<1>2. PICK P : P = Logs(ts, gt)
  OBVIOUS
<1>3. PICK Q : Q = Logs(us, hg)
  OBVIOUS
<1>4. AllFit(g, P) /\ Apart(P)
  BY <1>2 DEF StateInv
<1>5. /\ DOMAIN P = 0..Len(ts) /\ 0 \in 0..Len(ts) /\ P[0] = gt.undo
      /\ \A t \in 1..Len(ts) : t \in 0..Len(ts) /\ P[t] = ts[t].undo
  BY <1>1, <1>2, LogsAt
<1>6. /\ DOMAIN Q = 0..Len(us) /\ Q[0] = hg.undo
      /\ \A t \in 1..Len(us) : Q[t] = us[t].undo
      /\ \A c \in 0..Len(us) : c = 0 \/ c \in 1..Len(us)
  BY <1>1, <1>3, LogsAt
<1>7. \A c \in DOMAIN Q : Q[c] = <<>> \/ (c \in DOMAIN P /\ Q[c] = P[c])
  BY <1>5, <1>6
<1>8. AllFit(g, Q) /\ Apart(Q)
  BY <1>4, <1>7, PendingLess
<1>9. Good(g) /\ Conveys(m \o hg.wal, Loaded, g)
  BY DEF StateInv
<1> QED BY <1>3, <1>8, <1>9 DEF StateInv

-----------------------------------------------------------------------------
(* The steps of the server, on values: from graph g, transactions ts, gate gt *)
(* and log l.                                                                 *)

LEMMA FreeOK ==
    ASSUME NEW n \in Nat
    PROVE  GateOK(Free, n) /\ Free.undo = <<>> /\ Free.wal = <<>>
<1>1. 0 \in 0..n
  OBVIOUS
<1> QED BY <1>1, SeqNone DEF GateOK, Free, NoTx

LEMMA BeginStep ==
    ASSUME NEW g, NEW ts, NEW gt, NEW l, StateInv(g, ts, gt, l), NEW b, NEW a,
           NEW us, us = Append(ts, [state |-> "active", undo |-> <<>>, base |-> b, alone |-> a])
    PROVE  StateInv(g, us, gt, l)
<1>1. PICK x : x = [state |-> "active", undo |-> <<>>, base |-> b, alone |-> a]
  OBVIOUS
<1>2. TxOK(x) /\ x.undo = <<>>
  BY <1>1, SeqNone DEF TxOK
<1>3. /\ IsSeq(ts) /\ Len(ts) \in Nat /\ TxsOK(ts) /\ GateOK(gt, Len(ts)) /\ IsSeq(l)
  BY StateParts
<1>4. /\ IsSeq(us) /\ Len(us) = Len(ts) + 1 /\ us[Len(ts) + 1] = x
      /\ \A i \in 1..Len(ts) : us[i] = ts[i]
  BY <1>1, <1>3, SeqAppend
<1>5. \A t \in 1..Len(us) : t \in 1..Len(ts) \/ t = Len(ts) + 1
  BY <1>3, <1>4
<1>6. TxsOK(us)
  BY <1>2, <1>3, <1>4, <1>5 DEF TxsOK
<1>7. GateOK(gt, Len(us))
  <2>1. 0..Len(ts) \subseteq 0..Len(us)
    BY <1>3, <1>4
  <2> QED BY <1>3, <2>1 DEF GateOK
<1>8. Len(us) >= Len(ts)
  BY <1>3, <1>4
<1>9. \A t \in 1..Len(us) : us[t].undo = <<>> \/ (t \in 1..Len(ts) /\ us[t].undo = ts[t].undo)
  BY <1>2, <1>4, <1>5
<1> QED BY <1>3, <1>6, <1>7, <1>8, <1>9, QuietStep

(* The gate changes and nothing else does.                                    *)
LEMMA GateStep ==
    ASSUME NEW g, NEW ts, NEW gt, NEW l, StateInv(g, ts, gt, l), NEW hg, GateOK(hg, Len(ts)),
           hg.wal = gt.wal, hg.undo = <<>> \/ hg.undo = gt.undo
    PROVE  StateInv(g, ts, hg, l)
<1>1. Len(ts) \in Nat /\ TxsOK(ts) /\ IsSeq(l)
  BY StateParts
<1>2. Len(ts) >= Len(ts) /\ l \o hg.wal = l \o gt.wal
  BY <1>1
<1> QED BY <1>1, <1>2, QuietStep

GateOf(ph, t, w, u) == [phase |-> ph, tx |-> t, wal |-> w, undo |-> u]

LEMMA GateIs ==
    ASSUME NEW n, NEW ph, ph = "executing" \/ ph = "recording" \/ ph = "emitting", NEW t \in 0..n,
           NEW w, IsSeq(w), NEW u, IsSeq(u), ph = "recording" => t # NoTx
    PROVE  GateOK(GateOf(ph, t, w, u), n) /\ GateOf(ph, t, w, u).wal = w /\ GateOf(ph, t, w, u).undo = u
<1>1. PICK hg : hg = GateOf(ph, t, w, u)
  OBVIOUS
<1>2. hg.phase = ph /\ hg.tx = t /\ hg.wal = w /\ hg.undo = u
  BY <1>1 DEF GateOf
<1>3. hg = [phase |-> hg.phase, tx |-> hg.tx, wal |-> hg.wal, undo |-> hg.undo]
  BY <1>1, <1>2 DEF GateOf
<1>4. ph # "free" /\ ph \in {"free", "executing", "recording", "emitting"}
  OBVIOUS
<1> QED BY <1>1, <1>2, <1>3, <1>4 DEF GateOK

LEMMA StartStep ==
    ASSUME NEW g, NEW ts, NEW l, StateInv(g, ts, Free, l), NEW t \in 0..Len(ts),
           NEW hg, hg = GateOf("executing", t, <<>>, <<>>)
    PROVE  StateInv(g, ts, hg, l)
<1>1. GateOK(hg, Len(ts)) /\ hg.wal = <<>> /\ hg.undo = <<>>
  BY SeqNone, GateIs
<1>2. Free.wal = <<>>
  BY DEF Free
<1> QED BY <1>1, <1>2, GateStep

LEMMA FinishStep ==
    ASSUME NEW g, NEW ts, NEW gt, NEW l, StateInv(g, ts, gt, l),
           NEW hg, \/ gt.tx = NoTx /\ hg = GateOf("emitting", gt.tx, gt.wal, <<>>)
                   \/ gt.tx # NoTx /\ hg = GateOf("recording", gt.tx, gt.wal, gt.undo)
    PROVE  StateInv(g, ts, hg, l)
<1>1. GateOK(gt, Len(ts)) /\ IsSeq(gt.wal) /\ IsSeq(gt.undo)
  BY StateParts
<1>2. gt.tx \in 0..Len(ts)
  BY <1>1 DEF GateOK
<1>3. CASE gt.tx = NoTx /\ hg = GateOf("emitting", gt.tx, gt.wal, <<>>)
  <2>1. GateOK(hg, Len(ts)) /\ hg.wal = gt.wal /\ hg.undo = <<>>
    BY <1>1, <1>2, <1>3, SeqNone, GateIs
  <2> QED BY <2>1, GateStep
<1>4. CASE gt.tx # NoTx /\ hg = GateOf("recording", gt.tx, gt.wal, gt.undo)
  <2>1. PICK ph : ph = "recording"
    OBVIOUS
  <2>2. PICK t : t = gt.tx
    OBVIOUS
  <2>3. t \in 0..Len(ts) /\ t # NoTx /\ hg = GateOf(ph, t, gt.wal, gt.undo)
    BY <1>2, <1>4, <2>1, <2>2
  <2>4. GateOK(hg, Len(ts)) /\ hg.wal = gt.wal /\ hg.undo = gt.undo
    BY <1>1, <2>1, <2>3, GateIs
  <2> QED BY <2>4, GateStep
<1> QED BY <1>3, <1>4

LEMMA ReleaseStep ==
    ASSUME NEW g, NEW ts, NEW gt, NEW l, StateInv(g, ts, gt, l), gt.wal = <<>>
    PROVE  StateInv(g, ts, Free, l)
<1>1. Len(ts) \in Nat
  BY StateParts
<1>2. GateOK(Free, Len(ts)) /\ Free.undo = <<>> /\ Free.wal = <<>>
  BY <1>1, FreeOK
<1> QED BY <1>2, GateStep

(* The gate with the entries v still to be emitted.                           *)
Turns(gt, hg, n, v) == GateOK(hg, n) /\ hg.wal = v /\ hg.undo = gt.undo

LEMMA GateTurns ==
    ASSUME NEW n, NEW gt, GateOK(gt, n), NEW v, IsSeq(v), NEW hg, hg = GateOf("emitting", gt.tx, v, gt.undo)
    PROVE  Turns(gt, hg, n, v)
<1>1. PICK t, u : t = gt.tx /\ u = gt.undo
  OBVIOUS
<1>2. PICK ph : ph = "emitting"
  OBVIOUS
<1>3. t \in 0..n /\ IsSeq(u) /\ ph # "recording"
  BY <1>1, <1>2 DEF GateOK
<1>4. GateOK(GateOf(ph, t, v, u), n) /\ GateOf(ph, t, v, u).wal = v /\ GateOf(ph, t, v, u).undo = u
  BY <1>2, <1>3, GateIs
<1> QED BY <1>1, <1>2, <1>4 DEF Turns

LEMMA EmitStep ==
    ASSUME NEW g, NEW ts, NEW gt, NEW l, StateInv(g, ts, gt, l), gt.wal # <<>>,
           NEW m, m = Append(l, Head(gt.wal)), NEW hg, hg = GateOf("emitting", gt.tx, Tail(gt.wal), gt.undo)
    PROVE  StateInv(g, ts, hg, m)
<1>1. Len(ts) \in Nat /\ TxsOK(ts) /\ GateOK(gt, Len(ts)) /\ IsSeq(l) /\ IsSeq(gt.wal) /\ IsSeq(gt.undo)
  BY StateParts
<1>2. gt.tx \in 0..Len(ts)
  BY <1>1 DEF GateOK
<1>3. PICK w : w = gt.wal
  OBVIOUS
<1>4. IsSeq(w) /\ w # <<>>
  BY <1>1, <1>3
<1>5. IsSeq(Append(l, Head(w))) /\ IsSeq(Tail(w)) /\ Append(l, Head(w)) \o Tail(w) = l \o w
  BY <1>1, <1>4, EmitKeeps
<1>6. PICK v : v = Tail(w)
  OBVIOUS
<1>7. IsSeq(v) /\ hg = GateOf("emitting", gt.tx, v, gt.undo)
  BY <1>3, <1>5, <1>6
<1>8. GateOK(hg, Len(ts)) /\ hg.wal = v /\ hg.undo = gt.undo
  <2>1. Turns(gt, hg, Len(ts), v)
    BY <1>1, <1>7, GateTurns
  <2> QED BY <2>1 DEF Turns
<1>9. m = Append(l, Head(w))
  BY <1>3
<1>10. IsSeq(m) /\ m \o hg.wal = l \o gt.wal
  BY <1>3, <1>5, <1>6, <1>8, <1>9
<1>11. Len(ts) >= Len(ts)
  BY <1>1
<1> QED BY <1>1, <1>8, <1>10, <1>11, QuietStep

LEMMA TxChanged ==
    ASSUME NEW ts, TxsOK(ts), NEW t \in 1..Len(ts), NEW x, TxOK(x), NEW us, us = SetAt(ts, t, x)
    PROVE  TxsOK(us) /\ Len(us) = Len(ts) /\ us[t] = x /\ \A i \in 1..Len(ts) \ {t} : us[i] = ts[i]
<1>1. IsSeq(ts)
  BY DEF TxsOK
<1>2. IsSeq(us) /\ Len(us) = Len(ts) /\ us[t] = x /\ \A i \in 1..Len(ts) \ {t} : us[i] = ts[i]
  BY <1>1, SeqChanged
<1> QED BY <1>2 DEF TxsOK

(* A transaction that has finished, and one that has recorded more.           *)
Finished(x, how) == [state |-> how, undo |-> <<>>, base |-> x.base, alone |-> x.alone]
Longer(x, p) == [state |-> x.state, undo |-> x.undo \o p, base |-> x.base, alone |-> x.alone]

LEMMA FinishedOK ==
    ASSUME NEW x, NEW how, how # "active"
    PROVE  TxOK(Finished(x, how)) /\ Finished(x, how).undo = <<>>
<1>1. /\ Finished(x, how).undo = <<>> /\ Finished(x, how).state = how
      /\ Finished(x, how).base = x.base /\ Finished(x, how).alone = x.alone
  BY DEF Finished
<1>2. TxOK(Finished(x, how))
  BY <1>1, SeqNone DEF TxOK, Finished
<1> QED BY <1>1, <1>2

FinishAt(ts, t, how, u) == [ts EXCEPT ![t].state = how, ![t].undo = u]
LengthenAt(ts, t, p) == [ts EXCEPT ![t].undo = @ \o p]

LEMMA FinishedIs ==
    ASSUME NEW ts, TxsOK(ts), NEW t \in 1..Len(ts), NEW how, NEW u
    PROVE  FinishAt(ts, t, how, u) =
               SetAt(ts, t, [state |-> how, undo |-> u, base |-> ts[t].base, alone |-> ts[t].alone])
<1>1. IsSeq(ts) /\ TxOK(ts[t])
  BY DEF TxsOK
<1>2. IsMap(ts) /\ DOMAIN ts = 1..Len(ts)
  BY <1>1, SeqMap
<1>3. PICK x : x = ts[t]
  OBVIOUS
<1>4. x = [state |-> x.state, undo |-> x.undo, base |-> x.base, alone |-> x.alone]
  BY <1>1, <1>3 DEF TxOK
<1>5. PICK y : y = [state |-> how, undo |-> u, base |-> x.base, alone |-> x.alone]
  OBVIOUS
<1>6. [x EXCEPT !.state = how, !.undo = u] = y
  <2>1. PICK z : z = [x EXCEPT !.state = how, !.undo = u]
    OBVIOUS
  <2>2. DOMAIN z = {"state", "undo", "base", "alone"} /\ z = [k \in DOMAIN z |-> z[k]]
    BY <1>4, <2>1
  <2>3. z["state"] = how /\ z["undo"] = u
    BY <1>4, <2>1
  <2>4. z["base"] = x.base /\ z["alone"] = x.alone
    BY <1>4, <2>1
  <2>5. z = [state |-> how, undo |-> u, base |-> x.base, alone |-> x.alone]
    BY <2>2, <2>3, <2>4
  <2> QED BY <1>5, <2>1, <2>5
<1>7. [ts EXCEPT ![t].state = how, ![t].undo = u] = [ts EXCEPT ![t] = y]
  <2>1. PICK a : a = [ts EXCEPT ![t].state = how, ![t].undo = u]
    OBVIOUS
  <2>2. PICK b : b = [ts EXCEPT ![t] = y]
    OBVIOUS
  <2>3. IsMap(a) /\ IsMap(b) /\ DOMAIN a = 1..Len(ts) /\ DOMAIN b = 1..Len(ts)
    BY <1>2, <2>1, <2>2 DEF IsMap
  <2>4. a[t] = [x EXCEPT !.state = how, !.undo = u]
    BY <1>2, <1>3, <2>1
  <2>5. \A i \in 1..Len(ts) : a[i] = b[i]
    BY <1>2, <1>6, <2>1, <2>2, <2>4
  <2> QED BY <2>1, <2>2, <2>3, <2>5 DEF IsMap
<1> QED BY <1>3, <1>5, <1>7 DEF FinishAt, SetAt

LEMMA LongerOK ==
    ASSUME NEW x, TxOK(x), x.state = "active", NEW p, IsSeq(p)
    PROVE  TxOK(Longer(x, p)) /\ Longer(x, p).undo = x.undo \o p /\ IsSeq(x.undo)
<1>1. IsSeq(x.undo)
  BY DEF TxOK
<1>2. PICK q : q = x.undo \o p
  OBVIOUS
<1>3. IsSeq(q)
  BY <1>1, <1>2, SeqConcat
<1>4. /\ Longer(x, p).undo = q /\ Longer(x, p).state = "active"
      /\ Longer(x, p).base = x.base /\ Longer(x, p).alone = x.alone
  BY <1>2 DEF Longer
<1>5. TxOK(Longer(x, p))
  BY <1>3, <1>4 DEF TxOK, Longer
<1> QED BY <1>1, <1>2, <1>4, <1>5

LEMMA LongerIs ==
    ASSUME NEW ts, TxsOK(ts), NEW t \in 1..Len(ts), NEW p
    PROVE  LengthenAt(ts, t, p) = SetAt(ts, t, Longer(ts[t], p))
<1>1. IsSeq(ts) /\ TxOK(ts[t])
  BY DEF TxsOK
<1>2. IsMap(ts) /\ DOMAIN ts = 1..Len(ts)
  BY <1>1, SeqMap
<1>3. PICK x : x = ts[t]
  OBVIOUS
<1>4. x = [state |-> x.state, undo |-> x.undo, base |-> x.base, alone |-> x.alone]
  BY <1>1, <1>3 DEF TxOK
<1>5. PICK q : q = x.undo \o p
  OBVIOUS
<1>6. [ts EXCEPT ![t].undo = @ \o p] = [ts EXCEPT ![t] = [x EXCEPT !.undo = q]]
  BY <1>2, <1>3, <1>5
<1>7. [x EXCEPT !.undo = q] = Longer(x, p)
  <2>1. [x EXCEPT !.undo = q] = [state |-> x.state, undo |-> q, base |-> x.base, alone |-> x.alone]
    BY <1>4
  <2> QED BY <1>5, <2>1 DEF Longer
<1> QED BY <1>3, <1>6, <1>7 DEF LengthenAt, SetAt

LEMMA CommitStep ==
    ASSUME NEW g, NEW ts, NEW gt, NEW l, StateInv(g, ts, gt, l), NEW t \in 1..Len(ts),
           NEW us, us = SetAt(ts, t, Finished(ts[t], "committed"))
    PROVE  StateInv(g, us, gt, l)
<1>1. Len(ts) \in Nat /\ TxsOK(ts) /\ GateOK(gt, Len(ts)) /\ IsSeq(l)
  BY StateParts
<1>2. PICK x : x = Finished(ts[t], "committed")
  OBVIOUS
<1>3. TxOK(x) /\ x.undo = <<>>
  <2>1. "committed" # "active"
    OBVIOUS
  <2> QED BY <1>2, <2>1, FinishedOK
<1>4. us = SetAt(ts, t, x)
  BY <1>2
<1>5. TxsOK(us) /\ Len(us) = Len(ts) /\ us[t] = x /\ \A i \in 1..Len(ts) \ {t} : us[i] = ts[i]
  BY <1>1, <1>3, <1>4, TxChanged
<1>6. \A i \in 1..Len(us) : us[i].undo = <<>> \/ (i \in 1..Len(ts) /\ us[i].undo = ts[i].undo)
  BY <1>3, <1>5
<1>7. Len(us) >= Len(ts) /\ GateOK(gt, Len(us))
  BY <1>1, <1>5
<1> QED BY <1>1, <1>5, <1>6, <1>7, QuietStep

LEMMA RecordNothingStep ==
    ASSUME NEW g, NEW ts, NEW gt, NEW l, StateInv(g, ts, gt, l),
           NEW hg, hg = GateOf("emitting", gt.tx, gt.wal, <<>>)
    PROVE  StateInv(g, ts, hg, l) /\ GateOK(hg, Len(ts)) /\ hg.wal = gt.wal /\ hg.undo = <<>>
<1>1. GateOK(gt, Len(ts)) /\ IsSeq(gt.wal)
  BY StateParts
<1>2. gt.tx \in 0..Len(ts)
  BY <1>1 DEF GateOK
<1>3. GateOK(hg, Len(ts)) /\ hg.wal = gt.wal /\ hg.undo = <<>>
  BY <1>1, <1>2, SeqNone, GateIs
<1> QED BY <1>3, GateStep

LEMMA RecordStep ==
    ASSUME NEW g, NEW ts, NEW gt, NEW l, StateInv(g, ts, gt, l), NEW t \in 1..Len(ts), ts[t].state = "active",
           NEW hg, GateOK(hg, Len(ts)), hg.wal = gt.wal, hg.undo = <<>>,
           NEW us, us = SetAt(ts, t, Longer(ts[t], gt.undo))
    PROVE  StateInv(g, us, hg, l)
<1>1. /\ Len(ts) \in Nat /\ TxsOK(ts) /\ IsSeq(l) /\ IsSeq(gt.undo) /\ Good(g)
  BY StateParts
<1>2. PICK p : p = gt.undo
  OBVIOUS
<1>3. IsSeq(p)
  BY <1>1, <1>2
<1>4. PICK x : x = Longer(ts[t], p)
  OBVIOUS
<1>5. TxOK(x) /\ x.undo = ts[t].undo \o p /\ IsSeq(ts[t].undo)
  <2>1. TxOK(ts[t])
    BY <1>1 DEF TxsOK
  <2> QED BY <1>3, <1>4, <2>1, LongerOK
<1>6. us = SetAt(ts, t, x)
  BY <1>2, <1>4
<1>7. TxsOK(us) /\ Len(us) = Len(ts) /\ us[t] = x /\ \A i \in 1..Len(ts) \ {t} : us[i] = ts[i]
  BY <1>1, <1>5, <1>6, TxChanged
<1>8. PICK P : P = Logs(ts, gt)
  OBVIOUS
<1>9. PICK Q : Q = Logs(us, hg)
  OBVIOUS
<1>10. AllFit(g, P) /\ Apart(P)
  BY <1>8 DEF StateInv
<1>11. /\ DOMAIN P = 0..Len(ts) /\ 0 \in 0..Len(ts) /\ P[0] = p
       /\ \A c \in 1..Len(ts) : c \in 0..Len(ts) /\ c # 0 /\ P[c] = ts[c].undo
       /\ \A c \in 0..Len(ts) : c = 0 \/ c \in 1..Len(ts)
  BY <1>1, <1>2, <1>8, LogsAt
<1>12. Len(us) \in Nat
  BY <1>1, <1>7
<1>13. /\ DOMAIN Q = 0..Len(us) /\ Q[0] = hg.undo
       /\ \A c \in 1..Len(us) : Q[c] = us[c].undo
  BY <1>9, <1>12, LogsAt
<1>14. DOMAIN Q = DOMAIN P /\ Q[0] = <<>> /\ \A c \in 1..Len(ts) : Q[c] = us[c].undo
  BY <1>7, <1>11, <1>13
<1>15. t \in DOMAIN P /\ t # 0 /\ P[t] = ts[t].undo /\ IsSeq(P[t]) /\ 0 \in DOMAIN P /\ IsSeq(P[0])
  BY <1>3, <1>5, <1>11
<1>16. Q[t] = P[t] \o P[0]
  BY <1>5, <1>7, <1>11, <1>14
<1>17. \A c \in DOMAIN P \ {0, t} : Q[c] = P[c]
  BY <1>7, <1>11, <1>14
<1>18. AllFit(g, Q) /\ Apart(Q)
  BY <1>10, <1>14, <1>15, <1>16, <1>17, PendingMoved
<1>19. Conveys(l \o hg.wal, Loaded, g)
  BY StateParts
<1>20. GateOK(hg, Len(us))
  BY <1>7
<1> QED BY <1>1, <1>7, <1>9, <1>18, <1>19, <1>20 DEF StateInv

LEMMA Written ==
    ASSUME NEW ts, TxsOK(ts), NEW us, IsMap(us), DOMAIN us = 1..Len(ts),
           \A u \in 1..Len(ts) : us[u].undo = ts[u].undo /\ us[u].state = ts[u].state /\ us[u].base = ts[u].base,
           \A u \in 1..Len(ts) :
               us[u] = [state |-> us[u].state, undo |-> us[u].undo, base |-> us[u].base, alone |-> us[u].alone]
    PROVE  TxsOK(us) /\ Len(us) = Len(ts)
<1>1. IsSeq(ts) /\ \A t \in 1..Len(ts) : TxOK(ts[t])
  BY DEF TxsOK
<1>2. Len(ts) \in Nat
  BY <1>1, SeqAppend
<1>3. IsSeq(us) /\ Len(us) = Len(ts)
  BY <1>2, SeqOfLen
<1>4. \A t \in 1..Len(ts) : TxOK(us[t])
  BY <1>1 DEF TxOK
<1> QED BY <1>3, <1>4 DEF TxsOK

(* One recorded mutation.                                                     *)
LEMMA MutateStep ==
    ASSUME NEW g, NEW ts, NEW gt, NEW l, StateInv(g, ts, gt, l),
           NEW r, r.graph = g, r.wal = gt.wal, r.undo = gt.undo, NEW s, Goes(r, s),
           NEW us, TxsOK(us), Len(us) = Len(ts), \A t \in 1..Len(ts) : us[t].undo = ts[t].undo,
           NEW hg, hg = GateOf("executing", gt.tx, s.wal, s.undo)
    PROVE  StateInv(s.graph, us, hg, l)
<1>1. /\ Len(ts) \in Nat /\ TxsOK(ts) /\ GateOK(gt, Len(ts)) /\ IsSeq(l) /\ IsSeq(gt.wal) /\ IsSeq(gt.undo)
      /\ Good(g) /\ Conveys(l \o gt.wal, Loaded, g)
  BY StateParts
<1>2. PICK h : h = s.graph
  OBVIOUS
<1>3. Good(h) /\ Onward(g, h)
  BY <1>2 DEF Goes
<1>4. PICK w, vs : Adds(r, s, w, vs)
  BY DEF Goes
<1>5. /\ IsSeq(w) /\ IsSeq(vs) /\ s.wal = gt.wal \o w /\ s.undo = gt.undo \o vs /\ Conveys(w, g, h)
      /\ \A i \in 1..Len(vs) : Fits(h, vs[i]) /\ Present(g, vs[i])
      /\ \A i, j \in 1..Len(vs) : i # j => ~ Clash(vs[i], vs[j])
  BY <1>2, <1>4 DEF Adds
<1>6. PICK a : a = gt.wal \o w
  OBVIOUS
<1>7. PICK b : b = gt.undo \o vs
  OBVIOUS
<1>8. IsSeq(a) /\ IsSeq(b)
  BY <1>1, <1>5, <1>6, <1>7, SeqConcat
<1>9. GateOK(hg, Len(us)) /\ hg.wal = a /\ hg.undo = b
  <2>1. PICK t : t = gt.tx
    OBVIOUS
  <2>2. t \in 0..Len(us)
    BY <1>1, <2>1 DEF GateOK
  <2>3. PICK ph : ph = "executing"
    OBVIOUS
  <2>4. hg = GateOf(ph, t, a, b)
    BY <1>5, <1>6, <1>7, <2>1, <2>3
  <2>5. ph = "executing" /\ ph # "recording"
    BY <2>3
  <2>6. GateOK(GateOf(ph, t, a, b), Len(us)) /\ GateOf(ph, t, a, b).wal = a /\ GateOf(ph, t, a, b).undo = b
    BY <1>8, <2>2, <2>5, GateIs
  <2> QED BY <2>4, <2>6
<1>10. Conveys(l \o hg.wal, Loaded, h)
  <2>1. PICK m : m = l \o gt.wal
    OBVIOUS
  <2>2. IsSeq(m)
    BY <1>1, <2>1, SeqConcat
  <2>3. Conveys(m \o w, Loaded, h)
    BY <1>1, <1>5, <2>1, <2>2, ConveysBoth
  <2>4. m \o w = l \o a
    <3>1. PICK v : v = gt.wal
      OBVIOUS
    <3>2. IsSeq(l) /\ IsSeq(v) /\ IsSeq(w)
      BY <1>1, <1>5, <3>1
    <3>3. (l \o v) \o w = l \o (v \o w)
      <4>1. Then(Then(l, v), w) = Then(l, Then(v, w))
        BY <3>2, ThenAssoc
      <4> QED BY <4>1 DEF Then
    <3> QED BY <1>6, <2>1, <3>1, <3>3
  <2> QED BY <1>9, <2>3, <2>4
<1>11. PICK P : P = Logs(ts, gt)
  OBVIOUS
<1>12. PICK Q : Q = Logs(us, hg)
  OBVIOUS
<1>13. AllFit(g, P) /\ Apart(P)
  BY <1>11 DEF StateInv
<1>14. /\ DOMAIN P = 0..Len(ts) /\ 0 \in 0..Len(ts) /\ P[0] = gt.undo
       /\ \A c \in 1..Len(ts) : P[c] = ts[c].undo
       /\ \A c \in 0..Len(ts) : c = 0 \/ c \in 1..Len(ts)
  BY <1>1, <1>11, LogsAt
<1>15. DOMAIN Q = 0..Len(us) /\ Q[0] = hg.undo /\ \A c \in 1..Len(us) : Q[c] = us[c].undo
  <2>1. Len(us) \in Nat
    BY <1>1
  <2> QED BY <1>12, <2>1, LogsAt
<1>16. /\ DOMAIN Q = DOMAIN P /\ 0 \in DOMAIN P /\ IsSeq(P[0]) /\ Q[0] = P[0] \o vs
  BY <1>1, <1>7, <1>9, <1>14, <1>15
<1>17. \A c \in DOMAIN P \ {0} : Q[c] = P[c]
  BY <1>14, <1>15
<1>18. \A i \in 1..Len(vs) : Fits(h, vs[i]) /\ Present(g, vs[i])
  BY <1>5
<1>19. \A i, j \in 1..Len(vs) : i # j => ~ Clash(vs[i], vs[j])
  BY <1>5
<1>20. IsSeq(vs)
  BY <1>5
<1>21. AllFit(h, Q) /\ Apart(Q)
  BY <1>1, <1>3, <1>13, <1>16, <1>17, <1>18, <1>19, <1>20, PendingMore
<1> QED BY <1>1, <1>2, <1>3, <1>9, <1>10, <1>12, <1>21 DEF StateInv

(* Rollback: the undo log of t is applied, newest first.                      *)
LEMMA RollbackStep ==
    ASSUME NEW g, NEW ts, NEW l, StateInv(g, ts, Free, l), NEW t \in 1..Len(ts),
           NEW s, s = ApplyUndoLog(g, ts[t].undo),
           NEW us, TxsOK(us), Len(us) = Len(ts), us[t].undo = <<>>,
           \A i \in 1..Len(ts) \ {t} : us[i].undo = ts[i].undo,
           NEW hg, hg = GateOf("emitting", 0, s.wal, <<>>)
    PROVE  StateInv(s.graph, us, hg, l)
<1>1. /\ Len(ts) \in Nat /\ TxsOK(ts) /\ IsSeq(l) /\ Good(g) /\ Conveys(l \o Free.wal, Loaded, g)
  BY StateParts
<1>2. PICK P : P = Logs(ts, Free)
  OBVIOUS
<1>3. PICK Q : Q = Logs(us, hg)
  OBVIOUS
<1>4. AllFit(g, P) /\ Apart(P)
  BY <1>2 DEF StateInv
<1>5. /\ DOMAIN P = 0..Len(ts) /\ P[0] = Free.undo
      /\ \A c \in 1..Len(ts) : c \in 0..Len(ts) /\ c # 0 /\ P[c] = ts[c].undo
      /\ \A c \in 0..Len(ts) : c = 0 \/ c \in 1..Len(ts)
  BY <1>1, <1>2, LogsAt
<1>6. Free.wal = <<>> /\ Free.undo = <<>>
  BY DEF Free
<1>7. t \in DOMAIN P /\ t # 0 /\ P[t] = ts[t].undo
  BY <1>5
<1>8. PICK undo : undo = P[t]
  OBVIOUS
<1>9. IsSeq(undo) /\ s = ApplyUndoLog(g, undo)
  BY <1>1, <1>7, <1>8 DEF TxsOK, TxOK
<1>10. \A i \in 1..Len(undo) : Fits(g, undo[i])
  BY <1>4, <1>7, <1>8 DEF AllFit
<1>11. \A i, j \in 1..Len(undo) : Clash(undo[i], undo[j]) => i = j
  BY <1>4, <1>7, <1>8 DEF Apart
<1>12. /\ Good(s.graph) /\ IsSeq(s.wal) /\ Conveys(s.wal, g, s.graph)
       /\ \A v : Fits(g, v) /\ (\A i \in 1..Len(undo) : ~ Clash(undo[i], v)) => Fits(s.graph, v)
  BY <1>1, <1>9, <1>10, <1>11, UndoLogUndoes
<1>13. PICK h : h = s.graph
  OBVIOUS
<1>14. PICK w : w = s.wal
  OBVIOUS
<1>15. Good(h) /\ IsSeq(w) /\ Conveys(w, g, h)
  BY <1>12, <1>13, <1>14
<1>16. GateOK(hg, Len(us)) /\ hg.wal = w /\ hg.undo = <<>>
  <2>1. 0 \in 0..Len(us)
    BY <1>1
  <2>2. hg = GateOf("emitting", 0, w, <<>>)
    BY <1>14
  <2> QED BY <1>15, <2>1, <2>2, SeqNone, GateIs
<1>17. Conveys(l \o hg.wal, Loaded, h)
  <2>1. l \o <<>> = l
    BY <1>1, SeqNothingMore
  <2>2. Conveys(l, Loaded, g)
    BY <1>1, <1>6, <2>1
  <2> QED BY <1>1, <1>15, <1>16, <2>2, ConveysBoth
<1>18. DOMAIN Q = 0..Len(us) /\ Q[0] = hg.undo /\ \A c \in 1..Len(us) : Q[c] = us[c].undo
  <2>1. Len(us) \in Nat
    BY <1>1
  <2> QED BY <1>3, <2>1, LogsAt
<1>19. DOMAIN Q = DOMAIN P /\ Q[t] = <<>>
  BY <1>5, <1>18
<1>20. \A c \in DOMAIN P \ {t} : Q[c] = P[c]
  BY <1>5, <1>6, <1>16, <1>18
<1>21. Spares(g, h, P[t])
  BY <1>8, <1>12, <1>13 DEF Spares
<1>22. AllFit(h, Q) /\ Apart(Q)
  BY <1>4, <1>7, <1>19, <1>20, <1>21, PendingUndone
<1> QED BY <1>1, <1>3, <1>13, <1>15, <1>16, <1>17, <1>22 DEF StateInv

(* WriteBy(t) on values.                                                      *)
WrittenBy(ts, t) == [u \in 1..Len(ts) |-> [ts[u] EXCEPT !.alone = @ /\ u = t]]

LEMMA WrittenIs ==
    ASSUME NEW ts, TxsOK(ts), NEW t, NEW us, us = WrittenBy(ts, t)
    PROVE  TxsOK(us) /\ Len(us) = Len(ts) /\ \A u \in 1..Len(ts) : us[u].undo = ts[u].undo
<1>1. IsMap(us) /\ DOMAIN us = 1..Len(ts)
  BY DEF IsMap, WrittenBy
<1>2. ASSUME NEW u \in 1..Len(ts)
      PROVE  /\ us[u].undo = ts[u].undo /\ us[u].state = ts[u].state /\ us[u].base = ts[u].base
             /\ us[u] = [state |-> us[u].state, undo |-> us[u].undo, base |-> us[u].base, alone |-> us[u].alone]
  <2>1. PICK x : x = ts[u]
    OBVIOUS
  <2>2. x = [state |-> x.state, undo |-> x.undo, base |-> x.base, alone |-> x.alone]
    BY <2>1 DEF TxsOK, TxOK
  <2>3. PICK a : a = (x.alone /\ u = t)
    OBVIOUS
  <2>4. PICK y : y = us[u]
    OBVIOUS
  <2>5. y = [x EXCEPT !.alone = a]
    BY <2>1, <2>3, <2>4 DEF WrittenBy
  <2>6. y = [state |-> x.state, undo |-> x.undo, base |-> x.base, alone |-> a]
    BY <2>2, <2>5
  <2>7. y.state = x.state /\ y.undo = x.undo /\ y.base = x.base /\ y.alone = a
    BY <2>6
  <2> QED BY <2>1, <2>4, <2>6, <2>7
<1>3. TxsOK(us) /\ Len(us) = Len(ts)
  BY <1>1, <1>2, Written
<1> QED BY <1>2, <1>3

-----------------------------------------------------------------------------
(* The loaded database is a good graph and mirrors itself.                    *)

Calm(g) == Good(g) /\ Mirrors(g, g)

LEMMA CalmEmpty == Calm(EmptyGraph)
<1>1. IsMap(Empty) /\ DOMAIN Empty = {}
  BY DEF IsMap, Empty
<1>2. PICK g : g = EmptyGraph
  OBVIOUS
<1>3. /\ Shape(g) /\ g.nodes = Empty /\ g.edges = Empty /\ g.out = Empty /\ g.inc = Empty
      /\ g.index = [l \in Labels |-> {}] /\ g.nextNode = 0 /\ g.nextEdge = 0
  BY <1>2 DEF EmptyGraph, Shape
<1>4. NodesWell(g.nodes, g.nextNode) /\ EdgesWell(g.edges, g.nextEdge, DOMAIN g.nodes)
  BY <1>1, <1>3 DEF NodesWell, EdgesWell
<1>5. DOMAIN Sources(g.edges) = {} /\ DOMAIN Targets(g.edges) = {} /\ DOMAIN LabelSets(g.nodes) = {}
  BY <1>1, <1>3 DEF Sources, Targets, LabelSets
<1>6. AdjWell(g.out, DOMAIN g.nodes, Sources(g.edges)) /\ AdjWell(g.inc, DOMAIN g.nodes, Targets(g.edges))
  BY <1>1, <1>3 DEF AdjWell
<1>7. IndexWell(g.index, LabelSets(g.nodes))
  BY <1>3, <1>5 DEF IndexWell, IsMap
<1>8. Good(g)
  BY <1>3, <1>4, <1>6, <1>7 DEF Good
<1>9. Mirrors(g, g)
  BY <1>1, <1>3 DEF Mirrors, NodesMirror, EdgesMirror
<1> QED BY <1>2, <1>8, <1>9 DEF Calm

LEMMA CalmSent ==
    ASSUME NEW g, Calm(g), NEW w, NEW i, i = ApplyWal(g, w), Sends(w, g, i)
    PROVE  Calm(i)
  BY DEF Calm, Sends

LEMMA CalmCreateNode ==
    ASSUME NEW g, Calm(g), NEW ls \in Seq(Labels), NEW i, i = CreateNodeWithLabels(g, ls)
    PROVE  Calm(i)
<1>1. Good(g)
  BY DEF Calm
<1>2. PICK n : n = g.nextNode
  OBVIOUS
<1>3. n \in Nat /\ n \notin DOMAIN g.nodes /\ i = CreateNodeWithId(g, n, ls)
  BY <1>1, <1>2, NewNodeIs
<1>4. Sends(CreateNodeEntry(n, ls), g, i)
  BY <1>1, <1>3, SendsCreateNode
<1>5. i = ApplyWal(g, CreateNodeEntry(n, ls))
  BY <1>3, ApplyCreateNode
<1> QED BY <1>4, <1>5, CalmSent

LEMMA CalmCreateEdge ==
    ASSUME NEW g, Calm(g), NEW from, NEW to, NEW i, i = CreateEdge(g, from, to)
    PROVE  Calm(i)
<1>1. Good(g)
  BY DEF Calm
<1>2. CASE ~ EndpointsExist(g, from, to)
  BY <1>2 DEF CreateEdge
<1>3. CASE EndpointsExist(g, from, to)
  <2>1. PICK e : e = g.nextEdge
    OBVIOUS
  <2>2. e \in Nat /\ e \notin DOMAIN g.edges /\ i = CreateEdgeWithId(g, e, from, to)
    BY <1>1, <1>3, <2>1, NewEdgeIs
  <2>3. from \in DOMAIN g.nodes /\ to \in DOMAIN g.nodes
    BY <1>3 DEF EndpointsExist, HasNode
  <2>4. Sends(CreateEdgeEntry(e, from, to), g, i)
    BY <1>1, <2>2, <2>3, SendsCreateEdge
  <2>5. i = ApplyWal(g, CreateEdgeEntry(e, from, to))
    BY <2>2, ApplyCreateEdge
  <2> QED BY <2>4, <2>5, CalmSent
<1> QED BY <1>2, <1>3

LEMMA CalmSetNodeProperty ==
    ASSUME NEW g, Calm(g), NEW n, NEW k, NEW v, WalRoundTrip(v) = v, NEW i, i = SetNodeProperty(g, n, k, v)
    PROVE  Calm(i)
<1>1. Good(g)
  BY DEF Calm
<1>2. CASE n \notin DOMAIN g.nodes
  BY <1>2 DEF SetNodeProperty, HasNode
<1>3. CASE n \in DOMAIN g.nodes
  <2>1. Sends(SetPropEntry(TRUE, n, k, v), g, i)
    BY <1>1, <1>3, SendsSetNodeProperty
  <2>2. i = ApplyWal(g, SetPropEntry(TRUE, n, k, v))
    BY ApplySetNodeProperty
  <2> QED BY <2>1, <2>2, CalmSent
<1> QED BY <1>2, <1>3

LEMMA CalmSetEdgeProperty ==
    ASSUME NEW g, Calm(g), NEW e, NEW k, NEW v, WalRoundTrip(v) = v, NEW i, i = SetEdgeProperty(g, e, k, v)
    PROVE  Calm(i)
<1>1. Good(g)
  BY DEF Calm
<1>2. CASE e \notin DOMAIN g.edges
  BY <1>2 DEF SetEdgeProperty, HasEdge
<1>3. CASE e \in DOMAIN g.edges
  <2>1. Sends(SetPropEntry(FALSE, e, k, v), g, i)
    BY <1>1, <1>3, SendsSetEdgeProperty
  <2>2. i = ApplyWal(g, SetPropEntry(FALSE, e, k, v))
    BY ApplySetEdgeProperty
  <2> QED BY <2>1, <2>2, CalmSent
<1> QED BY <1>2, <1>3

LEMMA CalmLoaded == Calm(Loaded)
<1>1. PICK k : k = CHOOSE x \in Keys : TRUE
  OBVIOUS
<1>2. PICK v : v = CHOOSE x \in PlainValues : TRUE
  OBVIOUS
<1>3. v \in PlainValues
  BY <1>2, ValuesAssumption
<1>4. WalRoundTrip(v) = v
  BY <1>3, ValuesAssumption DEF WalRoundTrip
<1>5. SetToSeq(Labels) \in Seq(Labels) /\ <<>> \in Seq(Labels)
  BY LabelsAssumption, SetToSeqIs
<1>6. PICK a : a = CreateNodeWithLabels(EmptyGraph, SetToSeq(Labels))
  OBVIOUS
<1>7. Calm(a)
  BY <1>5, <1>6, CalmEmpty, CalmCreateNode
<1>8. PICK b : b = CreateNodeWithLabels(a, <<>>)
  OBVIOUS
<1>9. Calm(b)
  BY <1>5, <1>7, <1>8, CalmCreateNode
<1>10. PICK c : c = CreateEdge(b, 0, 1)
  OBVIOUS
<1>11. Calm(c)
  BY <1>9, <1>10, CalmCreateEdge
<1>12. PICK d : d = SetNodeProperty(c, 0, k, v)
  OBVIOUS
<1>13. Calm(d)
  BY <1>4, <1>11, <1>12, CalmSetNodeProperty
<1>14. PICK e : e = SetEdgeProperty(d, 0, k, v)
  OBVIOUS
<1>15. Calm(e)
  BY <1>4, <1>13, <1>14, CalmSetEdgeProperty
<1>16. Loaded = e
  BY <1>1, <1>2, <1>6, <1>8, <1>10, <1>12, <1>14 DEF Loaded
<1> QED BY <1>15, <1>16

LEMMA StateStart ==
    StateInv(Loaded, <<>>, Free, <<>>)
<1>1. PICK g : g = Loaded
  OBVIOUS
<1>2. PICK none : none = <<>>
  OBVIOUS
<1>3. IsSeq(none) /\ Len(none) = 0
  BY <1>2, SeqNone
<1>4. Good(g)
  BY <1>1, CalmLoaded DEF Calm
<1>5. TxsOK(none)
  BY <1>3 DEF TxsOK
<1>6. GateOK(Free, Len(none)) /\ Free.wal = none /\ Free.undo = none
  BY <1>2, <1>3, FreeOK
<1>7. none \o Free.wal = none
  BY <1>2, <1>3, <1>6, SeqNothingMore
<1>8. Conveys(none \o Free.wal, Loaded, g)
  BY <1>1, <1>2, <1>7, ConveysNothing
<1>9. PICK P : P = Logs(none, Free)
  OBVIOUS
<1>10. \A c \in DOMAIN P : P[c] = none
  BY <1>3, <1>6, <1>9 DEF Logs
<1>11. \A c \in DOMAIN P : \A i \in 1..Len(P[c]) : FALSE
  BY <1>3, <1>10
<1>12. AllFit(g, P) /\ Apart(P)
  BY <1>11 DEF AllFit, Apart
<1> QED BY <1>1, <1>2, <1>3, <1>4, <1>5, <1>6, <1>8, <1>9, <1>12 DEF StateInv

-----------------------------------------------------------------------------
(* A good graph that mirrors g has the contents of g as the WAL conveys them. *)

LEMMA MirrorNodes ==
    ASSUME NEW h, Good(h), NEW g, Good(g), Mirrors(h, g)
    PROVE  h.nodes = [n \in DOMAIN g.nodes |-> WalElement(g.nodes[n])]
<1>1. IsMap(h.nodes) /\ DOMAIN h.nodes = DOMAIN g.nodes
  BY DEF Good, NodesWell, Mirrors, NodesMirror
<1>2. ASSUME NEW n \in DOMAIN g.nodes PROVE h.nodes[n] = WalElement(g.nodes[n])
  <2>1. PICK x : x = h.nodes[n]
    OBVIOUS
  <2>2. PICK y : y = g.nodes[n]
    OBVIOUS
  <2>3. x = NodeOf(x.labels, x.props) /\ y = NodeOf(y.labels, y.props)
    BY <1>1, <1>2, <2>1, <2>2 DEF Good, NodesWell, NodeOK
  <2>4. x.labels = y.labels /\ x.props = WalProps(y.props)
    BY <1>2, <2>1, <2>2 DEF Mirrors, NodesMirror, NodeMirror
  <2>5. PICK q : q = WalProps(y.props)
    OBVIOUS
  <2>6. [y EXCEPT !.props = q] = NodeOf(y.labels, q)
    BY <2>3 DEF NodeOf
  <2>7. x = NodeOf(y.labels, q)
    BY <2>3, <2>4, <2>5
  <2> QED BY <2>1, <2>2, <2>5, <2>6, <2>7 DEF WalElement
<1> QED BY <1>1, <1>2 DEF IsMap

LEMMA MirrorEdges ==
    ASSUME NEW h, Good(h), NEW g, Good(g), Mirrors(h, g)
    PROVE  h.edges = [e \in DOMAIN g.edges |-> WalElement(g.edges[e])]
<1>1. IsMap(h.edges) /\ DOMAIN h.edges = DOMAIN g.edges
  BY DEF Good, EdgesWell, Mirrors, EdgesMirror
<1>2. ASSUME NEW e \in DOMAIN g.edges PROVE h.edges[e] = WalElement(g.edges[e])
  <2>1. PICK x : x = h.edges[e]
    OBVIOUS
  <2>2. PICK y : y = g.edges[e]
    OBVIOUS
  <2>3. x = EdgeOf(x.from, x.to, x.props) /\ y = EdgeOf(y.from, y.to, y.props)
    BY <1>1, <1>2, <2>1, <2>2 DEF Good, EdgesWell, EdgeOK
  <2>4. x.from = y.from /\ x.to = y.to /\ x.props = WalProps(y.props)
    BY <1>2, <2>1, <2>2 DEF Mirrors, EdgesMirror, EdgeMirror
  <2>5. PICK q : q = WalProps(y.props)
    OBVIOUS
  <2>6. [y EXCEPT !.props = q] = EdgeOf(y.from, y.to, q)
    BY <2>3 DEF EdgeOf
  <2>7. x = EdgeOf(y.from, y.to, q)
    BY <2>3, <2>4, <2>5
  <2> QED BY <2>1, <2>2, <2>5, <2>6, <2>7 DEF WalElement
<1> QED BY <1>1, <1>2 DEF IsMap

LEMMA AdjSame ==
    ASSUME NEW O, NEW Q, NEW D, NEW F, AdjWell(O, D, F), AdjWell(Q, D, F)
    PROVE  O = Q
<1>1. IsMap(O) /\ IsMap(Q) /\ DOMAIN O = DOMAIN Q /\ \A n \in DOMAIN O : O[n] = Q[n]
  BY DEF AdjWell
<1> QED BY <1>1, MapsEqual

LEMMA IndexSame ==
    ASSUME NEW X, NEW Y, NEW L, IndexWell(X, L), IndexWell(Y, L)
    PROVE  X = Y
<1>1. IsMap(X) /\ IsMap(Y) /\ DOMAIN X = DOMAIN Y /\ \A l \in DOMAIN X : X[l] = Y[l]
  BY DEF IndexWell
<1> QED BY <1>1, MapsEqual

LEMMA MirrorContents ==
    ASSUME NEW h, Good(h), NEW g, Good(g), Mirrors(h, g)
    PROVE  Contents(h) = Contents(WalImage(g))
<1>1. DOMAIN h.nodes = DOMAIN g.nodes /\ DOMAIN h.edges = DOMAIN g.edges
  BY DEF Mirrors, NodesMirror, EdgesMirror
<1>2. Sources(h.edges) = Sources(g.edges) /\ Targets(h.edges) = Targets(g.edges)
  BY <1>1 DEF Sources, Targets, Mirrors, EdgesMirror, EdgeMirror
<1>3. LabelSets(h.nodes) = LabelSets(g.nodes)
  BY <1>1 DEF LabelSets, Mirrors, NodesMirror, NodeMirror
<1>4. PICK D : D = DOMAIN g.nodes
  OBVIOUS
<1>5. h.out = g.out
  <2>1. PICK F : F = Sources(g.edges)
    OBVIOUS
  <2>2. AdjWell(h.out, D, F) /\ AdjWell(g.out, D, F)
    BY <1>1, <1>2, <1>4, <2>1 DEF Good
  <2> QED BY <2>2, AdjSame
<1>6. h.inc = g.inc
  <2>1. PICK F : F = Targets(g.edges)
    OBVIOUS
  <2>2. AdjWell(h.inc, D, F) /\ AdjWell(g.inc, D, F)
    BY <1>1, <1>2, <1>4, <2>1 DEF Good
  <2> QED BY <2>2, AdjSame
<1>7. h.index = g.index
  <2>1. PICK L : L = LabelSets(g.nodes)
    OBVIOUS
  <2>2. IndexWell(h.index, L) /\ IndexWell(g.index, L)
    BY <1>3, <2>1 DEF Good
  <2> QED BY <2>2, IndexSame
<1>8. PICK N : N = [n \in DOMAIN g.nodes |-> WalElement(g.nodes[n])]
  OBVIOUS
<1>9. PICK E : E = [e \in DOMAIN g.edges |-> WalElement(g.edges[e])]
  OBVIOUS
<1>10. h.nodes = N /\ h.edges = E
  BY <1>8, <1>9, MirrorNodes, MirrorEdges
<1>11. PICK i : i = WalImage(g)
  OBVIOUS
<1>12. Shape(g)
  BY DEF Good
<1>13. i.nodes = N
  <2>1. IsMap(i.nodes) /\ DOMAIN i.nodes = DOMAIN g.nodes
    BY <1>11, <1>12 DEF WalImage, Shape, IsMap
  <2>2. \A x \in DOMAIN g.nodes : i.nodes[x] = WalElement(g.nodes[x])
    BY <1>11, <1>12 DEF WalImage, Shape
  <2>3. \A x \in DOMAIN g.nodes : N[x] = WalElement(g.nodes[x])
    BY <1>8
  <2>4. IsMap(N) /\ DOMAIN N = DOMAIN g.nodes
    BY <1>8 DEF IsMap
  <2>5. \A x \in DOMAIN i.nodes : i.nodes[x] = N[x]
    BY <2>1, <2>2, <2>3
  <2> QED BY <2>1, <2>4, <2>5, MapsEqual
<1>14. i.edges = E
  <2>1. IsMap(i.edges) /\ DOMAIN i.edges = DOMAIN g.edges
    BY <1>11, <1>12 DEF WalImage, Shape, IsMap
  <2>2. \A x \in DOMAIN g.edges : i.edges[x] = WalElement(g.edges[x])
    BY <1>11, <1>12 DEF WalImage, Shape
  <2>3. \A x \in DOMAIN g.edges : E[x] = WalElement(g.edges[x])
    BY <1>9
  <2>4. IsMap(E) /\ DOMAIN E = DOMAIN g.edges
    BY <1>9 DEF IsMap
  <2>5. \A x \in DOMAIN i.edges : i.edges[x] = E[x]
    BY <2>1, <2>2, <2>3
  <2> QED BY <2>1, <2>4, <2>5, MapsEqual
<1>15. i.out = g.out /\ i.inc = g.inc /\ i.index = g.index
  BY <1>11, <1>12 DEF WalImage, Shape
<1> QED BY <1>5, <1>6, <1>7, <1>10, <1>11, <1>13, <1>14, <1>15 DEF Contents

LEMMA StateMirrored ==
    ASSUME NEW g, NEW ts, NEW gt, NEW l, StateInv(g, ts, gt, l)
    PROVE  Contents(Replay(Replay(Loaded, l), gt.wal)) = Contents(WalImage(g))
<1>1. IsSeq(l) /\ IsSeq(gt.wal) /\ Good(g) /\ Conveys(l \o gt.wal, Loaded, g)
  BY StateParts
<1>2. PICK h : h = Loaded
  OBVIOUS
<1>3. Good(h) /\ Mirrors(h, h)
  BY <1>2, CalmLoaded DEF Calm
<1>4. PICK w : w = gt.wal
  OBVIOUS
<1>5. IsSeq(w) /\ Conveys(l \o w, h, g)
  BY <1>1, <1>2, <1>4
<1>6. PICK q : q = l \o w
  OBVIOUS
<1>7. IsSeq(q)
  BY <1>1, <1>5, <1>6, SeqConcat
<1>8. AllGood(h, q) /\ Mirrors(Replay(h, q), g)
  BY <1>3, <1>5, <1>6 DEF Conveys
<1>9. Len(q) \in 0..Len(q) /\ Prefix(q, Len(q)) = q
  BY <1>7, SeqAppend, PrefixWhole
<1>10. Good(Replay(h, q))
  BY <1>8, <1>9 DEF AllGood
<1>11. Contents(Replay(h, q)) = Contents(WalImage(g))
  BY <1>1, <1>8, <1>10, MirrorContents
<1>12. Replay(h, q) = Replay(Replay(h, l), w)
  <2>1. Len(w) \in 0..Len(w) /\ Prefix(w, Len(w)) = w
    BY <1>5, SeqAppend, PrefixWhole
  <2>2. \A i \in 0..Len(w) : Replay(h, l \o Prefix(w, i)) = Replay(Replay(h, l), Prefix(w, i))
    BY <1>1, <1>5, ReplayBoth
  <2>3. Replay(h, l \o Prefix(w, Len(w))) = Replay(Replay(h, l), Prefix(w, Len(w)))
    BY <2>1, <2>2
  <2> QED BY <1>6, <2>1, <2>3
<1> QED BY <1>2, <1>4, <1>11, <1>12

-----------------------------------------------------------------------------
(* The invariant of the server.                                               *)

ServerInv == StateInv(graph, txs, gate, log)

LEMMA StateSound ==
    ASSUME NEW g, NEW ts, NEW gt, NEW l, StateInv(g, ts, gt, l)
    PROVE  /\ Consistent(g) /\ Consistent(Replay(Loaded, l))
           /\ gt.phase \in {"free", "executing", "recording", "emitting"}
           /\ gt.tx \in {NoTx} \cup 1..Len(ts)
           /\ gt.phase = "free" => gt = Free
           /\ \A t \in 1..Len(ts) : ts[t].state # "active" => ts[t].undo = <<>>
<1>1. /\ Len(ts) \in Nat /\ TxsOK(ts) /\ GateOK(gt, Len(ts)) /\ IsSeq(l) /\ IsSeq(gt.wal)
      /\ Good(g) /\ Conveys(l \o gt.wal, Loaded, g)
  BY StateParts
<1>2. Consistent(g)
  BY <1>1, GoodIsConsistent
<1>3. PICK h : h = Loaded
  OBVIOUS
<1>4. Good(h) /\ Mirrors(h, h)
  BY <1>3, CalmLoaded DEF Calm
<1>5. PICK w : w = gt.wal
  OBVIOUS
<1>6. IsSeq(w)
  BY <1>1, <1>5
<1>7. AllGood(h, l \o w)
  BY <1>1, <1>3, <1>4, <1>5 DEF Conveys
<1>8. Len(l) \in Nat /\ Len(w) \in Nat /\ Len(l \o w) = Len(l) + Len(w)
  BY <1>1, <1>6, SeqConcat
<1>9. Len(l) \in 0..Len(l \o w) /\ Len(l) \in 0..Len(l)
  BY <1>8
<1>10. Good(Replay(h, Prefix(l \o w, Len(l))))
  BY <1>7, <1>9 DEF AllGood
<1>11. Prefix(l \o w, Len(l)) = Prefix(l, Len(l))
  BY <1>1, <1>6, <1>9, PrefixOfFirst
<1>12. Prefix(l, Len(l)) = l
  BY <1>1, PrefixWhole
<1>13. Good(Replay(h, l))
  BY <1>10, <1>11, <1>12
<1>14. Consistent(Replay(Loaded, l))
  BY <1>3, <1>13, GoodIsConsistent
<1>15. gt.tx \in {NoTx} \cup 1..Len(ts)
  BY <1>1 DEF GateOK, NoTx
<1>16. gt.phase \in {"free", "executing", "recording", "emitting"} /\ (gt.phase = "free" => gt = Free)
  BY <1>1 DEF GateOK
<1>17. \A t \in 1..Len(ts) : ts[t].state # "active" => ts[t].undo = <<>>
  BY <1>1 DEF TxsOK, TxOK
<1> QED BY <1>2, <1>14, <1>15, <1>16, <1>17

LEMMA ServerInvSound ==
    ASSUME ServerInv
    PROVE  GraphsSound
<1>1. PICK g : g = graph
  OBVIOUS
<1>2. PICK ts : ts = txs
  OBVIOUS
<1>3. PICK gt : gt = gate
  OBVIOUS
<1>4. PICK l : l = log
  OBVIOUS
<1>5. StateInv(g, ts, gt, l)
  BY <1>1, <1>2, <1>3, <1>4 DEF ServerInv
<1>6. /\ Consistent(g) /\ Consistent(Replay(Loaded, l))
      /\ gt.phase \in {"free", "executing", "recording", "emitting"}
      /\ gt.tx \in {NoTx} \cup 1..Len(ts)
      /\ gt.phase = "free" => gt = Free
      /\ \A t \in 1..Len(ts) : ts[t].state # "active" => ts[t].undo = <<>>
  BY <1>5, StateSound
<1>7. TypeOK
  BY <1>2, <1>3, <1>6 DEF TypeOK, TxIds
<1>8. GraphsConsistent
  BY <1>1, <1>4, <1>6 DEF GraphsConsistent, Replica
<1>9. FollowersMirror
  BY <1>1, <1>3, <1>4, <1>5, StateMirrored DEF FollowersMirror, Replica
<1> QED BY <1>7, <1>8, <1>9 DEF GraphsSound

LEMMA ServerInvStart == Init => ServerInv
<1> SUFFICES ASSUME Init PROVE ServerInv
  OBVIOUS
<1>1. graph = Loaded /\ txs = <<>> /\ gate = Free /\ log = <<>>
  BY DEF Init
<1> QED BY <1>1, StateStart DEF ServerInv

LEMMA ServerInvStep == ServerInv /\ [Next]_vars => ServerInv'
<1> SUFFICES ASSUME ServerInv, [Next]_vars PROVE ServerInv'
  OBVIOUS
<1>1. PICK g : g = graph
  OBVIOUS
<1>2. PICK ts : ts = txs
  OBVIOUS
<1>3. PICK gt : gt = gate
  OBVIOUS
<1>4. PICK l : l = log
  OBVIOUS
<1>5. PICK h : h = graph'
  OBVIOUS
<1>6. PICK us : us = txs'
  OBVIOUS
<1>7. PICK hg : hg = gate'
  OBVIOUS
<1>8. PICK m : m = log'
  OBVIOUS
<1>9. StateInv(g, ts, gt, l)
  BY <1>1, <1>2, <1>3, <1>4 DEF ServerInv
<1>10. SUFFICES StateInv(h, us, hg, m)
  BY <1>5, <1>6, <1>7, <1>8 DEF ServerInv
<1>11. /\ Len(ts) \in Nat /\ TxsOK(ts) /\ GateOK(gt, Len(ts)) /\ IsSeq(l) /\ IsSeq(gt.wal) /\ IsSeq(gt.undo)
  BY <1>9, StateParts
<1>12. gt = GateOf(gt.phase, gt.tx, gt.wal, gt.undo)
  BY <1>11 DEF GateOK, GateOf
<1>13. Free = GateOf("free", 0, <<>>, <<>>)
  BY DEF Free, GateOf, NoTx
<1>14. CASE UNCHANGED vars
  BY <1>1, <1>2, <1>3, <1>4, <1>5, <1>6, <1>7, <1>8, <1>9, <1>14 DEF vars
<1>15. CASE BeginTransaction
  <2>1. h = g /\ hg = gt /\ m = l
    BY <1>1, <1>3, <1>4, <1>5, <1>7, <1>8, <1>15 DEF BeginTransaction
  <2>2. PICK a : us = Append(ts, [state |-> "active", undo |-> <<>>, base |-> g, alone |-> a])
    BY <1>1, <1>2, <1>6, <1>15 DEF BeginTransaction
  <2> QED BY <1>9, <2>1, <2>2, BeginStep
<1>16. CASE StartStatement
  <2>1. h = g /\ us = ts /\ m = l /\ gt = Free
    BY <1>1, <1>2, <1>3, <1>4, <1>5, <1>6, <1>8, <1>16 DEF StartStatement
  <2>2. hg = [Free EXCEPT !.phase = "executing"]
    BY <1>7, <1>16 DEF StartStatement
  <2>3. hg = GateOf("executing", 0, <<>>, <<>>)
    BY <2>2 DEF Free, GateOf, NoTx
  <2>4. 0 \in 0..Len(ts)
    BY <1>11
  <2> QED BY <1>9, <2>1, <2>3, <2>4, StartStep
<1>17. ASSUME NEW t \in TxIds, StartInTx(t) PROVE StateInv(h, us, hg, m)
  <2>1. h = g /\ us = ts /\ m = l /\ gt = Free
    BY <1>1, <1>2, <1>3, <1>4, <1>5, <1>6, <1>8, <1>17 DEF StartInTx
  <2>2. hg = [Free EXCEPT !.phase = "executing", !.tx = t]
    BY <1>7, <1>17 DEF StartInTx
  <2>3. hg = GateOf("executing", t, <<>>, <<>>)
    BY <2>2 DEF Free, GateOf, NoTx
  <2>4. t \in 0..Len(ts)
    BY <1>2, <1>11, <1>17 DEF TxIds
  <2> QED BY <1>9, <2>1, <2>3, <2>4, StartStep
<1>18. ASSUME NEW t \in TxIds, Commit(t) PROVE StateInv(h, us, hg, m)
  <2>1. h = g /\ hg = gt /\ m = l
    BY <1>1, <1>3, <1>4, <1>5, <1>7, <1>8, <1>18 DEF Commit
  <2>2. t \in 1..Len(ts)
    BY <1>2, <1>17 DEF TxIds
  <2>3. us = FinishAt(ts, t, "committed", <<>>)
    BY <1>2, <1>6, <1>18 DEF Commit, FinishAt
  <2>4. us = SetAt(ts, t, Finished(ts[t], "committed"))
    BY <1>11, <2>2, <2>3, FinishedIs DEF Finished
  <2> QED BY <1>9, <2>1, <2>2, <2>4, CommitStep
<1>19. ASSUME NEW t \in TxIds, Rollback(t) PROVE StateInv(h, us, hg, m)
  <2>1. m = l /\ gt = Free
    BY <1>3, <1>4, <1>8, <1>19 DEF Rollback
  <2>2. t \in 1..Len(ts)
    BY <1>2, <1>19 DEF TxIds
  <2>3. PICK s : s = ApplyUndoLog(g, ts[t].undo)
    OBVIOUS
  <2>4. h = s.graph /\ hg = [Free EXCEPT !.phase = "emitting", !.wal = s.wal]
    BY <1>1, <1>2, <1>5, <1>7, <1>19, <2>3 DEF Rollback
  <2>5. hg = GateOf("emitting", 0, s.wal, <<>>)
    BY <2>4 DEF Free, GateOf, NoTx
  <2>6. PICK vs : vs = WrittenBy(ts, t)
    OBVIOUS
  <2>7. TxsOK(vs) /\ Len(vs) = Len(ts) /\ \A u \in 1..Len(ts) : vs[u].undo = ts[u].undo
    BY <1>11, <2>6, WrittenIs
  <2>8. us = FinishAt(vs, t, "rolledback", <<>>)
    BY <1>2, <1>6, <1>19, <2>6 DEF Rollback, WriteBy, WrittenBy, TxIds, FinishAt
  <2>9. PICK x : x = Finished(vs[t], "rolledback")
    OBVIOUS
  <2>10. us = SetAt(vs, t, x)
    <3>1. t \in 1..Len(vs)
      BY <2>2, <2>7
    <3> QED BY <2>7, <2>8, <2>9, <3>1, FinishedIs DEF Finished
  <2>11. TxOK(x) /\ x.undo = <<>>
    <3>1. "rolledback" # "active"
      OBVIOUS
    <3> QED BY <2>9, <3>1, FinishedOK
  <2>12. t \in 1..Len(vs)
    BY <2>2, <2>7
  <2>13. TxsOK(us) /\ Len(us) = Len(vs) /\ us[t] = x /\ \A i \in 1..Len(vs) \ {t} : us[i] = vs[i]
    BY <2>7, <2>10, <2>11, <2>12, TxChanged
  <2>14. us[t].undo = <<>> /\ \A i \in 1..Len(ts) \ {t} : us[i].undo = ts[i].undo
    BY <2>7, <2>11, <2>13
  <2>15. Len(us) = Len(ts) /\ StateInv(g, ts, Free, l)
    BY <1>9, <2>1, <2>7, <2>13
  <2> QED BY <2>1, <2>2, <2>3, <2>4, <2>5, <2>13, <2>14, <2>15, RollbackStep
<1>20. PICK r : r = [graph |-> g, wal |-> gt.wal, undo |-> gt.undo]
  OBVIOUS
<1>21. r = SoFar /\ r.graph = g /\ r.wal = gt.wal /\ r.undo = gt.undo
  BY <1>1, <1>3, <1>20 DEF SoFar
<1>22. IsRec(r)
  BY <1>9, <1>11, <1>21, StateParts DEF IsRec
<1>23. ASSUME NEW s, Goes(r, s), Mutate(s) PROVE StateInv(h, us, hg, m)
  <2>1. m = l /\ h = s.graph /\ gt.phase = "executing"
    BY <1>3, <1>4, <1>5, <1>8, <1>23 DEF Mutate
  <2>2. hg = [gt EXCEPT !.wal = s.wal, !.undo = s.undo]
    BY <1>3, <1>7, <1>23 DEF Mutate
  <2>3. hg = GateOf("executing", gt.tx, s.wal, s.undo)
    BY <1>12, <2>1, <2>2 DEF GateOf
  <2>4. us = WrittenBy(ts, gt.tx)
    BY <1>2, <1>3, <1>6, <1>23 DEF Mutate, WriteBy, WrittenBy, TxIds
  <2>5. TxsOK(us) /\ Len(us) = Len(ts) /\ \A u \in 1..Len(ts) : us[u].undo = ts[u].undo
    BY <1>11, <2>4, WrittenIs
  <2> QED BY <1>9, <1>21, <1>23, <2>1, <2>3, <2>5, MutateStep
<1>24. CASE MutateNodes
  <2>1. ASSUME NEW ls \in LabelLists, Mutate(RecCreateNode(SoFar, ls)) PROVE StateInv(h, us, hg, m)
    <3>1. ls \in Seq(Labels)
      <4>1. ls = <<>> \/ \E lb \in Labels : ls = <<lb>>
        BY <2>1 DEF LabelLists
      <4>2. <<>> \in Seq(Labels) /\ \A lb \in Labels : <<lb>> \in Seq(Labels)
        OBVIOUS
      <4> QED BY <4>1, <4>2
    <3>2. PICK s : s = RecCreateNode(r, ls)
      OBVIOUS
    <3>3. Goes(r, s)
      BY <1>22, <3>1, <3>2, RecCreateNodeGoes
    <3>4. Mutate(s)
      BY <1>21, <2>1, <3>2
    <3> QED BY <1>23, <3>3, <3>4
  <2>2. ASSUME NEW n, Mutate(RecDeleteNode(SoFar, n)) PROVE StateInv(h, us, hg, m)
    <3>1. PICK s : s = RecDeleteNode(r, n)
      OBVIOUS
    <3>2. Goes(r, s)
      BY <1>22, <3>1, RecDeleteNodeGoes
    <3>3. Mutate(s)
      BY <1>21, <2>2, <3>1
    <3> QED BY <1>23, <3>2, <3>3
  <2>3. ASSUME NEW n, NEW k, NEW v, Mutate(RecSetNodeProperty(SoFar, n, k, v)) PROVE StateInv(h, us, hg, m)
    <3>1. PICK s : s = RecSetNodeProperty(r, n, k, v)
      OBVIOUS
    <3>2. Goes(r, s)
      BY <1>22, <3>1, RecSetNodePropertyGoes
    <3>3. Mutate(s)
      BY <1>21, <2>3, <3>1
    <3> QED BY <1>23, <3>2, <3>3
  <2>4. ASSUME NEW n, NEW k, Mutate(RecRemoveNodeProperty(SoFar, n, k)) PROVE StateInv(h, us, hg, m)
    <3>1. PICK s : s = RecRemoveNodeProperty(r, n, k)
      OBVIOUS
    <3>2. Goes(r, s)
      BY <1>22, <3>1, RecRemoveNodePropertyGoes
    <3>3. Mutate(s)
      BY <1>21, <2>4, <3>1
    <3> QED BY <1>23, <3>2, <3>3
  <2>5. ASSUME NEW n, NEW lb \in Labels, Mutate(RecAddNodeLabel(SoFar, n, lb)) PROVE StateInv(h, us, hg, m)
    <3>1. PICK s : s = RecAddNodeLabel(r, n, lb)
      OBVIOUS
    <3>2. Goes(r, s)
      BY <1>22, <3>1, RecAddLabelGoes
    <3>3. Mutate(s)
      BY <1>21, <2>5, <3>1
    <3> QED BY <1>23, <3>2, <3>3
  <2>6. ASSUME NEW n, NEW lb \in Labels, Mutate(RecRemoveNodeLabel(SoFar, n, lb)) PROVE StateInv(h, us, hg, m)
    <3>1. PICK s : s = RecRemoveNodeLabel(r, n, lb)
      OBVIOUS
    <3>2. Goes(r, s)
      BY <1>22, <3>1, RecRemoveLabelGoes
    <3>3. Mutate(s)
      BY <1>21, <2>6, <3>1
    <3> QED BY <1>23, <3>2, <3>3
  <2> QED BY <1>24, <2>1, <2>2, <2>3, <2>4, <2>5, <2>6 DEF MutateNodes
<1>25. CASE MutateEdges
  <2>1. ASSUME NEW a, NEW b, Mutate(RecCreateEdge(SoFar, a, b)) PROVE StateInv(h, us, hg, m)
    <3>1. PICK s : s = RecCreateEdge(r, a, b)
      OBVIOUS
    <3>2. Goes(r, s)
      BY <1>22, <3>1, RecCreateEdgeGoes
    <3>3. Mutate(s)
      BY <1>21, <2>1, <3>1
    <3> QED BY <1>23, <3>2, <3>3
  <2>2. ASSUME NEW e, Mutate(RecDeleteEdge(SoFar, e)) PROVE StateInv(h, us, hg, m)
    <3>1. PICK s : s = RecDeleteEdge(r, e)
      OBVIOUS
    <3>2. Goes(r, s)
      BY <1>22, <3>1, RecDeleteEdgeGoes
    <3>3. Mutate(s)
      BY <1>21, <2>2, <3>1
    <3> QED BY <1>23, <3>2, <3>3
  <2>3. ASSUME NEW e, NEW k, NEW v, Mutate(RecSetEdgeProperty(SoFar, e, k, v)) PROVE StateInv(h, us, hg, m)
    <3>1. PICK s : s = RecSetEdgeProperty(r, e, k, v)
      OBVIOUS
    <3>2. Goes(r, s)
      BY <1>22, <3>1, RecSetEdgePropertyGoes
    <3>3. Mutate(s)
      BY <1>21, <2>3, <3>1
    <3> QED BY <1>23, <3>2, <3>3
  <2>4. ASSUME NEW e, NEW k, Mutate(RecRemoveEdgeProperty(SoFar, e, k)) PROVE StateInv(h, us, hg, m)
    <3>1. PICK s : s = RecRemoveEdgeProperty(r, e, k)
      OBVIOUS
    <3>2. Goes(r, s)
      BY <1>22, <3>1, RecRemoveEdgePropertyGoes
    <3>3. Mutate(s)
      BY <1>21, <2>4, <3>1
    <3> QED BY <1>23, <3>2, <3>3
  <2> QED BY <1>25, <2>1, <2>2, <2>3, <2>4 DEF MutateEdges
<1>26. CASE FinishExecution
  <2>1. h = g /\ us = ts /\ m = l
    BY <1>1, <1>2, <1>4, <1>5, <1>6, <1>8, <1>26 DEF FinishExecution
  <2>2. hg = [gt EXCEPT !.phase = IF gt.tx = NoTx THEN "emitting" ELSE "recording",
                        !.undo = IF gt.tx = NoTx THEN <<>> ELSE @]
    BY <1>3, <1>7, <1>26 DEF FinishExecution
  <2>3. CASE gt.tx = NoTx
    <3>1. hg = [gt EXCEPT !.phase = "emitting", !.undo = <<>>]
      BY <2>2, <2>3
    <3>2. hg = GateOf("emitting", gt.tx, gt.wal, <<>>)
      BY <1>12, <3>1 DEF GateOf
    <3> QED BY <1>9, <2>1, <2>3, <3>2, FinishStep
  <2>4. CASE gt.tx # NoTx
    <3>1. hg = [gt EXCEPT !.phase = "recording", !.undo = gt.undo]
      BY <2>2, <2>4
    <3>2. hg = GateOf("recording", gt.tx, gt.wal, gt.undo)
      BY <1>12, <3>1 DEF GateOf
    <3> QED BY <1>9, <2>1, <2>4, <3>2, FinishStep
  <2> QED BY <2>3, <2>4
<1>27. CASE RecordUndo
  <2>1. h = g /\ m = l /\ gt.phase = "recording"
    BY <1>1, <1>3, <1>4, <1>5, <1>8, <1>27 DEF RecordUndo
  <2>2. hg = [gt EXCEPT !.phase = "emitting", !.undo = <<>>]
    BY <1>3, <1>7, <1>27 DEF RecordUndo
  <2>3. hg = GateOf("emitting", gt.tx, gt.wal, <<>>)
    BY <1>12, <2>2 DEF GateOf
  <2>4. StateInv(g, ts, hg, l) /\ GateOK(hg, Len(ts)) /\ hg.wal = gt.wal /\ hg.undo = <<>>
    BY <1>9, <2>3, RecordNothingStep
  <2>5. CASE ~ Active(gate.tx)
    <3>1. us = ts
      BY <1>2, <1>6, <1>27, <2>5 DEF RecordUndo
    <3> QED BY <2>1, <2>4, <3>1
  <2>6. CASE Active(gate.tx)
    <3>1. PICK t : t = gt.tx
      OBVIOUS
    <3>2. t \in 1..Len(ts)
      BY <1>11, <2>1, <3>1 DEF GateOK, NoTx
    <3>3. ts[t].state = "active"
      BY <1>2, <1>3, <2>6, <3>1 DEF Active
    <3>4. PICK p : p = gt.undo
      OBVIOUS
    <3>5. us = LengthenAt(ts, t, p)
      BY <1>2, <1>3, <1>6, <1>27, <2>6, <3>1, <3>4 DEF RecordUndo, LengthenAt
    <3>6. us = SetAt(ts, t, Longer(ts[t], p))
      BY <1>11, <3>2, <3>5, LongerIs
    <3> QED BY <1>9, <2>1, <2>4, <3>2, <3>3, <3>4, <3>6, RecordStep
  <2> QED BY <2>5, <2>6
<1>28. CASE Emit
  <2>1. h = g /\ us = ts /\ m = Append(l, Head(gt.wal)) /\ gt.phase = "emitting" /\ gt.wal # <<>>
    BY <1>1, <1>2, <1>3, <1>4, <1>5, <1>6, <1>8, <1>28 DEF Emit
  <2>2. hg = [gt EXCEPT !.wal = Tail(gt.wal)]
    BY <1>3, <1>7, <1>28 DEF Emit
  <2>3. hg = GateOf("emitting", gt.tx, Tail(gt.wal), gt.undo)
    BY <1>12, <2>1, <2>2 DEF GateOf
  <2> QED BY <1>9, <2>1, <2>3, EmitStep
<1>29. CASE ReleaseGate
  <2>1. h = g /\ us = ts /\ m = l /\ hg = Free /\ gt.wal = <<>>
    BY <1>1, <1>2, <1>3, <1>4, <1>5, <1>6, <1>7, <1>8, <1>29 DEF ReleaseGate
  <2> QED BY <1>9, <2>1, ReleaseStep
<1> QED BY <1>14, <1>15, <1>16, <1>17, <1>18, <1>19, <1>24, <1>25, <1>26, <1>27, <1>28, <1>29 DEF Next

(* Whatever statements, transactions and rollbacks do and however they        *)
(* interleave, the state is well typed, neither the leader's graph nor the    *)
(* one a follower makes of the log has a dangling edge or a stale adjacency   *)
(* set, label index entry or id counter, and a follower that has applied all  *)
(* entries has the nodes, edges, labels and properties of the leader.         *)
THEOREM GraphsAlwaysSound == Spec => []GraphsSound
<1>1. Spec => []ServerInv
  BY ServerInvStart, ServerInvStep, PTL DEF Spec
<1>2. ServerInv => GraphsSound
  BY ServerInvSound
<1> QED BY <1>1, <1>2, PTL

-----------------------------------------------------------------------------
(* Rolling back gives back the graph.                                         *)

(* The same nodes and edges up to the order of labels.                        *)
Alike(M, N) ==
    /\ DOMAIN M = DOMAIN N
    /\ \A n \in DOMAIN N : Range(M[n].labels) = Range(N[n].labels) /\ M[n].props = N[n].props
Like(g, h) == Alike(g.nodes, h.nodes) /\ g.edges = h.edges

IsPut(q, f, k, v) ==
    IsMap(q) /\ DOMAIN q = DOMAIN f \cup {k} /\ q[k] = v /\ \A x \in DOMAIN f : x # k => q[x] = f[x]
IsDrop(q, f, K) ==
    IsMap(q) /\ DOMAIN q = DOMAIN f \ K /\ \A x \in DOMAIN f \ K : q[x] = f[x]

LEMMA Puts ==
    ASSUME NEW f, NEW k, NEW v, NEW q, q = Put(f, k, v)
    PROVE  IsPut(q, f, k, v)
  BY DEF IsPut, IsMap, Put

LEMMA Drops ==
    ASSUME NEW f, NEW K, NEW q, q = Drop(f, K)
    PROVE  IsDrop(q, f, K)
  BY DEF IsDrop, IsMap, Drop, Restrict

LEMMA PutBack ==
    ASSUME NEW f, IsMap(f), NEW k \in DOMAIN f, NEW v
    PROVE  Put(Put(f, k, v), k, f[k]) = f
<1>1. PICK p : p = Put(f, k, v)
  OBVIOUS
<1>2. DOMAIN p = DOMAIN f /\ \A x \in DOMAIN f : x # k => p[x] = f[x]
  BY <1>1, PutDomainSame, PutOther
<1>3. PICK q : q = Put(p, k, f[k])
  OBVIOUS
<1>4. IsMap(q) /\ DOMAIN q = DOMAIN f
  BY <1>2, <1>3, PutMap, PutDomainSame
<1>5. \A x \in DOMAIN f : q[x] = f[x]
  <2> TAKE x \in DOMAIN f
  <2>1. CASE x = k
    BY <1>3, <2>1, PutAt
  <2>2. CASE x # k
    BY <1>2, <1>3, <2>2, PutOther
  <2> QED BY <2>1, <2>2
<1> QED BY <1>1, <1>3, <1>4, <1>5, MapsEqual

LEMMA PutTwice ==
    ASSUME NEW f, NEW k, NEW v, NEW w
    PROVE  Put(Put(f, k, v), k, w) = Put(f, k, w)
<1>1. DOMAIN Put(f, k, v) \cup {k} = DOMAIN f \cup {k}
  BY PutDomain
<1>2. \A x \in DOMAIN f \cup {k} : x # k => Put(f, k, v)[x] = f[x]
  BY PutOther
<1> QED BY <1>1, <1>2 DEF Put

LEMMA DropPut ==
    ASSUME NEW f, IsMap(f), NEW k, k \notin DOMAIN f, NEW v
    PROVE  Drop(Put(f, k, v), {k}) = f
<1>1. PICK p : p = Put(f, k, v)
  OBVIOUS
<1>2. DOMAIN p = DOMAIN f \cup {k} /\ \A x \in DOMAIN f : x # k => p[x] = f[x]
  <2>1. IsPut(p, f, k, v)
    BY <1>1, Puts
  <2> QED BY <2>1 DEF IsPut
<1>3. PICK q : q = Drop(p, {k})
  OBVIOUS
<1>4. IsMap(q) /\ DOMAIN q = DOMAIN p \ {k} /\ \A x \in DOMAIN p \ {k} : q[x] = p[x]
  <2>1. IsDrop(q, p, {k})
    BY <1>3, Drops
  <2> QED BY <2>1 DEF IsDrop
<1>5. DOMAIN q = DOMAIN f /\ \A x \in DOMAIN f : q[x] = f[x]
  BY <1>2, <1>4
<1> QED BY <1>1, <1>3, <1>4, <1>5, MapsEqual

LEMMA PutDropped ==
    ASSUME NEW f, IsMap(f), NEW k \in DOMAIN f
    PROVE  Put(Drop(f, {k}), k, f[k]) = f
<1>1. PICK p : p = Drop(f, {k})
  OBVIOUS
<1>2. DOMAIN p = DOMAIN f \ {k} /\ \A x \in DOMAIN f \ {k} : p[x] = f[x]
  BY <1>1, DropDomain, DropOther
<1>3. PICK q : q = Put(p, k, f[k])
  OBVIOUS
<1>4. /\ IsMap(q) /\ DOMAIN q = DOMAIN p \cup {k} /\ q[k] = f[k]
      /\ \A x \in DOMAIN p : x # k => q[x] = p[x]
  <2>1. IsPut(q, p, k, f[k])
    BY <1>3, Puts
  <2> QED BY <2>1 DEF IsPut
<1>5. DOMAIN q = DOMAIN f /\ \A x \in DOMAIN f : q[x] = f[x]
  BY <1>2, <1>4
<1> QED BY <1>1, <1>3, <1>4, <1>5, MapsEqual

LEMMA DropNothing ==
    ASSUME NEW f, IsMap(f)
    PROVE  Drop(f, {}) = f
<1>1. PICK q : q = Drop(f, {})
  OBVIOUS
<1>2. IsMap(q) /\ DOMAIN q = DOMAIN f /\ \A x \in DOMAIN f : q[x] = f[x]
  BY <1>1, DropMap, DropDomain, DropOther
<1> QED BY <1>1, <1>2, MapsEqual

(* Graphs that are alike look the same to clients, up to the order of labels. *)
LEMMA LikeContents ==
    ASSUME NEW g, Good(g), NEW h, Good(h), Like(g, h)
    PROVE  ContentsUpToLabelOrder(g) = ContentsUpToLabelOrder(h)
<1>1. DOMAIN g.nodes = DOMAIN h.nodes /\ g.edges = h.edges
  BY DEF Like, Alike
<1>2. LabelSets(g.nodes) = LabelSets(h.nodes)
  BY <1>1 DEF Like, Alike, LabelSets
<1>3. g.out = h.out
  <2>1. PICK D, F : D = DOMAIN h.nodes /\ F = Sources(h.edges)
    OBVIOUS
  <2>2. AdjWell(g.out, D, F) /\ AdjWell(h.out, D, F)
    BY <1>1, <2>1 DEF Good
  <2> QED BY <2>2, AdjSame
<1>4. g.inc = h.inc
  <2>1. PICK D, F : D = DOMAIN h.nodes /\ F = Targets(h.edges)
    OBVIOUS
  <2>2. AdjWell(g.inc, D, F) /\ AdjWell(h.inc, D, F)
    BY <1>1, <2>1 DEF Good
  <2> QED BY <2>2, AdjSame
<1>5. g.index = h.index
  <2>1. PICK L : L = LabelSets(h.nodes)
    OBVIOUS
  <2>2. IndexWell(g.index, L) /\ IndexWell(h.index, L)
    BY <1>2, <2>1 DEF Good
  <2> QED BY <2>2, IndexSame
<1>6. [n \in DOMAIN g.nodes |-> <<Range(g.nodes[n].labels), g.nodes[n].props>>]
        = [n \in DOMAIN h.nodes |-> <<Range(h.nodes[n].labels), h.nodes[n].props>>]
  BY <1>1 DEF Like, Alike
<1> QED BY <1>1, <1>3, <1>4, <1>5, <1>6 DEF ContentsUpToLabelOrder

(* One node, or one edge, changed and changed back.                           *)
LEMMA NodeBack ==
    ASSUME NEW g, NEW h, NEW i, NEW j, NEW n \in DOMAIN g.nodes, NEW x, NEW y,
           h.nodes = Put(g.nodes, n, x), h.edges = g.edges, Like(i, h), NodeNow(i, j, n, y),
           Range(y.labels) = Range(g.nodes[n].labels), y.props = g.nodes[n].props
    PROVE  Good(j) /\ Like(j, g)
<1>1. PICK M, N, O, E : M = g.nodes /\ N = i.nodes /\ O = j.nodes /\ E = h.nodes
  OBVIOUS
<1>2. E = Put(M, n, x) /\ n \in DOMAIN M
  BY <1>1
<1>3. DOMAIN E = DOMAIN M
  BY <1>2, PutDomainSame
<1>4. \A m \in DOMAIN M : m # n => E[m] = M[m]
  BY <1>2, PutOther
<1>5. DOMAIN N = DOMAIN E /\ \A m \in DOMAIN E : Range(N[m].labels) = Range(E[m].labels) /\ N[m].props = E[m].props
  BY <1>1 DEF Like, Alike
<1>6. O = Put(N, n, y)
  BY <1>1 DEF NodeNow
<1>7. DOMAIN O = DOMAIN N
  BY <1>2, <1>3, <1>5, <1>6, PutDomainSame
<1>8. O[n] = y /\ \A m \in DOMAIN N : m # n => O[m] = N[m]
  BY <1>6, PutAt, PutOther
<1>9. \A m \in DOMAIN M : Range(O[m].labels) = Range(M[m].labels) /\ O[m].props = M[m].props
  BY <1>1, <1>3, <1>4, <1>5, <1>8
<1>10. Alike(O, M)
  BY <1>3, <1>5, <1>7, <1>9 DEF Alike
<1>11. Good(j) /\ j.edges = i.edges /\ i.edges = h.edges
  BY DEF NodeNow, Like
<1> QED BY <1>1, <1>10, <1>11 DEF Like

LEMMA EdgeBack ==
    ASSUME NEW g, NEW h, NEW i, NEW j, NEW e \in DOMAIN g.edges, NEW x,
           IsMap(g.edges), h.edges = Put(g.edges, e, x), h.nodes = g.nodes, Like(i, h),
           EdgeNow(i, j, e, g.edges[e])
    PROVE  Good(j) /\ Like(j, g)
<1>1. PICK M : M = g.edges
  OBVIOUS
<1>2. j.edges = Put(i.edges, e, M[e]) /\ i.edges = Put(M, e, x)
  BY <1>1 DEF EdgeNow, Like
<1>3. Put(Put(M, e, x), e, M[e]) = M
  BY <1>1, PutBack
<1>4. j.edges = g.edges
  BY <1>1, <1>2, <1>3
<1>5. Good(j) /\ j.nodes = i.nodes /\ Alike(i.nodes, g.nodes)
  BY DEF EdgeNow, Like
<1> QED BY <1>4, <1>5 DEF Like

-----------------------------------------------------------------------------
(* What each undo record does.                                                *)

LEMMA AppendedRange ==
    ASSUME NEW ls \in Seq(Labels), NEW l \in Labels
    PROVE  Range(Append(ls, l)) = Range(ls) \cup {l}
<1>1. PICK m, k : m = Len(ls) /\ k = Append(ls, l)
  OBVIOUS
<1>2. m \in Nat /\ DOMAIN ls = 1..m /\ DOMAIN k = 1..(m + 1)
  BY <1>1
<1>3. (\A i \in 1..m : k[i] = ls[i]) /\ k[m + 1] = l
  BY <1>1
<1>4. \A i \in 1..(m + 1) : i \in 1..m \/ i = m + 1
  BY <1>2
<1>5. (\A i \in 1..m : i \in 1..(m + 1)) /\ m + 1 \in 1..(m + 1)
  BY <1>2
<1> QED BY <1>1, <1>2, <1>3, <1>4, <1>5 DEF Range

(* Undo record u turns every graph like h into one like g.                    *)
Reverses(u, h, g) ==
    \A r : Good(r.graph) /\ Like(r.graph, h) =>
        Good(ApplyUndo(r, u).graph) /\ Like(ApplyUndo(r, u).graph, g)

LEMMA RecordedGraph ==
    ASSUME NEW r, NEW h, NEW w, NEW us
    PROVE  Recorded(r, h, w, us).graph = h /\ Recorded(r, h, w, us).undo = r.undo \o us
  BY DEF Recorded

LEMMA GoodParts ==
    ASSUME NEW g, Good(g)
    PROVE  /\ IsMap(g.nodes) /\ DOMAIN g.nodes \subseteq Nat /\ \A n \in DOMAIN g.nodes : NodeOK(g.nodes[n])
           /\ IsMap(g.edges) /\ DOMAIN g.edges \subseteq Nat /\ \A e \in DOMAIN g.edges : EdgeOK(g.edges[e])
           /\ \A e \in DOMAIN g.edges : g.edges[e].from \in DOMAIN g.nodes /\ g.edges[e].to \in DOMAIN g.nodes
           /\ \A n \in DOMAIN g.nodes : g.out[n] = {e \in DOMAIN g.edges : g.edges[e].from = n}
           /\ \A n \in DOMAIN g.nodes : g.inc[n] = {e \in DOMAIN g.edges : g.edges[e].to = n}
<1>1. /\ IsMap(g.nodes) /\ DOMAIN g.nodes \subseteq Nat /\ \A n \in DOMAIN g.nodes : NodeOK(g.nodes[n])
  BY DEF Good, NodesWell
<1>2. /\ IsMap(g.edges) /\ DOMAIN g.edges \subseteq Nat /\ \A e \in DOMAIN g.edges : EdgeOK(g.edges[e])
      /\ \A e \in DOMAIN g.edges : g.edges[e].from \in DOMAIN g.nodes /\ g.edges[e].to \in DOMAIN g.nodes
  BY DEF Good, EdgesWell
<1>3. \A n \in DOMAIN g.nodes : g.out[n] = {e \in DOMAIN g.edges : g.edges[e].from = n}
  BY DEF Good, AdjWell, Sources
<1>4. \A n \in DOMAIN g.nodes : g.inc[n] = {e \in DOMAIN g.edges : g.edges[e].to = n}
  BY DEF Good, AdjWell, Targets
<1> QED BY <1>1, <1>2, <1>3, <1>4

(* A new node is deleted again: no edge can be at it.                         *)
LEMMA CreateNodeReversed ==
    ASSUME NEW g, Good(g), NEW n, n \notin DOMAIN g.nodes, NEW x, NEW h,
           h.nodes = Put(g.nodes, n, x), h.edges = g.edges, NEW u, u = [op |-> "CreateNode", id |-> n]
    PROVE  Reverses(u, h, g)
<1> SUFFICES ASSUME NEW r, Good(r.graph), Like(r.graph, h)
             PROVE  Good(ApplyUndo(r, u).graph) /\ Like(ApplyUndo(r, u).graph, g)
  BY DEF Reverses
<1>1. PICK i : i = r.graph
  OBVIOUS
<1>2. ApplyUndo(r, u) = RecDeleteNode(r, n)
  BY DEF ApplyUndo
<1>3. PICK M, N : M = g.nodes /\ N = i.nodes
  OBVIOUS
<1>4. PICK H : H = h.nodes
  OBVIOUS
<1>5. H = Put(M, n, x)
  BY <1>3, <1>4
<1>6. DOMAIN H = DOMAIN M \cup {n}
  BY <1>5, PutDomain
<1>7. \A m \in DOMAIN M : m # n => H[m] = M[m]
  BY <1>5, PutOther
<1>8. DOMAIN N = DOMAIN H /\ \A m \in DOMAIN H : Range(N[m].labels) = Range(H[m].labels) /\ N[m].props = H[m].props
  BY <1>1, <1>3, <1>4 DEF Like, Alike
<1>9. n \in DOMAIN i.nodes /\ n \notin DOMAIN M
  BY <1>3, <1>6, <1>8
<1>10. PICK j : j = DeleteNode(i, n)
  OBVIOUS
<1>11. RecDeleteNode(r, n).graph = j
  BY <1>1, <1>9, <1>10 DEF RecDeleteNode, HasNode, Recorded
<1>12. Good(j) /\ j.nodes = Drop(N, {n}) /\ j.edges = Drop(i.edges, i.out[n] \cup i.inc[n])
  <2>1. Good(i) /\ n \in DOMAIN i.nodes
    BY <1>1, <1>9
  <2>2. Good(j) /\ j.nodes = Drop(i.nodes, {n}) /\ j.edges = Drop(i.edges, i.out[n] \cup i.inc[n])
    BY <1>10, <2>1, DeleteNodeGood
  <2> QED BY <1>3, <2>2
<1>13. i.edges = g.edges
  BY <1>1 DEF Like
<1>14. IsMap(g.edges) /\ \A e \in DOMAIN g.edges : g.edges[e].from # n /\ g.edges[e].to # n
  BY <1>3, <1>9, GoodParts
<1>15. i.out[n] = {} /\ i.inc[n] = {}
  <2>1. i.out[n] = {e \in DOMAIN i.edges : i.edges[e].from = n}
    BY <1>1, <1>9, GoodParts
  <2>2. i.inc[n] = {e \in DOMAIN i.edges : i.edges[e].to = n}
    BY <1>1, <1>9, GoodParts
  <2> QED BY <1>13, <1>14, <2>1, <2>2
<1>16. j.edges = g.edges
  <2>1. i.out[n] \cup i.inc[n] = {}
    BY <1>15
  <2> QED BY <1>12, <1>13, <1>14, <2>1, DropNothing
<1>17. PICK O : O = j.nodes
  OBVIOUS
<1>18. O = Drop(N, {n})
  BY <1>12, <1>17
<1>19. DOMAIN O = DOMAIN N \ {n} /\ \A m \in DOMAIN N \ {n} : O[m] = N[m]
  <2>1. IsDrop(O, N, {n})
    BY <1>18, Drops
  <2> QED BY <2>1 DEF IsDrop
<1>20. DOMAIN O = DOMAIN M
  BY <1>6, <1>8, <1>9, <1>19
<1>21. Alike(O, M)
  BY <1>6, <1>7, <1>8, <1>9, <1>19, <1>20 DEF Alike
<1> QED BY <1>2, <1>3, <1>11, <1>12, <1>16, <1>17, <1>21 DEF Like

LEMMA CreateEdgeReversed ==
    ASSUME NEW g, IsMap(g.edges), NEW e, e \notin DOMAIN g.edges, NEW x, NEW h,
           h.edges = Put(g.edges, e, x), h.nodes = g.nodes, NEW u, u = [op |-> "CreateEdge", id |-> e]
    PROVE  Reverses(u, h, g)
<1> SUFFICES ASSUME NEW r, Good(r.graph), Like(r.graph, h)
             PROVE  Good(ApplyUndo(r, u).graph) /\ Like(ApplyUndo(r, u).graph, g)
  BY DEF Reverses
<1>1. PICK i : i = r.graph
  OBVIOUS
<1>2. ApplyUndo(r, u) = RecDeleteEdge(r, e)
  BY DEF ApplyUndo
<1>3. PICK E : E = g.edges
  OBVIOUS
<1>4. i.edges = Put(E, e, x) /\ Alike(i.nodes, g.nodes)
  BY <1>1, <1>3 DEF Like
<1>5. e \in DOMAIN i.edges
  <2>1. DOMAIN i.edges = DOMAIN E \cup {e}
    BY <1>4, PutDomain
  <2> QED BY <2>1
<1>6. PICK j : j = DeleteEdge(i, e)
  OBVIOUS
<1>7. RecDeleteEdge(r, e).graph = j
  BY <1>1, <1>5, <1>6 DEF RecDeleteEdge, HasEdge, Recorded
<1>8. Good(j) /\ j.edges = Drop(i.edges, {e}) /\ j.nodes = i.nodes
  <2>1. Good(i) /\ e \in DOMAIN i.edges
    BY <1>1, <1>5
  <2> QED BY <1>6, <2>1, DeleteEdgeGood
<1>9. j.edges = E
  BY <1>3, <1>4, <1>8, DropPut
<1> QED BY <1>2, <1>3, <1>4, <1>7, <1>8, <1>9 DEF Like

(* A deleted edge is restored between its ends.                               *)
LEMMA DeleteEdgeReversed ==
    ASSUME NEW g, IsMap(g.edges), NEW e \in DOMAIN g.edges, e \in Nat, EdgeOK(g.edges[e]),
           g.edges[e].from \in DOMAIN g.nodes, g.edges[e].to \in DOMAIN g.nodes, NEW h,
           h.edges = Drop(g.edges, {e}), h.nodes = g.nodes,
           NEW u, u = [op |-> "DeleteEdge", id |-> e, from |-> g.edges[e].from, to |-> g.edges[e].to,
                       props |-> g.edges[e].props]
    PROVE  Reverses(u, h, g)
<1> SUFFICES ASSUME NEW r, Good(r.graph), Like(r.graph, h)
             PROVE  Good(ApplyUndo(r, u).graph) /\ Like(ApplyUndo(r, u).graph, g)
  BY DEF Reverses
<1>1. PICK i : i = r.graph
  OBVIOUS
<1>2. ApplyUndo(r, u) = UndoDeleteEdge(r, u)
  BY DEF ApplyUndo
<1>3. PICK E : E = g.edges
  OBVIOUS
<1>4. PICK from, to, p : from = E[e].from /\ to = E[e].to /\ p = E[e].props
  OBVIOUS
<1>5. u.id = e /\ u.from = from /\ u.to = to /\ u.props = p
  BY <1>3, <1>4
<1>6. E[e] = EdgeOf(from, to, p) /\ PropMap(p)
  BY <1>3, <1>4 DEF EdgeOK
<1>7. i.edges = Drop(E, {e}) /\ Alike(i.nodes, g.nodes) /\ Good(i)
  BY <1>1, <1>3 DEF Like
<1>8. from \in DOMAIN i.nodes /\ to \in DOMAIN i.nodes
  BY <1>3, <1>4, <1>7 DEF Alike
<1>9. e \notin DOMAIN i.edges
  <2>1. DOMAIN i.edges = DOMAIN E \ {e}
    BY <1>7, DropDomain
  <2> QED BY <2>1
<1>10. PICK k : k = CreateEdgeWithId(i, e, from, to)
  OBVIOUS
<1>11. Good(k) /\ k.edges = Put(i.edges, e, EdgeOf(from, to, Empty)) /\ k.nodes = i.nodes
  BY <1>7, <1>8, <1>9, <1>10, CreateEdgeGood
<1>12. PICK x : x = EdgeOf(from, to, Empty)
  OBVIOUS
<1>13. PICK K : K = k.edges
  OBVIOUS
<1>14. K = Put(i.edges, e, x)
  BY <1>11, <1>12, <1>13
<1>15. e \in DOMAIN K /\ K[e] = x
  <2>1. DOMAIN K = DOMAIN i.edges \cup {e}
    BY <1>14, PutDomain
  <2> QED BY <1>14, <2>1, PutAt
<1>16. K[e].from = from /\ K[e].to = to
  BY <1>12, <1>15 DEF EdgeOf
<1>17. PICK j : j = EdgeWith(k, e, p)
  OBVIOUS
<1>18. EdgeNow(k, j, e, EdgeOf(k.edges[e].from, k.edges[e].to, p))
  BY <1>6, <1>11, <1>13, <1>15, <1>17, EdgePropsGood
<1>19. EdgeNow(k, j, e, E[e])
  BY <1>6, <1>13, <1>16, <1>18
<1>20. Good(j) /\ j.nodes = i.nodes /\ j.edges = Put(K, e, E[e])
  BY <1>11, <1>13, <1>19 DEF EdgeNow
<1>21. j.edges = E
  <2>1. PICK D : D = Drop(E, {e})
    OBVIOUS
  <2>2. K = Put(D, e, x)
    BY <1>7, <1>14, <2>1
  <2>3. Put(Put(D, e, x), e, E[e]) = Put(D, e, E[e])
    BY PutTwice
  <2>4. Put(D, e, E[e]) = E
    BY <1>3, <2>1, PutDropped
  <2> QED BY <1>20, <2>2, <2>3, <2>4
<1>22. UndoDeleteEdge(r, u).graph = j
  <2>1. EndpointsExist(r.graph, u.from, u.to)
    BY <1>1, <1>5, <1>8 DEF EndpointsExist, HasNode
  <2>2. [k EXCEPT !.edges[e] = WithProps(@, p)] = j
    BY <1>17 DEF EdgeWith, WithProps
  <2> QED BY <1>1, <1>5, <1>10, <2>1, <2>2 DEF UndoDeleteEdge, Recorded
<1> QED BY <1>2, <1>3, <1>7, <1>20, <1>21, <1>22 DEF Like

(* A deleted node is restored when no edge of g is at it.                     *)
LEMMA DeleteNodeReversed ==
    ASSUME NEW g, NEW n \in DOMAIN g.nodes, n \in Nat, NodeOK(g.nodes[n]), NEW h,
           h.nodes = Drop(g.nodes, {n}), h.edges = g.edges,
           NEW u, u = [op |-> "DeleteNode", id |-> n, labels |-> g.nodes[n].labels, props |-> g.nodes[n].props]
    PROVE  Reverses(u, h, g)
<1> SUFFICES ASSUME NEW r, Good(r.graph), Like(r.graph, h)
             PROVE  Good(ApplyUndo(r, u).graph) /\ Like(ApplyUndo(r, u).graph, g)
  BY DEF Reverses
<1>1. PICK i : i = r.graph
  OBVIOUS
<1>2. ApplyUndo(r, u) = UndoDeleteNode(r, u)
  BY DEF ApplyUndo
<1>3. PICK M : M = g.nodes
  OBVIOUS
<1>4. PICK ls, p : ls = M[n].labels /\ p = M[n].props
  OBVIOUS
<1>5. u.id = n /\ u.labels = ls /\ u.props = p
  BY <1>3, <1>4
<1>6. ls \in Seq(Labels) /\ PropMap(p)
  BY <1>3, <1>4 DEF NodeOK
<1>7. PICK N, H : N = i.nodes /\ H = h.nodes
  OBVIOUS
<1>8. DOMAIN H = DOMAIN M \ {n} /\ \A m \in DOMAIN M \ {n} : H[m] = M[m]
  <2>1. H = Drop(M, {n})
    BY <1>3, <1>7
  <2>2. IsDrop(H, M, {n})
    BY <2>1, Drops
  <2> QED BY <2>2 DEF IsDrop
<1>9. DOMAIN N = DOMAIN H /\ \A m \in DOMAIN H : Range(N[m].labels) = Range(H[m].labels) /\ N[m].props = H[m].props
  BY <1>1, <1>7 DEF Like, Alike
<1>10. n \notin DOMAIN i.nodes /\ Good(i) /\ i.edges = g.edges
  BY <1>1, <1>7, <1>8, <1>9 DEF Like
<1>11. PICK k : k = CreateNodeWithId(i, n, ls)
  OBVIOUS
<1>12. Good(k) /\ k.nodes = Put(N, n, NodeOf(ls, Empty)) /\ k.edges = i.edges
  BY <1>6, <1>7, <1>10, <1>11, CreateNodeGood
<1>13. PICK x, K : x = NodeOf(ls, Empty) /\ K = k.nodes
  OBVIOUS
<1>14. K = Put(N, n, x)
  BY <1>12, <1>13
<1>15. DOMAIN K = DOMAIN N \cup {n} /\ \A m \in DOMAIN N : m # n => K[m] = N[m]
  <2>1. IsPut(K, N, n, x)
    BY <1>14, Puts
  <2> QED BY <2>1 DEF IsPut
<1>16. K[n] = x
  BY <1>14, PutAt
<1>17. K[n].labels = ls /\ n \in DOMAIN K
  BY <1>13, <1>15, <1>16 DEF NodeOf
<1>18. PICK j : j = NodeWith(k, n, p)
  OBVIOUS
<1>19. NodeNow(k, j, n, NodeOf(k.nodes[n].labels, p))
  BY <1>6, <1>12, <1>13, <1>17, <1>18, NodePropsGood
<1>20. PICK y, O : y = NodeOf(ls, p) /\ O = j.nodes
  OBVIOUS
<1>21. Good(j) /\ j.edges = g.edges /\ O = Put(K, n, y)
  BY <1>10, <1>12, <1>13, <1>17, <1>19, <1>20 DEF NodeNow
<1>22. DOMAIN O = DOMAIN K /\ \A m \in DOMAIN K : m # n => O[m] = K[m]
  BY <1>17, <1>21, PutDomainSame, PutOther
<1>23. O[n] = y
  BY <1>21, PutAt
<1>24. O[n].labels = M[n].labels /\ O[n].props = M[n].props
  BY <1>4, <1>20, <1>23 DEF NodeOf
<1>25. DOMAIN O = DOMAIN M
  BY <1>3, <1>8, <1>9, <1>15, <1>22
<1>26. ASSUME NEW m \in DOMAIN M
       PROVE  Range(O[m].labels) = Range(M[m].labels) /\ O[m].props = M[m].props
  <2>1. CASE m = n
    BY <1>24, <2>1
  <2>2. CASE m # n
    <3>1. m \in DOMAIN H /\ m \in DOMAIN N /\ m \in DOMAIN K
      BY <1>8, <1>9, <1>15, <2>2
    <3>2. O[m] = N[m] /\ H[m] = M[m]
      BY <1>8, <1>15, <1>22, <2>2, <3>1
    <3> QED BY <1>9, <3>1, <3>2
  <2> QED BY <2>1, <2>2
<1>27. Alike(O, M)
  BY <1>25, <1>26 DEF Alike
<1>28. UndoDeleteNode(r, u).graph = j
  <2>1. [k EXCEPT !.nodes[n] = WithProps(@, p)] = j
    BY <1>18 DEF NodeWith, WithProps
  <2> QED BY <1>1, <1>5, <1>11, <2>1 DEF UndoDeleteNode, Recorded
<1> QED BY <1>2, <1>3, <1>20, <1>21, <1>27, <1>28 DEF Like

(* Property maps that differ at key k alone, which one of them has.           *)
DifferAt(p, q, k) ==
    /\ DOMAIN p \subseteq DOMAIN q \cup {k} /\ DOMAIN q \subseteq DOMAIN p \cup {k}
    /\ \A x \in DOMAIN p : x # k => q[x] = p[x]
    /\ k \notin DOMAIN p => k \in DOMAIN q

(* A property of a node gets its old value back, or none.                      *)
LEMMA NodePropertyReversed ==
    ASSUME NEW g, Good(g), NEW n \in DOMAIN g.nodes, NEW k, NEW q, PropMap(q), NEW h,
           h.nodes = Put(g.nodes, n, NodeOf(g.nodes[n].labels, q)), h.edges = g.edges,
           NEW p, p = g.nodes[n].props, DifferAt(p, q, k),
           NEW u, u = [op |-> "SetProperty", node |-> TRUE, id |-> n, key |-> k, old |-> OldValue(p, k)]
    PROVE  Reverses(u, h, g)
<1> SUFFICES ASSUME NEW r, Good(r.graph), Like(r.graph, h)
             PROVE  Good(ApplyUndo(r, u).graph) /\ Like(ApplyUndo(r, u).graph, g)
  BY DEF Reverses
<1> /\ DOMAIN p \subseteq DOMAIN q \cup {k} /\ DOMAIN q \subseteq DOMAIN p \cup {k}
    /\ \A x \in DOMAIN p : x # k => q[x] = p[x]
    /\ k \notin DOMAIN p => k \in DOMAIN q
  BY DEF DifferAt
<1>1. PICK i : i = r.graph
  OBVIOUS
<1>2. ApplyUndo(r, u) = UndoSetProperty(r, u)
  BY DEF ApplyUndo
<1>3. u.node = TRUE /\ u.id = n /\ u.key = k /\ u.old = OldValue(p, k)
  OBVIOUS
<1>4. PICK M, H, N : M = g.nodes /\ H = h.nodes /\ N = i.nodes
  OBVIOUS
<1>5. PICK z : z = NodeOf(g.nodes[n].labels, q)
  OBVIOUS
<1>6. H = Put(M, n, z) /\ n \in DOMAIN M /\ p = M[n].props
  BY <1>4, <1>5
<1>7. DOMAIN H = DOMAIN M /\ H[n] = z
  BY <1>6, PutDomainSame, PutAt
<1>8. PropMap(p) /\ NodeOK(g.nodes[n])
  BY GoodParts DEF NodeOK, EdgeOK
<1>9. n \in DOMAIN N /\ N[n].props = q /\ Range(N[n].labels) = Range(M[n].labels)
  <2>1. z.props = q /\ z.labels = M[n].labels
    BY <1>4, <1>5 DEF NodeOf
  <2>2. DOMAIN N = DOMAIN H /\ \A m \in DOMAIN H : Range(N[m].labels) = Range(H[m].labels) /\ N[m].props = H[m].props
    BY <1>1, <1>4 DEF Like, Alike
  <2> QED BY <1>6, <1>7, <2>1, <2>2
<1>10. CASE k \in DOMAIN p
  <2>1. PICK v : v = p[k]
    OBVIOUS
  <2>2. u.old # <<>> /\ u.old[1] = v
    BY <1>3, <1>10, <2>1 DEF OldValue
  <2>3. PICK j : j = SetNodeProperty(i, n, k, v)
    OBVIOUS
  <2>4. NodeNow(i, j, n, NodeOf(i.nodes[n].labels, Put(i.nodes[n].props, k, v)))
    BY <1>1, <1>4, <1>9, <2>3, SetNodePropertyGood
  <2>5. PICK w : w = Put(q, k, v)
    OBVIOUS
  <2>6. w = p
    <3>1. IsMap(w) /\ DOMAIN w = DOMAIN q \cup {k} /\ w[k] = v
      <4>1. IsPut(w, q, k, v)
        BY <2>5, Puts
      <4> QED BY <4>1 DEF IsPut
    <3>2. \A x \in DOMAIN q : x # k => w[x] = q[x]
      BY <2>5, PutOther
    <3>3. DOMAIN w = DOMAIN p
      BY <1>10, <3>1
    <3>4. \A x \in DOMAIN p : w[x] = p[x]
      BY <2>1, <3>1, <3>2, <3>3
    <3>5. IsMap(p)
      BY <1>8 DEF PropMap
    <3> QED BY <3>1, <3>3, <3>4, <3>5, MapsEqual
  <2>7. Good(j) /\ Like(j, g)
    <3>1. PICK y : y = NodeOf(N[n].labels, p)
      OBVIOUS
    <3>2. Range(y.labels) = Range(g.nodes[n].labels) /\ y.props = g.nodes[n].props
      BY <1>4, <1>6, <1>9, <3>1 DEF NodeOf
    <3>3. NodeNow(i, j, n, y)
      BY <1>4, <1>9, <2>4, <2>5, <2>6, <3>1
    <3>4. Like(i, h) /\ h.nodes = Put(g.nodes, n, z)
      BY <1>1, <1>5
    <3> QED BY <3>2, <3>3, <3>4, NodeBack
  <2>8. ApplyUndo(r, u) = RecSetNodeProperty(r, n, k, v)
    BY <1>2, <1>3, <2>2 DEF UndoSetProperty
  <2>9. ApplyUndo(r, u).graph = j
    BY <1>1, <2>3, <2>8 DEF RecSetNodeProperty, Recorded
  <2> QED BY <2>7, <2>9
<1>11. CASE k \notin DOMAIN p
  <2>1. k \in DOMAIN q
    BY <1>11
  <2>2. u.old = <<>>
    BY <1>3, <1>11 DEF OldValue
  <2>3. PICK j : j = RemoveNodeProperty(i, n, k)
    OBVIOUS
  <2>4. NodeNow(i, j, n, NodeOf(i.nodes[n].labels, Drop(i.nodes[n].props, {k})))
    BY <1>1, <1>4, <1>9, <2>3, RemoveNodePropertyGood
  <2>5. PICK w : w = Drop(q, {k})
    OBVIOUS
  <2>6. w = p
    <3>1. IsMap(w) /\ DOMAIN w = DOMAIN q \ {k}
      BY <2>5, DropMap, DropDomain
    <3>2. \A x \in DOMAIN q \ {k} : w[x] = q[x]
      BY <2>5, DropOther
    <3>3. DOMAIN w = DOMAIN p
      BY <1>11, <3>1
    <3>4. \A x \in DOMAIN p : w[x] = p[x]
      BY <1>11, <3>1, <3>2, <3>3
    <3>5. IsMap(p)
      BY <1>8 DEF PropMap
    <3> QED BY <3>1, <3>3, <3>4, <3>5, MapsEqual
  <2>7. Good(j) /\ Like(j, g)
    <3>1. PICK y : y = NodeOf(N[n].labels, p)
      OBVIOUS
    <3>2. Range(y.labels) = Range(g.nodes[n].labels) /\ y.props = g.nodes[n].props
      BY <1>4, <1>6, <1>9, <3>1 DEF NodeOf
    <3>3. NodeNow(i, j, n, y)
      BY <1>4, <1>9, <2>4, <2>5, <2>6, <3>1
    <3>4. Like(i, h) /\ h.nodes = Put(g.nodes, n, z)
      BY <1>1, <1>5
    <3> QED BY <3>2, <3>3, <3>4, NodeBack
  <2>8. ApplyUndo(r, u) = RecRemoveNodeProperty(r, n, k)
    BY <1>2, <1>3, <2>2 DEF UndoSetProperty
  <2>9. ApplyUndo(r, u).graph = j
    <3>1. HasNode(r.graph, n) /\ k \in DOMAIN r.graph.nodes[n].props
      BY <1>1, <1>4, <1>9, <2>1 DEF HasNode
    <3> QED BY <1>1, <2>3, <2>8, <3>1 DEF RecRemoveNodeProperty, Recorded
  <2> QED BY <2>7, <2>9
<1> QED BY <1>10, <1>11

(* Writing a property of a node that does not exist is undone by nothing.    *)
LEMMA NoNodeReversed ==
    ASSUME NEW g, NEW n, n \notin DOMAIN g.nodes, NEW k,
           NEW u, u = [op |-> "SetProperty", node |-> TRUE, id |-> n, key |-> k, old |-> <<>>]
    PROVE  Reverses(u, g, g)
<1> SUFFICES ASSUME NEW r, Good(r.graph), Like(r.graph, g)
             PROVE  Good(ApplyUndo(r, u).graph) /\ Like(ApplyUndo(r, u).graph, g)
  BY DEF Reverses
<1>1. ApplyUndo(r, u) = UndoSetProperty(r, u)
  BY DEF ApplyUndo
<1>2. UndoSetProperty(r, u) = RecRemoveNodeProperty(r, n, k)
  BY DEF UndoSetProperty
<1>3. ~ HasNode(r.graph, n)
  BY DEF HasNode, Like, Alike
<1>4. RecRemoveNodeProperty(r, n, k) = r
  BY <1>3 DEF RecRemoveNodeProperty
<1> QED BY <1>1, <1>2, <1>4

(* A property of an edge gets its old value back, or none.                      *)
LEMMA EdgePropertyReversed ==
    ASSUME NEW g, Good(g), NEW e \in DOMAIN g.edges, NEW k, NEW q, PropMap(q), NEW h,
           h.edges = Put(g.edges, e, EdgeOf(g.edges[e].from, g.edges[e].to, q)), h.nodes = g.nodes,
           NEW p, p = g.edges[e].props, DifferAt(p, q, k),
           NEW u, u = [op |-> "SetProperty", node |-> FALSE, id |-> e, key |-> k, old |-> OldValue(p, k)]
    PROVE  Reverses(u, h, g)
<1> SUFFICES ASSUME NEW r, Good(r.graph), Like(r.graph, h)
             PROVE  Good(ApplyUndo(r, u).graph) /\ Like(ApplyUndo(r, u).graph, g)
  BY DEF Reverses
<1> /\ DOMAIN p \subseteq DOMAIN q \cup {k} /\ DOMAIN q \subseteq DOMAIN p \cup {k}
    /\ \A x \in DOMAIN p : x # k => q[x] = p[x]
    /\ k \notin DOMAIN p => k \in DOMAIN q
  BY DEF DifferAt
<1>1. PICK i : i = r.graph
  OBVIOUS
<1>2. ApplyUndo(r, u) = UndoSetProperty(r, u)
  BY DEF ApplyUndo
<1>3. u.node = FALSE /\ u.id = e /\ u.key = k /\ u.old = OldValue(p, k)
  OBVIOUS
<1>4. PICK M, H, N : M = g.edges /\ H = h.edges /\ N = i.edges
  OBVIOUS
<1>5. PICK z : z = EdgeOf(g.edges[e].from, g.edges[e].to, q)
  OBVIOUS
<1>6. H = Put(M, e, z) /\ e \in DOMAIN M /\ p = M[e].props
  BY <1>4, <1>5
<1>7. DOMAIN H = DOMAIN M /\ H[e] = z
  BY <1>6, PutDomainSame, PutAt
<1>8. PropMap(p) /\ EdgeOK(g.edges[e])
  BY GoodParts DEF NodeOK, EdgeOK
<1>9. e \in DOMAIN N /\ N[e].props = q /\ N[e].from = M[e].from /\ N[e].to = M[e].to
  <2>1. z.props = q /\ z.from = M[e].from /\ z.to = M[e].to
    BY <1>4, <1>5 DEF EdgeOf
  <2>2. N = H
    BY <1>1, <1>4 DEF Like
  <2> QED BY <1>6, <1>7, <2>1, <2>2
<1>10. CASE k \in DOMAIN p
  <2>1. PICK v : v = p[k]
    OBVIOUS
  <2>2. u.old # <<>> /\ u.old[1] = v
    BY <1>3, <1>10, <2>1 DEF OldValue
  <2>3. PICK j : j = SetEdgeProperty(i, e, k, v)
    OBVIOUS
  <2>4. EdgeNow(i, j, e, EdgeOf(i.edges[e].from, i.edges[e].to, Put(i.edges[e].props, k, v)))
    BY <1>1, <1>4, <1>9, <2>3, SetEdgePropertyGood
  <2>5. PICK w : w = Put(q, k, v)
    OBVIOUS
  <2>6. w = p
    <3>1. IsMap(w) /\ DOMAIN w = DOMAIN q \cup {k} /\ w[k] = v
      <4>1. IsPut(w, q, k, v)
        BY <2>5, Puts
      <4> QED BY <4>1 DEF IsPut
    <3>2. \A x \in DOMAIN q : x # k => w[x] = q[x]
      BY <2>5, PutOther
    <3>3. DOMAIN w = DOMAIN p
      BY <1>10, <3>1
    <3>4. \A x \in DOMAIN p : w[x] = p[x]
      BY <2>1, <3>1, <3>2, <3>3
    <3>5. IsMap(p)
      BY <1>8 DEF PropMap
    <3> QED BY <3>1, <3>3, <3>4, <3>5, MapsEqual
  <2>7. Good(j) /\ Like(j, g)
    <3>1. M[e] = EdgeOf(N[e].from, N[e].to, p)
      BY <1>4, <1>6, <1>8, <1>9 DEF EdgeOK
    <3>2. EdgeNow(i, j, e, g.edges[e])
      BY <1>4, <1>9, <2>4, <2>5, <2>6, <3>1
    <3>3. Like(i, h) /\ h.edges = Put(g.edges, e, z) /\ IsMap(g.edges)
      BY <1>1, <1>5, GoodParts
    <3> QED BY <3>2, <3>3, EdgeBack
  <2>8. ApplyUndo(r, u) = RecSetEdgeProperty(r, e, k, v)
    BY <1>2, <1>3, <2>2 DEF UndoSetProperty
  <2>9. ApplyUndo(r, u).graph = j
    BY <1>1, <2>3, <2>8 DEF RecSetEdgeProperty, Recorded
  <2> QED BY <2>7, <2>9
<1>11. CASE k \notin DOMAIN p
  <2>1. k \in DOMAIN q
    BY <1>11
  <2>2. u.old = <<>>
    BY <1>3, <1>11 DEF OldValue
  <2>3. PICK j : j = RemoveEdgeProperty(i, e, k)
    OBVIOUS
  <2>4. EdgeNow(i, j, e, EdgeOf(i.edges[e].from, i.edges[e].to, Drop(i.edges[e].props, {k})))
    BY <1>1, <1>4, <1>9, <2>3, RemoveEdgePropertyGood
  <2>5. PICK w : w = Drop(q, {k})
    OBVIOUS
  <2>6. w = p
    <3>1. IsMap(w) /\ DOMAIN w = DOMAIN q \ {k}
      BY <2>5, DropMap, DropDomain
    <3>2. \A x \in DOMAIN q \ {k} : w[x] = q[x]
      BY <2>5, DropOther
    <3>3. DOMAIN w = DOMAIN p
      BY <1>11, <3>1
    <3>4. \A x \in DOMAIN p : w[x] = p[x]
      BY <1>11, <3>1, <3>2, <3>3
    <3>5. IsMap(p)
      BY <1>8 DEF PropMap
    <3> QED BY <3>1, <3>3, <3>4, <3>5, MapsEqual
  <2>7. Good(j) /\ Like(j, g)
    <3>1. M[e] = EdgeOf(N[e].from, N[e].to, p)
      BY <1>4, <1>6, <1>8, <1>9 DEF EdgeOK
    <3>2. EdgeNow(i, j, e, g.edges[e])
      BY <1>4, <1>9, <2>4, <2>5, <2>6, <3>1
    <3>3. Like(i, h) /\ h.edges = Put(g.edges, e, z) /\ IsMap(g.edges)
      BY <1>1, <1>5, GoodParts
    <3> QED BY <3>2, <3>3, EdgeBack
  <2>8. ApplyUndo(r, u) = RecRemoveEdgeProperty(r, e, k)
    BY <1>2, <1>3, <2>2 DEF UndoSetProperty
  <2>9. ApplyUndo(r, u).graph = j
    <3>1. HasEdge(r.graph, e) /\ k \in DOMAIN r.graph.edges[e].props
      BY <1>1, <1>4, <1>9, <2>1 DEF HasEdge
    <3> QED BY <1>1, <2>3, <2>8, <3>1 DEF RecRemoveEdgeProperty, Recorded
  <2> QED BY <2>7, <2>9
<1> QED BY <1>10, <1>11

(* Writing a property of an edge that does not exist is undone by nothing.    *)
LEMMA NoEdgeReversed ==
    ASSUME NEW g, NEW e, e \notin DOMAIN g.edges, NEW k,
           NEW u, u = [op |-> "SetProperty", node |-> FALSE, id |-> e, key |-> k, old |-> <<>>]
    PROVE  Reverses(u, g, g)
<1> SUFFICES ASSUME NEW r, Good(r.graph), Like(r.graph, g)
             PROVE  Good(ApplyUndo(r, u).graph) /\ Like(ApplyUndo(r, u).graph, g)
  BY DEF Reverses
<1>1. ApplyUndo(r, u) = UndoSetProperty(r, u)
  BY DEF ApplyUndo
<1>2. UndoSetProperty(r, u) = RecRemoveEdgeProperty(r, e, k)
  BY DEF UndoSetProperty
<1>3. ~ HasEdge(r.graph, e)
  BY DEF HasEdge, Like, Alike
<1>4. RecRemoveEdgeProperty(r, e, k) = r
  BY <1>3 DEF RecRemoveEdgeProperty
<1> QED BY <1>1, <1>2, <1>4

LEMMA AddLabelReversed ==
    ASSUME NEW g, NEW n \in DOMAIN g.nodes, NEW l \in Labels, NEW x, NEW h,
           h.nodes = Put(g.nodes, n, x), h.edges = g.edges, x.props = g.nodes[n].props,
           l \notin Range(g.nodes[n].labels), Range(x.labels) = Range(g.nodes[n].labels) \cup {l},
           NEW u, u = [op |-> "AddLabel", id |-> n, label |-> l]
    PROVE  Reverses(u, h, g)
<1> SUFFICES ASSUME NEW r, Good(r.graph), Like(r.graph, h)
             PROVE  Good(ApplyUndo(r, u).graph) /\ Like(ApplyUndo(r, u).graph, g)
  BY DEF Reverses
<1>1. PICK i : i = r.graph
  OBVIOUS
<1>2. ApplyUndo(r, u) = RecRemoveNodeLabel(r, n, l)
  BY DEF ApplyUndo
<1>3. PICK M, H, N : M = g.nodes /\ H = h.nodes /\ N = i.nodes
  OBVIOUS
<1>4. H = Put(M, n, x) /\ n \in DOMAIN M
  BY <1>3
<1>5. DOMAIN H = DOMAIN M /\ H[n] = x
  BY <1>4, PutDomainSame, PutAt
<1>6. DOMAIN N = DOMAIN H /\ \A m \in DOMAIN H : Range(N[m].labels) = Range(H[m].labels) /\ N[m].props = H[m].props
  BY <1>1, <1>3 DEF Like, Alike
<1>7. n \in DOMAIN N /\ Range(N[n].labels) = Range(x.labels) /\ N[n].props = M[n].props
  BY <1>3, <1>4, <1>5, <1>6
<1>8. PICK old : old = N[n].labels
  OBVIOUS
<1>9. old \in Seq(Labels)
  BY <1>1, <1>3, <1>7, <1>8, GoodParts DEF NodeOK
<1>10. HasLabel(i, n, l)
  BY <1>3, <1>7 DEF HasLabel, HasNode
<1>11. PICK j, ls : j = RemoveNodeLabel(i, n, l) /\ ls = Without(old, l)
  OBVIOUS
<1>12. NodeNow(i, j, n, NodeOf(ls, N[n].props))
  BY <1>1, <1>3, <1>7, <1>8, <1>10, <1>11, RemoveLabelGood
<1>13. Range(ls) = Range(old) \ {l}
  BY <1>9, <1>11, WithoutIs
<1>14. Range(ls) = Range(M[n].labels)
  BY <1>3, <1>7, <1>8, <1>13
<1>15. Good(j) /\ Like(j, g)
  <2>1. PICK y : y = NodeOf(ls, N[n].props)
    OBVIOUS
  <2>2. Range(y.labels) = Range(g.nodes[n].labels) /\ y.props = g.nodes[n].props
    BY <1>3, <1>7, <1>14, <2>1 DEF NodeOf
  <2>3. NodeNow(i, j, n, y)
    BY <1>12, <2>1
  <2>4. Like(i, h)
    BY <1>1
  <2> QED BY <2>2, <2>3, <2>4, NodeBack
<1>16. ApplyUndo(r, u).graph = j
  BY <1>1, <1>2, <1>10, <1>11 DEF RecRemoveNodeLabel, Recorded
<1> QED BY <1>15, <1>16

LEMMA RemoveLabelReversed ==
    ASSUME NEW g, NEW n \in DOMAIN g.nodes, NEW l \in Labels, NEW x, NEW h,
           h.nodes = Put(g.nodes, n, x), h.edges = g.edges, x.props = g.nodes[n].props,
           l \in Range(g.nodes[n].labels), Range(x.labels) = Range(g.nodes[n].labels) \ {l},
           NEW u, u = [op |-> "RemoveLabel", id |-> n, label |-> l]
    PROVE  Reverses(u, h, g)
<1> SUFFICES ASSUME NEW r, Good(r.graph), Like(r.graph, h)
             PROVE  Good(ApplyUndo(r, u).graph) /\ Like(ApplyUndo(r, u).graph, g)
  BY DEF Reverses
<1>1. PICK i : i = r.graph
  OBVIOUS
<1>2. ApplyUndo(r, u) = RecAddNodeLabel(r, n, l)
  BY DEF ApplyUndo
<1>3. PICK M, H, N : M = g.nodes /\ H = h.nodes /\ N = i.nodes
  OBVIOUS
<1>4. H = Put(M, n, x) /\ n \in DOMAIN M
  BY <1>3
<1>5. DOMAIN H = DOMAIN M /\ H[n] = x
  BY <1>4, PutDomainSame, PutAt
<1>6. DOMAIN N = DOMAIN H /\ \A m \in DOMAIN H : Range(N[m].labels) = Range(H[m].labels) /\ N[m].props = H[m].props
  BY <1>1, <1>3 DEF Like, Alike
<1>7. n \in DOMAIN N /\ Range(N[n].labels) = Range(x.labels) /\ N[n].props = M[n].props
  BY <1>3, <1>4, <1>5, <1>6
<1>8. PICK old : old = N[n].labels
  OBVIOUS
<1>9. old \in Seq(Labels)
  BY <1>1, <1>3, <1>7, <1>8, GoodParts DEF NodeOK
<1>10. ~ HasLabel(i, n, l) /\ HasNode(i, n)
  BY <1>3, <1>7 DEF HasLabel, HasNode
<1>11. PICK j, ls : j = AddNodeLabel(i, n, l) /\ ls = Append(old, l)
  OBVIOUS
<1>12. NodeNow(i, j, n, NodeOf(ls, N[n].props))
  BY <1>1, <1>3, <1>7, <1>8, <1>10, <1>11, AddLabelGood
<1>13. Range(ls) = Range(old) \cup {l}
  BY <1>9, <1>11, AppendedRange
<1>14. Range(ls) = Range(M[n].labels)
  BY <1>3, <1>7, <1>8, <1>13
<1>15. Good(j) /\ Like(j, g)
  <2>1. PICK y : y = NodeOf(ls, N[n].props)
    OBVIOUS
  <2>2. Range(y.labels) = Range(g.nodes[n].labels) /\ y.props = g.nodes[n].props
    BY <1>3, <1>7, <1>14, <2>1 DEF NodeOf
  <2>3. NodeNow(i, j, n, y)
    BY <1>12, <2>1
  <2>4. Like(i, h)
    BY <1>1
  <2> QED BY <2>2, <2>3, <2>4, NodeBack
<1>16. ApplyUndo(r, u).graph = j
  BY <1>1, <1>2, <1>10, <1>11 DEF RecAddNodeLabel, Recorded
<1> QED BY <1>15, <1>16

-----------------------------------------------------------------------------
(* Undo records one after the other.                                          *)

(* c gives the graphs on the way back from h to g, newest record first.       *)
Trail(c, us, h, g) ==
    c[0] = g /\ c[Len(us)] = h /\ \A j \in 1..Len(us) : Reverses(us[j], c[j], c[j - 1])
Back(us, h, g) == \E c : Trail(c, us, h, g)

LEMMA BackNothing ==
    ASSUME NEW g
    PROVE  Back(<<>>, g, g)
<1>1. PICK c : c = [j \in {0} |-> g]
  OBVIOUS
<1>2. c[0] = g /\ Len(<<>>) = 0 /\ 1..0 = {}
  BY <1>1
<1>3. Trail(c, <<>>, g, g)
  BY <1>2 DEF Trail
<1> QED BY <1>3 DEF Back

LEMMA BackOne ==
    ASSUME NEW u, NEW h, NEW g, Reverses(u, h, g)
    PROVE  Back(<<u>>, h, g)
<1>1. PICK us : us = <<u>>
  OBVIOUS
<1>2. Len(us) = 1 /\ us[1] = u
  BY <1>1, SeqOne
<1>3. PICK c : c = [j \in 0..1 |-> IF j = 0 THEN g ELSE h]
  OBVIOUS
<1>4. c[0] = g /\ c[1] = h /\ 1 - 1 = 0 /\ \A j \in 1..1 : j = 1
  BY <1>3
<1>5. Trail(c, us, h, g)
  BY <1>2, <1>4 DEF Trail
<1> QED BY <1>1, <1>5 DEF Back

LEMMA BackBoth ==
    ASSUME NEW a, IsSeq(a), NEW b, IsSeq(b), NEW g, NEW m, NEW h, Back(a, m, g), Back(b, h, m)
    PROVE  Back(a \o b, h, g)
<1>1. PICK ca : Trail(ca, a, m, g)
  BY DEF Back
<1>2. PICK cb : Trail(cb, b, h, m)
  BY DEF Back
<1>3. PICK x, y, us : x = Len(a) /\ y = Len(b) /\ us = a \o b
  OBVIOUS
<1>4. /\ x \in Nat /\ y \in Nat /\ Len(us) = x + y
      /\ \A j \in 1..x : us[j] = a[j]
      /\ \A j \in 1..y : us[x + j] = b[j]
  BY <1>3, SeqConcat
<1>5. ca[0] = g /\ ca[x] = m /\ \A j \in 1..x : Reverses(a[j], ca[j], ca[j - 1])
  BY <1>1, <1>3 DEF Trail
<1>6. cb[0] = m /\ cb[y] = h /\ \A j \in 1..y : Reverses(b[j], cb[j], cb[j - 1])
  BY <1>2, <1>3 DEF Trail
<1>7. PICK c : c = [j \in 0..(x + y) |-> IF j <= x THEN ca[j] ELSE cb[j - x]]
  OBVIOUS
<1>8. \A j \in 0..x : c[j] = ca[j]
  BY <1>4, <1>7
<1>9. \A j \in 0..y : c[x + j] = cb[j]
  <2> TAKE j \in 0..y
  <2>1. CASE j = 0
    BY <1>4, <1>5, <1>6, <1>8, <2>1
  <2>2. CASE j # 0
    BY <1>4, <1>7, <2>2
  <2> QED BY <2>1, <2>2
<1>10. c[0] = g /\ c[x + y] = h
  BY <1>4, <1>5, <1>6, <1>8, <1>9
<1>11. ASSUME NEW j \in 1..(x + y) PROVE Reverses(us[j], c[j], c[j - 1])
  <2>1. CASE j \in 1..x
    <3>1. j \in 0..x /\ j - 1 \in 0..x
      BY <1>4, <2>1
    <3>2. c[j] = ca[j] /\ c[j - 1] = ca[j - 1] /\ us[j] = a[j]
      BY <1>4, <1>8, <2>1, <3>1
    <3> QED BY <1>5, <2>1, <3>2
  <2>2. CASE j \notin 1..x
    <3>1. PICK k \in 1..y : j = x + k
      <4>1. j - x \in 1..y /\ j = x + (j - x)
        BY <1>4, <2>2
      <4> QED BY <4>1
    <3>2. k \in 0..y /\ k - 1 \in 0..y /\ j - 1 = x + (k - 1)
      BY <1>4, <3>1
    <3>3. c[j] = cb[k] /\ c[j - 1] = cb[k - 1] /\ us[j] = b[k]
      BY <1>4, <1>9, <3>1, <3>2
    <3> QED BY <1>6, <3>1, <3>3
  <2> QED BY <2>1, <2>2
<1>12. Trail(c, us, h, g)
  BY <1>4, <1>10, <1>11 DEF Trail
<1> QED BY <1>3, <1>12 DEF Back

(* What rollback makes of a graph whose undo log leads back to g.             *)
LEMMA BackUndone ==
    ASSUME NEW us, IsSeq(us), NEW h, Good(h), NEW g, Back(us, h, g), NEW s, s = ApplyUndoLog(h, us)
    PROVE  Good(s.graph) /\ Like(s.graph, g)
<1>1. PICK c : Trail(c, us, h, g)
  BY DEF Back
<1>2. PICK n : n = Len(us)
  OBVIOUS
<1>3. n \in Nat
  BY <1>2, SeqAppend
<1>4. c[0] = g /\ c[n] = h /\ \A j \in 1..n : Reverses(us[j], c[j], c[j - 1])
  BY <1>1, <1>2 DEF Trail
<1>5. PICK f : Unwinds(f, h, us, n) /\ s = f[n]
  BY <1>2, <1>3, UnwindsIs
<1>6. f[0] = Recording(h)
  BY <1>3, <1>5, UnwindsFirst
<1>7. \A i \in 1..n : f[i] = ApplyUndo(f[i - 1], us[n + 1 - i])
  BY <1>2, <1>3, <1>5, UnwindsStep
<1> DEFINE Fine(i) == Good(f[i].graph) /\ Like(f[i].graph, c[n - i])
           T == {i \in 0..n : ~ Fine(i)}
<1>8. Fine(0)
  <2>1. f[0].graph = h /\ n - 0 = n
    BY <1>3, <1>6 DEF Recording
  <2>2. Like(h, h)
    BY DEF Like, Alike
  <2> QED BY <1>4, <2>1, <2>2
<1>9. ASSUME NEW i \in 1..n, Fine(i - 1) PROVE Fine(i)
  <2>1. PICK k \in 1..n : k = n + 1 - i
    <3>1. n + 1 - i \in 1..n
      BY <1>3
    <3> QED BY <3>1
  <2>2. n - (i - 1) = k /\ n - i = k - 1
    BY <1>3, <2>1
  <2>3. PICK r, u : r = f[i - 1] /\ u = us[k]
    OBVIOUS
  <2>4. f[i] = ApplyUndo(r, u)
    BY <1>7, <2>1, <2>3
  <2>5. Good(r.graph) /\ Like(r.graph, c[k])
    BY <1>9, <2>2, <2>3
  <2>6. Reverses(u, c[k], c[k - 1])
    BY <1>4, <2>1, <2>3
  <2>7. Good(ApplyUndo(r, u).graph) /\ Like(ApplyUndo(r, u).graph, c[k - 1])
    BY <2>5, <2>6 DEF Reverses
  <2> QED BY <2>2, <2>4, <2>7
<1>10. T = {}
  <2>1. SUFFICES ASSUME T # {} PROVE FALSE
    OBVIOUS
  <2>2. T \subseteq Nat
    BY <1>3
  <2>3. PICK i \in T : \A y \in T : i <= y
    <3> HIDE DEF T
    <3> QED BY <2>1, <2>2, NatsHaveLeast
  <2> HIDE DEF Fine
  <2>4. i \in 1..n
    BY <1>3, <1>8, <2>3
  <2>5. i - 1 \in 0..n /\ i - 1 \notin T
    BY <1>3, <2>3, <2>4
  <2>6. Fine(i - 1)
    BY <2>5
  <2>7. Fine(i)
    BY <1>9, <2>4, <2>6
  <2> QED BY <2>7, <2>3
<1>11. Fine(n)
  <2>1. n \in 0..n
    BY <1>3
  <2> HIDE DEF Fine
  <2> QED BY <1>10, <2>1
<1>12. n - n = 0
  BY <1>3
<1> QED BY <1>4, <1>5, <1>11, <1>12

(* The undo records that lead from r to s lead back.                          *)
TakesBack(r, s) ==
    \E us : IsSeq(us) /\ s.undo = r.undo \o us /\ Back(us, s.graph, r.graph)

LEMMA TakesBackNothing ==
    ASSUME NEW r, IsRec(r)
    PROVE  TakesBack(r, r)
<1>1. IsSeq(<<>>) /\ r.undo = r.undo \o <<>>
  BY SeqNone, SeqNothingMore DEF IsRec
<1> QED BY <1>1, BackNothing DEF TakesBack

LEMMA TakesBackOne ==
    ASSUME NEW r, NEW h, NEW w, NEW u, Reverses(u, h, r.graph), NEW s, s = Recorded(r, h, w, <<u>>)
    PROVE  TakesBack(r, s)
<1>1. PICK us : us = <<u>>
  OBVIOUS
<1>2. s.graph = h /\ s.undo = r.undo \o us
  BY <1>1, RecordedGraph
<1>3. IsSeq(us) /\ Back(us, s.graph, r.graph)
  BY <1>1, <1>2, SeqOne, BackOne
<1> QED BY <1>2, <1>3 DEF TakesBack

LEMMA RecCreateNodeBack ==
    ASSUME NEW r, IsRec(r), NEW ls \in Seq(Labels)
    PROVE  TakesBack(r, RecCreateNode(r, ls))
<1>1. PICK g, n : g = r.graph /\ n = g.nextNode
  OBVIOUS
<1>2. PICK h : h = CreateNodeWithId(g, n, ls)
  OBVIOUS
<1>3. Good(g)
  BY <1>1 DEF IsRec
<1>4. n \in Nat /\ n \notin DOMAIN g.nodes /\ CreateNodeWithLabels(g, ls) = h
  BY <1>1, <1>2, <1>3, NewNodeIs
<1>5. h.nodes = Put(g.nodes, n, NodeOf(ls, Empty)) /\ h.edges = g.edges
  BY <1>2, <1>3, <1>4, CreateNodeGood
<1>6. PICK u : u = [op |-> "CreateNode", id |-> n]
  OBVIOUS
<1>7. Reverses(u, h, g)
  BY <1>3, <1>4, <1>5, <1>6, CreateNodeReversed
<1>8. PICK w : RecCreateNode(r, ls) = Recorded(r, h, w, <<u>>)
  BY <1>1, <1>4, <1>6 DEF RecCreateNode
<1> QED BY <1>1, <1>7, <1>8, TakesBackOne

LEMMA RecCreateEdgeBack ==
    ASSUME NEW r, IsRec(r), NEW from, NEW to
    PROVE  TakesBack(r, RecCreateEdge(r, from, to))
<1>1. PICK g, e : g = r.graph /\ e = g.nextEdge
  OBVIOUS
<1>2. CASE ~ EndpointsExist(g, from, to)
  BY <1>1, <1>2, TakesBackNothing DEF RecCreateEdge
<1>3. CASE EndpointsExist(g, from, to)
  <2>1. PICK h : h = CreateEdgeWithId(g, e, from, to)
    OBVIOUS
  <2>2. Good(g) /\ from \in DOMAIN g.nodes /\ to \in DOMAIN g.nodes
    BY <1>1, <1>3 DEF IsRec, EndpointsExist, HasNode
  <2>3. e \in Nat /\ e \notin DOMAIN g.edges /\ CreateEdge(g, from, to) = h
    BY <1>1, <1>3, <2>1, <2>2, NewEdgeIs
  <2>4. h.edges = Put(g.edges, e, EdgeOf(from, to, Empty)) /\ h.nodes = g.nodes
    BY <2>1, <2>2, <2>3, CreateEdgeGood
  <2>5. PICK u : u = [op |-> "CreateEdge", id |-> e]
    OBVIOUS
  <2>6. IsMap(g.edges)
    BY <2>2, GoodParts
  <2>7. Reverses(u, h, g)
    BY <2>3, <2>4, <2>5, <2>6, CreateEdgeReversed
  <2>8. PICK w : RecCreateEdge(r, from, to) = Recorded(r, h, w, <<u>>)
    BY <1>1, <1>3, <2>3, <2>5 DEF RecCreateEdge
  <2> QED BY <1>1, <2>7, <2>8, TakesBackOne
<1> QED BY <1>2, <1>3

LEMMA RecDeleteEdgeBack ==
    ASSUME NEW r, IsRec(r), NEW e
    PROVE  TakesBack(r, RecDeleteEdge(r, e))
<1>1. PICK g : g = r.graph
  OBVIOUS
<1>2. CASE ~ HasEdge(g, e)
  BY <1>1, <1>2, TakesBackNothing DEF RecDeleteEdge
<1>3. CASE HasEdge(g, e)
  <2>1. Good(g) /\ e \in DOMAIN g.edges
    BY <1>1, <1>3 DEF IsRec, HasEdge
  <2>2. PICK h : h = DeleteEdge(g, e)
    OBVIOUS
  <2>3. h.edges = Drop(g.edges, {e}) /\ h.nodes = g.nodes
    BY <2>1, <2>2, DeleteEdgeGood
  <2>4. PICK u : u = DeleteEdgeUndo(g, e)
    OBVIOUS
  <2>5. u = [op |-> "DeleteEdge", id |-> e, from |-> g.edges[e].from, to |-> g.edges[e].to, props |-> g.edges[e].props]
    BY <2>4 DEF DeleteEdgeUndo
  <2>6. /\ IsMap(g.edges) /\ e \in Nat /\ EdgeOK(g.edges[e])
        /\ g.edges[e].from \in DOMAIN g.nodes /\ g.edges[e].to \in DOMAIN g.nodes
    BY <2>1, GoodParts
  <2>7. Reverses(u, h, g)
    BY <2>1, <2>3, <2>5, <2>6, DeleteEdgeReversed
  <2>8. PICK w : RecDeleteEdge(r, e) = Recorded(r, h, w, <<u>>)
    BY <1>1, <1>3, <2>2, <2>4 DEF RecDeleteEdge
  <2> QED BY <1>1, <2>7, <2>8, TakesBackOne
<1> QED BY <1>2, <1>3

LEMMA RecAddLabelBack ==
    ASSUME NEW r, IsRec(r), NEW n, NEW l \in Labels
    PROVE  TakesBack(r, RecAddNodeLabel(r, n, l))
<1>1. PICK g : g = r.graph
  OBVIOUS
<1>2. CASE ~ HasNode(g, n) \/ HasLabel(g, n, l)
  BY <1>1, <1>2, TakesBackNothing DEF RecAddNodeLabel
<1>3. CASE HasNode(g, n) /\ ~ HasLabel(g, n, l)
  <2>1. Good(g) /\ n \in DOMAIN g.nodes /\ l \notin Range(g.nodes[n].labels)
    BY <1>1, <1>3 DEF IsRec, HasNode, HasLabel
  <2>2. PICK h : h = AddNodeLabel(g, n, l)
    OBVIOUS
  <2>3. PICK x : x = NodeOf(Append(g.nodes[n].labels, l), g.nodes[n].props)
    OBVIOUS
  <2>4. h.nodes = Put(g.nodes, n, x) /\ h.edges = g.edges
    BY <1>3, <2>1, <2>2, <2>3, AddLabelGood DEF NodeNow
  <2>5. x.labels = Append(g.nodes[n].labels, l) /\ x.props = g.nodes[n].props
    BY <2>3 DEF NodeOf
  <2>6. Range(x.labels) = Range(g.nodes[n].labels) \cup {l}
    <3>1. g.nodes[n].labels \in Seq(Labels)
      BY <2>1, GoodParts DEF NodeOK
    <3> QED BY <2>5, <3>1, AppendedRange
  <2>7. PICK u : u = [op |-> "AddLabel", id |-> n, label |-> l]
    OBVIOUS
  <2>8. Reverses(u, h, g)
    BY <2>1, <2>4, <2>5, <2>6, <2>7, AddLabelReversed
  <2>9. PICK w : RecAddNodeLabel(r, n, l) = Recorded(r, h, w, <<u>>)
    BY <1>1, <1>3, <2>2, <2>7 DEF RecAddNodeLabel
  <2> QED BY <1>1, <2>8, <2>9, TakesBackOne
<1> QED BY <1>2, <1>3

LEMMA RecRemoveLabelBack ==
    ASSUME NEW r, IsRec(r), NEW n, NEW l \in Labels
    PROVE  TakesBack(r, RecRemoveNodeLabel(r, n, l))
<1>1. PICK g : g = r.graph
  OBVIOUS
<1>2. CASE ~ HasLabel(g, n, l)
  BY <1>1, <1>2, TakesBackNothing DEF RecRemoveNodeLabel
<1>3. CASE HasLabel(g, n, l)
  <2>1. Good(g) /\ n \in DOMAIN g.nodes /\ l \in Range(g.nodes[n].labels)
    BY <1>1, <1>3 DEF IsRec, HasNode, HasLabel
  <2>2. PICK h : h = RemoveNodeLabel(g, n, l)
    OBVIOUS
  <2>3. PICK x : x = NodeOf(Without(g.nodes[n].labels, l), g.nodes[n].props)
    OBVIOUS
  <2>4. h.nodes = Put(g.nodes, n, x) /\ h.edges = g.edges
    BY <1>3, <2>1, <2>2, <2>3, RemoveLabelGood DEF NodeNow
  <2>5. x.labels = Without(g.nodes[n].labels, l) /\ x.props = g.nodes[n].props
    BY <2>3 DEF NodeOf
  <2>6. Range(x.labels) = Range(g.nodes[n].labels) \ {l}
    <3>1. g.nodes[n].labels \in Seq(Labels)
      BY <2>1, GoodParts DEF NodeOK
    <3> QED BY <2>5, <3>1, WithoutIs
  <2>7. PICK u : u = [op |-> "RemoveLabel", id |-> n, label |-> l]
    OBVIOUS
  <2>8. Reverses(u, h, g)
    BY <2>1, <2>4, <2>5, <2>6, <2>7, RemoveLabelReversed
  <2>9. PICK w : RecRemoveNodeLabel(r, n, l) = Recorded(r, h, w, <<u>>)
    BY <1>1, <1>3, <2>2, <2>7 DEF RecRemoveNodeLabel
  <2> QED BY <1>1, <2>8, <2>9, TakesBackOne
<1> QED BY <1>2, <1>3

LEMMA RecSetNodePropertyBack ==
    ASSUME NEW r, IsRec(r), NEW n, NEW k, NEW v
    PROVE  TakesBack(r, RecSetNodeProperty(r, n, k, v))
<1>1. PICK g : g = r.graph
  OBVIOUS
<1>2. Good(g)
  BY <1>1 DEF IsRec
<1>3. PICK h : h = SetNodeProperty(g, n, k, v)
  OBVIOUS
<1>4. CASE n \notin DOMAIN g.nodes
  <2>1. PICK u : u = [op |-> "SetProperty", node |-> TRUE, id |-> n, key |-> k, old |-> <<>>]
    OBVIOUS
  <2>2. h = g /\ ~ HasNode(g, n)
    BY <1>3, <1>4 DEF SetNodeProperty, HasNode
  <2>3. Reverses(u, h, g)
    BY <1>4, <2>1, <2>2, NoNodeReversed
  <2>4. PICK w : RecSetNodeProperty(r, n, k, v) = Recorded(r, h, w, <<u>>)
    BY <1>1, <1>3, <2>1, <2>2 DEF RecSetNodeProperty
  <2> QED BY <1>1, <2>3, <2>4, TakesBackOne
<1>5. CASE n \in DOMAIN g.nodes
  <2>1. PICK p, q : p = g.nodes[n].props /\ q = Put(p, k, v)
    OBVIOUS
  <2>2. PICK u : u = [op |-> "SetProperty", node |-> TRUE, id |-> n, key |-> k, old |-> OldValue(p, k)]
    OBVIOUS
  <2>3. h.nodes = Put(g.nodes, n, NodeOf(g.nodes[n].labels, q)) /\ h.edges = g.edges
    BY <1>2, <1>3, <1>5, <2>1, SetNodePropertyGood DEF NodeNow
  <2>4. PropMap(p)
    BY <1>2, <1>5, <2>1, GoodParts DEF NodeOK
  <2>5. PropMap(q)
    BY <2>1, <2>4, PropsPut
  <2>6. DOMAIN q = DOMAIN p \cup {k} /\ \A x \in DOMAIN p : x # k => q[x] = p[x]
    <3>1. IsPut(q, p, k, v)
      BY <2>1, Puts
    <3> QED BY <3>1 DEF IsPut
  <2>7. /\ DOMAIN p \subseteq DOMAIN q \cup {k} /\ DOMAIN q \subseteq DOMAIN p \cup {k} /\ k \in DOMAIN q
        /\ \A x \in DOMAIN p : x # k => q[x] = p[x]
    BY <2>6
  <2>8. Reverses(u, h, g)
    <3>1. p = g.nodes[n].props
      BY <2>1
    <3>2. DifferAt(p, q, k)
      BY <2>7 DEF DifferAt
    <3> QED BY <1>2, <1>5, <2>2, <2>3, <2>5, <3>1, <3>2, NodePropertyReversed
  <2>9. PICK w : RecSetNodeProperty(r, n, k, v) = Recorded(r, h, w, <<u>>)
    <3>1. HasNode(g, n)
      BY <1>5 DEF HasNode
    <3> QED BY <1>1, <1>3, <2>1, <2>2, <3>1 DEF RecSetNodeProperty
  <2> QED BY <1>1, <2>8, <2>9, TakesBackOne
<1> QED BY <1>4, <1>5

LEMMA RecRemoveNodePropertyBack ==
    ASSUME NEW r, IsRec(r), NEW n, NEW k
    PROVE  TakesBack(r, RecRemoveNodeProperty(r, n, k))
<1>1. PICK g : g = r.graph
  OBVIOUS
<1>2. CASE ~ HasNode(g, n) \/ k \notin DOMAIN g.nodes[n].props
  BY <1>1, <1>2, TakesBackNothing DEF RecRemoveNodeProperty
<1>3. CASE HasNode(g, n) /\ k \in DOMAIN g.nodes[n].props
  <2>1. Good(g) /\ n \in DOMAIN g.nodes
    BY <1>1, <1>3 DEF IsRec, HasNode
  <2>2. PICK h : h = RemoveNodeProperty(g, n, k)
    OBVIOUS
  <2>3. PICK p, q : p = g.nodes[n].props /\ q = Drop(p, {k})
    OBVIOUS
  <2>4. PICK u : u = [op |-> "SetProperty", node |-> TRUE, id |-> n, key |-> k, old |-> OldValue(p, k)]
    OBVIOUS
  <2>5. h.nodes = Put(g.nodes, n, NodeOf(g.nodes[n].labels, q)) /\ h.edges = g.edges
    BY <2>1, <2>2, <2>3, RemoveNodePropertyGood DEF NodeNow
  <2>6. PropMap(p) /\ k \in DOMAIN p
    BY <1>3, <2>1, <2>3, GoodParts DEF NodeOK
  <2>7. PropMap(q)
    BY <2>3, <2>6, PropsDrop
  <2>8. DOMAIN q = DOMAIN p \ {k} /\ \A x \in DOMAIN p \ {k} : q[x] = p[x]
    <3>1. IsDrop(q, p, {k})
      BY <2>3, Drops
    <3> QED BY <3>1 DEF IsDrop
  <2>9. /\ DOMAIN p \subseteq DOMAIN q \cup {k} /\ DOMAIN q \subseteq DOMAIN p \cup {k}
        /\ \A x \in DOMAIN p : x # k => q[x] = p[x]
    BY <2>8
  <2>10. Reverses(u, h, g)
    <3>1. p = g.nodes[n].props
      BY <2>3
    <3>2. DifferAt(p, q, k)
      BY <2>6, <2>9 DEF DifferAt
    <3> QED BY <2>1, <2>4, <2>5, <2>7, <3>1, <3>2, NodePropertyReversed
  <2>11. PICK w : RecRemoveNodeProperty(r, n, k) = Recorded(r, h, w, <<u>>)
    BY <1>1, <1>3, <2>2, <2>3, <2>4 DEF RecRemoveNodeProperty
  <2> QED BY <1>1, <2>10, <2>11, TakesBackOne
<1> QED BY <1>2, <1>3

LEMMA RecSetEdgePropertyBack ==
    ASSUME NEW r, IsRec(r), NEW e, NEW k, NEW v
    PROVE  TakesBack(r, RecSetEdgeProperty(r, e, k, v))
<1>1. PICK g : g = r.graph
  OBVIOUS
<1>2. Good(g)
  BY <1>1 DEF IsRec
<1>3. PICK h : h = SetEdgeProperty(g, e, k, v)
  OBVIOUS
<1>4. CASE e \notin DOMAIN g.edges
  <2>1. PICK u : u = [op |-> "SetProperty", node |-> FALSE, id |-> e, key |-> k, old |-> <<>>]
    OBVIOUS
  <2>2. h = g /\ ~ HasEdge(g, e)
    BY <1>3, <1>4 DEF SetEdgeProperty, HasEdge
  <2>3. Reverses(u, h, g)
    BY <1>4, <2>1, <2>2, NoEdgeReversed
  <2>4. PICK w : RecSetEdgeProperty(r, e, k, v) = Recorded(r, h, w, <<u>>)
    BY <1>1, <1>3, <2>1, <2>2 DEF RecSetEdgeProperty
  <2> QED BY <1>1, <2>3, <2>4, TakesBackOne
<1>5. CASE e \in DOMAIN g.edges
  <2>1. PICK p, q : p = g.edges[e].props /\ q = Put(p, k, v)
    OBVIOUS
  <2>2. PICK u : u = [op |-> "SetProperty", node |-> FALSE, id |-> e, key |-> k, old |-> OldValue(p, k)]
    OBVIOUS
  <2>3. h.edges = Put(g.edges, e, EdgeOf(g.edges[e].from, g.edges[e].to, q)) /\ h.nodes = g.nodes
    BY <1>2, <1>3, <1>5, <2>1, SetEdgePropertyGood DEF EdgeNow
  <2>4. PropMap(p)
    BY <1>2, <1>5, <2>1, GoodParts DEF EdgeOK
  <2>5. PropMap(q)
    BY <2>1, <2>4, PropsPut
  <2>6. DOMAIN q = DOMAIN p \cup {k} /\ \A x \in DOMAIN p : x # k => q[x] = p[x]
    <3>1. IsPut(q, p, k, v)
      BY <2>1, Puts
    <3> QED BY <3>1 DEF IsPut
  <2>7. /\ DOMAIN p \subseteq DOMAIN q \cup {k} /\ DOMAIN q \subseteq DOMAIN p \cup {k} /\ k \in DOMAIN q
        /\ \A x \in DOMAIN p : x # k => q[x] = p[x]
    BY <2>6
  <2>8. Reverses(u, h, g)
    <3>1. p = g.edges[e].props
      BY <2>1
    <3>2. DifferAt(p, q, k)
      BY <2>7 DEF DifferAt
    <3> QED BY <1>2, <1>5, <2>2, <2>3, <2>5, <3>1, <3>2, EdgePropertyReversed
  <2>9. PICK w : RecSetEdgeProperty(r, e, k, v) = Recorded(r, h, w, <<u>>)
    <3>1. HasEdge(g, e)
      BY <1>5 DEF HasEdge
    <3> QED BY <1>1, <1>3, <2>1, <2>2, <3>1 DEF RecSetEdgeProperty
  <2> QED BY <1>1, <2>8, <2>9, TakesBackOne
<1> QED BY <1>4, <1>5

LEMMA RecRemoveEdgePropertyBack ==
    ASSUME NEW r, IsRec(r), NEW e, NEW k
    PROVE  TakesBack(r, RecRemoveEdgeProperty(r, e, k))
<1>1. PICK g : g = r.graph
  OBVIOUS
<1>2. CASE ~ HasEdge(g, e) \/ k \notin DOMAIN g.edges[e].props
  BY <1>1, <1>2, TakesBackNothing DEF RecRemoveEdgeProperty
<1>3. CASE HasEdge(g, e) /\ k \in DOMAIN g.edges[e].props
  <2>1. Good(g) /\ e \in DOMAIN g.edges
    BY <1>1, <1>3 DEF IsRec, HasEdge
  <2>2. PICK h : h = RemoveEdgeProperty(g, e, k)
    OBVIOUS
  <2>3. PICK p, q : p = g.edges[e].props /\ q = Drop(p, {k})
    OBVIOUS
  <2>4. PICK u : u = [op |-> "SetProperty", node |-> FALSE, id |-> e, key |-> k, old |-> OldValue(p, k)]
    OBVIOUS
  <2>5. h.edges = Put(g.edges, e, EdgeOf(g.edges[e].from, g.edges[e].to, q)) /\ h.nodes = g.nodes
    BY <2>1, <2>2, <2>3, RemoveEdgePropertyGood DEF EdgeNow
  <2>6. PropMap(p) /\ k \in DOMAIN p
    BY <1>3, <2>1, <2>3, GoodParts DEF EdgeOK
  <2>7. PropMap(q)
    BY <2>3, <2>6, PropsDrop
  <2>8. DOMAIN q = DOMAIN p \ {k} /\ \A x \in DOMAIN p \ {k} : q[x] = p[x]
    <3>1. IsDrop(q, p, {k})
      BY <2>3, Drops
    <3> QED BY <3>1 DEF IsDrop
  <2>9. /\ DOMAIN p \subseteq DOMAIN q \cup {k} /\ DOMAIN q \subseteq DOMAIN p \cup {k}
        /\ \A x \in DOMAIN p : x # k => q[x] = p[x]
    BY <2>8
  <2>10. Reverses(u, h, g)
    <3>1. p = g.edges[e].props
      BY <2>3
    <3>2. DifferAt(p, q, k)
      BY <2>6, <2>9 DEF DifferAt
    <3> QED BY <2>1, <2>4, <2>5, <2>7, <3>1, <3>2, EdgePropertyReversed
  <2>11. PICK w : RecRemoveEdgeProperty(r, e, k) = Recorded(r, h, w, <<u>>)
    BY <1>1, <1>3, <2>2, <2>3, <2>4 DEF RecRemoveEdgeProperty
  <2> QED BY <1>1, <2>10, <2>11, TakesBackOne
<1> QED BY <1>2, <1>3

(* The edges of a deleted node are taken back one by one, after the node.     *)
LEMMA RecDeleteNodeBack ==
    ASSUME NEW r, IsRec(r), NEW n
    PROVE  TakesBack(r, RecDeleteNode(r, n))
<1>1. PICK g : g = r.graph
  OBVIOUS
<1>2. CASE ~ HasNode(g, n)
  BY <1>1, <1>2, TakesBackNothing DEF RecDeleteNode
<1>3. CASE HasNode(g, n)
  <2>1. Good(g) /\ n \in DOMAIN g.nodes
    BY <1>1, <1>3 DEF IsRec, HasNode
  <2>2. PICK h, gone : h = DeleteNode(g, n) /\ gone = g.out[n] \cup g.inc[n]
    OBVIOUS
  <2>3. h.nodes = Drop(g.nodes, {n}) /\ h.edges = Drop(g.edges, gone)
    BY <2>1, <2>2, DeleteNodeGood
  <2>4. gone \subseteq DOMAIN g.edges
    BY <2>1, <2>2, GoodParts
  <2>5. /\ DOMAIN g.edges \subseteq Nat /\ g.nextEdge \in Nat
        /\ \A e \in DOMAIN g.edges : e < g.nextEdge
    BY <2>1 DEF Good, EdgesWell
  <2>6. IsFiniteSet(gone)
    <3>1. gone \in SUBSET Nat /\ \A e \in gone : e <= g.nextEdge
      BY <2>4, <2>5
    <3> QED BY <2>5, <3>1, FS_BoundedSetOfNaturals
  <2>7. PICK es : es = SetToSeq(gone)
    OBVIOUS
  <2>8. /\ es \in Seq(gone) /\ \A i, j \in 1..Len(es) : es[i] = es[j] => i = j
        /\ \A x \in gone : \E i \in 1..Len(es) : es[i] = x
    BY <2>6, <2>7, SetToSeqIs
  <2>9. PICK k : k = Len(es)
    OBVIOUS
  <2>10. k \in Nat /\ \A i \in 1..k : es[i] \in gone
    BY <2>8, <2>9
  <2>11. PICK vs : vs = [i \in 1..k |-> DeleteEdgeUndo(g, es[i])]
    OBVIOUS
  <2>12. IsSeq(vs) /\ Len(vs) = k
    <3>1. IsMap(vs) /\ DOMAIN vs = 1..k
      BY <2>11 DEF IsMap
    <3> QED BY <2>10, <3>1, SeqOfLen
  <2>13. PICK E : E = g.edges
    OBVIOUS
  <2>14. /\ IsMap(E) /\ \A e \in DOMAIN E : EdgeOK(E[e]) /\ E[e].from \in DOMAIN g.nodes /\ E[e].to \in DOMAIN g.nodes
    BY <2>1, <2>13, GoodParts
  <2> DEFINE D(j) == {es[i] : i \in 1..j}
             C(j) == [nodes |-> g.nodes, edges |-> Drop(E, D(j))]
  <2>15. PICK c : c = [j \in 0..k |-> IF j = 0 THEN g ELSE C(j)]
    OBVIOUS
  <2>16. ASSUME NEW j \in 0..k PROVE c[j].nodes = g.nodes /\ c[j].edges = Drop(E, D(j))
    <3>1. CASE j = 0
      <4>1. c[j] = g
        BY <2>15, <3>1
      <4>2. D(j) = {}
        BY <3>1
      <4>3. Drop(E, D(j)) = E
        BY <2>14, <4>2, DropNothing
      <4> QED BY <2>13, <4>1, <4>3
    <3>2. CASE j # 0
      BY <2>15, <3>2
    <3> QED BY <3>1, <3>2
  <2>17. ASSUME NEW j \in 1..k PROVE Reverses(vs[j], c[j], c[j - 1])
    <3>1. PICK a, b, e : a = c[j - 1] /\ b = c[j] /\ e = es[j]
      OBVIOUS
    <3>2. j - 1 \in 0..k /\ j \in 0..k
      BY <2>10
    <3>3. PICK A, B : A = D(j - 1) /\ B = D(j)
      OBVIOUS
    <3>4. a.nodes = g.nodes /\ a.edges = Drop(E, A)
      BY <2>16, <3>1, <3>2, <3>3
    <3>5. b.nodes = g.nodes /\ b.edges = Drop(E, B)
      BY <2>16, <3>1, <3>2, <3>3
    <3>6. e \in gone /\ e \in DOMAIN E
      BY <2>4, <2>10, <2>13, <3>1
    <3>7. e \notin A
      <4>1. \A i \in 1..(j - 1) : i \in 1..k /\ i # j
        BY <2>10
      <4>2. \A i \in 1..(j - 1) : es[i] # e
        BY <2>8, <2>9, <3>1, <4>1
      <4> QED BY <3>3, <4>2
    <3>8. B = A \cup {e}
      <4>1. \A i \in 1..j : i \in 1..(j - 1) \/ i = j
        BY <2>10
      <4>2. (\A i \in 1..(j - 1) : i \in 1..j) /\ j \in 1..j
        BY <2>10
      <4> QED BY <3>1, <3>3, <4>1, <4>2
    <3>9. DOMAIN a.edges = DOMAIN E \ A /\ \A x \in DOMAIN E \ A : a.edges[x] = E[x]
      <4>1. IsDrop(a.edges, E, A)
        BY <3>4, Drops
      <4> QED BY <4>1 DEF IsDrop
    <3>10. IsMap(a.edges) /\ e \in DOMAIN a.edges /\ a.edges[e] = E[e]
      <4>1. IsMap(a.edges)
        BY <3>4, DropMap
      <4> QED BY <3>6, <3>7, <3>9, <4>1
    <3>11. b.edges = Drop(a.edges, {e})
      <4>1. PICK F, G : F = b.edges /\ G = Drop(a.edges, {e})
        OBVIOUS
      <4>2. IsMap(F) /\ DOMAIN F = DOMAIN E \ B /\ \A x \in DOMAIN E \ B : F[x] = E[x]
        <5>1. IsDrop(F, E, B)
          BY <3>5, <4>1, Drops
        <5> QED BY <5>1 DEF IsDrop
      <4>3. IsMap(G) /\ DOMAIN G = DOMAIN a.edges \ {e} /\ \A x \in DOMAIN a.edges \ {e} : G[x] = a.edges[x]
        BY <4>1, DropMap, DropDomain, DropOther
      <4>4. DOMAIN F = DOMAIN G
        BY <3>8, <3>9, <4>2, <4>3
      <4>5. \A x \in DOMAIN F : F[x] = G[x]
        BY <3>9, <4>2, <4>3, <4>4
      <4> QED BY <4>1, <4>2, <4>3, <4>4, <4>5, MapsEqual
    <3>12. PICK v : v = vs[j]
      OBVIOUS
    <3>13. v = DeleteEdgeUndo(g, e)
      BY <2>11, <3>1, <3>12
    <3>14. v = [op |-> "DeleteEdge", id |-> e, from |-> a.edges[e].from, to |-> a.edges[e].to, props |-> a.edges[e].props]
      BY <2>13, <3>10, <3>13 DEF DeleteEdgeUndo
    <3>15. /\ EdgeOK(a.edges[e]) /\ a.edges[e].from \in DOMAIN a.nodes /\ a.edges[e].to \in DOMAIN a.nodes
           /\ e \in Nat
      BY <2>5, <2>13, <2>14, <3>4, <3>6, <3>10
    <3>16. b.nodes = a.nodes
      BY <3>4, <3>5
    <3>17. Reverses(v, b, a)
      BY <3>10, <3>11, <3>14, <3>15, <3>16, DeleteEdgeReversed
    <3> QED BY <3>1, <3>12, <3>17
  <2>18. PICK m : m = c[k]
    OBVIOUS
  <2>19. Back(vs, m, g)
    <3>1. c[0] = g
      BY <2>10, <2>15
    <3>2. Trail(c, vs, m, g)
      BY <2>12, <2>17, <2>18, <3>1 DEF Trail
    <3> QED BY <3>2 DEF Back
  <2>20. PICK u : u = [op |-> "DeleteNode", id |-> n, labels |-> g.nodes[n].labels, props |-> g.nodes[n].props]
    OBVIOUS
  <2>21. m.nodes = g.nodes /\ m.edges = h.edges
    <3>1. k \in 0..k
      BY <2>10
    <3>2. PICK B : B = D(k)
      OBVIOUS
    <3>3. m.nodes = g.nodes /\ m.edges = Drop(E, B)
      BY <2>16, <2>18, <3>1, <3>2
    <3>4. B = gone
      BY <2>8, <2>9, <2>10, <3>2
    <3> QED BY <2>3, <2>13, <3>3, <3>4
  <2>22. Back(<<u>>, h, m)
    <3>1. n \in DOMAIN m.nodes /\ n \in Nat /\ NodeOK(m.nodes[n])
      BY <2>1, <2>21, GoodParts
    <3>2. u = [op |-> "DeleteNode", id |-> n, labels |-> m.nodes[n].labels, props |-> m.nodes[n].props]
      BY <2>20, <2>21
    <3>3. h.nodes = Drop(m.nodes, {n}) /\ h.edges = m.edges
      BY <2>3, <2>21
    <3>4. Reverses(u, h, m)
      BY <3>1, <3>2, <3>3, DeleteNodeReversed
    <3> QED BY <3>4, BackOne
  <2>23. PICK us : us = vs \o <<u>>
    OBVIOUS
  <2>24. IsSeq(us) /\ Back(us, h, g)
    <3>1. IsSeq(<<u>>)
      BY SeqOne
    <3> QED BY <2>12, <2>19, <2>22, <2>23, <3>1, SeqConcat, BackBoth
  <2>25. PICK w : RecDeleteNode(r, n) = Recorded(r, h, w, us)
    BY <1>1, <1>3, <2>2, <2>7, <2>9, <2>11, <2>20, <2>23 DEF RecDeleteNode
  <2>26. RecDeleteNode(r, n).graph = h /\ RecDeleteNode(r, n).undo = r.undo \o us
    BY <2>25, RecordedGraph
  <2> QED BY <1>1, <2>24, <2>26 DEF TakesBack
<1> QED BY <1>2, <1>3
-----------------------------------------------------------------------------
(* The undo log of a transaction that writes alone.                           *)

(* What transaction t has recorded, and what its statement has so far.        *)
Pending(ts, gt, t) == ts[t].undo \o (IF gt.tx = t THEN gt.undo ELSE <<>>)

OnItsOwn(x) == x.state = "active" /\ x.alone

(* The undo log of a transaction that writes alone leads back to the graph it *)
(* began with.                                                                *)
Kept(g, ts, gt) ==
    /\ gt.phase = "emitting" => gt.undo = <<>>
    /\ \A t \in 1..Len(ts) : OnItsOwn(ts[t]) =>
          Good(ts[t].base) /\ Back(Pending(ts, gt, t), g, ts[t].base)

(* A step that leaves the graph and each pending undo log alone.              *)
LEMMA KeptSame ==
    ASSUME NEW g, NEW ts, NEW gt, Kept(g, ts, gt), NEW us, NEW hg, Len(us) = Len(ts),
           hg.phase = "emitting" => hg.undo = <<>>,
           \A t \in 1..Len(ts) : OnItsOwn(us[t]) =>
              OnItsOwn(ts[t]) /\ us[t].base = ts[t].base /\ Pending(us, hg, t) = Pending(ts, gt, t)
    PROVE  Kept(g, us, hg)
<1>1. ASSUME NEW t \in 1..Len(us), OnItsOwn(us[t])
      PROVE  Good(us[t].base) /\ Back(Pending(us, hg, t), g, us[t].base)
  <2>1. OnItsOwn(ts[t]) /\ us[t].base = ts[t].base /\ Pending(us, hg, t) = Pending(ts, gt, t)
    BY <1>1
  <2>2. Good(ts[t].base) /\ Back(Pending(ts, gt, t), g, ts[t].base)
    BY <2>1 DEF Kept
  <2> QED BY <2>1, <2>2
<1> QED BY <1>1 DEF Kept

LEMMA KeptGate ==
    ASSUME NEW g, NEW ts, NEW gt, Kept(g, ts, gt), NEW hg, hg.phase = "emitting" => hg.undo = <<>>,
           \A t \in 1..Len(ts) : Pending(ts, hg, t) = Pending(ts, gt, t)
    PROVE  Kept(g, ts, hg)
  BY KeptSame

LEMMA KeptBegin ==
    ASSUME NEW g, Good(g), NEW ts, IsSeq(ts), NEW gt, Kept(g, ts, gt), NEW a, a => gt = Free,
           NEW us, us = Append(ts, [state |-> "active", undo |-> <<>>, base |-> g, alone |-> a])
    PROVE  Kept(g, us, gt)
<1>1. PICK n, x : n = Len(ts) /\ x = [state |-> "active", undo |-> <<>>, base |-> g, alone |-> a]
  OBVIOUS
<1>2. n \in Nat /\ Len(us) = n + 1 /\ us[n + 1] = x /\ \A i \in 1..n : us[i] = ts[i]
  BY <1>1, SeqAppend
<1>3. ASSUME NEW t \in 1..Len(us), OnItsOwn(us[t])
      PROVE  Good(us[t].base) /\ Back(Pending(us, gt, t), g, us[t].base)
  <2>1. CASE t \in 1..n
    <3>1. us[t] = ts[t]
      BY <1>2, <2>1
    <3>2. Pending(us, gt, t) = Pending(ts, gt, t)
      BY <3>1 DEF Pending
    <3> QED BY <1>1, <1>3, <2>1, <3>1, <3>2 DEF Kept
  <2>2. CASE t \notin 1..n
    <3>1. t = n + 1 /\ t # 0
      BY <1>2, <2>2
    <3>2. us[t] = x
      BY <1>2, <3>1
    <3>3. x.undo = <<>> /\ x.base = g /\ (x.alone => gt = Free)
      BY <1>1
    <3>4. gt = Free
      BY <1>3, <3>2, <3>3 DEF OnItsOwn
    <3>5. gt.tx = 0
      BY <3>4 DEF Free, NoTx
    <3>6. Pending(us, gt, t) = <<>> \o <<>>
      BY <3>1, <3>2, <3>3, <3>5 DEF Pending
    <3>7. <<>> \o <<>> = <<>>
      BY SeqNone, SeqNothingMore
    <3>8. Back(<<>>, g, g)
      BY BackNothing
    <3> QED BY <3>2, <3>3, <3>6, <3>7, <3>8
  <2> QED BY <2>1, <2>2
<1> QED BY <1>3 DEF Kept

LEMMA WrittenFields ==
    ASSUME NEW ts, TxsOK(ts), NEW t, NEW us, us = WrittenBy(ts, t), NEW u \in 1..Len(ts)
    PROVE  /\ us[u].undo = ts[u].undo /\ us[u].state = ts[u].state /\ us[u].base = ts[u].base
           /\ us[u].alone => ts[u].alone /\ u = t
<1>1. PICK x : x = ts[u]
  OBVIOUS
<1>2. x = [state |-> x.state, undo |-> x.undo, base |-> x.base, alone |-> x.alone]
  BY <1>1 DEF TxsOK, TxOK
<1>3. PICK a : a = (x.alone /\ u = t)
  OBVIOUS
<1>4. PICK y : y = us[u]
  OBVIOUS
<1>5. y = [x EXCEPT !.alone = a]
  BY <1>1, <1>3, <1>4 DEF WrittenBy
<1>6. y = [state |-> x.state, undo |-> x.undo, base |-> x.base, alone |-> a]
  BY <1>2, <1>5
<1>7. y.state = x.state /\ y.undo = x.undo /\ y.base = x.base /\ y.alone = a
  BY <1>6
<1>8. y.alone => x.alone /\ u = t
  BY <1>3, <1>7
<1> QED BY <1>1, <1>4, <1>7, <1>8

(* A mutation: its undo records come after those of the statement so far, and *)
(* no other transaction writes alone any more.                                *)
LEMMA KeptMutate ==
    ASSUME NEW g, NEW ts, TxsOK(ts), NEW gt, IsSeq(gt.undo), Kept(g, ts, gt),
           NEW r, r.graph = g, r.undo = gt.undo, NEW s, TakesBack(r, s),
           NEW us, us = WrittenBy(ts, gt.tx), NEW w, NEW hg, hg = GateOf("executing", gt.tx, w, s.undo)
    PROVE  Kept(s.graph, us, hg)
<1>1. PICK vs : IsSeq(vs) /\ s.undo = gt.undo \o vs /\ Back(vs, s.graph, g)
  BY DEF TakesBack
<1>2. hg.phase = "executing" /\ hg.tx = gt.tx /\ hg.undo = s.undo
  BY DEF GateOf
<1>3. Len(us) = Len(ts)
  BY WrittenIs
<1>4. ASSUME NEW t \in 1..Len(us), OnItsOwn(us[t])
      PROVE  Good(us[t].base) /\ Back(Pending(us, hg, t), s.graph, us[t].base)
  <2>1. /\ us[t].undo = ts[t].undo /\ us[t].state = ts[t].state /\ us[t].base = ts[t].base
        /\ us[t].alone => ts[t].alone /\ t = gt.tx
    BY <1>3, WrittenFields
  <2>2. OnItsOwn(ts[t]) /\ t = gt.tx
    BY <1>4, <2>1 DEF OnItsOwn
  <2>3. PICK a, b, c : a = ts[t].undo /\ b = gt.undo /\ c = ts[t].base
    OBVIOUS
  <2>4. IsSeq(a) /\ IsSeq(b)
    BY <1>3, <2>3 DEF TxsOK, TxOK
  <2>5. Pending(ts, gt, t) = a \o b
    BY <2>2, <2>3 DEF Pending
  <2>6. Good(c) /\ Back(a \o b, g, c)
    BY <1>3, <2>2, <2>3, <2>5 DEF Kept
  <2>7. IsSeq(a \o b)
    BY <2>4, SeqConcat
  <2>8. Back((a \o b) \o vs, s.graph, c)
    BY <1>1, <2>6, <2>7, BackBoth
  <2>9. (a \o b) \o vs = a \o (b \o vs)
    <3>1. Then(Then(a, b), vs) = Then(a, Then(b, vs))
      BY <1>1, <2>4, ThenAssoc
    <3> QED BY <3>1 DEF Then
  <2>10. Pending(us, hg, t) = a \o (b \o vs)
    BY <1>1, <1>2, <2>1, <2>2, <2>3 DEF Pending
  <2> QED BY <2>1, <2>3, <2>6, <2>8, <2>9, <2>10
<1>5. hg.phase # "emitting"
  BY <1>2
<1> QED BY <1>4, <1>5 DEF Kept

RollbackInv == ServerInv /\ Kept(graph, txs, gate)

(* Every mutation a statement can make is one its undo records take back.     *)
Reversible == \E s : TakesBack(SoFar, s) /\ Mutate(s)

LEMMA MutationsReversible ==
    ASSUME ServerInv, MutateNodes \/ MutateEdges
    PROVE  Reversible
<1>1. PICK r : r = SoFar
  OBVIOUS
<1>2. IsRec(r)
  <2>1. Good(graph) /\ IsSeq(gate.wal) /\ IsSeq(gate.undo)
    BY StateParts DEF ServerInv
  <2>2. r.graph = graph /\ r.wal = gate.wal /\ r.undo = gate.undo
    BY <1>1 DEF SoFar
  <2> QED BY <2>1, <2>2 DEF IsRec
<1>3. ASSUME NEW ls \in LabelLists, Mutate(RecCreateNode(SoFar, ls)) PROVE Reversible
  <2>1. ls \in Seq(Labels)
    <3>1. ls = <<>> \/ \E lb \in Labels : ls = <<lb>>
      BY <1>3 DEF LabelLists
    <3>2. <<>> \in Seq(Labels) /\ \A lb \in Labels : <<lb>> \in Seq(Labels)
      OBVIOUS
    <3> QED BY <3>1, <3>2
  <2>2. PICK s : s = RecCreateNode(r, ls)
    OBVIOUS
  <2>3. TakesBack(r, s)
    BY <1>2, <2>1, <2>2, RecCreateNodeBack
  <2>4. Mutate(s)
    BY <1>1, <1>3, <2>2
  <2> QED BY <1>1, <2>3, <2>4 DEF Reversible
<1>4. ASSUME NEW n, Mutate(RecDeleteNode(SoFar, n)) PROVE Reversible
  <2>1. PICK s : s = RecDeleteNode(r, n)
    OBVIOUS
  <2>2. TakesBack(r, s)
    BY <1>2, <2>1, RecDeleteNodeBack
  <2>3. Mutate(s)
    BY <1>1, <1>4, <2>1
  <2> QED BY <1>1, <2>2, <2>3 DEF Reversible
<1>5. ASSUME NEW n, NEW k, NEW v, Mutate(RecSetNodeProperty(SoFar, n, k, v)) PROVE Reversible
  <2>1. PICK s : s = RecSetNodeProperty(r, n, k, v)
    OBVIOUS
  <2>2. TakesBack(r, s)
    BY <1>2, <2>1, RecSetNodePropertyBack
  <2>3. Mutate(s)
    BY <1>1, <1>5, <2>1
  <2> QED BY <1>1, <2>2, <2>3 DEF Reversible
<1>6. ASSUME NEW n, NEW k, Mutate(RecRemoveNodeProperty(SoFar, n, k)) PROVE Reversible
  <2>1. PICK s : s = RecRemoveNodeProperty(r, n, k)
    OBVIOUS
  <2>2. TakesBack(r, s)
    BY <1>2, <2>1, RecRemoveNodePropertyBack
  <2>3. Mutate(s)
    BY <1>1, <1>6, <2>1
  <2> QED BY <1>1, <2>2, <2>3 DEF Reversible
<1>7. ASSUME NEW n, NEW lb \in Labels, Mutate(RecAddNodeLabel(SoFar, n, lb)) PROVE Reversible
  <2>1. PICK s : s = RecAddNodeLabel(r, n, lb)
    OBVIOUS
  <2>2. TakesBack(r, s)
    BY <1>2, <2>1, RecAddLabelBack
  <2>3. Mutate(s)
    BY <1>1, <1>7, <2>1
  <2> QED BY <1>1, <2>2, <2>3 DEF Reversible
<1>8. ASSUME NEW n, NEW lb \in Labels, Mutate(RecRemoveNodeLabel(SoFar, n, lb)) PROVE Reversible
  <2>1. PICK s : s = RecRemoveNodeLabel(r, n, lb)
    OBVIOUS
  <2>2. TakesBack(r, s)
    BY <1>2, <2>1, RecRemoveLabelBack
  <2>3. Mutate(s)
    BY <1>1, <1>8, <2>1
  <2> QED BY <1>1, <2>2, <2>3 DEF Reversible
<1>9. ASSUME NEW a, NEW b, Mutate(RecCreateEdge(SoFar, a, b)) PROVE Reversible
  <2>1. PICK s : s = RecCreateEdge(r, a, b)
    OBVIOUS
  <2>2. TakesBack(r, s)
    BY <1>2, <2>1, RecCreateEdgeBack
  <2>3. Mutate(s)
    BY <1>1, <1>9, <2>1
  <2> QED BY <1>1, <2>2, <2>3 DEF Reversible
<1>10. ASSUME NEW e, Mutate(RecDeleteEdge(SoFar, e)) PROVE Reversible
  <2>1. PICK s : s = RecDeleteEdge(r, e)
    OBVIOUS
  <2>2. TakesBack(r, s)
    BY <1>2, <2>1, RecDeleteEdgeBack
  <2>3. Mutate(s)
    BY <1>1, <1>10, <2>1
  <2> QED BY <1>1, <2>2, <2>3 DEF Reversible
<1>11. ASSUME NEW e, NEW k, NEW v, Mutate(RecSetEdgeProperty(SoFar, e, k, v)) PROVE Reversible
  <2>1. PICK s : s = RecSetEdgeProperty(r, e, k, v)
    OBVIOUS
  <2>2. TakesBack(r, s)
    BY <1>2, <2>1, RecSetEdgePropertyBack
  <2>3. Mutate(s)
    BY <1>1, <1>11, <2>1
  <2> QED BY <1>1, <2>2, <2>3 DEF Reversible
<1>12. ASSUME NEW e, NEW k, Mutate(RecRemoveEdgeProperty(SoFar, e, k)) PROVE Reversible
  <2>1. PICK s : s = RecRemoveEdgeProperty(r, e, k)
    OBVIOUS
  <2>2. TakesBack(r, s)
    BY <1>2, <2>1, RecRemoveEdgePropertyBack
  <2>3. Mutate(s)
    BY <1>1, <1>12, <2>1
  <2> QED BY <1>1, <2>2, <2>3 DEF Reversible
<1>13. CASE MutateNodes
  BY <1>3, <1>4, <1>5, <1>6, <1>7, <1>8, <1>13 DEF MutateNodes
<1>14. CASE MutateEdges
  BY <1>9, <1>10, <1>11, <1>12, <1>14 DEF MutateEdges
<1> QED BY <1>13, <1>14

LEMMA RollbackInvStart == Init => RollbackInv
<1> SUFFICES ASSUME Init PROVE RollbackInv
  OBVIOUS
<1>1. ServerInv
  BY ServerInvStart
<1>2. txs = <<>> /\ gate = Free
  BY DEF Init
<1>3. gate.phase # "emitting"
  BY <1>2 DEF Free
<1>4. 1..Len(txs) = {}
  BY <1>2
<1> QED BY <1>1, <1>3, <1>4 DEF RollbackInv, Kept

LEMMA KeptStep ==
    ASSUME RollbackInv, [Next]_vars
    PROVE  Kept(graph, txs, gate)'
<1>1. PICK g : g = graph
  OBVIOUS
<1>2. PICK ts : ts = txs
  OBVIOUS
<1>3. PICK gt : gt = gate
  OBVIOUS
<1>4. PICK h : h = graph'
  OBVIOUS
<1>5. PICK us : us = txs'
  OBVIOUS
<1>6. PICK hg : hg = gate'
  OBVIOUS
<1>7. Kept(g, ts, gt)
  BY <1>1, <1>2, <1>3 DEF RollbackInv
<1>8. SUFFICES Kept(h, us, hg)
  BY <1>4, <1>5, <1>6
<1>9. /\ Len(ts) \in Nat /\ TxsOK(ts) /\ IsSeq(ts) /\ GateOK(gt, Len(ts)) /\ IsSeq(gt.undo) /\ Good(g)
  BY <1>1, <1>2, <1>3, StateParts DEF RollbackInv, ServerInv
<1>10. gt = GateOf(gt.phase, gt.tx, gt.wal, gt.undo)
  BY <1>9 DEF GateOK, GateOf
<1>11. /\ Free = GateOf("free", 0, <<>>, <<>>)
       /\ Free.phase = "free" /\ Free.tx = 0 /\ Free.undo = <<>> /\ Free.wal = <<>>
  BY DEF Free, GateOf, NoTx
<1>12. \A t \in 1..Len(ts) : t # 0
  BY <1>9
<1>13. CASE UNCHANGED vars
  BY <1>1, <1>2, <1>3, <1>4, <1>5, <1>6, <1>7, <1>13 DEF vars
<1>14. CASE BeginTransaction
  <2>1. h = g /\ hg = gt
    BY <1>1, <1>3, <1>4, <1>6, <1>14 DEF BeginTransaction
  <2>2. PICK a : a = (gt = Free)
    OBVIOUS
  <2>3. us = Append(ts, [state |-> "active", undo |-> <<>>, base |-> g, alone |-> a])
    BY <1>1, <1>2, <1>3, <1>5, <1>14, <2>2 DEF BeginTransaction
  <2>4. a => gt = Free
    BY <2>2
  <2> QED BY <1>7, <1>9, <2>1, <2>3, <2>4, KeptBegin
<1>15. ASSUME h = g, us = ts, gt = Free, NEW t, hg = GateOf("executing", t, <<>>, <<>>) PROVE Kept(h, us, hg)
  <2>1. hg.phase = "executing" /\ hg.undo = <<>> /\ gt.undo = <<>>
    BY <1>11, <1>15 DEF GateOf
  <2>2. \A u \in 1..Len(ts) : Pending(ts, hg, u) = Pending(ts, gt, u)
    BY <2>1 DEF Pending
  <2> QED BY <1>7, <1>15, <2>1, <2>2, KeptGate
<1>16. CASE StartStatement
  <2>1. h = g /\ us = ts /\ gt = Free
    BY <1>1, <1>2, <1>3, <1>4, <1>5, <1>16 DEF StartStatement
  <2>2. hg = [Free EXCEPT !.phase = "executing"]
    BY <1>6, <1>16 DEF StartStatement
  <2>3. hg = GateOf("executing", 0, <<>>, <<>>)
    BY <2>2 DEF Free, GateOf, NoTx
  <2> QED BY <1>15, <2>1, <2>3
<1>17. ASSUME NEW t \in TxIds, StartInTx(t) PROVE Kept(h, us, hg)
  <2>1. h = g /\ us = ts /\ gt = Free
    BY <1>1, <1>2, <1>3, <1>4, <1>5, <1>17 DEF StartInTx
  <2>2. hg = [Free EXCEPT !.phase = "executing", !.tx = t]
    BY <1>6, <1>17 DEF StartInTx
  <2>3. hg = GateOf("executing", t, <<>>, <<>>)
    BY <2>2 DEF Free, GateOf, NoTx
  <2> QED BY <1>15, <2>1, <2>3
<1>18. ASSUME NEW t \in TxIds, Commit(t) PROVE Kept(h, us, hg)
  <2>1. h = g /\ hg = gt
    BY <1>1, <1>3, <1>4, <1>6, <1>18 DEF Commit
  <2>2. t \in 1..Len(ts)
    BY <1>2, <1>18 DEF TxIds
  <2>3. us = FinishAt(ts, t, "committed", <<>>)
    BY <1>2, <1>5, <1>18 DEF Commit, FinishAt
  <2>4. PICK x : x = Finished(ts[t], "committed")
    OBVIOUS
  <2>5. us = SetAt(ts, t, x)
    BY <1>9, <2>2, <2>3, <2>4, FinishedIs DEF Finished
  <2>6. x.state # "active"
    BY <2>4 DEF Finished
  <2>7. Len(us) = Len(ts) /\ us[t] = x /\ \A i \in 1..Len(ts) \ {t} : us[i] = ts[i]
    BY <1>9, <2>2, <2>5, SeqChanged
  <2>8. ASSUME NEW u \in 1..Len(ts), OnItsOwn(us[u])
        PROVE  OnItsOwn(ts[u]) /\ us[u].base = ts[u].base /\ Pending(us, gt, u) = Pending(ts, gt, u)
    <3>1. u # t
      BY <2>6, <2>7, <2>8 DEF OnItsOwn
    <3>2. us[u] = ts[u]
      BY <2>7, <3>1
    <3> QED BY <2>8, <3>2 DEF Pending
  <2>9. gt.phase = "emitting" => gt.undo = <<>>
    BY <1>7 DEF Kept
  <2> QED BY <1>7, <2>1, <2>7, <2>8, <2>9, KeptSame
<1>19. ASSUME NEW t \in TxIds, Rollback(t) PROVE Kept(h, us, hg)
  <2>1. t \in 1..Len(ts)
    BY <1>2, <1>19 DEF TxIds
  <2>2. PICK s : s = ApplyUndoLog(g, ts[t].undo)
    OBVIOUS
  <2>3. hg = [Free EXCEPT !.phase = "emitting", !.wal = s.wal]
    BY <1>1, <1>2, <1>6, <1>19, <2>2 DEF Rollback
  <2>4. hg = GateOf("emitting", 0, s.wal, <<>>)
    BY <2>3 DEF Free, GateOf, NoTx
  <2>5. hg.undo = <<>>
    BY <2>4 DEF GateOf
  <2>6. PICK vs : vs = WrittenBy(ts, t)
    OBVIOUS
  <2>7. TxsOK(vs) /\ Len(vs) = Len(ts) /\ IsSeq(vs)
    BY <1>9, <2>6, WrittenIs DEF TxsOK
  <2>8. us = FinishAt(vs, t, "rolledback", <<>>)
    BY <1>2, <1>5, <1>19, <2>6 DEF Rollback, WriteBy, WrittenBy, TxIds, FinishAt
  <2>9. PICK x : x = Finished(vs[t], "rolledback")
    OBVIOUS
  <2>10. t \in 1..Len(vs)
    BY <2>1, <2>7
  <2>11. us = SetAt(vs, t, x)
    BY <2>7, <2>8, <2>9, <2>10, FinishedIs DEF Finished
  <2>12. x.state # "active"
    BY <2>9 DEF Finished
  <2>13. Len(us) = Len(vs) /\ us[t] = x /\ \A i \in 1..Len(vs) \ {t} : us[i] = vs[i]
    BY <2>7, <2>10, <2>11, SeqChanged
  <2>14. ASSUME NEW u \in 1..Len(us) PROVE ~ OnItsOwn(us[u])
    <3>1. CASE u = t
      BY <2>12, <2>13, <3>1 DEF OnItsOwn
    <3>2. CASE u # t
      <4>1. u \in 1..Len(ts) /\ us[u] = vs[u]
        BY <2>7, <2>13, <3>2
      <4>2. vs[u].alone => ts[u].alone /\ u = t
        BY <1>9, <2>6, <4>1, WrittenFields
      <4> QED BY <3>2, <4>1, <4>2 DEF OnItsOwn
    <3> QED BY <3>1, <3>2
  <2> QED BY <2>5, <2>14 DEF Kept
<1>20. CASE MutateNodes \/ MutateEdges
  <2>1. PICK s : TakesBack(SoFar, s) /\ Mutate(s)
    BY <1>20, MutationsReversible DEF RollbackInv, Reversible
  <2>2. PICK r : r = SoFar
    OBVIOUS
  <2>3. r.graph = g /\ r.undo = gt.undo /\ TakesBack(r, s)
    BY <1>1, <1>3, <2>1, <2>2 DEF SoFar
  <2>4. h = s.graph /\ gt.phase = "executing"
    BY <1>3, <1>4, <2>1 DEF Mutate
  <2>5. hg = [gt EXCEPT !.wal = s.wal, !.undo = s.undo]
    BY <1>3, <1>6, <2>1 DEF Mutate
  <2>6. hg = GateOf("executing", gt.tx, s.wal, s.undo)
    BY <1>10, <2>4, <2>5 DEF GateOf
  <2>7. us = WrittenBy(ts, gt.tx)
    BY <1>2, <1>3, <1>5, <2>1 DEF Mutate, WriteBy, WrittenBy, TxIds
  <2> QED BY <1>7, <1>9, <2>3, <2>4, <2>6, <2>7, KeptMutate
<1>21. CASE FinishExecution
  <2>1. h = g /\ us = ts
    BY <1>1, <1>2, <1>4, <1>5, <1>21 DEF FinishExecution
  <2>2. hg = [gt EXCEPT !.phase = IF gt.tx = NoTx THEN "emitting" ELSE "recording",
                        !.undo = IF gt.tx = NoTx THEN <<>> ELSE @]
    BY <1>3, <1>6, <1>21 DEF FinishExecution
  <2>3. CASE gt.tx = NoTx
    <3>1. hg = [gt EXCEPT !.phase = "emitting", !.undo = <<>>]
      BY <2>2, <2>3
    <3>2. hg = GateOf("emitting", gt.tx, gt.wal, <<>>)
      BY <1>10, <3>1 DEF GateOf
    <3>3. hg.undo = <<>> /\ hg.tx = gt.tx
      BY <3>2 DEF GateOf
    <3>4. \A u \in 1..Len(ts) : gt.tx # u
      BY <1>12, <2>3 DEF NoTx
    <3>5. \A u \in 1..Len(ts) : Pending(ts, hg, u) = Pending(ts, gt, u)
      BY <3>3, <3>4 DEF Pending
    <3> QED BY <1>7, <2>1, <3>3, <3>5, KeptGate
  <2>4. CASE gt.tx # NoTx
    <3>1. hg = [gt EXCEPT !.phase = "recording", !.undo = gt.undo]
      BY <2>2, <2>4
    <3>2. hg = GateOf("recording", gt.tx, gt.wal, gt.undo)
      BY <1>10, <3>1 DEF GateOf
    <3>3. hg.phase # "emitting" /\ hg.undo = gt.undo /\ hg.tx = gt.tx
      BY <3>2 DEF GateOf
    <3>4. \A u \in 1..Len(ts) : Pending(ts, hg, u) = Pending(ts, gt, u)
      BY <3>3 DEF Pending
    <3> QED BY <1>7, <2>1, <3>3, <3>4, KeptGate
  <2> QED BY <2>3, <2>4
<1>22. CASE RecordUndo
  <2>1. h = g /\ gt.phase = "recording"
    BY <1>1, <1>3, <1>4, <1>22 DEF RecordUndo
  <2>2. hg = [gt EXCEPT !.phase = "emitting", !.undo = <<>>]
    BY <1>3, <1>6, <1>22 DEF RecordUndo
  <2>3. hg = GateOf("emitting", gt.tx, gt.wal, <<>>)
    BY <1>10, <2>2 DEF GateOf
  <2>4. hg.undo = <<>> /\ hg.tx = gt.tx
    BY <2>3 DEF GateOf
  <2>5. PICK t : t = gt.tx
    OBVIOUS
  <2>6. t \in 1..Len(ts)
    BY <1>9, <2>1, <2>5 DEF GateOK, NoTx
  <2>7. CASE ~ Active(gate.tx)
    <3>1. us = ts
      BY <1>2, <1>5, <1>22, <2>7 DEF RecordUndo
    <3>2. ts[t].state # "active"
      BY <1>2, <1>3, <2>5, <2>7 DEF Active
    <3>3. ASSUME NEW u \in 1..Len(ts), OnItsOwn(ts[u]) PROVE Pending(ts, hg, u) = Pending(ts, gt, u)
      <4>1. u # gt.tx
        BY <2>5, <3>2, <3>3 DEF OnItsOwn
      <4> QED BY <2>4, <4>1 DEF Pending
    <3> QED BY <1>7, <2>1, <2>4, <3>1, <3>3, KeptSame
  <2>8. CASE Active(gate.tx)
    <3>1. PICK p : p = gt.undo
      OBVIOUS
    <3>2. us = LengthenAt(ts, t, p)
      BY <1>2, <1>3, <1>5, <1>22, <2>5, <2>8, <3>1 DEF RecordUndo, LengthenAt
    <3>3. PICK x : x = Longer(ts[t], p)
      OBVIOUS
    <3>4. us = SetAt(ts, t, x)
      BY <1>9, <2>6, <3>2, <3>3, LongerIs
    <3>5. x.state = ts[t].state /\ x.undo = ts[t].undo \o p /\ x.base = ts[t].base /\ x.alone = ts[t].alone
      BY <3>3 DEF Longer
    <3>6. Len(us) = Len(ts) /\ us[t] = x /\ \A i \in 1..Len(ts) \ {t} : us[i] = ts[i]
      BY <1>9, <2>6, <3>4, SeqChanged
    <3>7. ASSUME NEW u \in 1..Len(ts), OnItsOwn(us[u])
          PROVE  OnItsOwn(ts[u]) /\ us[u].base = ts[u].base /\ Pending(us, hg, u) = Pending(ts, gt, u)
      <4>1. CASE u = t
        <5>1. OnItsOwn(ts[u]) /\ us[u].base = ts[u].base /\ us[u].undo = ts[u].undo \o p
          BY <3>5, <3>6, <3>7, <4>1 DEF OnItsOwn
        <5>2. PICK q : q = ts[u].undo \o p
          OBVIOUS
        <5>3. IsSeq(q)
          <6>1. IsSeq(ts[u].undo)
            BY <1>9 DEF TxsOK, TxOK
          <6> QED BY <1>9, <3>1, <5>2, <6>1, SeqConcat
        <5>4. Pending(us, hg, u) = q \o <<>>
          BY <2>4, <5>1, <5>2 DEF Pending
        <5>5. q \o <<>> = q
          BY <5>3, SeqNothingMore
        <5>6. Pending(ts, gt, u) = q
          BY <2>5, <3>1, <4>1, <5>2 DEF Pending
        <5> QED BY <5>1, <5>4, <5>5, <5>6
      <4>2. CASE u # t
        <5>1. us[u] = ts[u] /\ u # gt.tx
          BY <2>5, <3>6, <4>2
        <5> QED BY <2>4, <3>7, <5>1 DEF Pending
      <4> QED BY <4>1, <4>2
    <3> QED BY <1>7, <2>1, <2>4, <3>6, <3>7, KeptSame
  <2> QED BY <2>7, <2>8
<1>23. CASE Emit
  <2>1. h = g /\ us = ts /\ gt.phase = "emitting"
    BY <1>1, <1>2, <1>3, <1>4, <1>5, <1>23 DEF Emit
  <2>2. hg = [gt EXCEPT !.wal = Tail(gt.wal)]
    BY <1>3, <1>6, <1>23 DEF Emit
  <2>3. hg = GateOf("emitting", gt.tx, Tail(gt.wal), gt.undo)
    BY <1>10, <2>1, <2>2 DEF GateOf
  <2>4. hg.undo = gt.undo /\ hg.tx = gt.tx
    BY <2>3 DEF GateOf
  <2>5. \A u \in 1..Len(ts) : Pending(ts, hg, u) = Pending(ts, gt, u)
    BY <2>4 DEF Pending
  <2>6. gt.undo = <<>>
    BY <1>7, <2>1 DEF Kept
  <2> QED BY <1>7, <2>1, <2>4, <2>5, <2>6, KeptGate
<1>24. CASE ReleaseGate
  <2>1. h = g /\ us = ts /\ hg = Free /\ gt.phase = "emitting"
    BY <1>1, <1>2, <1>3, <1>4, <1>5, <1>6, <1>24 DEF ReleaseGate
  <2>2. gt.undo = <<>> /\ hg.undo = <<>>
    BY <1>7, <1>11, <2>1 DEF Kept
  <2>3. \A u \in 1..Len(ts) : Pending(ts, hg, u) = Pending(ts, gt, u)
    BY <2>2 DEF Pending
  <2> QED BY <1>7, <2>1, <2>2, <2>3, KeptGate
<1> QED BY <1>13, <1>14, <1>16, <1>17, <1>18, <1>19, <1>20, <1>21, <1>22, <1>23, <1>24 DEF Next

LEMMA RollbackInvStep == RollbackInv /\ [Next]_vars => RollbackInv'
<1> SUFFICES ASSUME RollbackInv, [Next]_vars PROVE RollbackInv'
  OBVIOUS
<1>1. ServerInv'
  BY ServerInvStep DEF RollbackInv
<1>2. Kept(graph, txs, gate)'
  BY KeptStep
<1> QED BY <1>1, <1>2 DEF RollbackInv

(* A rollback starts from a graph that the transaction's undo log leads back. *)
LEMMA RollbackLeadsBack ==
    ASSUME RollbackInv, NEW t \in TxIds, Rollback(t), txs[t].alone
    PROVE  ContentsUpToLabelOrder(graph') = ContentsUpToLabelOrder(txs[t].base)
<1>1. PICK g, ts, gt : g = graph /\ ts = txs /\ gt = gate
  OBVIOUS
<1>2. PICK h : h = graph'
  OBVIOUS
<1>3. TxsOK(ts) /\ Good(g) /\ Kept(g, ts, gt)
  BY <1>1, StateParts DEF RollbackInv, ServerInv
<1>4. t \in 1..Len(ts) /\ gt = Free /\ OnItsOwn(ts[t])
  BY <1>1 DEF TxIds, Rollback, Active, OnItsOwn
<1>5. PICK undo, b : undo = ts[t].undo /\ b = ts[t].base
  OBVIOUS
<1>6. h = ApplyUndoLog(g, undo).graph
  BY <1>1, <1>2, <1>5 DEF Rollback
<1>7. IsSeq(undo)
  BY <1>3, <1>4, <1>5 DEF TxsOK, TxOK
<1>8. Pending(ts, gt, t) = undo
  <2>1. Free.undo = <<>>
    BY DEF Free
  <2>2. Pending(ts, gt, t) = undo \o <<>>
    BY <1>4, <1>5, <2>1 DEF Pending
  <2> QED BY <1>7, <2>2, SeqNothingMore
<1>9. Good(b) /\ Back(undo, g, b)
  BY <1>3, <1>4, <1>5, <1>8 DEF Kept
<1>10. Good(h) /\ Like(h, b)
  BY <1>3, <1>6, <1>7, <1>9, BackUndone
<1>11. ContentsUpToLabelOrder(h) = ContentsUpToLabelOrder(b)
  BY <1>9, <1>10, LikeContents
<1> QED BY <1>1, <1>2, <1>5, <1>11

(* A rollback of a transaction that was the only writer since it began gives  *)
(* back the graph it began with, up to the order of a node's labels, for any  *)
(* number of statements, whichever of them failed midway, and however other   *)
(* connections begin, start, commit and roll back in between.                 *)
THEOREM RollbackAlwaysRestores == Spec => RollbackRestores
<1>1. Spec => []RollbackInv
  BY RollbackInvStart, RollbackInvStep, PTL DEF Spec
<1>2. ASSUME RollbackInv, [Next]_vars
      PROVE  [\A t \in TxIds : Rollback(t) /\ txs[t].alone =>
                ContentsUpToLabelOrder(graph') = ContentsUpToLabelOrder(txs[t].base)]_vars
  BY <1>2, RollbackLeadsBack
<1> QED BY <1>1, <1>2, PTL DEF Spec, RollbackRestores
=============================================================================
