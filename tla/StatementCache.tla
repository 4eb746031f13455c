--------------------------- MODULE StatementCache ---------------------------
(* The statement cache and the plan cache (maharit-query/src/cache.rs).       *)
(*                                                                            *)
(* A cache is a record: the entries by normalised query text, each with the   *)
(* logical time of its last use, and the clock those times are taken from.    *)
(* The counters of the statistics are left out; without them QueryCache and   *)
(* AstCache are one cache. PlanCache also remembers the graph counts a plan   *)
(* was built for.                                                             *)
EXTENDS Integers, Sequences, FiniteSets

CONSTANTS Queries,     \* query texts: sequences of pieces, blanks among them
          ParseOf,     \* the statement a text parses to, or ParseError
          ParseError,
          Capacity,    \* how many entries a cache keeps
          MaxClock     \* bound on the uses of one cache

ASSUME CacheAssumption ==
    /\ Capacity \in Nat
    /\ MaxClock \in Nat
    /\ DOMAIN ParseOf = Queries

VARIABLES ast,        \* the cache of parsed statements
          lastParse   \* the query the last step asked for and its answer (history)

cacheVars == <<ast, lastParse>>

Blank == {" ", "NL"}
NoEntries == [k \in {} |-> 0]
EmptyCache == [entries |-> NoEntries, clock |-> 0]
NoParse == [query |-> <<>>, statement |-> ParseError]

(* The text without the blanks at its ends, every run of blanks inside it     *)
(* being one space.                                                           *)
NormalizeQuery(q) ==
    LET word(i) == q[i] \notin Blank
        kept == SelectSeq([i \in DOMAIN q |-> i],
                          LAMBDA i : \/ word(i)
                                     \/ /\ i > 1 /\ word(i - 1)
                                        /\ \E j \in DOMAIN q : j > i /\ word(j))
    IN [i \in DOMAIN kept |-> IF word(kept[i]) THEN q[kept[i]] ELSE " "]

KeyOf(q) == NormalizeQuery(q)
Keys == {KeyOf(q) : q \in Queries}

(* The texts that a cache does not tell from q, and whether they all parse to *)
(* what q parses to. They do when q has neither a string literal with blanks  *)
(* in it nor a line comment: a comment ends at a newline, which the key turns *)
(* into a space. The code relies on it for every text.                        *)
Alike(q) == {r \in Queries : KeyOf(r) = KeyOf(q)}
KeyDecides(q) == \A r \in Alike(q) : ParseOf[r] = ParseOf[q]

(* The key whose entry has the smallest time of last use.                     *)
Lru(entries) ==
    CHOOSE k \in DOMAIN entries : \A l \in DOMAIN entries : entries[k].at <= entries[l].at

Remove(entries, k) == [l \in DOMAIN entries \ {k} |-> entries[l]]

EvictLru(entries) == IF entries = NoEntries THEN entries ELSE Remove(entries, Lru(entries))

(* A variant of Hit: the entry keeps the time at which it was stored.         *)
HitWithoutTouch(c, k) == [c EXCEPT !.clock = @ + 1]

(* A hit: the clock advances and the entry is the one used last.              *)
Hit(c, k) ==
    [c EXCEPT !.clock = @ + 1, !.entries[k].at = c.clock + 1]

(* A value is stored under its key, after an eviction when the cache is full. *)
(* A cache of capacity 0 stores nothing.                                      *)
Insert(c, k, value) ==
    IF Capacity = 0 THEN c
    ELSE LET room == IF Cardinality(DOMAIN c.entries) >= Capacity
                     THEN EvictLru(c.entries) ELSE c.entries
         IN [c EXCEPT !.clock = @ + 1,
                      !.entries = [l \in DOMAIN room \cup {k} |->
                                      IF l = k THEN [value |-> value, at |-> c.clock + 1]
                                      ELSE room[l]]]

(* The cached statement of the text's key, or the statement the text parses   *)
(* to, which is then stored. A parse error is not stored.                     *)
GetOrParse(c, q) ==
    LET k == KeyOf(q)
    IN IF k \in DOMAIN c.entries
       THEN [cache |-> Hit(c, k), statement |-> c.entries[k].value]
       ELSE [cache |-> IF ParseOf[q] = ParseError THEN c
                       ELSE Insert(c, k, ParseOf[q]),
             statement |-> ParseOf[q]]

Contains(c, q) == KeyOf(q) \in DOMAIN c.entries
Invalidated(c, q) == [c EXCEPT !.entries = Remove(@, KeyOf(q))]

(* A caller asks for the statement of a text.                                 *)
Parse(q) ==
    /\ ast.clock < MaxClock
    /\ ast' = GetOrParse(ast, q).cache
    /\ lastParse' = [query |-> q, statement |-> GetOrParse(ast, q).statement]

NoLookup == ast' = ast /\ lastParse' = NoParse
Invalidate(q) == ast' = Invalidated(ast, q) /\ lastParse' = NoParse
ClearCache == ast' = EmptyCache /\ lastParse' = NoParse

CacheInit == ast = EmptyCache /\ lastParse = NoParse
CacheNext == ClearCache \/ \E q \in Queries : Parse(q) \/ Invalidate(q)
CacheSpec == CacheInit /\ [][CacheNext]_cacheVars
-----------------------------------------------------------------------------
(* Properties.                                                                *)

CacheTypeOK ==
    /\ ast.clock \in 0 .. MaxClock
    /\ DOMAIN ast.entries \subseteq Keys
    /\ Cardinality(DOMAIN ast.entries) <= Capacity
    /\ \A k \in DOMAIN ast.entries : ast.entries[k].at \in 1 .. ast.clock
    /\ lastParse.query \in Queries \cup {<<>>}

(* The cached keys in the order of their last use.                            *)
RecentKeys ==
    [i \in 1 .. Cardinality(DOMAIN ast.entries) |->
        CHOOSE k \in DOMAIN ast.entries :
            Cardinality({l \in DOMAIN ast.entries : ast.entries[l].at > ast.entries[k].at}) = i - 1]

(* The key that the last step asked for and was given a statement of.         *)
KeyUsed ==
    IF lastParse.statement = ParseError THEN {} ELSE {KeyOf(lastParse.query)}

(* The statement cache is a least-recently-used cache: whatever the sequence  *)
(* of parses, invalidations and clears, get_or_parse and evict_lru keep the   *)
(* keys that were asked for last, a hit counting as much as a first parse,    *)
(* and no more than the capacity.                                             *)
Abstract == INSTANCE RecentlyUsed WITH recent <- RecentKeys, used <- KeyUsed
KeepsRecentlyUsed == Abstract!Spec

(* get_or_parse answers every text with the statement that this text parses   *)
(* to, whether the statement was parsed now or stored earlier, for a text of  *)
(* the same key included ("avoids re-parsing identical query strings").       *)
OwnStatement ==
    lastParse = NoParse \/ lastParse.statement = ParseOf[lastParse.query]

(* The statement s belongs to the key of q: some text of that key parses to   *)
(* it. It is the statement of q itself when the key of q decides.             *)
Belongs(s, q) == \E r \in Alike(q) : s = ParseOf[r]

(* get_or_parse never mixes up keys: through hits, evictions, invalidations   *)
(* and errors it answers a text with what a text of its key parses to, and a  *)
(* text whose key decides with its own statement.                             *)
StatementOfKey == lastParse = NoParse \/ Belongs(lastParse.statement, lastParse.query)

-----------------------------------------------------------------------------
(* The cache of execution plans (PlanCache of maharit-query/src/cache.rs). It  *)
(* stores plans under the normalised text of the query and serves a plan for   *)
(* as long as the graph has the node and edge counts it was built for.         *)

CONSTANTS PlanQueries,   \* the texts plans are asked for
          Counts,    \* node and edge counts the graph takes
          Spreads    \* what else the statistics hold: labels, histograms, indexes

ASSUME PlanAssumption == PlanQueries \subseteq Queries

VARIABLES plans,     \* the cache
          stats,     \* the statistics of the graph now
          lastPlan   \* the plan served last and the statistics it was asked with

planVars == <<plans, stats, lastPlan>>

AllStats == [nodes : Counts, edges : Counts, spread : Spreads]
NoPlan == [query |-> <<>>, plan |-> ParseError, asked |-> CHOOSE s \in AllStats : TRUE]

(* The planner: a plan is determined by the statement and the statistics.     *)
BuildPlan(statement, s) == [statement |-> statement, from |-> s]

(* A variant of CountsMatch: only the nodes are compared.                     *)
NodesMatch(s, t) == s.nodes = t.nodes
CountsMatch(s, t) == s.nodes = t.nodes /\ s.edges = t.edges

(* The stored plan while the counts are those it was built for; otherwise it  *)
(* is removed, and a new one is built and stored.                             *)
GetOrBuild(c, q, statement, s) ==
    LET k == KeyOf(q)
        plan == BuildPlan(statement, s)
        kept == [c EXCEPT !.entries = Remove(@, k)]
    IN IF k \in DOMAIN c.entries /\ CountsMatch(c.entries[k].value.from, s)
       THEN [cache |-> Hit(c, k), plan |-> c.entries[k].value]
       ELSE [cache |-> Insert(kept, k, plan), plan |-> plan]

Plan(q) ==
    /\ ParseOf[q] # ParseError
    /\ plans.clock < MaxClock
    /\ plans' = GetOrBuild(plans, q, ParseOf[q], stats).cache
    /\ lastPlan' = [query |-> q, plan |-> GetOrBuild(plans, q, ParseOf[q], stats).plan,
                    asked |-> stats]
    /\ UNCHANGED stats

ClearPlans == plans' = EmptyCache /\ UNCHANGED <<stats, lastPlan>>

(* Writers change the graph between two plans.                                *)
GraphChanges == stats' \in AllStats /\ UNCHANGED <<plans, lastPlan>>

PlanInit == plans = EmptyCache /\ stats \in AllStats /\ lastPlan = NoPlan
PlanNext == ClearPlans \/ GraphChanges \/ \E q \in PlanQueries : Plan(q)
PlanSpec == PlanInit /\ [][PlanNext]_planVars
-----------------------------------------------------------------------------
PlanTypeOK ==
    /\ plans.clock \in 0 .. MaxClock
    /\ DOMAIN plans.entries \subseteq Keys
    /\ Cardinality(DOMAIN plans.entries) <= Capacity
    /\ stats \in AllStats

(* A plan that get_or_build serves was built for a statement of the key that  *)
(* was asked (the asked statement, if the key decides) and                    *)
(* for a graph with as many nodes and edges as there are now, however         *)
(* often the graph changed and changed back since it was stored ("invalidated *)
(* when graph statistics change significantly (node/edge count differs)").    *)
PlanCurrent ==
    lastPlan.query # <<>> =>
        /\ Belongs(lastPlan.plan.statement, lastPlan.query)
        /\ lastPlan.plan.from.nodes = lastPlan.asked.nodes
        /\ lastPlan.plan.from.edges = lastPlan.asked.edges

(* Whatever a cache serves belongs to the key that was asked and to the       *)
(* graph it is asked about.                                                   *)
CachesFaithful == CacheTypeOK /\ PlanTypeOK /\ StatementOfKey /\ PlanCurrent
=============================================================================
