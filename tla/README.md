# MaharitDB: TLA+ models, model checking and proofs

MaharitDB is a graph database in Rust: a graph in memory, a Cypher-like query
language with indexes and constraints, a TCP server with accounts,
transactions and leader/follower replication, a coordinator of shards, clients
and connection pools in Rust and Python, and a storage library with a
write-ahead log, a multi-version store, database files and backups. This
directory models these parts, TLC checks the models on small instances, and
TLAPS proves the central properties of fifteen modules for every value of their
constants.

All paths are relative to `src/`; `K` is `crates/maharit-core/src`, `Q` is
`crates/maharit-query/src`, `S` is `crates/maharit-storage/src`, `V` is
`crates/maharit-server/src`, `C` is `crates/maharit-cluster/src`.

## 1. The system

| Component | State it keeps | Operations | Modelled in |
|---|---|---|---|
| MVCC store, `S/mvcc.rs` | version chains, logical clock, active set | begin, snapshot, read, write, delete, commit, rollback, gc | `Mvcc` |
| Lock manager, `S/transaction.rs` | lock table (mode, holders, queue), held locks | acquire by polling, timeout, deadlock test, release, finish | `LockManager` |
| Write-ahead log, `S/wal.rs` | file, buffered writer, position, LSN | append, sync, checkpoint, cleanup, open | `Wal` |
| Group commit, `S/wal_group_commit.rs` | channel, pending batch | append, batch flush, tick, shutdown | `WalGroupCommit` |
| Database files, `S/persistence.rs`, `S/snapshot_codec.rs`, `V/main.rs` | one file | save, load, start, shutdown | `SnapshotCodec`, `Snapshots` |
| Backups, `S/backup.rs` | files, increments, retention | create, restore, verify, increments, point in time, scheduler | `SnapshotCodec`, `Archive`, `Snapshots` |
| Graph, `K/graph.rs` | slots with free lists, adjacency, label index | create, create under an id, delete, properties, labels | `PropertyGraph` |
| Concurrent graph, `K/concurrent_graph.rs` | the same in concurrent maps, id counters | the same | `ConcurrentGraph` |
| Indexes, constraints, full text, `K/property_index.rs`, `K/constraint.rs`, `K/fulltext.rs` | derived maps, rules | update on write, lookup, check | `PropertyIndex`, `Store`, `Fulltext` |
| Traversal and algorithms, `K/traversal.rs`, `K/algorithms.rs` | none | functions of a graph | `Traversal` |
| Values and calendar, `K/property.rs`, `Q/executor.rs` | none | comparison, arithmetic, dates | `Values` |
| Lexer, parser, planner, `Q/lexer.rs`, `Q/parser.rs`, `Q/planner.rs` | none | text to tokens, statements, plans | `Parser`, `Planner` |
| Executor, `Q/executor.rs` | the database | reading and writing statements | `Expressions`, `Matching`, `Queries`, `Store`, `Database` |
| Caches, `Q/cache.rs` | entries with time of use, statistics | get, evict, invalidate, clear | `StatementCache` (abstract: `RecentlyUsed`) |
| Mutation log, `V/mutation_log.rs` | WAL entries and undo records of a statement | recorded mutations, replay, undo | `MutationLog` |
| Statements and transactions, `V/tcp_server.rs`, `S/transaction.rs` | write gate, transactions with undo logs | statements, BEGIN, COMMIT, ROLLBACK | `TxServer` |
| Requests and connections, `V/tcp_server.rs` | connections, count, shutdown flag | accept, read, authorise, execute, answer | `Listener`, `Frontend` |
| Accounts, `V/auth.rs` | users, sessions, ACL rules | login, expiry, user statements, save, checks | `Auth` |
| Replication, `V/replication.rs` | LSN, subscriber queues, handlers, follower state | append, handshake, snapshot, stream, ack, heartbeat, watchdog, restart | `Replication` |
| Sharding, `C/`, `V/coordinator.rs` | shard map, shard connections | route, scatter and gather, retry, rebalance plan | `Sharding`, `ShardCoordinator` |
| Clients and pools, `crates/maharit-client`, `clients/python` | connection, stream, permits, counts | query, stream, reconnect, acquire, release | `ClientSession`, `Pool` |
| HTTP, metrics, TLS, audit, logging, CLI, import/export, visualization | counters, files | I/O | no (section 8) |

How they interact. A connection task of the TCP server (`Listener`) reads a
request, checks its session and asks the shared statement cache what the text
parses to, authorises the statement, and executes it (`Frontend`). A writing
statement takes the *write gate*, runs on the shared `ConcurrentGraph` through a
`RecordingGraph`, gives its undo records to the `TransactionManager` and appends
its WAL entries to the `LeaderReplicationManager`; only then it gives the gate
back (`TxServer`). ROLLBACK takes the gate too; COMMIT does not. The
replication manager puts each entry into one bounded queue per follower; a
handler task per follower writes entries, heartbeats and (optionally) a
snapshot to a socket and reads acknowledgements (`Replication`). A coordinator
sends every query to all shards, each an ordinary server, over one kept
connection per shard (`ShardCoordinator`). Clients take the next message on a
connection for the answer to their request (`ClientSession`); pools lend
connections out (`Pool`). The server reads its database file at the start and
writes it when a signal comes, while statements go on (`Snapshots`). `Wal`,
`WalGroupCommitter`, the MVCC manager, the lock table, `AclManager`,
`BackupScheduler` and `PlanCache` are offered to embedders: the server uses
none of them.

What is hard here: calls that consist of two atomic steps; gc and file saves
against readers and writers that go on; polling, timeouts and grants; crash,
failed writes and torn files; backpressure, reconnection, retries and late
answers on connections whose messages carry no numbers; undo records and WAL
entries of statements that fail half way; indexes, postings and constraints
kept up by each statement separately; ids that are reused and renumbered.
PROJECT.json lists these under `hazards`, each at its line with the properties
about it.

## 2. Modules

An action stands for a step no other task can come between; an operation that
takes a lock twice, awaits or polls is several actions. Payloads, names and
texts are model values or members of small sets. History variables are marked
`history` where they are declared. Bounds are constants whose comment says
`bound`, or whose name begins with `Max`.

### Storage library

`Mvcc`. `versions` is the set of all versions of all chains; the order of a
chain is that of `created`, because every write ticks the clock.
`begin_transaction` and `begin_snapshot` are two actions each. `write_node`,
`delete_node`, `rollback` and `gc` take `&mut self`: Rust lets them run only
when no shared borrow is under way, which is the guard `Exclusive`.

`LockManager`. Each turn of `acquire_lock`'s loop runs under the write lock of
the table and is one action (`AcquireLock` first, `Retry` later), with the
outcomes deadlock, grant and wait; `LockTimeout` is the turn in which the time
is up. The search of `would_cause_deadlock_internal` is stated as reachability.
Assumed: one caller per transaction, and `release_lock` only of granted locks.

`Wal`, `WalGroupCommit`. A file is a sequence of slots, one record each; `Torn`
is a part of a record, and what is read back ends there. `pos` is the position
of the handle (0 after `open` and after `cleanup`, as in the code). Writes and
fsync may fail at any point, and so may the opening of the file that `cleanup`
has put in place (`CleanupReopenFails`): the writer then goes on with the file
that was replaced (`linked` is false). A crash leaves what was synced, any subset
of overwritten slots, and a prefix of what was written behind; it may also undo
the rename of a cleanup (`older`), since the directory is not synced. `damage` is
history: a record was overwritten or torn, or the log is written to an unlinked
file, or a rename was undone. It separates what the log promises until then from
what the documentation promises without condition. `WalGroupCommit` adds callers,
the channel, the task with its biased `select!`, other owners that checkpoint
and clean up, shutdown, crash and restart.

`SnapshotCodec`. A file is a sequence of fields, each with the kind that
decides its width; a write that stops leaves a prefix, perhaps with a torn
field. Writing and reading are field by field as in the code, with the checks
of counts against the bytes that are left; versions 1 to 3 can only be read, so
their writers are stated from the readers. Reading numbers nodes and edges
anew. Backups join the labels of a node with colons (`ColonParts` says which
labels fall apart), and a compressed section is a single field.

`Archive`. A graph with a log: changes and their records, a full backup, the
increment with the hash sets in any order, `RestoreIncremental` and
`RestoreToPointInTime`. The clock counts milliseconds, the unit of the log;
backups carry seconds, as in the code.

`Snapshots`. The lives of a server: start from the file, statements, the signal,
collection of nodes and then edges entry by entry, truncation, write, crash.
`delete_node` removes the node first and its edges one by one, so a save can see
it half done. Beside it the rounds of `BackupScheduler`.

### Graph and query engine

`PropertyGraph`, `PropertyIndex`, `Fulltext`: one operator per operation, on
records. `Store` is the constraint manager and the writing statements of the
executor on a database `[g, pi, cs, ft]`: what they change of each part, in which order, and
what stays when a later part fails. `Database` makes them the steps of one
database; its constants are the statements of each kind that a client may send
beside each schema (`Stmts`), and `Engine`, the executor they go to. `MCEngine`
gives `Engine` the value `Execute` of `Store` (`Executor::execute`). `late` is
history: the nodes whose primary label or text changed after an index had taken
them in, which the executor does not tell the index.

`Values`, `Expressions`, `Matching`, `Queries`: evaluation,
patterns, clauses, projection, aggregation and ordering. Where the code reads a
hash set, the order is that of the ids; floats are multiples of one half.
`Traversal`: the graph library with its algorithms, fractions exact. `Parser`:
the lexer on characters and the recursive descent on tokens, a parser state
being the tokens left and the results so far. `Planner`: plans with and without
statistics, and histograms.

`QueryReads` and `LanguageReads` are the questions put to these functions, one
step each (`AskAny`). The constant `Reply` answers them and is `LanguageReply`
in `MCEngine`: the code's answer to a question of each kind. Beside it are
definitions of the right answers that do not look like the code's: reachability,
minimal sums over simple paths, the table of precedences, rows selected by a
predicate over all assignments.

### Server

`ConcurrentGraph`, `MutationLog`, `TxServer`. `MutationLog` gives the recorded
form of each graph operation (`Rec…`), `ApplyUndo` for the undo loop and
`ApplyWal` for the follower. `WalRoundTrip` is the conversion of values to the
text of the WAL: a temporal value or a non-finite float comes back as a string.
In `TxServer` a statement is any sequence of mutations; one that fails ends
early, since its changes stay and are recorded. `RecordUndo`, `Emit` (one entry
at a time) and `ReleaseGate` follow; `Commit` is possible at any point of it.

`Auth`: users, sessions, user statements, the file of users, ACL rules.
`StatementCache`: the statement and the plan cache, with the normalised key.
Several texts may share a key and differ in what they parse to; `KeyDecides`
says of a text that none does.
`Frontend` composes both: session check, user management, authorisation and
execution are separate steps of a request, since the locks are released between
them. `Listener`: the accept loop, the count, read timeouts and shutdown.

`Replication`. An entry is its LSN. A session is one connection: handler phase,
bounded queue, the write under way, both directions of the socket.
`append_wal_entry` holds the subscriber lock and serves the subscribers one by
one. Followers crash and restart with an empty graph (`fresh`) or with the one
they saved. A snapshot creates and sets, and removes nothing, and a saved graph
has been numbered anew; so what a snapshot or an entry leaves of a saved graph
is open (`Applying`). `leader.graph`, chosen at the start, tells a leader with a
graph to send from the one that `main.rs` builds.

### Clients and shards

`ClientSession`: one of the three clients and the server's side of its
connection. Messages carry the call they belong to for the properties only; no
action looks at it. A stream is written message by message and may break off
before each; a request of which only a part was written spoils the framing of
what follows. `Pool`: the Rust pool (permits and a stack), which opens
`min_connections` however many are allowed, and the two Python pools (a count and
a queue). `Sharding`: the map, the strategies, routing, the rebalance plan.
`ShardCoordinator`: a task per query and shard, the mutex of the shard's client,
timeouts, retries (also of a query whose rows the client cannot decode), merging.

### Instances

`MCStorage`, `MCEngine`, `MCServer` and `MCPeers` each instantiate several
modules that share no state; a variable `scene`, chosen at the start, says which
of them moves, so a run explores the sum of their states and not the product.
Modules that interact (`TxServer`, `Frontend`, `WalGroupCommit`, `Database`) are
composed for good. `MCLockManager` adds symmetry; `Replication`, `TxServer` and
`WalGroupCommit` are instantiated by their configuration alone.

## 3. Runs and what they show

| Run | Properties |
|---|---|
| `storage` | `SnapshotInv`, `NoDirtyRead`, `SnapshotReadStable`: isolation of the version store. `CleanupInvisible`: rollback, and gc without active transactions, change no fresh snapshot. `FilesRoundTrip`, `TornFilesRefused`: every format, version and compression; a file cut short is refused, except that an uncompressed backup cut at the count of its index definitions is taken for one without them. `HistoryRestored`: increments and the log bring back what followed a backup. `SavedGraphRestored`: what a start takes over from the save before. `NewestBackupKept`: retention |
| `locks` | `LockInv`, `MutualExclusion`; `NobodyStuck`: no waiter on a free lock and no unnoticed circle |
| `tx` | `GraphsSound`: redundant structures agree on leader and follower, and a follower that has applied all entries has the leader's graph. `OverlapHarmless`: entries that a snapshot already contains do no harm. `RollbackRestores`: a transaction that was the only writer leaves nothing behind |
| `repl` | `StreamsExact`: no gap, repetition or reordering, acknowledgements of what was applied. `AppliedPrefix`: a process that began empty shows every entry up to the one it claims, or, below a leader that sends no snapshot, every entry since it joined. `UnauthorizedIsolated` |
| `repl_live` | `AppendTerminates`; `FollowersInformed`: a follower that reads catches up, one that lost its leader notices |
| `wal` | `LogSound`: while there is no damage, numbers ascend, and answered records are on disk and readable. `AppendAnswered` |
| `engine` | `StoreSound`: the eight structures of the graph agree; an index adds no row and misses only nodes of another primary label, nodes labelled after they were indexed and numbers of the other type; a full-text index finds each node whose text and label have not changed since. `StatementsCareful`: MERGE is idempotent, DELETE without DETACH spares edges. `KeepsConstraints`: no statement, even one that fails half way, breaks a constraint but through a label that it adds, a label that is not the first, or a key set by `SET +=`. `GraphAnswersExact`, `QueryAnswersExact`, `FunctionsExact`, `LanguageExact`: functions against reference definitions; for queries, the slice of a LIMIT, with what DISTINCT and several segments do to it |
| `server` | `AccessGuarded`: a text whose key decides its statement runs only under a role that may run it, and any other text runs as a statement of its key; sessions belong to live accounts; an administrator remains; coarser ACL targets are not easier. `CachesFaithful`, under the same condition. `KeepsRecentlyUsed`: the statement cache implements `RecentlyUsed`. `ConnectionsCounted`, `ShutdownEnds` |
| `peers` | `CallsCoherent`: own answers, bounded executions, whole streams. `PoolSound`, `WaitersServed`. `MapSound`: a rebalance plan settles, label scans reach the label's shards. `ShardsExact`: a shard executes a query twice at most, and once if nothing fails and its rows are strings. `QueriesAnswered` |
| `wal_overwrite`, `tx_commit_race`, `cache_key` | violations, section 5 |

A property that is a conjunction names its parts, each defined and commented
in the same module; type invariants are parts of these. Deadlock is not checked
where the instance ends when its bounds are used up; `engine` checks it.

### Bounds

- `storage`: nodes do not interact in `mvcc.rs`, so one suffices; three
  transactions allow a writer, a deleter and one that begins inside
  `begin_snapshot`. The archive has two nodes and two edges over four changes
  without a log (labels with and without colons, values of one and of three
  parts) and five with one, two milliseconds per second: gaps, reuse of ids and
  changes before, in and after the second of the backup occur. Three statements
  over two starts put every kind of statement between any two steps of a save;
  five rounds exceed a limit of two files with failed ones between.
- `locks`: cycles of two and three, a queue of two, shared holders and upgrades
  at the resource that is also read.
- `wal`: two appends through a channel of one and batches of two, so that the
  channel is full and a batch is left over; two checkpoints, so that one follows a
  cleanup; two crashes, so that what a crash leaves is appended to and lost again.
- `tx`: two recorded mutations in all combinations over loaded data, by one or
  two transactions; what rollback emits comes on top.
- `repl`: queue and socket of one entry make every second entry meet
  backpressure; two sessions allow a restart and reconnection, or a stranger
  beside a follower; the leader has a graph to send, or none.
- `engine`: two nodes and edges at a time with unbounded statements, and one of
  four schemas created and dropped between them: a constraint, a key of two
  properties, an index, a full-text index. The statements differ with the schema, so
  that each meets what can go wrong beside it (labels added, both properties
  of the key set at once, numbers of both types, texts that change); all
  digraphs on three nodes with up to four arcs, some with parallel ones; texts
  of four characters; clause lists of four and `WITH` in the middle; expression
  trees of every operator level two deep.
- `server`: two connections, two accounts, a cache of two over more texts and a
  clock of four, so that an eviction follows a hit; a read and a write that share a
  key; three peers for two places.
- `peers`: two calls with two faults, streams of up to two rows in chunks of
  one and two, three users of two connections (one or three of them opened at the
  start), three shards with up to four nodes, two queries over two shards with one
  fault.

### Fairness

- `repl_live`: the leader's appends, handshakes, pending writes, forwarding and
  exits are weakly fair: steps of tokio tasks, polled when ready, and `select!`
  without `biased` picks among ready branches at random. A follower's reading
  and its watchdog are assumed fair only inside the property whose subject is a
  follower that runs; `AppendTerminates` holds against followers that do nothing.
- `wal`: the task's receive and flush. Its `select!` is `biased`; that the tick
  is not starved is what `AppendAnswered` shows, so `FlushDue` lets a tick count
  only when the channel is empty.
- `server`: the accept loop and the handlers, both bounded by the timeouts they
  pass to `accept` and `read`. Nothing is assumed of peers.
- `peers`: the grant of a permit and each user's own next step, for the Rust
  pool's fair semaphore and a program that goes on; the coordinator's tasks and
  merging, and a shard that serves what it has read. Connections and faults are
  not fair. The Python pools wait by a timeout of their own and get no liveness
  property.

## 4. Refinement

`RecentlyUsed` says what an LRU cache promises: the `Capacity` keys used last,
in the order of use, less those forgotten. `StatementCache` keeps entries with
stamps of a logical clock and evicts a minimum. `KeepsRecentlyUsed` is
`RecentlyUsed`'s specification under the mapping that sorts the entries by
their stamps, checked by `server`: every parse, invalidation and clear of the
concrete cache is a step or a stutter of the abstract one. `used` is the key
that was used last, and each use, a hit too, must bring its key to the front: a cache
that evicts in the order of insertion does not implement it.

## 5. What the code does otherwise

The violation runs, with the quoted documentation in PROJECT.json under
`findings`:

- `wal_overwrite`: `open` and `cleanup` leave the handle at position 0, so what is
  appended to a log that was opened again or cleaned up overwrites its oldest
  records. The run counts no other damage.
- `tx_commit_race`: COMMIT from a second connection falls between the test that
  the transaction is active and the recording of its undo log.
- `cache_key`: blanks inside string literals are collapsed in the cache key. So is
  the newline that ends a `//` comment (`Q/cache.rs:279`, `Q/lexer.rs:524`), and
  texts that then share a key can parse to statements of different kinds: a write
  that was refused stays in the cache (`V/tcp_server.rs:178`), and a read with its key
  is authorised as a read and executes the write (1404).

Conditions in the properties mark where the code stops short of what one might
expect. Storage:

- gc removes versions that a snapshot in use reads (`S/mvcc.rs:337`; the comment
  at 287 says it cannot), and `delete_node` marks only the newest version, so
  after the commit the one before is visible (255).
- A release passes a lock to a waiter without entering it in the waiter's
  `held_locks` (`S/transaction.rs:641`): if that waiter times out, a finished
  transaction holds the lock for good. Two readers that both ask for an upgrade
  wait undetected until the timeout.
- After a cleanup that empties the log and a reopen, LSNs start at 1 again. If the
  file that a cleanup has renamed into place cannot be opened (`S/wal.rs:272`), what
  is appended later is synced to the unlinked file and answered. The rename itself is
  not synced, and a crash may undo it.
- The save at shutdown takes no lock: an edge whose node was created after the
  nodes were collected, or a node deleted half way, makes a file that the next
  start refuses. The file is truncated and written in place; a failed write is
  reported and the process ends with status 0. `load_concurrent` reads version
  4 only.
- Increments: log timestamps are milliseconds and `base_timestamp` seconds, so
  all records are taken; ids in a base with gaps, reused ids and more than one
  new edge (in the wrong hash order) restore another graph; zstd increments
  cannot be read back. Point-in-time recovery replays records from before the
  base, and no record exists for label changes. Labels with colons split in
  backups.
- An uncompressed backup cut at the count of its index definitions is restored
  without them (`S/backup.rs:613`), also if the cut is inside the count: the comment
  at 768 says that this is told from no more data, but `read_exact` gives the same error.
- The scheduler counts torn files towards its limit. Names of backups have the
  second in them (`S/backup.rs:1325`): two of one second share a file, which the
  model leaves out.

Engine:

- Only the primary label of a node is indexed, and the index is not told when it
  changes, where `docs/indexes/property-index.md:22` speaks of every node of the
  label; through an index an `Int` literal misses an equal `Float`. Labels that SET
  adds, labels of CREATE after the first, a composite UNIQUE key set by `SET +=` and
  existing data are not checked against constraints
  (`docs/indexes/constraints.md:9,26-27`). DELETE leaves full-text documents and
  SET does not update them (`docs/indexes/fulltext-index.md:147`).
- The early stop for LIMIT is wrong with DISTINCT and with several segments, where
  the comment at `Q/executor.rs:2294` calls the slice correct;
  the fast path of `count(x)` looks at the first row only. ORDER BY over mixed
  types is not total. AND, OR and NOT fail on null. An integer division by zero
  panics. Aggregates without keys ignore SKIP and LIMIT.
- The parser drops clauses in `SET … CREATE` and `WITH … MERGE`, flattens
  OPTIONAL before DELETE, and lets the first UNION decide about ALL.
- Plans are kept when indexes or label distributions change; a plan may choose
  the index of another variable's filter; a `CALL` subquery is missing from plans
  with statistics.

Server, clients and shards:

- Statements of an open transaction are visible to others and streamed at once
  (`V/tcp_server.rs:1360`, `1367`), where `docs/advanced/transactions.md:68` and
  `docs/advanced/replication.md:63` speak of committed changes. The read-only
  flag of BEGIN is never consulted. Rollback restores a node's labels but not
  their order. Temporal values reach followers as strings.
- The leader of `main.rs:360` sends no snapshot, so a follower that joins late
  lacks what came before (`docs/advanced/replication.md:129`). When a follower
  has reconnected, the end of the old handler marks it dead. A snapshot does not
  advance the follower's LSN. Over a graph that a follower saved and loaded again,
  a snapshot removes nothing and meets other ids (`V/replication.rs:989-999`), so the
  follower may differ from its leader for good.
- A session keeps the role of its login after ALTER USER; ALTER USER with a
  password and a refused role changes the password and reports an error. Users
  are never saved by `main.rs`.
- The server sends an error unasked after 30 s without a request; a client or
  shard client that goes on using the connection takes it for its answer and
  stays one behind. A write of the Rust client that times out leaves a part of a
  request on a connection that stays in use (`crates/maharit-client/src/lib.rs:1007`).
- The Rust pool loses a permit when connecting fails and takes back connections
  with unread answers; it opens `min_connections` even if `max_connections` is smaller
  (`lib.rs:1155-1173`). The Python pools do not wake waiters when a connection is
  discarded, and cancelled asyncio tasks leak the count.
- A shard that fails contributes no rows (`V/coordinator.rs:334`). Rows with other
  values than strings cannot be decoded (`C/shard_client.rs:33`), so the query is sent
  again (161-165): as CREATE, DELETE and SET answer with numbers, every write through
  the coordinator is executed twice on each shard. Equal rows of two shards become
  one. A label query under a range strategy asks one shard if ids 0 and 1 are there.

## 6. Proofs

`StorageProofs`, of `Mvcc` for all sets of nodes, values and readers and all
bounds, and of `Snapshots` for any number of backups to keep; from the
assumptions that the bounds are naturals and that `Nil` is neither a
natural nor a value:

- `TypeCorrect`: `Spec => []TypeOK`.
- `SnapshotInvariant`: `Spec => []SnapshotInv`. `NoDirtyRead` is not inductive:
  it says nothing of a snapshot that is half taken, nor of deletes, nor of the
  stamps that make later writes invisible. `SnapshotInv` adds that stamps lie in
  the past of the clock, that transaction ids are never in two states, that all
  that is in the chains was touched by active or committed transactions, and
  that this stays so, relative to the captured set, between the two steps of
  `begin_snapshot`. The last part is where `&mut self` enters: a transaction may
  begin between the steps, but cannot write before the snapshot has its number.
- `NoDirtyReads`: `Spec => []NoDirtyRead`, from the above.
- `RepeatableRead`: `Spec => SnapshotReadStable`: each step other than gc leaves
  the visible versions of a held snapshot as they are, up to the delete marks
  that the snapshot does not see (`SameVisibleSameRead`).
- `CleanupNeverSeen`: `Spec => CleanupInvisible`. A rollback removes what was
  hidden as the work of an active transaction and undoes deletes that were
  hidden likewise (`RollbackUnseen`). Without active transactions a new snapshot
  shows exactly the undeleted versions, so that what gc removes is deleted, or
  behind a newer version that stays (`CollectionUnseen`).
- `NewestBackupAlwaysKept`: `SnapSpec => NewestBackupKept`. `BackupInv` says that
  the round prunes only after its own backup, the newest file, is complete;
  `NewestStays` counts that pruning down to `max_backups > 0` cannot reach it.

`LockManagerProofs`, for all sets of resources and requests and every finite
set of transactions:

- `TypeCorrect`: `Spec => []TypeOK`.
- `LockInvariant`: `Spec => []LockInv`. `MutualExclusion` speaks of what callers
  believe; to be inductive it needs the link to the table: who believes to hold
  is among the holders, an exclusive belief is an exclusive mode, and an
  exclusive mode has one holder. `VacateLock` and `GrantedLock` say what the two
  table operations do, `TurnExclusive` that a turn of any outcome keeps the link.
- `Exclusion`: `Spec => []MutualExclusion`.
- `NeverStuck`: `Spec => []NobodyStuck`. The inductive part is `WaitersQueued`
  (who is in a call is queued or has been made a holder) with `NoLostWaiter`. That
  deadlocks are then noticed is an argument about one state: take a smallest set
  in a deadlock (there is one, by `WFMin` over the subsets of a finite set) and
  a member `t` that does not notice; what is reachable from the holders of its
  resource, cut down to the set, is a deadlock without `t`, and smaller. The
  search skips the resource `t` asks for; that does no harm because whoever waits
  there waits for holders that are in the set already.

`PeersProofs`, for any finite set of users and any sockets and sizes:

- `PoolAlwaysSound`: `PoolSpec => []PoolSound`, without an assumption that
  `min_connections` is at most `max_connections`: the bound on open connections is the
  larger of the two (`Limit`). `PoolInv` adds to the types, to
  the single owner of a connection and to the order of the queue what each
  stage of a user's program owns of permits and counts (`PoolNumbers`); the
  bound and the balance follow, with cardinalities of the users at each stage.
- `ShardsAlwaysExact`: `CoordSpec => []ShardsExact`, for any finite set of shards
  and any requests, bounds and token setting. `CoordInv` speaks of each shard
  separately (`ShardInv`), since a step of a task or of a shard touches one
  alone (`LocalKeeps`): the queue holds whoever asked, once, and only its first
  reads (`Mutex`); a clean connection carries nothing, or the request or the
  response of the reader (`Talking`); executions, requests on the connection
  and requests on connections left are together no more than the attempts of
  the task (`Attempts`), which are two at most; who has a task was let through
  (`Allowed`); and without faults (`Calm`) a query is sent once and its rows are
  taken, or, if its rows cannot be decoded (`Typical`), it is sent twice (`Once`
  says how far either has got). The counting rests on lemmas on how often a query stands in a
  sequence (`OccursAppend`, `OccursTail`, `OccursBoth`).

`ServerProofs`, for any peers, connections, users, texts, limits and capacities:

- `ConnectionsAlwaysCounted`: `ListenerSpec => []ConnectionsCounted`, which is
  inductive with the clause on the accept loop: the limit is checked a step
  before the accept, and only ends of handlers come between.
- `AccountsAlwaysGuarded`: types, `AdminRemains` and `SessionsOfLiveAccounts` of
  `AuthSpec`. `AdminRemains` needs the same of the file of users, since a restart
  reads it.
- `CachesAlwaysFaithful`: `CacheSpec /\ PlanSpec => []CachesFaithful`.
- `AccessAlwaysGuarded`: `FrontendSpec => []AccessGuarded`.
  The invariant follows a request through its steps: what was read of the
  session and decided at the authorisation stays right for the text until the
  cached statement is run, because every cache entry is what some text of its key
  parses to. Nothing is assumed of the texts. What is claimed of every text is that
  it runs as a statement of its key; that this is its own statement, and that the
  role may run it, is claimed of a text whose key decides (`KeyDecides`), since
  for the others it is false (section 5). The theorems say that shared keys are the
  only way in which the caches can be wrong. The parser is assumed to give
  CREATE USER a name and a password (`FrontendAssumption`).

`ReplicationProofs`, for any followers, secrets, bounds and capacities:

- `StreamsAlwaysExact`: `Spec => []StreamsExact`. `ReplicationInv` has three
  parts. `ContextInv` is types and who belongs to whom. `SessionsInv` says of each
  session that its entries are numbered without gap from the subscription on
  through received, wire, write under way and queue, also in sessions that are
  down or not yet subscribed, and that the queue of a subscriber ends with the
  newest entry, or the one before while `append_wal_entry` has not come to it.
  `AcksInv` says that any number that may become an acknowledgement is 0 or an
  entry received: the follower's LSN, the handshake, messages to the leader.
- `UnauthorizedAlwaysIsolated`: `Spec => []UnauthorizedIsolated`, with the
  sessions of strangers (`Refused`): the handler ends at the handshake.
- `AppliedAlwaysPrefix`: `Spec => []AppliedPrefix`, for both kinds of leader.
  It speaks of processes that began with an empty graph, since the code promises
  nothing over a saved one (`Shown` is what such a process shows, and everything for
  the others). `CoveredInv` says where the entries before the subscription are for
  each follower: below a leader with a graph, in its data or in a snapshot that
  travels before the first entry, and a follower that was restarted asks for it;
  below a leader without one, the claim begins at the subscription that the process
  `joined` with.

`WalProofs`, for any callers, channel, batch size and bounds; from the
assumption that a torn slot is not a record:

- `LogAlwaysSound`: `Spec => []LogSound`. `WalInv` has the types, and `Undamaged`
  for a log without damage; damage once done stays, and failing to reopen after a
  rename, writing over records and a rename that a crash undoes count as
  damage. `Undamaged` follows the log before it is
  answered for: as long as nothing was damaged, only whole records are written and
  only at the end of the file, what was synced is the beginning of the file, the
  numbers ascend through file and buffer, and a record that waits for its answer
  is in the file or the buffer or was cleaned up. A flush or fsync that fails half
  way only moves records from the buffer to the file (`Written`-lemmas); what can
  be read of a crash image includes what was synced. The lemmas on `Readable` and
  on the recursive function of `cleanup` are by least counterexample (`WFMin`).

`PeersProofs` also, for the three clients and any chunk sizes, calls and rows:

- `CallsAlwaysCoherent`: `SessionSpec => []CallsCoherent`. That a finished call got
  its own answer is no invariant of the client alone. `SessionInv` adds what is
  under way, and what is `Coming`: the messages on the connection and, while its
  framing is whole, those the server has still to write. Every start and chunk of a
  stream is followed there by the message that continues it or, where the stream
  broke off, by no part of any stream (`StreamsInOrder`); a request on its way was not
  yet executed by this attempt (`ExecutionsCounted`), and while nobody gave up
  waiting the connection carries the request or the answer of the present call and
  nothing else (`NothingElse`).

`TxProofs`, for any labels (finitely many), keys and values, and all bounds; from
the assumptions that there is a plain value and that no value is both plain and
temporal:

- `GraphsAlwaysSound`: `Spec => []GraphsSound`. `Consistent` is not inductive
  along a rollback, and says nothing of the followers. `ServerInv` says of the
  leader's graph that it is `Good` (consistent and well shaped); that log and
  entries still to be emitted turn every mirror of the loaded database into a
  mirror of this graph, all graphs on the way being good (`Conveys`, a lemma for
  each mutation and each undo record, and one for sequences of them); and of the
  undo records that may still be applied, of all transactions and the running
  statement, that each `Fits` the graph (what it restores has an id that was given
  out and is not in use) and that no two restore the same element (`Apart`). This
  holds because no operation gives an id out twice (`Onward`). So a rollback, even
  of a transaction whose elements others have changed since, never overwrites.
- `RollbackAlwaysRestores`: `Spec => RollbackRestores`. For every active
  transaction that has written alone, the undo records it has recorded, followed by
  those of its statement under way, lead `Back` from the graph to `base`: there is
  a graph for every record such that the record turns all graphs `Like` it (equal
  up to the order of labels) into graphs like the one before (`Reverses`). A lemma
  for each of the ten recorded mutations shows that its records reverse it
  (`TakesBack`), deleting a node with its edges included; appending records composes
  (`BackBoth`), and undoing the log newest first runs the chain (`BackUndone`). The
  invariant `RollbackInv` adds to `ServerInv` that chain and that no undo record is
  left at the gate once its entries are emitted.

Only model-checked, and why:

- Liveness, fairness and the refinement of `RecentlyUsed` (its mapping sorts by
  stamps with `SelectSeq` and CHOOSE): out of the prover's reach.
- `GraphAnswersExact`, `QueryAnswersExact`, `FunctionsExact`, `LanguageExact`,
  `StoreSound`, `StatementsCareful`, `KeepsConstraints`: `Expressions`, `Parser`,
  `Traversal` and the modules above them use RECURSIVE operators.
- `FilesRoundTrip`, `TornFilesRefused`, `HistoryRestored`: what a writer and a
  reader of sequences compute, stated with RECURSIVE operators and folds.
- `PlanSettles` of `MapSound`: folds over the shards. The library's induction
  theorems take an operator as parameter and cannot be used; a least
  counterexample stands in for them where a concrete recursive function is
  concerned (`Replay`, `ApplyUndoLog`, `Without`, `Retained`), not for a fold.
- `OverlapHarmless`: needs, for each element, which entry of the log wrote it
  last. Not proved.
- `LabelRouteCovers` of `MapSound`, `SavedGraphRestored`: not proved.

## 7. Plan

What would be proved next: `OverlapHarmless`, `LabelRouteCovers`, and of
`SavedGraphRestored` the part that only a complete file is taken over.

## 8. Not modelled

HTTP, metrics, audit log, logging and tracing write out what the modelled parts
decide and nothing reads it back. TLS is a library and files; what the server
sees of it is a connection. The command line and the REPL are option parsing and
terminal I/O. Import, export and visualization are single passes over a graph
into a format. The Python native binding wraps the Rust client. Within modelled
parts: byte layouts below fields, scores of the full-text search, rounding of
floats, random and clock functions, wording of messages and plans, statistics
counters, `apply_record` of `wal.rs`, blocked writes on sockets, clock skew.
