-------------------------- MODULE ShardCoordinator --------------------------
(* The coordinator in front of the shards (maharit-server/src/coordinator.rs) *)
(* and its client of each shard (maharit-cluster/src/shard_client.rs). Every  *)
(* query goes to every shard, in a task that waits for the mutex of the       *)
(* shard's client; the rows are merged when all tasks have ended. The shard's *)
(* side of a connection is handle_connection of tcp_server.rs. Messages carry *)
(* the query they belong to for the properties alone (0: sent unasked); no    *)
(* action looks at it.                                                        *)
EXTENDS Integers, Sequences, FiniteSets

CONSTANTS Shards,         \* the shards of the configuration
          Asked,          \* the requests of clients: a statement and a role
          MaxQueries,     \* bound on the queries
          MaxShardFaults, \* bound on lost connections and idle timeouts
          RequireToken    \* CoordinatorConfig.require_auth

(* Statements by what the coordinator and the shards make of them: a read of  *)
(* strings, a read of other values, one that does not parse, a write that     *)
(* answers with counts as CREATE, SET and DELETE do, and a write that returns *)
(* strings; and the role of the session, "none" without a valid token.        *)
Statements == {"text", "typed", "unparsable", "write", "write_text"}
Writes == {"write", "write_text"}
SessionRoles == {"none", "read_only", "read_write"}

ASSUME CoordinatorAssumption ==
    /\ Asked \subseteq [statement : Statements, role : SessionRoles]
    /\ IsFiniteSet(Shards) /\ MaxQueries \in Nat /\ MaxShardFaults \in Nat /\ RequireToken \in BOOLEAN

VARIABLES sent,      \* query -> its statement and role; the queries so far
          task,      \* query -> shard -> [pc, tries, rows]
          queue,     \* shard -> queries waiting for the client's mutex; the first holds it
          wire,      \* shard -> the client's connection: open, requests up, responses down
          orphans,   \* shard -> requests on connections the client has left
          ran,       \* query -> shard -> how often the shard executed it
          answers,   \* query -> the answer to the client
          troubles   \* how many faults happened

coordVars == <<sent, task, queue, wire, orphans, ran, answers, troubles>>

QueryIds == 1 .. MaxQueries
NoWire == [open |-> FALSE, made |-> FALSE, up |-> <<>>, down |-> <<>>, clean |-> TRUE]
NewWire == [open |-> TRUE, made |-> TRUE, up |-> <<>>, down |-> <<>>, clean |-> TRUE]
NoTask == [pc |-> "none", tries |-> 0, rows |-> {}]
Unanswered == [status |-> "none", rows |-> {}]
Sent == DOMAIN sent

(* check_query_auth: a token that is missing or not valid is refused, and a   *)
(* write without the right to write; what does not parse passes, the shards   *)
(* will refuse it.                                                            *)
CheckQueryAuth(statement, role) ==
    \/ ~RequireToken
    \/ role # "none" /\ (statement \in Writes => role = "read_write")

Submit(request) ==
    LET q == Cardinality(Sent) + 1
    IN /\ q <= MaxQueries
       /\ sent' = Append(sent, request)
       /\ IF CheckQueryAuth(request.statement, request.role)
          THEN /\ task' = [task EXCEPT ![q] = [s \in Shards |-> [NoTask EXCEPT !.pc = "locking"]]]
               /\ UNCHANGED answers
          ELSE /\ answers' = [answers EXCEPT ![q].status = "refused"] /\ UNCHANGED task
       /\ UNCHANGED <<queue, wire, orphans, ran, troubles>>

SetTask(q, s, t) == task' = [task EXCEPT ![q][s] = t]

(* The task asks for the mutex of the shard's client; it is given in the      *)
(* order of asking.                                                           *)
Lock(q, s) ==
    /\ task[q][s].pc = "locking"
    /\ SetTask(q, s, [task[q][s] EXCEPT !.pc = "sending"])
    /\ queue' = [queue EXCEPT ![s] = Append(@, q)]
    /\ UNCHANGED <<sent, wire, orphans, ran, answers, troubles>>

Holds(q, s) == queue[s] # <<>> /\ Head(queue[s]) = q

(* A variant of TaskEnds: the mutex is not let go.                            *)
TaskEndsHolding(q, s, rows) ==
    SetTask(q, s, [task[q][s] EXCEPT !.pc = "ended", !.rows = rows]) /\ UNCHANGED queue

(* The task ends with these rows and lets the mutex go.                       *)
TaskEnds(q, s, rows) ==
    /\ SetTask(q, s, [task[q][s] EXCEPT !.pc = "ended", !.rows = rows])
    /\ queue' = [queue EXCEPT ![s] = Tail(@)]

(* A variant of LeaveWire: the connection is kept after an error.             *)
LeaveWireKept(s) == UNCHANGED <<wire, orphans>>

(* The connection is dropped: what was received is lost, what was sent may    *)
(* still be read by the shard.                                                *)
LeaveWire(s) ==
    /\ wire' = [wire EXCEPT ![s] = NoWire]
    /\ orphans' = [orphans EXCEPT ![s] = @ \o wire[s].up]

(* An attempt failed: the first is made once more on a new connection; after  *)
(* the second the shard contributes no rows.                                  *)
AttemptFails(q, s) ==
    IF task[q][s].tries = 0
    THEN SetTask(q, s, [task[q][s] EXCEPT !.pc = "sending", !.tries = 1]) /\ UNCHANGED queue
    ELSE TaskEnds(q, s, {})

(* ensure_connected and the two writes, which have no timeout and are taken   *)
(* not to block. A write into a connection that the shard has left may still  *)
(* succeed.                                                                   *)
SendQuery(q, s) ==
    /\ task[q][s].pc = "sending" /\ Holds(q, s)
    /\ \/ /\ wire' = [wire EXCEPT ![s] =
                LET w == IF @.made THEN @ ELSE NewWire
                IN IF w.open THEN [w EXCEPT !.up = Append(@, q)] ELSE w]
          /\ SetTask(q, s, [task[q][s] EXCEPT !.pc = "reading"])
          /\ UNCHANGED <<queue, orphans>>
       \/ wire[s].made /\ ~wire[s].open /\ LeaveWire(s) /\ AttemptFails(q, s)
    /\ UNCHANGED <<sent, ran, answers, troubles>>

(* The connection cannot be made.                                             *)
ConnectFails(q, s) ==
    /\ task[q][s].pc = "sending" /\ Holds(q, s) /\ ~wire[s].made
    /\ troubles < MaxShardFaults /\ troubles' = troubles + 1
    /\ AttemptFails(q, s)
    /\ UNCHANGED <<sent, wire, orphans, ran, answers>>

(* Nothing came within the read timeout, or the connection ended.             *)
ReadFails(q, s) ==
    /\ task[q][s].pc = "reading" /\ wire[s].down = <<>>
    /\ \/ ~wire[s].open /\ UNCHANGED troubles
       \/ wire[s].open /\ troubles < MaxShardFaults /\ troubles' = troubles + 1
    /\ LeaveWire(s) /\ AttemptFails(q, s)
    /\ UNCHANGED <<sent, ran, answers>>

(* The next message is taken for the answer: strings are rows, an error and   *)
(* anything else are no rows. A row with a value that is not a string is not  *)
(* understood, and the attempt fails as if the connection had: after the      *)
(* first the request is sent again.                                           *)
ReadAnswer(q, s) ==
    LET m == Head(wire[s].down)
        rest == [wire EXCEPT ![s].down = Tail(@)]
    IN /\ task[q][s].pc = "reading" /\ wire[s].down # <<>>
       /\ IF m.type # "typed"
          THEN /\ TaskEnds(q, s, IF m.type = "text" THEN {<<m.to, s>>} ELSE {})
               /\ wire' = rest /\ UNCHANGED orphans
          ELSE IF task[q][s].tries = 0 THEN LeaveWire(s) /\ AttemptFails(q, s)
          ELSE AttemptFails(q, s) /\ wire' = rest /\ UNCHANGED orphans
       /\ UNCHANGED <<sent, ran, answers, troubles>>

(* The values of a row are sent as JSON of their type, counts as numbers.     *)
RowTypes(statement) == IF statement \in {"typed", "write"} THEN "typed" ELSE "text"

(* An answer is rows or an error.                                             *)
ResponseTo(q) ==
    [to |-> q, type |-> IF sent[q].statement = "unparsable" THEN "error"
                        ELSE RowTypes(sent[q].statement)]
CountRun(q, s) == ran' = [ran EXCEPT ![q][s] = @ + 1]

(* The shard executes the next request and answers, or executes one that came *)
(* on a connection the coordinator has left.                                  *)
ShardServes(s) ==
    /\ wire[s].open /\ wire[s].up # <<>>
    /\ CountRun(Head(wire[s].up), s)
    /\ wire' = [wire EXCEPT ![s].up = Tail(@), ![s].down = Append(@, ResponseTo(Head(wire[s].up)))]
    /\ UNCHANGED <<sent, task, queue, orphans, answers, troubles>>

ShardServesOrphan(s) ==
    /\ orphans[s] # <<>>
    /\ CountRun(Head(orphans[s]), s)
    /\ orphans' = [orphans EXCEPT ![s] = Tail(@)]
    /\ UNCHANGED <<sent, task, queue, wire, answers, troubles>>

(* No request within the shard's read timeout: it sends an error and goes on. *)
ShardIdles(s) ==
    /\ wire[s].open /\ wire[s].up = <<>>
    /\ troubles < MaxShardFaults /\ troubles' = troubles + 1
    /\ wire' = [wire EXCEPT ![s].down = Append(@, [to |-> 0, type |-> "error"]), ![s].clean = FALSE]
    /\ UNCHANGED <<sent, task, queue, orphans, ran, answers>>

(* The shard's process ends and is started again; requests not read are lost. *)
ShardRestarts(s) ==
    /\ wire[s].open /\ troubles < MaxShardFaults /\ troubles' = troubles + 1
    /\ wire' = [wire EXCEPT ![s].open = FALSE, ![s].up = <<>>]
    /\ orphans' = [orphans EXCEPT ![s] = <<>>]
    /\ UNCHANGED <<sent, task, queue, ran, answers>>

(* All tasks have ended: their rows are merged, equal rows once. (A task that *)
(* panics would make the answer an error; none of the modelled steps does.)   *)
MergeRows(q) ==
    /\ q \in Sent /\ answers[q].status = "none"
    /\ \A s \in Shards : task[q][s].pc = "ended"
    /\ answers' = [answers EXCEPT ![q] =
                     [status |-> "rows", rows |-> UNION {task[q][s].rows : s \in Shards}]]
    /\ UNCHANGED <<sent, task, queue, wire, orphans, ran, troubles>>

CoordInit ==
    /\ sent = <<>> /\ task = [q \in QueryIds |-> [s \in Shards |-> NoTask]]
    /\ queue = [s \in Shards |-> <<>>] /\ wire = [s \in Shards |-> NoWire]
    /\ orphans = [s \in Shards |-> <<>>] /\ ran = [q \in QueryIds |-> [s \in Shards |-> 0]]
    /\ answers = [q \in QueryIds |-> Unanswered] /\ troubles = 0

TaskStep(q, s) ==
    Lock(q, s) \/ SendQuery(q, s) \/ ConnectFails(q, s) \/ ReadFails(q, s) \/ ReadAnswer(q, s)

CoordNext ==
    \/ \E request \in Asked : Submit(request)
    \/ \E q \in QueryIds : MergeRows(q) \/ \E s \in Shards : TaskStep(q, s)
    \/ \E s \in Shards :
         ShardServes(s) \/ ShardServesOrphan(s) \/ ShardIdles(s) \/ ShardRestarts(s)

CoordSpec == CoordInit /\ [][CoordNext]_coordVars

(* The runtime runs every task, and a shard that runs serves its connections. *)
CoordFairness ==
    /\ \A q \in QueryIds : WF_coordVars(MergeRows(q))
    /\ \A q \in QueryIds, s \in Shards : WF_coordVars(TaskStep(q, s))
    /\ \A s \in Shards : WF_coordVars(ShardServes(s))
-----------------------------------------------------------------------------
(* Properties.                                                                *)

CoordTypeOK ==
    /\ \A q \in QueryIds, s \in Shards :
         /\ task[q][s].pc \in {"none", "locking", "sending", "reading", "ended"}
         /\ task[q][s].tries \in 0 .. 1
    /\ troubles \in 0 .. MaxShardFaults

Answered == {q \in Sent : answers[q].status = "rows"}

(* On a connection that has seen no idle timeout of the shard there is        *)
(* nothing but the request of the query that holds the client's mutex, or its *)
(* response, whatever was lost, timed out or retried before: no query can     *)
(* read the answer to another one.                                            *)
OneConversation ==
    \A s \in Shards : wire[s].clean =>
        /\ \A i \in DOMAIN wire[s].up : Holds(wire[s].up[i], s)
        /\ \A i \in DOMAIN wire[s].down : Holds(wire[s].down[i].to, s)

(* The shard client decodes the response to the query: an error, or rows of   *)
(* strings.                                                                   *)
Understood(q) == sent[q].statement = "unparsable" \/ RowTypes(sent[q].statement) = "text"

(* A shard executes a query at most twice, and twice only after a fault or    *)
(* when its client does not understand the rows. If nothing went wrong, an    *)
(* answered query was executed once by every shard and the answer has all     *)
(* rows, but one that is not understood, an ordinary write among them, was    *)
(* executed twice by every shard.                                             *)
ExecutionsExplained ==
    \A q \in QueryIds, s \in Shards :
        /\ ran[q][s] <= 2
        /\ ran[q][s] = 2 => troubles > 0 \/ ~Understood(q)
        /\ troubles = 0 /\ q \in Answered =>
             /\ ran[q][s] = IF Understood(q) THEN 1 ELSE 2
             /\ sent[q].statement \in {"text", "write_text"} => <<q, s>> \in answers[q].rows

(* A query that was refused reaches no shard, and every write a shard         *)
(* executes was asked for with the right to write, also when it is executed a *)
(* second time or after its answer.                                           *)
WritesAuthorized ==
    RequireToken =>
        \A q \in Sent, s \in Shards :
            ran[q][s] > 0 /\ sent[q].statement \in Writes => sent[q].role = "read_write"

(* Every query is answered: neither a mutex held across a timeout nor a shard *)
(* that restarts keeps a client waiting for ever.                             *)
QueriesAnswered ==
    \A q \in QueryIds : (q \in Sent) ~> (answers[q].status # "none")

(* The coordinator's shards execute what was asked, by whom it may be asked,  *)
(* no more often than faults and answers that are not understood explain, and *)
(* answer the query that waits.                                               *)
ShardsExact ==
    CoordTypeOK /\ OneConversation /\ ExecutionsExplained /\ WritesAuthorized
=============================================================================
