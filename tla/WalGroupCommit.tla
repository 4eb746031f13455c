--------------------------- MODULE WalGroupCommit ---------------------------
(***************************************************************************)
(* WalGroupCommitter (maharit-storage, wal_group_commit.rs): callers send  *)
(* records over a bounded channel to one task, which appends them to the   *)
(* log and answers them together after one fsync.  Others share the log    *)
(* behind its mutex and write checkpoints and clean up between the steps   *)
(* of the task.  A request is the payload of its record.                   *)
(***************************************************************************)
EXTENDS Wal

CONSTANTS
    ChannelCapacity,    \* mpsc::channel(1024)
    BatchSize,          \* flush_batch_size; 1 is the synchronous mode
    MaxCheckpoints,     \* bound: checkpoint records
    MaxCrashes          \* bound: crashes and shutdowns

ASSUME BoundsAssumption ==
    /\ ChannelCapacity \in Nat \ {0} /\ BatchSize \in Nat \ {0}
    /\ MaxCheckpoints \in Nat /\ MaxCrashes \in Nat

VARIABLES
    queue,          \* requests in the channel
    pending,        \* appended and not yet answered, with their numbers
    answer,         \* what each caller knows
    closing,        \* whether the senders are dropped
    cleaned,        \* history: records removed by cleanup
    checkpoints,    \* history: how many checkpoints were written
    crashes         \* history: how often the log was closed

taskVars == <<queue, pending, answer, closing>>
bounds == <<checkpoints, crashes>>
vars == <<walVars, taskVars, cleaned, bounds>>

\* What a caller knows: "ok" comes with the number of the record.
Known(s) == [is |-> s, lsn |-> 0]
Ok(n) == [is |-> "ok", lsn |-> n]

Waits(q) == answer[q].is \in {"queued", "pending"}

TypeOK ==
    /\ WalTypeOK
    /\ queue \in Seq(Payloads) /\ Len(queue) <= ChannelCapacity
    /\ pending \in Seq([lsn : Nat, req : Payloads]) /\ Len(pending) <= BatchSize
    /\ answer \in [Payloads ->
            [is : {"none", "queued", "pending", "failed", "abandoned", "ok"}, lsn : Nat]]
    /\ closing \in BOOLEAN
    /\ cleaned \subseteq Record
    /\ checkpoints \in 0..MaxCheckpoints /\ crashes \in 0..MaxCrashes

Init ==
    /\ WalInit
    /\ queue = <<>> /\ pending = <<>>
    /\ answer = [q \in Payloads |-> Known("none")]
    /\ closing = FALSE
    /\ cleaned = {}
    /\ checkpoints = 0 /\ crashes = 0

-----------------------------------------------------------------------------
(* Callers *)

\* append: the request is sent if the channel has room.
Submit(q) ==
    /\ open /\ ~ closing
    /\ answer[q].is = "none"
    /\ Len(queue) < ChannelCapacity
    /\ queue' = Append(queue, q)
    /\ answer' = [answer EXCEPT ![q] = Known("queued")]
    /\ UNCHANGED <<walVars, pending, closing, cleaned, bounds>>

\* The caller's future is dropped; its record is written all the same.
Abandon(q) ==
    /\ Waits(q)
    /\ answer' = [answer EXCEPT ![q] = Known("abandoned")]
    /\ UNCHANGED <<walVars, queue, pending, closing, cleaned, bounds>>

\* The last sender is dropped, when no caller is inside append.
DropSender ==
    /\ open /\ ~ closing
    /\ \A q \in Payloads : ~ Waits(q)
    /\ crashes < MaxCrashes
    /\ closing' = TRUE
    /\ UNCHANGED <<walVars, queue, pending, answer, cleaned, bounds>>

-----------------------------------------------------------------------------
(* The task *)

\* All pending callers that still wait get their number, or the error.
Answered(ok) ==
    [q \in Payloads |->
        IF Waits(q) /\ \E r \in ToSet(pending) : r.req = q
        THEN IF ok THEN Ok((CHOOSE r \in ToSet(pending) : r.req = q).lsn) ELSE Known("failed")
        ELSE answer[q]]

BatchFull == Len(pending) >= BatchSize

ReceiveAppends ==
    /\ AppendRecord(Head(queue))
    /\ pending' = Append(pending, [lsn |-> lsn', req |-> Head(queue)])
    /\ answer' = [answer EXCEPT ![Head(queue)] = IF @.is = "queued" THEN Known("pending") ELSE @]

ReceiveFails ==
    /\ AppendFails
    /\ answer' = [answer EXCEPT ![Head(queue)] = IF @.is = "queued" THEN Known("failed") ELSE @]
    /\ UNCHANGED pending

Receive ==
    /\ queue # <<>>
    /\ ~ BatchFull
    /\ queue' = Tail(queue)
    /\ ReceiveAppends \/ ReceiveFails
    /\ UNCHANGED <<closing, cleaned, bounds>>

\* A variant of FlushDue: only a full batch is flushed.
FlushDueFull == BatchFull

\* A full batch is flushed at once.  A tick, or the end of the channel, is only
\* looked at when the channel is empty (biased select).
FlushDue == pending # <<>> /\ (BatchFull \/ queue = <<>>)

DoFlush ==
    /\ FlushDue
    /\ \/ Sync /\ answer' = Answered(TRUE)
       \/ SyncFails /\ answer' = Answered(FALSE)
    /\ pending' = <<>>
    /\ UNCHANGED <<queue, closing, cleaned, bounds>>

\* The task returns, and with it the last handle of the log is dropped.
Exit ==
    /\ closing /\ queue = <<>> /\ pending = <<>>
    /\ Close
    /\ crashes' = crashes + 1
    /\ UNCHANGED <<taskVars, cleaned, checkpoints>>

-----------------------------------------------------------------------------
(* Others that share the log *)

WriteCheckpoint ==
    /\ checkpoints < MaxCheckpoints
    /\ AppendRecord(Checkpoint)
    /\ checkpoints' = checkpoints + 1
    /\ UNCHANGED <<taskVars, cleaned, crashes>>

CleanUp ==
    /\ \/ /\ Cleanup \/ CleanupReopenFails
          /\ cleaned' = cleaned \cup Removable(Written(Len(buffer)))
       \/ (CleanupNothing \/ SyncFails) /\ UNCHANGED cleaned
    /\ UNCHANGED <<taskVars, bounds>>

\* A crash takes the callers along.
CrashAll ==
    /\ crashes < MaxCrashes
    /\ Crash
    /\ queue' = <<>> /\ pending' = <<>>
    /\ answer' = [q \in Payloads |-> IF Waits(q) THEN Known("abandoned") ELSE answer[q]]
    /\ closing' = FALSE
    /\ crashes' = crashes + 1
    /\ UNCHANGED <<cleaned, checkpoints>>

Restart ==
    /\ Open
    /\ closing' = FALSE
    /\ UNCHANGED <<queue, pending, answer, cleaned, bounds>>

Next ==
    \/ \E q \in Payloads : Submit(q) \/ Abandon(q)
    \/ DropSender
    \/ Receive \/ DoFlush \/ Exit
    \/ WriteCheckpoint \/ CleanUp
    \/ CrashAll \/ Restart

Spec == Init /\ [][Next]_vars

\* The task goes on: a tokio task whose input is ready is polled, and the interval
\* ticks.
FairSpec == Spec /\ WF_vars(Receive) /\ WF_vars(DoFlush)

-----------------------------------------------------------------------------
(* Properties *)

\* Every record whose append was answered with its number is on disk under that
\* number, where recovery reads it, or was removed behind a checkpoint.
Kept == \A q \in Payloads :
    answer[q].is = "ok" =>
        [lsn |-> answer[q].lsn, payload |-> q] \in ToSet(Readable(synced)) \cup cleaned

\* An answered append survives crashes, failed fsyncs and cleanups between append
\* and flush, as long as the log was not damaged: no record was written over an
\* older one, no append stopped in the middle of a record, no cleanup lost its file
\* after the rename, and no crash undid a rename.
AckedDurable == damage = {} => Kept

\* Every append is answered, unless its caller gives up or everything crashes.
AppendAnswered ==
    \A q \in Payloads : Waits(q) ~> ~ Waits(q)

\* The log is well typed, ascending, and holds what was answered.
LogSound == TypeOK /\ LogAscending /\ AckedDurable

-----------------------------------------------------------------------------
(* What the documentation says, and the code does not do *)

\* docs/index.md:62: the log guarantees that data persist, and replaying it after a
\* crash restores them.  Asked of a log to which nothing happened but that it was
\* opened again, or cleaned up, and appended to: every write and fsync succeeded.
AckedSurvives == damage \subseteq {"overwritten"} => Kept
=============================================================================
