-------------------------------- MODULE Wal --------------------------------
(***************************************************************************)
(* The write-ahead log of maharit-storage (wal.rs): a BufWriter on a file, *)
(* the records that recovery reads back, the checkpoint and the cleanup.   *)
(*                                                                         *)
(* A record takes one slot of the file, whatever its length.  Field by     *)
(* field encoding is left out; what is kept of it is that a record which   *)
(* is not there to its last byte (Torn) ends what can be read.             *)
(***************************************************************************)
EXTENDS SequencesExt, Integers

CONSTANTS
    Payloads,       \* what records say
    Checkpoint,     \* the payload of a checkpoint record
    Torn            \* a part of a record

VARIABLES
    file,           \* the slots of the log file, as other readers see them
    synced,         \* the slots that the last fsync made durable
    buffer,         \* the records in the BufWriter
    pos,            \* the slots before the position of the file handle
    lsn,            \* current_lsn
    open,           \* whether a process has the log open
    linked,         \* whether its writer has the file that the path names
    older,          \* the file that the path named before the last cleanup
    damage          \* history: what has happened to the log that it should not

walVars == <<file, synced, buffer, pos, lsn, open, linked, older, damage>>

\* What can happen to the log: it is written over; a part of a record is left in it;
\* the writer goes on with a file that no path names; a crash brings back the file
\* that was replaced.
Damages == {"overwritten", "torn", "unlinked", "undone"}

Record == [lsn : Nat, payload : Payloads \cup {Checkpoint}]
Slot == Record \cup {Torn}

\* A part of a record is not a record.
ASSUME TornAssumption == Torn \notin Record

WalTypeOK ==
    /\ file \in Seq(Slot) /\ synced \in Seq(Slot) /\ buffer \in Seq(Slot)
    /\ pos \in 0..Len(file)
    /\ lsn \in Nat
    /\ open \in BOOLEAN /\ linked \in BOOLEAN /\ older \in Seq(Slot)
    /\ damage \subseteq Damages
    /\ linked \/ "unlinked" \in damage
    /\ ~ open => buffer = <<>>

\* The records that read_record returns before the end of the file or the first
\* record that is not whole.
Readable(f) ==
    LET i == SelectInSeq(f, LAMBDA x : x = Torn)
    IN  IF i = 0 THEN f ELSE SubSeq(f, 1, i - 1)

\* find_last_lsn: the number of the last readable record.
FindLastLsn(f) == IF Readable(f) = <<>> THEN 0 ELSE Last(Readable(f)).lsn

WalInit ==
    /\ file = <<>> /\ synced = <<>> /\ buffer = <<>>
    /\ pos = 0
    /\ lsn = 0
    /\ open = TRUE /\ linked = TRUE
    /\ older = <<>>
    /\ damage = {}

-----------------------------------------------------------------------------
(* Writing *)

\* File f with the slots s written from position p on.
WriteAt(f, p, s) ==
    [i \in 1..(IF p + Len(s) > Len(f) THEN p + Len(s) ELSE Len(f)) |->
        IF i \in (p + 1)..(p + Len(s)) THEN s[i - p] ELSE f[i]]

\* The file at the path when the first k records of the buffer are written.
Written(k) == IF linked THEN WriteAt(file, pos, SubSeq(buffer, 1, k)) ELSE file

WriteOut(k) ==
    /\ file' = Written(k)
    /\ pos' = IF linked THEN pos + k ELSE pos

Unwritten(k) == SubSeq(buffer, k + 1, Len(buffer))

Overwrites(k) == IF linked /\ k > 0 /\ pos < Len(file) THEN {"overwritten"} ELSE {}

\* append: the record goes to the buffer, which is written out first if it has no
\* room (k # 0).
AppendRecord(p) ==
    /\ open
    /\ lsn' = lsn + 1
    /\ \E k \in {0, Len(buffer)} :
        /\ WriteOut(k)
        /\ buffer' = Append(Unwritten(k), [lsn |-> lsn', payload |-> p])
        /\ damage' = damage \cup Overwrites(k)
    /\ UNCHANGED <<synced, open, linked, older>>

\* The buffer cannot be written out.  The fields that the record wrote before that
\* stay in the buffer.
AppendFails ==
    /\ open
    /\ lsn' = lsn + 1
    /\ \E k \in 0..(Len(buffer) - 1), part \in {<<>>, <<Torn>>} :
        /\ WriteOut(k)
        /\ buffer' = Unwritten(k) \o part
        /\ damage' = damage \cup Overwrites(k)
                     \cup (IF part = <<>> THEN {} ELSE {"torn"})
    /\ UNCHANGED <<synced, open, linked, older>>

Sync ==
    /\ open
    /\ WriteOut(Len(buffer))
    /\ synced' = file'
    /\ buffer' = <<>>
    /\ damage' = damage \cup Overwrites(Len(buffer))
    /\ UNCHANGED <<lsn, open, linked, older>>

\* flush stops in the middle, or fsync fails (k = Len(buffer)).
SyncFails ==
    /\ open
    /\ \E k \in 0..Len(buffer) :
        /\ WriteOut(k)
        /\ buffer' = Unwritten(k)
        /\ damage' = damage \cup Overwrites(k)
    /\ UNCHANGED <<synced, lsn, open, linked, older>>

-----------------------------------------------------------------------------
(* Cleanup *)

LastCheckpoint(recs) == SelectLastInSeq(recs, LAMBDA x : x.payload = Checkpoint)

\* The records that cleanup removes from f: all up to the last checkpoint, unless
\* there is none or the first record is already a later one.
Removable(f) ==
    LET recs == Readable(f)
        c == LastCheckpoint(recs)
    IN  IF c = 0 THEN {}
        ELSE IF recs[1].lsn > recs[c].lsn THEN {}
        ELSE {x \in ToSet(recs) : x.lsn <= recs[c].lsn}

\* The records of recs that are not in gone, in their order.
Retained(recs, gone) ==
    LET kept[n \in 0..Len(recs)] ==
            IF n = 0 THEN <<>>
            ELSE IF recs[n] \in gone THEN kept[n - 1] ELSE Append(kept[n - 1], recs[n])
    IN  kept[Len(recs)]

\* A variant of Cleanup: the buffer is not flushed first, and goes with the old file.
CleanupUnsynced ==
    /\ open
    /\ Removable(file) # {}
    /\ file' = Retained(Readable(file), Removable(file))
    /\ synced' = file'
    /\ buffer' = <<>>
    /\ pos' = 0
    /\ UNCHANGED <<lsn, open, linked, older, damage>>

\* After sync the kept records are written to a new file, which is synced and
\* replaces the old one.
Replace(all) ==
    /\ open
    /\ Removable(all) # {}
    /\ file' = Retained(Readable(all), Removable(all))
    /\ synced' = file' /\ older' = all
    /\ buffer' = <<>> /\ pos' = 0
    /\ UNCHANGED <<lsn, open>>

\* The new file is opened at its beginning.
Cleanup ==
    /\ Replace(Written(Len(buffer)))
    /\ linked' = TRUE
    /\ damage' = damage \cup Overwrites(Len(buffer))

\* The new file cannot be opened.  cleanup returns the error, and the writer keeps
\* the old file: what is appended from now on is in no file that can be found.
CleanupReopenFails ==
    /\ Replace(Written(Len(buffer)))
    /\ linked' = FALSE
    /\ damage' = damage \cup Overwrites(Len(buffer)) \cup {"unlinked"}

\* Nothing to remove, or an error at a record that is not whole or with the new
\* file: only the sync.
CleanupNothing == Sync

-----------------------------------------------------------------------------
(* The process and the machine *)

\* The writer is dropped, which writes its buffer out.
Close ==
    /\ open
    /\ WriteOut(Len(buffer))
    /\ buffer' = <<>>
    /\ damage' = damage \cup Overwrites(Len(buffer))
    /\ open' = FALSE
    /\ UNCHANGED <<synced, lsn, linked, older>>

\* The first n slots of the file after a crash: all that was synced, and what was
\* written over it at the places in New.
CrashImage(n, New) ==
    [i \in 1..n |-> IF i > Len(synced) \/ i \in New THEN file[i] ELSE synced[i]]

\* The disk has all that was synced, any part of what was written over it, and a
\* prefix of what was written behind it, cut anywhere.  Or the path names the file
\* again that cleanup replaced: nothing syncs the directory.
Crash ==
    /\ \/ /\ \E n \in Len(synced)..Len(file), New \in SUBSET (1..Len(synced)) :
             \/ file' = CrashImage(n, New)
             \/ /\ n < Len(file) \/ buffer # <<>>
                /\ file' = Append(CrashImage(n, New), Torn)
          /\ UNCHANGED damage
       \/ older # <<>> /\ file' = older /\ damage' = damage \cup {"undone"}
    /\ synced' = file'
    /\ buffer' = <<>>
    /\ pos' = 0
    /\ open' = FALSE
    /\ older' = <<>>
    /\ UNCHANGED <<lsn, linked>>

\* Wal::open on a file that exists: the numbers go on, the position is 0.
Open ==
    /\ ~ open
    /\ open' = TRUE
    /\ lsn' = FindLastLsn(file)
    /\ pos' = 0 /\ linked' = TRUE
    /\ UNCHANGED <<file, synced, buffer, older, damage>>

-----------------------------------------------------------------------------
(* Properties *)

\* As long as the log was not damaged, the records in the file followed by those in
\* the buffer have ascending numbers: recovery replays them in the order of append,
\* and none twice, whatever failed in between.
LogAscending ==
    damage = {} =>
        LET log == Readable(file) \o buffer
        IN  /\ \A i, j \in DOMAIN log : i < j => log[i].lsn < log[j].lsn
            /\ open /\ log # <<>> => Last(log).lsn <= lsn
=============================================================================
