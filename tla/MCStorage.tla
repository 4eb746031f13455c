----------------------------- MODULE MCStorage ------------------------------
(* An instance of maharit-storage: the version store, the database file over  *)
(* the server's lives, the scheduler's backups, and the contents of           *)
(* snapshots, backups and increments. The parts share no state, so one run    *)
(* explores them one at a time: `scene` is chosen at the start and says which *)
(* part moves.                                                                *)
EXTENDS Mvcc, Archive, Snapshots

VARIABLE scene

Scenes == {"versions", "server", "scheduler", "archive"}

Colons == [l \in {"a:b"} |-> <<"a", "b">>]
Defined ==
    <<[label |-> "a", property |-> Prop, unique |-> FALSE],
      [label |-> "b", property |-> Prop, unique |-> TRUE]>>
Saved == {IntV(1), <<"duration", <<1, 2, 3>>>>}
LoggedOnes == {IntV(1)}

MCInit ==
    /\ scene \in Scenes
    /\ Init /\ SnapInit
    /\ ArchiveInit /\ (scene # "archive" => logged)

VersionMoves == scene = "versions" /\ Next /\ UNCHANGED <<archiveVars, snapVars>>
DatabaseMoves == scene = "server" /\ ServerMoves /\ UNCHANGED <<vars, archiveVars>>
BackupMoves == scene = "scheduler" /\ SchedulerMoves /\ UNCHANGED <<vars, archiveVars>>
ArchiveMoves == scene = "archive" /\ ArchiveNext /\ UNCHANGED <<vars, snapVars>>

MCNext == (VersionMoves \/ DatabaseMoves \/ BackupMoves \/ ArchiveMoves) /\ UNCHANGED scene

MCSpec == MCInit /\ [][MCNext]_<<vars, archiveVars, snapVars, scene>>

Symmetry == Permutations(Values)
=============================================================================
