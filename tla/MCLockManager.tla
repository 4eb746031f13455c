--------------------------- MODULE MCLockManager ---------------------------
(* Small instances of LockManager for TLC. *)
EXTENDS LockManager, TLC

CONSTANT Shared     \* the resources that some callers only want to read

MCRequests == (Resources \X {"Write"}) \cup (Shared \X {"Read"})

Symmetry == Permutations(Txs) \cup Permutations(Shared) \cup Permutations(Resources \ Shared)
=============================================================================
