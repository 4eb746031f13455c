---------------------------- MODULE RecentlyUsed ----------------------------
(* What a least-recently-used cache promises: it holds the Capacity keys that *)
(* were used last, in the order of their last use, less those forgotten since.*)
(* It says nothing of clocks, entries or eviction.                            *)
EXTENDS Naturals, Sequences

CONSTANTS Keys,      \* what may be cached
          Capacity   \* how many keys are kept

VARIABLES recent,    \* the cached keys, the one used last first
          used       \* the key that the last step used: a set of at most one

vars == <<recent, used>>

Without(s, k) == SelectSeq(s, LAMBDA x : x # k)
Front(s) == SubSeq(s, 1, IF Len(s) < Capacity THEN Len(s) ELSE Capacity)

Init == recent = <<>> /\ used = {}

(* Every use brings its key to the front, whether it was cached or not.       *)
Use(k) == recent' = Front(<<k>> \o Without(recent, k)) /\ used' = {k}
Forget(k) == recent' = Without(recent, k) /\ used' = {}
Clear == recent' = <<>> /\ used' = {}
Rest == recent' = recent /\ used' = {}

Next == Clear \/ Rest \/ \E k \in Keys : Use(k) \/ Forget(k)

Spec == Init /\ [][Next]_vars
=============================================================================
