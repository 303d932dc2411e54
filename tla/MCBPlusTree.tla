----------------------------- MODULE MCBPlusTree -----------------------------
(* Instances of BPlusTree. *)
EXTENDS BPlusTree

(* Calls on the tree in memory, its saves left out. *)
Workload(preload, keys, ins, rem, racing) ==
    [preload |-> preload, keys |-> keys, inserts |-> ins, removes |-> rem, updates |-> 0,
     restarts |-> 0, racing |-> racing, saved |-> FALSE, overlap |-> TRUE]

(* Calls with their saves, one at a time or overlapping. *)
Persistent(preload, keys, ins, rem, upd, overlap) ==
    [Workload(preload, keys, ins, rem, FALSE) EXCEPT
        !.updates = upd, !.restarts = 1, !.saved = TRUE, !.overlap = overlap]

UpTo(n) == [i \in 1..n |-> i]

(* An empty tree filled by racing inserts; trees of three levels emptied   *)
(* from either end or in the middle; and both mixed, down to the empty     *)
(* tree and up again, every remove after the fix-ups before it.            *)
InMemory ==
    {Workload(<<>>, 1..10, 10, 0, FALSE),
     Workload(UpTo(10), {}, 0, 6, FALSE),
     Workload(UpTo(12), {}, 0, 5, FALSE),
     Workload(<<2, 4, 6, 8, 10>>, 1..10, 4, 3, FALSE),
     Workload(<<2>>, 1..3, 3, 3, FALSE)}

(* With a restart somewhere: one operation at a time on trees of up to     *)
(* three levels and down to the empty one; and overlapping ones that move  *)
(* no node between two parents: they split leaves below a root with room,  *)
(* or rebalance while others insert without a split.                       *)
OnFile ==
    {Persistent(<<>>, 1..4, 4, 2, 1, FALSE),
     Persistent(UpTo(9), {10}, 1, 2, 0, FALSE),
     Persistent(<<1, 3>>, 1..5, 3, 0, 1, TRUE),
     Persistent(<<1, 2, 3, 4, 5, 6, 7, 8, 10, 11>>, {9}, 1, 2, 0, TRUE)}

Mixed == InMemory \cup OnFile

(* Two overlapping inserts that split leaves below the same full parent. *)
Splitting == {Persistent(<<2, 4, 6, 8, 9, 10, 3, 11>>, {1, 12}, 2, 0, 0, TRUE)}

(* A few inserts and removes in any order of their phases. *)
Racing == {Workload(<<1, 2, 3>>, 1..6, 2, 3, TRUE)}
=============================================================================
