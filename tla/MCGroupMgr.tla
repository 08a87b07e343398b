----------------------------- MODULE MCGroupMgr -----------------------------
(* GroupMgr for TLC: two threads, AIs that are alike, groups that are alike. *)
EXTENDS GroupMgr, TLC

Symmetry == Permutations(Threads) \union Permutations(AIs) \union Permutations(GroupIds)
============================================================================
