--------------------------- MODULE MCSyncNextPush ---------------------------
(* SyncNextPush on small instances. *)
EXTENDS SyncNextPush, TLC

CONSTANTS l1, l2, c1, c2, c3, w1, w2, p1, r1, r2

OneProjection == [l \in Links |-> p1]

Symmetry == Permutations(Workers) \cup Permutations(Cids)
=============================================================================
