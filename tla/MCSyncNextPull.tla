--------------------------- MODULE MCSyncNextPull ---------------------------
(* SyncNextPull on small instances. *)
EXTENDS SyncNextPull, TLC

CONSTANTS l1, l2, c1, c2, w1, w2, p1, r1

OneProjection == [l \in Links |-> p1]

Symmetry == Permutations(Workers) \cup Permutations(Cids)
SymmetryLinks == Permutations(Links) \cup Permutations(Workers)
=============================================================================
