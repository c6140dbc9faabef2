------------------------- MODULE MCRecordLifecycle -------------------------
(* RecordLifecycle on a parent, a child and a squash beside the child. *)
EXTENDS RecordLifecycle

CONSTANTS p, c, s, a, b

Write(r, ts, initial, squash, data) ==
  [rec |-> r, ts |-> ts, delete |-> FALSE, initial |-> initial, prune |-> FALSE,
   squash |-> squash, data |-> data]
Delete(r, ts, prune) ==
  [rec |-> r, ts |-> ts, delete |-> TRUE, initial |-> FALSE, prune |-> prune,
   squash |-> FALSE, data |-> None]

MCParentOf == [r \in Records |-> IF r = p THEN None ELSE p]

\* The parent is updated twice, back to its first data, deleted and pruned; the
\* child is updated with the same data, and deleted.
MCTree ==
  {Write(p, 1, TRUE, FALSE, a), Write(p, 3, FALSE, FALSE, b), Write(p, 5, FALSE, FALSE, a),
   Delete(p, 8, TRUE), Delete(p, 9, FALSE),
   Write(c, 2, TRUE, FALSE, a), Write(c, 7, FALSE, FALSE, a), Delete(c, 4, FALSE),
   Write(s, 6, TRUE, TRUE, a)}

\* A record with writes older and newer than its delete.
MCNewerWrites ==
  {Write(p, 1, TRUE, FALSE, a), Delete(p, 2, FALSE), Write(p, 3, FALSE, FALSE, b),
   Write(p, 4, FALSE, FALSE, a)}
=============================================================================
