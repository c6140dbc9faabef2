-------------------------- MODULE MCReplicationLog --------------------------
(* Small instances of ReplicationLog for TLC.                              *)
EXTENDS ReplicationLog, TLC

CONSTANTS c1, c2, c3, ra, rb, x1, w1, w2, global, protocol

\* c1 and c2 are messages of one record, c2 in a protocol's scope as well.
MCScopesOf == [c \in Cids |-> IF c = c2 THEN {global, protocol} ELSE {global}]
MCRecordOf == [c \in Cids |-> IF c = c3 THEN rb ELSE ra]
WriterSymmetry == Permutations(Writers)
=============================================================================
