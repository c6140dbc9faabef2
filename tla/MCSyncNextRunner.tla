-------------------------- MODULE MCSyncNextRunner --------------------------
(* Small instances of SyncNextRunner for TLC.                              *)
EXTENDS SyncNextRunner, TLC

CONSTANTS t1, t2, t3, e1, e2, p1, p2

\* t1 and t2 share an endpoint, t2 and t3 a projection.
MCEndpointOf == [t \in Targets |-> IF t = t3 THEN e2 ELSE e1]
MCProjectionOf == [t \in Targets |-> IF t = t1 THEN p1 ELSE p2]
=============================================================================
