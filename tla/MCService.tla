------------------------------ MODULE MCService -------------------------------
(* Model values for checking Service: two connections that compete for two *)
(* keys, one of them without a route, with a cache that keeps a task       *)
(* without a value and evicts one with a value at any moment.              *)
EXTENDS Service

CONSTANTS k1, k2, c1, c2

MCKeys == {k1, k2}
MCOneKey == {k1}
MCOneConn == {c1}
MCConns == {c1, c2}
=============================================================================
