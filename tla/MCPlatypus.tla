------------------------------ MODULE MCPlatypus ------------------------------
(* Model values for checking Platypus: one connection asks for one or two  *)
(* keys, and one signal, or both, may come.                                *)
EXTENDS Platypus

CONSTANTS k1, k2, c1

MCOneKey == {k1}
MCKeys == {k1, k2}
MCOneConn == {c1}
MCTerm == {"SIGTERM"}
MCSignals == {"SIGINT", "SIGTERM"}
=============================================================================
