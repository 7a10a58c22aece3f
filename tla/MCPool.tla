--------------------------------- MODULE MCPool ---------------------------------
(* Three clients and one thread, the least of it that there is, and a pool   *)
(* that keeps one connection ready and may have a second.                    *)
EXTENDS Pool

MCConnections == {"c1", "c2", "c3"}
MCThreads == 1
MCMaxSize == 2
MCMinIdle == 1
=============================================================================
