------------------------------ MODULE MCMonitor ------------------------------
(* A third of a second is an instant, and 2 seconds are a month: TTLs that  *)
(* are none, below a second, a whole second, not whole, and too long.       *)
EXTENDS Monitor

MCTtls == {0, 2, 3, 4, 9}
=============================================================================
