------------------------------- MODULE MCWriter -------------------------------
(* Model values for checking Writer: two keys, so that jobs for different  *)
(* keys interleave in one queue.                                           *)
EXTENDS Writer

CONSTANTS k1, k2

MCKeys == {k1, k2}
=============================================================================
