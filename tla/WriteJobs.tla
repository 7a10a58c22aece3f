------------------------------ MODULE WriteJobs ------------------------------
(***************************************************************************)
(* The jobs that flow from the monitor tasks to the target writer, shared  *)
(* by the modules of both sides.                                           *)
(*                                                                         *)
(* A value fetched from a source is abstracted to its version: the number  *)
(* of times the answer for that key has changed so far, starting at 1.     *)
(* NoValue stands for Rust's None: the source had no answer.               *)
(*                                                                         *)
(* The mpsc channel is the sequence of every job ever sent; the writer     *)
(* keeps the position up to which it has received.                         *)
(***************************************************************************)
EXTENDS Naturals, Sequences

CONSTANTS Keys,        \* the keys clients ask for
          MaxVersion   \* bound: versions a source goes through

ASSUME VersionAssumption == MaxVersion \in Nat \ {0}

VARIABLE jobs          \* every WriteJob sent, in the order of the sends

NoValue == 0
Values == 0 .. MaxVersion

\* struct WriteJob; value = NoValue asks for the key's deletion.
WriteJob == [key : Keys, value : Values]

JobsTypeOK == jobs \in Seq(WriteJob)

\* The last job sent for k carries v.
LastJobIs(k, v) ==
    \E i \in 1 .. Len(jobs) :
        /\ jobs[i] = [key |-> k, value |-> v]
        /\ \A j \in (i + 1) .. Len(jobs) : jobs[j].key # k

\* No job for k carries a version above v.
NothingNewer(k, v) ==
    \A i \in 1 .. Len(jobs) : jobs[i].key = k => jobs[i].value <= v

\* v is the newest version of k ever sent to the writer.
IsNewest(k, v) ==
    /\ NothingNewer(k, v)
    /\ \E i \in 1 .. Len(jobs) : jobs[i] = [key |-> k, value |-> v]
=============================================================================
