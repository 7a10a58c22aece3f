--------------------------- MODULE WriteJobsProofs ----------------------------
(* What one more job does to the statements of WriteJobs about the queue.  *)
EXTENDS WriteJobs, SequenceTheorems, TLAPS

LEMMA ValuesAreNat == Values \subseteq Nat /\ NoValue \in Values
BY VersionAssumption DEF Values, NoValue

(* The queue after a send: longer by the job sent, else as it was.         *)
LEMMA SendProperties ==
    ASSUME JobsTypeOK, NEW job \in WriteJob, jobs' = Append(jobs, job)
    PROVE  /\ JobsTypeOK'
           /\ Len(jobs) \in Nat
           /\ Len(jobs') = Len(jobs) + 1
           /\ \A i \in 1 .. Len(jobs) : jobs'[i] = jobs[i]
           /\ jobs'[Len(jobs')] = job
BY AppendProperties, LenProperties DEF JobsTypeOK

LEMMA JobFields ==
    ASSUME JobsTypeOK, NEW i \in 1 .. Len(jobs)
    PROVE  jobs[i].key \in Keys /\ jobs[i].value \in Values
<1>1. jobs[i] \in WriteJob
  BY DEF JobsTypeOK
<1> QED BY <1>1 DEF WriteJob

(* A job for another key changes nothing for k.                            *)
LEMMA SendElsewhere ==
    ASSUME JobsTypeOK, NEW job \in WriteJob, jobs' = Append(jobs, job),
           NEW k \in Keys, job.key # k, NEW v \in Values
    PROVE  /\ LastJobIs(k, v) => LastJobIs(k, v)'
           /\ NothingNewer(k, v) => NothingNewer(k, v)'
<1> USE SendProperties
<1>1. LastJobIs(k, v) => LastJobIs(k, v)'
  BY DEF LastJobIs
<1>2. NothingNewer(k, v) => NothingNewer(k, v)'
  BY DEF NothingNewer
<1> QED BY <1>1, <1>2
=============================================================================
