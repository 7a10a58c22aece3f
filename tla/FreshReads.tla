------------------------------ MODULE FreshReads ------------------------------
(***************************************************************************)
(* What the server promises its clients about the answers it gives: a      *)
(* value put on the wire is the newest one that was ever fetched for the   *)
(* key and sent to the target, whatever connection asks, and no fetched    *)
(* value is older than one fetched before.                                 *)
(***************************************************************************)
EXTENDS WriteJobs

VARIABLE served        \* per key, the version last written to a client

freshVars == <<jobs, served>>

Init ==
    /\ jobs = <<>>
    /\ served = [k \in Keys |-> NoValue]

\* A fetch ends: a failed one asks for the key's deletion.
Queue ==
    /\ \E job \in WriteJob :
          /\ job.value = NoValue \/ NothingNewer(job.key, job.value)
          /\ jobs' = Append(jobs, job)
    /\ UNCHANGED served

\* A reply: any of its items is the newest version there is of its key.
Serve ==
    /\ served' \in [Keys -> Values]
    /\ \A k \in Keys : served'[k] # served[k] =>
          served'[k] # NoValue /\ IsNewest(k, served'[k])
    /\ UNCHANGED jobs

Next == Queue \/ Serve

Spec == Init /\ [][Next]_freshVars

-----------------------------------------------------------------------------
TypeOK ==
    /\ JobsTypeOK
    /\ served \in [Keys -> Values]

(* No client is given an older version of a key than one given before, to  *)
(* it or to any other client.                                              *)
MonotonicReads == [][\A k \in Keys : served'[k] >= served[k]]_served

(* The writer is never sent an older version of a key after a newer one.   *)
JobsNeverGoBack ==
    \A i, j \in 1 .. Len(jobs) :
        (i < j /\ jobs[i].key = jobs[j].key /\ jobs[j].value # NoValue)
            => jobs[i].value <= jobs[j].value
=============================================================================
