------------------------------- MODULE Delivery -------------------------------
(***************************************************************************)
(* What the target writer promises the rest of the system, whatever        *)
(* happens to the target: jobs are attempted one at a time in the order    *)
(* they were sent, each at most once, and an attempt either takes effect   *)
(* at the target or leaves it as it was.  Nothing is promised about how    *)
(* long the target keeps an item.                                          *)
(***************************************************************************)
EXTENDS WriteJobs

VARIABLES attempted,   \* how many jobs the writer is finished with
          applied,     \* the positions of the jobs that took effect
          store        \* per key, the position of the job whose value the
                       \* target holds; 0 when it holds none

deliveryVars == <<jobs, attempted, applied, store>>

\* The target's content once job i has taken effect: a set, or a delete.
StoreAfter(i) ==
    [store EXCEPT ![jobs[i].key] = IF jobs[i].value = NoValue THEN 0 ELSE i]

Init ==
    /\ jobs = <<>>
    /\ attempted = 0
    /\ applied = {}
    /\ store = [k \in Keys |-> 0]

Submit ==
    /\ \E job \in WriteJob : jobs' = Append(jobs, job)
    /\ UNCHANGED <<attempted, applied, store>>

Deliver ==
    /\ attempted < Len(jobs)
    /\ attempted' = attempted + 1
    /\ applied' = applied \cup {attempted + 1}
    /\ store' = StoreAfter(attempted + 1)
    /\ UNCHANGED jobs

Lose ==
    /\ attempted < Len(jobs)
    /\ attempted' = attempted + 1
    /\ UNCHANGED <<jobs, applied, store>>

\* The process ends: the job in hand may have taken effect, those behind it
\* are lost.
Abandon ==
    /\ attempted' = Len(jobs)
    /\ \/ UNCHANGED <<applied, store>>
       \/ /\ attempted < Len(jobs)
          /\ applied' = applied \cup {attempted + 1}
          /\ store' = StoreAfter(attempted + 1)
    /\ UNCHANGED jobs

\* Items leave the target by themselves: TTL, its own eviction, a restart.
Forget ==
    /\ \E gone \in SUBSET Keys :
          store' = [k \in Keys |-> IF k \in gone THEN 0 ELSE store[k]]
    /\ UNCHANGED <<jobs, attempted, applied>>

Next == Submit \/ Deliver \/ Lose \/ Abandon \/ Forget

Spec == Init /\ [][Next]_deliveryVars

-----------------------------------------------------------------------------
TypeOK ==
    /\ JobsTypeOK
    /\ attempted \in 0 .. Len(jobs)
    /\ applied \subseteq 1 .. attempted
    /\ store \in [Keys -> 0 .. attempted]

(* An item found in the target is the value of the last job for its key    *)
(* that took effect: no older write survives or comes back over a newer    *)
(* write or over a delete.                                                 *)
StoreIsLastApplied ==
    \A k \in Keys : store[k] # 0 =>
        /\ store[k] \in applied
        /\ jobs[store[k]].key = k
        /\ jobs[store[k]].value # NoValue
        /\ \A i \in applied : jobs[i].key = k => i <= store[k]
=============================================================================
