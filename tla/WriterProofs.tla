----------------------------- MODULE WriterProofs -----------------------------
(***************************************************************************)
(* Writer keeps its promises for any number of keys, versions, jobs and    *)
(* faults of the target.                                                   *)
(***************************************************************************)
EXTENDS Writer, WriteJobsProofs

LEMMA JobCount == TypeOK => Len(jobs) \in Nat /\ taken \in Nat /\ taken <= Len(jobs)
BY LenProperties DEF TypeOK, JobsTypeOK

LEMMA TypeInit == Init => TypeOK
<1> SUFFICES ASSUME Init PROVE TypeOK
  OBVIOUS
<1>1. JobsTypeOK
  BY EmptySeq DEF Init, JobsTypeOK
<1>2. Len(jobs) = 0 /\ ~Processing /\ 0 \in 0 .. MaxFaults
  BY WriterAssumption DEF Init, Processing
<1> QED BY <1>1, <1>2 DEF Init, TypeOK, Attempted

(* An attempt at a job: process ends, whether or not it took effect.       *)
LEMMA Attempt ==
    ASSUME TypeOK, Process
    PROVE  /\ Processing /\ ~Processing' /\ wpc' \in {"check", "drain"}
           /\ taken' = taken /\ taken \in 1 .. Len(jobs)
           /\ Attempted = taken - 1 /\ Attempted' = taken
           /\ UNCHANGED <<jobs, handle, health, faults>>
           /\ client' \in {"ok", "stale", "err"}
           /\ \/ UNCHANGED <<applied, store>>
              \/ Apply
<1>1. Processing /\ UNCHANGED <<jobs, handle, taken, health, faults>> /\ Finish
  BY DEF Process, Written, IoError, Rejected, NotConnected, targetVars
<1>2. /\ client' \in {"ok", "stale", "err"}
      /\ \/ UNCHANGED <<applied, store>>
         \/ Apply
  BY DEF Process, Written, IoError, Rejected, NotConnected, Dial, targetVars, TypeOK
<1>3. wpc' \in {"check", "drain"}
  BY <1>1 DEF Finish
<1> QED BY <1>1, <1>2, <1>3, JobCount DEF Processing, Attempted, TypeOK

(* A restart finishes with every job sent: the one in hand may have taken  *)
(* effect, the others have not.                                            *)
LEMMA RestartAttempts ==
    ASSUME TypeOK, Restart
    PROVE  /\ ~Processing' /\ taken' = Len(jobs) /\ Attempted' = Len(jobs)
           /\ wpc' = "start" /\ handle' = "open" /\ client' = "err"
           /\ UNCHANGED <<jobs, health, faults>>
           /\ \/ UNCHANGED <<applied, store>>
              \/ /\ Apply
                 /\ Attempted = taken - 1 /\ taken \in 1 .. Len(jobs)
<1>1. /\ wpc' = "start" /\ taken' = Len(jobs) /\ handle' = "open"
      /\ client' = "err" /\ UNCHANGED <<jobs, health, faults>>
  BY DEF Restart
<1>2. ~Processing' /\ Attempted' = Len(jobs)
  BY <1>1 DEF Processing, Attempted
<1>3. Processing => Attempted = taken - 1 /\ taken \in 1 .. Len(jobs)
  BY JobCount DEF Attempted, TypeOK
<1>4. UNCHANGED <<applied, store>> \/ (Processing /\ Apply)
  BY DEF Restart
<1> QED BY <1>1, <1>2, <1>3, <1>4

LEMMA LossesType ==
    ASSUME losses \in Nat, [Next]_writerVars
    PROVE  losses' \in Nat
BY DEF Next, Send, Shutdown, DropWriter, Thread, Start, CheckShutdown, Receive,
       ReceiveNothing, Drain, Process, Written, IoError, Rejected,
       NotConnected, CountLoss, Target, Fault, Expire, Restart, writerVars,
       threadVars

LEMMA TypeStep == TypeOK /\ [Next]_writerVars => TypeOK'
<1> SUFFICES ASSUME TypeOK, [Next]_writerVars PROVE TypeOK'
  OBVIOUS
<1> USE JobCount, LossesType
<1>1. ASSUME NEW job \in WriteJob, Send(job) PROVE TypeOK'
  <2>1. JobsTypeOK' /\ Len(jobs') = Len(jobs) + 1
    BY <1>1, SendProperties DEF Send, TypeOK
  <2>2. store' \in [Keys -> 0 .. Len(jobs')]
    BY <1>1, <2>1 DEF Send, TypeOK, targetVars
  <2> QED
    BY <1>1, <2>1, <2>2
    DEF Send, TypeOK, threadVars, targetVars, Processing, Attempted
<1>2. CASE Shutdown \/ DropWriter
  BY <1>2 DEF Shutdown, DropWriter, threadVars, targetVars, TypeOK,
              JobsTypeOK, Processing, Attempted
<1>3. CASE Thread
  <2>1. /\ UNCHANGED <<jobs, handle, applied, targetVars>>
        /\ ~Processing /\ client' \in {"ok", "stale", "err"}
    BY <1>3 DEF Thread, Start, CheckShutdown, Receive, ReceiveNothing, Drain,
                Dial, TypeOK, Processing
  <2>2. \/ taken' = taken /\ wpc' \in {"check", "recv", "drain", "done"}
        \/ /\ taken' = taken + 1 /\ taken < Len(jobs)
           /\ wpc' \in {"write", "flush"}
    BY <1>3 DEF Thread, Start, CheckShutdown, Receive, ReceiveNothing, Drain
  <2>3. Attempted' = taken /\ Attempted = taken
    BY <2>1, <2>2 DEF Processing, Attempted
  <2>4. taken' \in 0 .. Len(jobs) /\ (Processing' => taken' > 0)
    BY <2>2 DEF Processing
  <2>5. wpc' \in {"check", "recv", "drain", "done", "write", "flush"}
    BY <2>2
  <2> QED BY <2>1, <2>3, <2>4, <2>5 DEF TypeOK, JobsTypeOK, targetVars
<1>4. CASE Process
  <2>1. jobs[taken].key \in Keys
    BY <1>4, Attempt, JobFields DEF TypeOK
  <2>2. store' \in [Keys -> 0 .. Len(jobs)]
    BY <1>4, <2>1, Attempt DEF Apply, D!StoreAfter, TypeOK
  <2>3. applied' \subseteq 1 .. taken
    <3>1. applied \subseteq 1 .. taken - 1 /\ taken \in 1 .. Len(jobs)
      BY <1>4, Attempt DEF TypeOK
    <3>2. applied' = applied \/ applied' = applied \cup {taken}
      BY <1>4, Attempt DEF Apply
    <3>3. 1 .. taken - 1 \subseteq 1 .. taken /\ taken \in 1 .. taken
      BY <3>1
    <3> QED BY <3>1, <3>2, <3>3
  <2> QED BY <1>4, <2>2, <2>3, Attempt DEF TypeOK, JobsTypeOK
<1>5. CASE Fault
  <2>1. store' \in [Keys -> 0 .. Len(jobs)]
    BY <1>5 DEF Fault, TypeOK
  <2>2. /\ UNCHANGED <<jobs, handle, wpc, taken, applied>>
        /\ client' \in {"ok", "stale", "err"}
        /\ health' \in {"up", "down", "hung"}
        /\ faults' \in 0 .. MaxFaults
    BY <1>5, WriterAssumption DEF Fault, TypeOK
  <2> QED
    BY <2>1, <2>2 DEF TypeOK, JobsTypeOK, Processing, Attempted
<1>6. ASSUME NEW k \in Keys, Expire(k) PROVE TypeOK'
  <2>1. store' \in [Keys -> 0 .. Len(jobs)]
    BY <1>6 DEF Expire, TypeOK
  <2> QED
    BY <1>6, <2>1 DEF Expire, threadVars, TypeOK, JobsTypeOK, Processing, Attempted
<1>7. CASE UNCHANGED writerVars
  BY <1>7 DEF writerVars, threadVars, targetVars, TypeOK, JobsTypeOK,
              Processing, Attempted
<1>8. CASE Restart
  <2>1. /\ ~Processing' /\ taken' = Len(jobs) /\ Attempted' = Len(jobs)
        /\ wpc' = "start" /\ handle' = "open" /\ client' = "err"
        /\ UNCHANGED <<jobs, health, faults>>
    BY <1>8, RestartAttempts
  <2>2. Len(jobs) \in 0 .. Len(jobs) /\ Len(jobs') = Len(jobs)
    BY <2>1
  <2>3. CASE UNCHANGED <<applied, store>>
    <3>1. applied' \subseteq 1 .. Len(jobs)
      <4>1. Attempted \in Nat /\ Attempted <= Len(jobs)
        BY DEF Attempted, TypeOK
      <4>2. 1 .. Attempted \subseteq 1 .. Len(jobs)
        BY <4>1
      <4> QED BY <2>3, <4>2 DEF TypeOK
    <3> QED BY <2>1, <2>2, <2>3, <3>1 DEF TypeOK, JobsTypeOK
  <2>4. CASE Apply /\ Attempted = taken - 1 /\ taken \in 1 .. Len(jobs)
    <3>1. applied' \subseteq 1 .. Len(jobs)
      <4>1. 1 .. taken - 1 \subseteq 1 .. Len(jobs)
        BY <2>4
      <4> QED BY <2>4, <4>1 DEF Apply, TypeOK
    <3>2. jobs[taken].key \in Keys
      BY <2>4, JobFields DEF TypeOK
    <3>3. store' \in [Keys -> 0 .. Len(jobs)]
      BY <2>4, <3>2 DEF Apply, D!StoreAfter, TypeOK
    <3> QED BY <2>1, <2>2, <3>1, <3>3 DEF TypeOK, JobsTypeOK
  <2> QED BY <1>8, <2>3, <2>4, RestartAttempts
<1> QED BY <1>1, <1>2, <1>3, <1>4, <1>5, <1>6, <1>7, <1>8 DEF Next, Target

(* The variables of Writer keep their types.                               *)
THEOREM TypeCorrect == Spec => []TypeOK
BY TypeInit, TypeStep, PTL DEF Spec

-----------------------------------------------------------------------------
(* The end of the thread.                                                  *)

(* Once the thread has left its loop nothing more can be sent.             *)
Draining == wpc \in {"drain", "flush", "done"} => handle = "closing"

LEMMA DrainStep ==
    ASSUME TypeOK, Draining, DoneMeansDrained, [Next]_writerVars
    PROVE  Draining' /\ DoneMeansDrained'
<1>1. ASSUME NEW job \in WriteJob, Send(job)
      PROVE  Draining' /\ DoneMeansDrained'
  BY <1>1 DEF Send, threadVars, Draining, DoneMeansDrained
<1>2. CASE Shutdown \/ DropWriter
  BY <1>2 DEF Shutdown, DropWriter, threadVars, Draining, DoneMeansDrained
<1>3. CASE Thread
  BY <1>3, JobCount DEF Thread, Start, CheckShutdown, Receive, ReceiveNothing, Drain,
              Draining, DoneMeansDrained
<1>4. CASE Process
  <2>1. \/ wpc = "write" /\ wpc' = "check"
        \/ wpc = "flush" /\ wpc' = "drain"
    BY <1>4 DEF Process, Written, IoError, Rejected, NotConnected, Finish,
                Processing
  <2> QED BY <1>4, <2>1, Attempt DEF Draining, DoneMeansDrained
<1>5. CASE Target \/ UNCHANGED writerVars
  BY <1>5 DEF Target, Fault, Expire, writerVars, threadVars, Draining,
              DoneMeansDrained
<1>6. CASE Restart
  BY <1>6 DEF Restart, Draining, DoneMeansDrained
<1> QED BY <1>1, <1>2, <1>3, <1>4, <1>5, <1>6 DEF Next

(* A join that returns has waited for every job ever sent.                 *)
THEOREM DoneMeansDrainedHolds == Spec => []DoneMeansDrained
<1>1. Init => Draining /\ DoneMeansDrained
  BY DEF Init, Draining, DoneMeansDrained
<1> QED BY <1>1, TypeCorrect, DrainStep, PTL DEF Spec

-----------------------------------------------------------------------------
(* Reconnecting.                                                           *)

(* After its one loss the thread has a working connection until the next   *)
(* fault.                                                                  *)
Reconnected ==
    losses = 0 \/ (losses = 1 /\ client = "ok" /\ health = "up")

LEMMA ReconnectedStep ==
    ASSUME TypeOK, Reconnected, [Next]_writerVars
    PROVE  Reconnected'
<1>1. ASSUME NEW job \in WriteJob, Send(job) PROVE Reconnected'
  BY <1>1 DEF Send, threadVars, targetVars, Reconnected
<1>2. CASE Shutdown \/ DropWriter
  BY <1>2 DEF Shutdown, DropWriter, threadVars, targetVars, Reconnected
<1>3. CASE Thread
  BY <1>3 DEF Thread, Start, CheckShutdown, Receive, ReceiveNothing, Drain,
              Dial, targetVars, Reconnected
<1>4. CASE Written \/ Rejected
  BY <1>4 DEF Written, Rejected, targetVars, Reconnected
<1>5. CASE IoError \/ NotConnected
  <2>1. Dial /\ CountLoss /\ health' = health /\ client # "ok"
    BY <1>5 DEF IoError, NotConnected, targetVars
  <2>2. health = "up" => client' = "ok" /\ losses' = losses + 1
    BY <2>1 DEF Dial, CountLoss
  <2>3. health # "up" => losses' = losses
    BY <2>1 DEF CountLoss
  <2> QED BY <2>1, <2>2, <2>3 DEF Reconnected
<1>6. CASE Target \/ UNCHANGED writerVars
  BY <1>6 DEF Target, Fault, Expire, writerVars, threadVars, targetVars,
              Reconnected
<1>7. CASE Restart
  BY <1>7 DEF Restart, Reconnected
<1> QED BY <1>1, <1>2, <1>3, <1>4, <1>5, <1>6, <1>7 DEF Next, Process

(* Losing a connection costs one job at most while the target is up.       *)
THEOREM ReconnectCostsOneJobHolds == Spec => []ReconnectCostsOneJob
<1>1. Init => Reconnected
  BY DEF Init, Reconnected
<1>2. Reconnected => ReconnectCostsOneJob
  BY DEF Reconnected, ReconnectCostsOneJob
<1> QED BY <1>1, <1>2, TypeCorrect, ReconnectedStep, PTL DEF Spec

-----------------------------------------------------------------------------
(* What follows from Delivery, whatever Attempted is.                      *)

(* The jobs are the same here and there.                                   *)
LEMMA SameJobs ==
    /\ D!JobsTypeOK <=> JobsTypeOK
    /\ D!JobsTypeOK' <=> JobsTypeOK'
    /\ D!WriteJob = WriteJob
    /\ D!NoValue = NoValue
BY DEF D!JobsTypeOK, JobsTypeOK, D!WriteJob, WriteJob, D!Values, Values,
       D!NoValue, NoValue

LEMMA PromiseInit == D!Init => D!TypeOK
<1> USE SameJobs
<1> SUFFICES ASSUME D!Init PROVE D!TypeOK
  OBVIOUS
<1>1. JobsTypeOK
  BY EmptySeq DEF D!Init, JobsTypeOK
<1>2. Len(jobs) = 0
  BY DEF D!Init
<1> QED BY <1>1, <1>2 DEF D!Init, D!TypeOK

LEMMA PromiseStep == D!TypeOK /\ [D!Next]_(D!deliveryVars) => D!TypeOK'
<1> USE SameJobs
<1> SUFFICES ASSUME D!TypeOK, [D!Next]_(D!deliveryVars) PROVE D!TypeOK'
  OBVIOUS
<1>1. Len(jobs) \in Nat /\ Attempted \in Nat
  BY LenProperties DEF D!TypeOK, JobsTypeOK
<1>2. CASE D!Submit
  <2>1. JobsTypeOK' /\ Len(jobs') = Len(jobs) + 1
    BY <1>2, SendProperties DEF D!Submit, D!TypeOK
  <2> QED BY <1>1, <1>2, <2>1 DEF D!Submit, D!TypeOK
<1>3. CASE D!Deliver
  <2>1. store \in [Keys -> 0 .. Attempted + 1]
    BY <1>1 DEF D!TypeOK
  <2>2. store' \in [Keys -> 0 .. Attempted + 1]
    <3>1. 0 \in 0 .. Attempted + 1 /\ Attempted + 1 \in 0 .. Attempted + 1
      BY <1>1
    <3> QED BY <1>3, <2>1, <3>1 DEF D!Deliver, D!StoreAfter
  <2> QED BY <1>1, <1>3, <2>2 DEF D!Deliver, D!TypeOK, JobsTypeOK
<1>4. CASE D!Lose
  BY <1>1, <1>4 DEF D!Lose, D!TypeOK, JobsTypeOK
<1>5. CASE D!Forget
  <2>1. PICK gone \in SUBSET Keys :
            store' = [k \in Keys |-> IF k \in gone THEN 0 ELSE store[k]]
    BY <1>5 DEF D!Forget
  <2>2. store' \in [Keys -> 0 .. Attempted]
    BY <1>1, <2>1 DEF D!TypeOK
  <2> QED BY <1>5, <2>2 DEF D!Forget, D!TypeOK, JobsTypeOK
<1>6. CASE UNCHANGED D!deliveryVars
  BY <1>6 DEF D!deliveryVars, D!TypeOK, JobsTypeOK
<1>7. CASE D!Abandon
  <2>1. /\ jobs' = jobs /\ Attempted' = Len(jobs)
        /\ 1 .. Attempted \subseteq 1 .. Len(jobs)
        /\ 0 .. Attempted \subseteq 0 .. Len(jobs)
    BY <1>1, <1>7 DEF D!Abandon, D!TypeOK
  <2>2. applied' \subseteq 1 .. Len(jobs)
    <3>1. applied \subseteq 1 .. Len(jobs)
      BY <2>1 DEF D!TypeOK
    <3>2. CASE applied' = applied
      BY <3>1, <3>2
    <3>3. CASE Attempted < Len(jobs) /\ applied' = applied \cup {Attempted + 1}
      BY <1>1, <3>1, <3>3
    <3> QED BY <1>7, <3>2, <3>3 DEF D!Abandon
  <2>3. store \in [Keys -> 0 .. Len(jobs)]
    BY <2>1 DEF D!TypeOK
  <2>4. store' \in [Keys -> 0 .. Len(jobs)]
    <3>1. CASE store' = store
      BY <2>3, <3>1
    <3>2. CASE Attempted < Len(jobs) /\ store' = D!StoreAfter(Attempted + 1)
      <4>1. 0 \in 0 .. Len(jobs) /\ Attempted + 1 \in 0 .. Len(jobs)
        BY <1>1, <3>2
      <4> QED BY <2>3, <3>2, <4>1 DEF D!StoreAfter
    <3> QED BY <1>7, <3>1, <3>2 DEF D!Abandon
  <2> QED BY <1>1, <2>1, <2>2, <2>4 DEF D!TypeOK, JobsTypeOK
<1> QED BY <1>2, <1>3, <1>4, <1>5, <1>6, <1>7 DEF D!Next

(* The positions that Delivery keeps are of jobs that were sent.           *)
THEOREM PromiseTypes == D!Spec => []D!TypeOK
BY PromiseInit, PromiseStep, PTL DEF D!Spec

LEMMA LastAppliedStep ==
    ASSUME D!TypeOK, D!StoreIsLastApplied, [D!Next]_(D!deliveryVars)
    PROVE  D!StoreIsLastApplied'
<1> USE SameJobs
<1>1. Len(jobs) \in Nat /\ Attempted \in Nat /\ Attempted <= Len(jobs)
  BY LenProperties DEF D!TypeOK, JobsTypeOK
<1>2. applied \subseteq 1 .. Len(jobs) /\ \A k \in Keys : store[k] \in 0 .. Len(jobs)
  BY <1>1 DEF D!TypeOK
<1>3. CASE D!Submit
  <2>1. \A i \in 1 .. Len(jobs) : jobs'[i] = jobs[i]
    BY <1>3, SendProperties DEF D!Submit, D!TypeOK
  <2>2. \A i \in applied : jobs'[i] = jobs[i]
    BY <1>2, <2>1
  <2>3. store' = store /\ applied' = applied
    BY <1>3 DEF D!Submit
  <2> SUFFICES ASSUME NEW k \in Keys, store[k] # 0
               PROVE  /\ store[k] \in applied
                      /\ jobs'[store[k]].key = k
                      /\ jobs'[store[k]].value # NoValue
                      /\ \A i \in applied : jobs'[i].key = k => i <= store[k]
    BY <2>3 DEF D!StoreIsLastApplied
  <2>4. store[k] \in applied
    BY DEF D!StoreIsLastApplied
  <2> QED BY <2>2, <2>4 DEF D!StoreIsLastApplied
<1>4. CASE /\ Attempted < Len(jobs)
           /\ jobs' = jobs /\ applied' = applied \cup {Attempted + 1}
           /\ store' = D!StoreAfter(Attempted + 1)
  <2> DEFINE i == Attempted + 1
  <2>1. i \in 1 .. Len(jobs)
    BY <1>1, <1>4
  <2>2. jobs[i].key \in Keys
    BY <2>1, JobFields DEF D!TypeOK
  <2>3. /\ jobs' = jobs /\ applied' = applied \cup {i}
        /\ store' = [store EXCEPT ![jobs[i].key] =
                        IF jobs[i].value = NoValue THEN 0 ELSE i]
    BY <1>4 DEF D!StoreAfter
  <2>4. \A j \in applied : j < i
    BY <1>1 DEF D!TypeOK
  <2> HIDE DEF i
  <2> SUFFICES ASSUME NEW k \in Keys, store'[k] # 0
               PROVE  /\ store'[k] \in applied'
                      /\ jobs'[store'[k]].key = k
                      /\ jobs'[store'[k]].value # NoValue
                      /\ \A j \in applied' : jobs'[j].key = k => j <= store'[k]
    BY DEF D!StoreIsLastApplied
  <2>5. CASE k = jobs[i].key
    <3>1. store'[k] = i /\ jobs[i].value # NoValue
      BY <2>2, <2>3, <2>5 DEF D!TypeOK
    <3> QED BY <2>1, <2>3, <2>4, <2>5, <3>1, <1>2
  <2>6. CASE k # jobs[i].key
    <3>1. store'[k] = store[k]
      BY <2>2, <2>3, <2>6 DEF D!TypeOK
    <3> QED BY <2>3, <2>6, <3>1 DEF D!StoreIsLastApplied
  <2> QED BY <2>5, <2>6
<1>5. CASE UNCHANGED <<jobs, applied, store>>
  BY <1>5 DEF D!StoreIsLastApplied
<1>6. CASE D!Forget
  BY <1>6 DEF D!Forget, D!StoreIsLastApplied
<1> QED
  BY <1>3, <1>4, <1>5, <1>6
  DEF D!Next, D!Deliver, D!Lose, D!Abandon, D!deliveryVars

(* What the target holds is the value of the last job that took effect.    *)
THEOREM StoreIsLastAppliedHolds == D!Spec => []D!StoreIsLastApplied
<1> USE SameJobs
<1>1. D!Init => D!StoreIsLastApplied
  BY DEF D!Init, D!StoreIsLastApplied
<1> QED BY <1>1, PromiseTypes, LastAppliedStep, PTL DEF D!Spec

-----------------------------------------------------------------------------
(* Writer implements Delivery: a job that process is finished with has     *)
(* been delivered or lost, and what happens in between is invisible.       *)

LEMMA AttemptIsDelivery ==
    ASSUME TypeOK, Process
    PROVE  D!Deliver \/ D!Lose
<1>1. /\ Attempted = taken - 1 /\ Attempted' = taken
      /\ taken \in 1 .. Len(jobs) /\ jobs' = jobs
  BY Attempt
<1>2. Attempted < Len(jobs) /\ Attempted' = Attempted + 1 /\ taken = Attempted + 1
  BY <1>1, JobCount
<1>3. CASE UNCHANGED <<applied, store>>
  BY <1>1, <1>2, <1>3 DEF D!Lose
<1>4. CASE Apply
  BY <1>1, <1>2, <1>4
  DEF Apply, D!Deliver
<1> QED BY <1>3, <1>4, Attempt

LEMMA RestartIsDelivery ==
    ASSUME TypeOK, Restart
    PROVE  D!Abandon
<1>1. Attempted' = Len(jobs) /\ jobs' = jobs
  BY RestartAttempts
<1>2. CASE UNCHANGED <<applied, store>>
  BY <1>1, <1>2 DEF D!Abandon
<1>3. CASE Apply /\ Attempted = taken - 1 /\ taken \in 1 .. Len(jobs)
  <2>1. Attempted < Len(jobs) /\ taken = Attempted + 1
    BY <1>3, JobCount
  <2> QED
    BY <1>1, <1>3, <2>1
    DEF Apply, D!Abandon
<1> QED BY <1>2, <1>3, RestartAttempts

LEMMA StepIsDelivery ==
    ASSUME TypeOK, [Next]_writerVars
    PROVE  [D!Next]_(D!deliveryVars)
<1>1. ASSUME NEW job \in WriteJob, Send(job) PROVE D!Submit
  BY <1>1 DEF Send, threadVars, targetVars, D!Submit, D!WriteJob,
              D!Values, WriteJob, Values, Attempted, Processing
<1>2. CASE Shutdown \/ DropWriter \/ UNCHANGED writerVars
  BY <1>2 DEF Shutdown, DropWriter, writerVars, threadVars, targetVars,
              D!deliveryVars, Attempted, Processing
<1>3. CASE Thread
  <2>1. UNCHANGED <<jobs, applied, store>>
    BY <1>3 DEF Thread, Start, CheckShutdown, Receive, ReceiveNothing, Drain,
                targetVars
  <2>2. Attempted' = Attempted
    BY <1>3, JobCount DEF Thread, Start, CheckShutdown, Receive,
       ReceiveNothing, Drain, Attempted, Processing
  <2> QED BY <2>1, <2>2 DEF D!deliveryVars
<1>4. CASE Process
  BY <1>4, AttemptIsDelivery DEF D!Next
<1>5. CASE Fault
  <2>1. UNCHANGED <<jobs, wpc, taken, applied>>
    BY <1>5 DEF Fault
  <2>2. store' = store \/ store' = [k \in Keys |-> 0]
    BY <1>5 DEF Fault
  <2>3. CASE store' = store
    BY <2>1, <2>3 DEF D!deliveryVars, Attempted, Processing
  <2>4. CASE store' = [k \in Keys |-> 0]
    <3>1. store' = [k \in Keys |-> IF k \in Keys THEN 0 ELSE store[k]]
      BY <2>4
    <3> QED BY <2>1, <3>1 DEF D!Next, D!Forget, Attempted, Processing
  <2> QED BY <2>2, <2>3, <2>4
<1>6. ASSUME NEW k \in Keys, Expire(k) PROVE D!Forget
  <2>1. store' = [l \in Keys |-> IF l \in {k} THEN 0 ELSE store[l]]
    BY <1>6 DEF Expire, TypeOK
  <2>2. {k} \in SUBSET Keys /\ UNCHANGED <<jobs, wpc, taken, applied>>
    BY <1>6 DEF Expire, threadVars
  <2> QED BY <2>1, <2>2 DEF D!Forget, Attempted, Processing
<1>7. CASE Restart
  BY <1>7, RestartIsDelivery DEF D!Next
<1> QED
  BY <1>1, <1>2, <1>3, <1>4, <1>5, <1>6, <1>7 DEF Next, Target, D!Next

LEMMA InitIsDelivery == Init => D!Init
BY DEF Init, D!Init, Attempted, Processing

(* The thread delivers jobs as Delivery promises.                          *)
THEOREM DeliveryHolds == Spec => DeliveryRefined
BY InitIsDelivery, StepIsDelivery, TypeCorrect, PTL
   DEF Spec, D!Spec, DeliveryRefined

(* What the target holds is the value of the last job that took effect.    *)
THEOREM TargetIsLastAppliedHolds == Spec => []TargetIsLastApplied
<1>1. D!StoreIsLastApplied => TargetIsLastApplied
  BY DEF TargetIsLastApplied
<1> QED
  BY <1>1, DeliveryHolds, StoreIsLastAppliedHolds, PTL DEF DeliveryRefined
=============================================================================
