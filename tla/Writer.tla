-------------------------------- MODULE Writer --------------------------------
(***************************************************************************)
(* platypus/src/writer.rs: the thread that writes fetched values into the  *)
(* target memcached.  Writer::new starts the thread, Writer::send appends  *)
(* to an unbounded mpsc channel, Writer::shutdown signals the thread and   *)
(* joins it.  The target is outside the code: it may be restarted, cut     *)
(* off or hung at any moment, and drops items by TTL.  So is the end of    *)
(* the process, which takes the thread with it; a new one starts again.    *)
(***************************************************************************)
EXTENDS WriteJobs

CONSTANTS MaxJobs,     \* bound: jobs sent by the environment of this module
          MaxFaults    \* bound: faults of the target

ASSUME WriterAssumption == MaxJobs \in Nat /\ MaxFaults \in Nat

VARIABLES
    handle,    \* the Writer value: "open", "closing" (shutdown called) or
               \* "dropped" (its last Arc is gone, shutdown never called)
    wpc,       \* where the thread is
    taken,     \* how many jobs it has received from the channel
    client,    \* Result<memcache::Client>: "ok", "stale" (built, but its
               \* connections have broken since) or "err"
    health,    \* the target: "up", "down" (refuses) or "hung" (no answer)
    store,     \* per key, the position of the job the target's item is from
    applied,   \* history: positions of the jobs that took effect
    faults,    \* history: how many faults the target has had
    losses     \* history: jobs that the loss of a connection has cost since
               \* the last fault or start, while the target was up

threadVars == <<wpc, taken, client, applied, losses>>
targetVars == <<health, store, faults>>
writerVars == <<jobs, handle, threadVars, targetVars>>

Processing == wpc \in {"write", "flush"}
Attempted == IF Processing THEN taken - 1 ELSE taken

D == INSTANCE Delivery WITH attempted <- Attempted

TypeOK ==
    /\ JobsTypeOK
    /\ handle \in {"open", "closing", "dropped"}
    /\ wpc \in {"start", "check", "recv", "write", "drain", "flush", "done"}
    /\ taken \in 0 .. Len(jobs)
    /\ Processing => taken > 0
    /\ client \in {"ok", "stale", "err"}
    /\ health \in {"up", "down", "hung"}
    /\ store \in [Keys -> 0 .. Len(jobs)]
    /\ applied \subseteq 1 .. Attempted
    /\ faults \in 0 .. MaxFaults
    /\ losses \in Nat

Init ==
    /\ jobs = <<>>
    /\ handle = "open"
    /\ wpc = "start"
    /\ taken = 0
    /\ client = "err"
    /\ health \in {"up", "down", "hung"}
    /\ store = [k \in Keys |-> 0]
    /\ applied = {}
    /\ faults = 0
    /\ losses = 0

-----------------------------------------------------------------------------
(* The owner's side.                                                       *)

Send(job) ==
    /\ handle = "open"
    /\ Len(jobs) < MaxJobs
    /\ jobs' = Append(jobs, job)
    /\ UNCHANGED <<handle, threadVars, targetVars>>

\* shutdown(self) consumes the Writer, so no send can follow it.
Shutdown ==
    /\ handle = "open"
    /\ handle' = "closing"
    /\ UNCHANGED <<jobs, threadVars, targetVars>>

\* The last Arc goes away without shutdown: both senders are dropped and
\* the thread is detached.
DropWriter ==
    /\ handle = "open"
    /\ handle' = "dropped"
    /\ UNCHANGED <<jobs, threadVars, targetVars>>

-----------------------------------------------------------------------------
(* The thread.                                                             *)

\* Writer::client ends within its 1 s connection timeout; a hung target may
\* still accept connections.
Dial ==
    client' \in (IF health = "down" THEN {} ELSE {"ok"})
                \cup (IF health = "up" THEN {} ELSE {"err"})

Start ==
    /\ wpc = "start"
    /\ Dial
    /\ wpc' = "check"
    /\ UNCHANGED <<jobs, handle, taken, applied, losses, targetVars>>

\* Faulty variant: leaving the loop goes straight to the end of the thread.
CheckShutdownNoDrain ==
    /\ wpc = "check"
    /\ wpc' = IF handle = "closing" THEN "done" ELSE "recv"
    /\ UNCHANGED <<jobs, handle, taken, client, applied, losses, targetVars>>

\* shutdown_rx.try_recv(): only a signal ends the loop, not a disconnect.
CheckShutdown ==
    /\ wpc = "check"
    /\ wpc' = IF handle = "closing" THEN "drain" ELSE "recv"
    /\ UNCHANGED <<jobs, handle, taken, client, applied, losses, targetVars>>

\* rx.recv_timeout() yields a job.
Receive ==
    /\ wpc = "recv"
    /\ taken < Len(jobs)
    /\ taken' = taken + 1
    /\ wpc' = "write"
    /\ UNCHANGED <<jobs, handle, client, applied, losses, targetVars>>

\* 10 ms without a job, or a channel without senders: both arms are empty.
ReceiveNothing ==
    /\ wpc = "recv"
    /\ taken = Len(jobs)
    /\ wpc' = "check"
    /\ UNCHANGED <<jobs, handle, taken, client, applied, losses, targetVars>>

\* Faulty variant: recv() in place of try_recv() waits for the next job.
DrainBlocks ==
    /\ wpc = "drain"
    /\ taken < Len(jobs)
    /\ taken' = taken + 1
    /\ wpc' = "flush"
    /\ UNCHANGED <<jobs, handle, client, applied, losses, targetVars>>

\* while let Ok(job) = rx.try_recv(), after the loop.
Drain ==
    /\ wpc = "drain"
    /\ IF taken < Len(jobs)
       THEN taken' = taken + 1 /\ wpc' = "flush"
       ELSE taken' = taken /\ wpc' = "done"
    /\ UNCHANGED <<jobs, handle, client, applied, losses, targetVars>>

-----------------------------------------------------------------------------
(* Writer::process, by outcome.  A command sent to a hung target blocks    *)
(* the thread: the client has no read timeout.                             *)

Finish == wpc' = IF wpc = "write" THEN "check" ELSE "drain"

\* Faulty variant: a job without a value does not delete the key.
ApplyNoDelete ==
    /\ applied' = applied \cup {taken}
    /\ store' = IF jobs[taken].value = NoValue
                THEN store ELSE [store EXCEPT ![jobs[taken].key] = taken]

\* set or delete takes effect at the target.
Apply ==
    /\ applied' = applied \cup {taken}
    /\ store' = D!StoreAfter(taken)

CountLoss == losses' = IF health = "up" THEN losses + 1 ELSE losses

\* The command succeeds; a stale pool replaces its broken connection.
Written ==
    /\ Processing
    /\ health = "up"
    /\ client # "err"
    /\ client' = "ok"
    /\ Apply
    /\ Finish
    /\ UNCHANGED <<jobs, handle, taken, losses, health, faults>>

\* Faulty variant: the job is put back to be tried again.
IoErrorRetried ==
    /\ Processing
    /\ client = "stale"
    /\ Dial
    /\ \/ UNCHANGED <<applied, store>>
       \/ health = "up" /\ Apply
    /\ CountLoss
    /\ taken' = taken - 1
    /\ Finish
    /\ UNCHANGED <<jobs, handle, health, faults>>

\* MemcacheError::IOError: dial again, the job is not retried.  The target
\* may have executed the command before the connection broke.
IoError ==
    /\ Processing
    /\ client = "stale"
    /\ Dial
    /\ \/ UNCHANGED <<applied, store>>
       \/ health = "up" /\ Apply
    /\ CountLoss
    /\ Finish
    /\ UNCHANGED <<jobs, handle, taken, health, faults>>

\* Faulty variant: the job is sent again, behind those sent since.
RejectedRequeued ==
    /\ Processing
    /\ health # "hung"
    /\ client # "err"
    /\ jobs' = Append(jobs, jobs[taken])
    /\ Finish
    /\ UNCHANGED <<handle, taken, client, applied, losses, targetVars>>

\* Any other error (refused by the target, pool timeout): keep the client.
Rejected ==
    /\ Processing
    /\ health # "hung"
    /\ client # "err"
    /\ Finish
    /\ UNCHANGED <<jobs, handle, taken, client, applied, losses, targetVars>>

\* Faulty variant: the job is dropped without dialling again.
NotConnectedNoDial ==
    /\ Processing
    /\ client = "err"
    /\ CountLoss
    /\ Finish
    /\ UNCHANGED <<jobs, handle, taken, client, applied, targetVars>>

\* There is no client: the job is dropped, and only then is one dialled.
NotConnected ==
    /\ Processing
    /\ client = "err"
    /\ Dial
    /\ CountLoss
    /\ Finish
    /\ UNCHANGED <<jobs, handle, taken, applied, targetVars>>

Thread == Start \/ CheckShutdown \/ Receive \/ ReceiveNothing \/ Drain
Process == Written \/ IoError \/ Rejected \/ NotConnected

-----------------------------------------------------------------------------
(* The target.                                                             *)

\* The target changes state, or cuts its connections, which it does when it
\* goes down; cut connections may come from a restart that empties it.
Fault ==
    /\ faults < MaxFaults
    /\ faults' = faults + 1
    /\ health' \in {"up", "down", "hung"}
    /\ \/ /\ health' # health
          /\ health' # "down"
          /\ UNCHANGED <<client, store>>
       \/ /\ client' = IF client = "ok" THEN "stale" ELSE client
          /\ \/ UNCHANGED store
             \/ store' = [k \in Keys |-> 0]
    /\ losses' = 0
    /\ UNCHANGED <<jobs, handle, wpc, taken, applied>>

\* An item's TTL runs out, or the target evicts it.
Expire(k) ==
    /\ store[k] # 0
    /\ store' = [store EXCEPT ![k] = 0]
    /\ UNCHANGED <<jobs, handle, threadVars, health, faults>>

Target == Fault \/ \E k \in Keys : Expire(k)

-----------------------------------------------------------------------------
(* The process ends, wherever the thread is, and starts again: Writer::new *)
(* makes a channel and a thread.  Of the queue nothing is left; a command  *)
(* under way may still take effect.  One that a hung target would execute  *)
(* only after it has heard from the new process is left out.               *)
Restart ==
    /\ Processing => health # "hung"
    /\ handle' = "open"
    /\ wpc' = "start"
    /\ taken' = Len(jobs)
    /\ client' = "err"
    /\ losses' = 0
    /\ \/ UNCHANGED <<applied, store>>
       \/ Processing /\ health = "up" /\ client # "err" /\ Apply
    /\ UNCHANGED <<jobs, health, faults>>

-----------------------------------------------------------------------------
Next ==
    \/ \E job \in WriteJob : Send(job)
    \/ Shutdown
    \/ DropWriter
    \/ Thread
    \/ Process
    \/ Target
    \/ Restart

Spec == Init /\ [][Next]_writerVars

\* The thread runs on; nothing is assumed of its owner or of the target.
Fairness == WF_writerVars(Thread) /\ WF_writerVars(Process)

FairSpec == Spec /\ Fairness

-----------------------------------------------------------------------------
(* The writer does what Delivery promises: in order, at most once each, no *)
(* attempt with a half effect (writer.rs process and its callers).         *)
DeliveryRefined == D!Spec

(* What the target holds comes from the last job that took effect there,   *)
(* through reconnects and restarts (writer.rs process).  Assumed is that a *)
(* command left on a connection that broke is executed before the thread   *)
(* goes on, or never (see IoError).                                        *)
TargetIsLastApplied == D!StoreIsLastApplied

(* When the thread has ended, and shutdown's join can return, it has dealt *)
(* with every job ever sent (writer.rs, the drain after the loop).         *)
DoneMeansDrained == wpc = "done" => taken = Len(jobs)

(* Once the target is up for good, a broken or missing connection costs at *)
(* most one job: the one whose failure makes process dial again.  Jobs     *)
(* that fail in any other way, which keeps the client, are not counted.    *)
ReconnectCostsOneJob == losses <= 1

(* A target that does not hang forever lets every job be attempted, also   *)
(* after shutdown was called or every Writer handle was dropped, unless    *)
(* the process ends first.                                                 *)
EveryJobAttempted ==
    <>[](health # "hung") =>
        \A i \in 1 .. MaxJobs : (Len(jobs) >= i) ~> (Attempted >= i)

(* Under the same condition shutdown's join returns: the thread ends.      *)
ShutdownCompletes ==
    <>[](health # "hung") =>
        ((handle = "closing") ~> (wpc = "done" \/ handle = "open"))
=============================================================================
