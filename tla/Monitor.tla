-------------------------------- MODULE Monitor --------------------------------
(***************************************************************************)
(* One MonitorTask of platypus/src/monitor.rs over time: when its source   *)
(* is asked (get_or_create_task, poll), when it is given up, and how long  *)
(* what it sends stays in the target: Writer::send's conversion of the     *)
(* TTL, the queue of jobs, and a writer thread that is late or fails.      *)
(* Nothing in the repository calls poll; here it may be called at any      *)
(* time, and be dropped at any time.                                       *)
(***************************************************************************)
EXTENDS Naturals, Sequences

CONSTANTS
    Second,       \* instants in a second
    Month,        \* the longest TTL that memcached takes as one, in seconds
    Ttls,         \* what MonitorConfig::ttl may be, in instants
    Expiry,       \* MonitorConfig::expiry, in instants
    MaxLatency,   \* bound: how long a source takes to answer
    MaxDelay,     \* bound: how long the writer takes to deal with a job
    MaxQueue,     \* bound: jobs that wait for it
    MaxVersion,   \* bound: versions of the source's answer
    MaxTime       \* bound: the clock

ASSUME MonitorAssumption ==
    /\ Second \in Nat \ {0}
    /\ Month \in Nat
    /\ Ttls \subseteq Nat
    /\ Expiry \in Nat
    /\ MaxLatency \in Nat
    /\ MaxDelay \in Nat
    /\ MaxQueue \in Nat
    /\ MaxVersion \in Nat \ {0}
    /\ MaxTime \in Nat

VARIABLES
    now,          \* the clock
    ttl,          \* the source's TTL
    version,      \* the version of the answer at the source
    changed,      \* when it became that
    task,         \* the MonitorTask, or NoTask
    call,         \* the call of its source under way, or NoCall
    queue,        \* the key's jobs that the writer has not dealt with
    item,         \* the key's item in the target, or NoItem
    began,        \* history: when the call began that the task's response is of
    used          \* history: when the key was last asked for

monitorVars == <<now, ttl, version, changed, task, call, queue, item, began, used>>

NoValue == 0
Values == 0 .. MaxVersion
Never == MaxTime + 1
Times == 0 .. MaxTime

\* last_touch, and of last_response its value and updated_at.
NoTask == [touched |-> Never]
NoCall == [since |-> Never]
NoItem == [until |-> 0]

TypeOK ==
    /\ now \in Times
    /\ ttl \in Ttls
    /\ version \in 1 .. MaxVersion
    /\ changed \in 0 .. now
    /\ task \in [touched : 0 .. now, value : Values, updated : 0 .. now] \cup {NoTask}
    /\ call \in [since : 0 .. now, from : 1 .. version, creates : BOOLEAN] \cup {NoCall}
    /\ queue \in Seq([value : 0 .. version, sent : 0 .. now])
    /\ item \in [until : (now + 1) .. Never, value : 1 .. version] \cup {NoItem}
    /\ began \in 0 .. now
    /\ used \in 0 .. now

Init ==
    /\ now = 0
    /\ ttl \in Ttls
    /\ version = 1
    /\ changed = 0
    /\ task = NoTask
    /\ call = NoCall
    /\ queue = <<>>
    /\ item = NoItem
    /\ began = 0
    /\ used = 0

-----------------------------------------------------------------------------
(* MonitorTask.                                                            *)

\* get calls the source.
Begin(creates) ==
    /\ call = NoCall
    /\ call' = [since |-> now, from |-> version, creates |-> creates]
    /\ UNCHANGED <<now, ttl, version, changed, task, queue, item, began>>

\* get_or_create_task finds no task, or one without a value.
Create ==
    /\ task # NoTask => task.value = NoValue
    /\ Begin(TRUE)
    /\ used' = now

\* It finds one with a value.
Touch ==
    /\ call = NoCall
    /\ task # NoTask /\ task.value # NoValue
    /\ task' = [task EXCEPT !.touched = now]
    /\ used' = now
    /\ UNCHANGED <<now, ttl, version, changed, call, queue, item, began>>

\* Faulty variants: a failed response is as old as the one before it, or the
\* instant of the next poll is kept instead.
UpdatedByValue(value) ==
    IF value # NoValue \/ call.creates THEN now ELSE task.updated

UpdatedAhead(value) == now + ttl \div 2

\* updated_at: Response::new's instant, or with_value's.
UpdatedAt(value) == IF value # NoValue THEN now ELSE call.since

\* The call returns, and get sends what it returned.
Send(value) ==
    /\ call # NoCall
    /\ value \in (call.from .. version) \cup {NoValue}
    /\ Len(queue) < MaxQueue
    /\ queue' = Append(queue, [value |-> value, sent |-> now])
    /\ call' = NoCall
    /\ UNCHANGED <<now, ttl, version, changed, item, used>>

\* The task keeps it, a new one in the cache.
Return(value) ==
    /\ Send(value)
    /\ task' = [touched |-> IF call.creates THEN call.since ELSE task.touched,
                value |-> value, updated |-> UpdatedAt(value)]
    /\ began' = call.since

\* The service's timeout drops the call in the insert of a new one.
DropInsert(value) ==
    /\ Send(value)
    /\ call.creates
    /\ UNCHANGED <<task, began>>

\* The service's timeout, or who polls, drops the call of the source.
Drop ==
    /\ call # NoCall
    /\ call' = NoCall
    /\ UNCHANGED <<now, ttl, version, changed, task, queue, item, began, used>>

\* The cache evicts the task.
Forget ==
    /\ task # NoTask
    /\ call # NoCall => call.creates
    /\ task' = NoTask
    /\ began' = 0
    /\ UNCHANGED <<now, ttl, version, changed, call, queue, item, used>>

Expired == now > task.touched + Expiry
NextPoll == task.updated + ttl \div 2

\* Faulty variant: poll looks at the TTL only.
PollRefreshesAlways ==
    /\ task # NoTask
    /\ now > NextPoll
    /\ Begin(FALSE)
    /\ UNCHANGED used

\* poll calls the source; otherwise it changes nothing.
PollRefreshes ==
    /\ task # NoTask
    /\ ~Expired
    /\ now > NextPoll
    /\ Begin(FALSE)
    /\ UNCHANGED used

-----------------------------------------------------------------------------
(* Writer::send, its thread, and memcached.                                *)

\* Faulty variant: what is less than a second counts as one.
SecondsUp == (ttl + Second - 1) \div Second

\* ttl.as_secs() drops what is less than a second.
Seconds == ttl \div Second

\* The TTL starts when the command is executed.  An exptime of 0 is for ever,
\* and one above 30 days a date, long gone.
Until ==
    CASE Seconds = 0     -> Never
      [] Seconds > Month -> now
      [] OTHER           -> IF now + Seconds * Second < Never
                            THEN now + Seconds * Second ELSE Never

\* process takes the next job, and its set or delete takes effect.
Written ==
    /\ queue # <<>>
    /\ queue' = Tail(queue)
    /\ item' = IF Head(queue).value = NoValue \/ Until = now THEN NoItem
               ELSE [until |-> Until, value |-> Head(queue).value]
    /\ UNCHANGED <<now, ttl, version, changed, task, call, began, used>>

\* It has none: there is no client, an IO error, or the target refuses it.
Lost ==
    /\ queue # <<>>
    /\ queue' = Tail(queue)
    /\ UNCHANGED <<now, ttl, version, changed, task, call, item, began, used>>

\* The target evicts the item, or restarts.
Evict ==
    /\ item # NoItem
    /\ item' = NoItem
    /\ UNCHANGED <<now, ttl, version, changed, task, call, queue, began, used>>

-----------------------------------------------------------------------------
SourceChange ==
    /\ version < MaxVersion
    /\ version' = version + 1
    /\ changed' = now
    /\ UNCHANGED <<now, ttl, task, call, queue, item, began, used>>

\* Time passes, but no answer is later than MaxLatency, and no job waits
\* longer than MaxDelay.
Tick ==
    /\ now < MaxTime
    /\ call # NoCall => now < call.since + MaxLatency
    /\ \A i \in DOMAIN queue : now < queue[i].sent + MaxDelay
    /\ now' = now + 1
    /\ item' = IF item.until <= now' THEN NoItem ELSE item
    /\ UNCHANGED <<ttl, version, changed, task, call, queue, began, used>>

Next ==
    \/ Create \/ Touch \/ Drop \/ Forget \/ PollRefreshes
    \/ \E value \in Values : Return(value) \/ DropInsert(value)
    \/ Written \/ Lost \/ Evict
    \/ SourceChange \/ Tick

Spec == Init /\ [][Next]_monitorVars

-----------------------------------------------------------------------------
(* The target stops giving an answer that its source has replaced: within  *)
(* a TTL, and what a call and its job may take, of the replacement,        *)
(* whatever is lost, provided that the TTL is of a second at least (get,   *)
(* send, process).                                                         *)
StaleForTtlOnly ==
    (item # NoItem /\ Seconds > 0) =>
        (item.value < version => now <= changed + MaxLatency + MaxDelay + ttl)

(* A key that is not asked for any more leaves the target: a TTL after the *)
(* last refresh, which is within its expiry of the last request, and what  *)
(* that one took, whatever is lost, dropped or evicted, provided that the  *)
(* TTL is of a second at least (poll, send, process).                      *)
UnusedIsForgotten ==
    (item # NoItem /\ Seconds > 0) =>
        now <= used + Expiry + MaxLatency + MaxDelay + ttl

(* However often a task is polled, and whether its source answers or not,  *)
(* a poll asks the source only when half a TTL has gone by since the call  *)
(* began that its last response is of (poll, Response).                    *)
SourceIsSpared == [][PollRefreshes => now > began + ttl \div 2]_monitorVars
=============================================================================
