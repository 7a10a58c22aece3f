------------------------------- MODULE Service --------------------------------
(***************************************************************************)
(* The answering side of the server: the connection tasks of server.rs,    *)
(* the mutex around the tower service they share, the commands of          *)
(* service.rs and the cache of monitor tasks of monitor.rs.  An async      *)
(* function is split at its awaits, where other tasks run and where the    *)
(* 5 s timeout layer of server/src/main.rs may drop the call.              *)
(***************************************************************************)
EXTENDS WriteJobs, FiniteSets, Functions, SequencesExt

CONSTANTS
    Conns,       \* connections
    Routed,      \* keys for which a rule matches and its source exists
    NoTask,      \* no cache entry
    TaskSize,    \* MonitorTask::estimated_size without the value ...
    ValueSize,   \* ... and what a value adds to it
    MaxBytes,    \* --cache-max-bytes
    Expiry,      \* MonitorConfig::expiry of every source
    MaxKeys,     \* bound: keys in one command
    MaxJobs,     \* bound: answers of sources, which are the jobs sent
    MaxTime      \* bound: the clock

VARIABLES
    now,         \* the clock
    version,     \* per key, the version of the answer at its source
    tasks,       \* MonitorTasks: per key, the cached MonitorTask
    lockq,       \* the FIFO service mutex: its holder, then the waiters
    pc,          \* per connection, where its task is
    todo,        \* per connection, the command's keys not looked up yet
    task,        \* per connection, the MonitorTask its call works on; during
                 \* a fetch its value is the version when the fetch began
    items,       \* per connection, the version in the reply for each key
    served       \* history: per key, the version last written to a client

callVars == <<lockq, pc, todo, task, items>>
serviceVars == <<jobs, now, version, tasks, callVars, served>>

\* last_response's value and last_touch.
Task == [value : Values, touched : 0 .. MaxTime]

ASSUME ServiceAssumption ==
    /\ Routed \subseteq Keys
    /\ NoTask \notin Task
    /\ {TaskSize, ValueSize, MaxBytes, Expiry, MaxKeys, MaxJobs, MaxTime}
         \subseteq Nat

InCall == {"lookup", "fetch", "store"}

TypeOK ==
    /\ JobsTypeOK
    /\ now \in 0 .. MaxTime
    /\ version \in [Keys -> Values]
    /\ tasks \in [Keys -> Task \cup {NoTask}]
    /\ lockq \in Seq(Conns)
    /\ pc \in [Conns -> InCall \cup {"closed", "idle", "hungup", "waiting", "reply"}]
    /\ todo \in [Conns -> Seq(Keys)]
    /\ \A c \in Conns : pc[c] \in {"fetch", "store"} => todo[c] # <<>>
    /\ task \in [Conns -> Task]
    /\ items \in [Conns -> [Keys -> Values]]
    /\ served \in [Keys -> Values]

NoItems == [k \in Keys |-> NoValue]

Init ==
    /\ jobs = <<>>
    /\ now = 0
    /\ version = [k \in Keys |-> 1]
    /\ tasks = [k \in Keys |-> NoTask]
    /\ lockq = <<>>
    /\ pc = [c \in Conns |-> "closed"]
    /\ todo = [c \in Conns |-> <<>>]
    /\ task = [c \in Conns |-> [value |-> NoValue, touched |-> 0]]
    /\ items = [c \in Conns |-> NoItems]
    /\ served = NoItems

-----------------------------------------------------------------------------
(* Connections: Server::serve accepts, handle_connection reads commands.   *)

At(c, here, there) == pc[c] = here /\ pc' = [pc EXCEPT ![c] = there]

Accept(c) ==
    /\ At(c, "closed", "idle")
    /\ UNCHANGED <<jobs, now, version, tasks, lockq, todo, task, items, served>>

\* The keys of a get, gets or mg; <<>> for the commands that look up none.
Commands == BoundedSeq(Keys, MaxKeys)

\* Keys that may yet be fetched; a command is one whose fetches fit the bound.
Outstanding == SumFunction([c \in Conns |-> Len(todo[c])])

\* recv_command returns a command; the task queues for the service.
Receive(c, keys) ==
    /\ At(c, "idle", "waiting")
    /\ Len(jobs) + Outstanding + Len(keys) <= MaxJobs
    /\ todo' = [todo EXCEPT ![c] = keys]
    /\ items' = [items EXCEPT ![c] = NoItems]
    /\ lockq' = Append(lockq, c)
    /\ UNCHANGED <<jobs, now, version, tasks, task, served>>

\* After the client hung up every read yields NoCommand, which is ignored:
\* the task stays.
Hangup(c) ==
    /\ At(c, "idle", "hungup")
    /\ UNCHANGED <<jobs, now, version, tasks, lockq, todo, task, items, served>>

\* notify_shutdown wakes the task where it waits for a command: it ends.
Leave(c) ==
    /\ pc[c] \in {"idle", "hungup"}
    /\ pc' = [pc EXCEPT ![c] = "closed"]
    /\ UNCHANGED <<jobs, now, version, tasks, lockq, todo, task, items, served>>

-----------------------------------------------------------------------------
(* The service call, made with the mutex held.                             *)

HasLock(c) == lockq # <<>> /\ Head(lockq) = c

\* Faulty variant: the call does not wait for the mutex.
AcquireAtOnce(c) ==
    /\ At(c, "waiting", "lookup")
    /\ UNCHANGED <<jobs, now, version, tasks, lockq, todo, task, items, served>>

Acquire(c) ==
    /\ HasLock(c)
    /\ At(c, "waiting", "lookup")
    /\ UNCHANGED <<jobs, now, version, tasks, lockq, todo, task, items, served>>

\* quit: the connection is left, and the mutex with it.
Quit(c) ==
    /\ HasLock(c)
    /\ todo[c] = <<>>
    /\ At(c, "waiting", "closed")
    /\ lockq' = Tail(lockq)
    /\ UNCHANGED <<jobs, now, version, tasks, todo, task, items, served>>

Key(c) == Head(todo[c])
HasValue(k) == tasks[k] # NoTask /\ tasks[k].value # NoValue

\* get_or_create_task finds a task with a result, and touches its copy.
LookupHit(c) ==
    /\ todo[c] # <<>>
    /\ HasValue(Key(c))
    /\ At(c, "lookup", "store")
    /\ task' = [task EXCEPT ![c] = [tasks[Key(c)] EXCEPT !.touched = now]]
    /\ UNCHANGED <<jobs, now, version, tasks, lockq, todo, items, served>>

\* Faulty variant: what is cached is fetched again.
LookupMissAlways(c) ==
    /\ todo[c] # <<>>
    /\ Key(c) \in Routed
    /\ At(c, "lookup", "fetch")
    /\ task' = [task EXCEPT ![c] = [value |-> version[Key(c)], touched |-> now]]
    /\ UNCHANGED <<jobs, now, version, tasks, lockq, todo, items, served>>

\* There is none, or one whose source had no answer: ask the source.
LookupMiss(c) ==
    /\ todo[c] # <<>>
    /\ Key(c) \in Routed
    /\ ~HasValue(Key(c))
    /\ At(c, "lookup", "fetch")
    /\ task' = [task EXCEPT ![c] = [value |-> version[Key(c)], touched |-> now]]
    /\ UNCHANGED <<jobs, now, version, tasks, lockq, todo, items, served>>

\* No rule, or a rule whose source does not exist: no item.
LookupNoRoute(c) ==
    /\ todo[c] # <<>>
    /\ Key(c) \notin Routed
    /\ pc[c] = "lookup"
    /\ todo' = [todo EXCEPT ![c] = Tail(@)]
    /\ UNCHANGED <<jobs, now, version, tasks, lockq, pc, task, items, served>>

\* MonitorTask::get: the source answers as of some moment of the call, or
\* has no answer, and in the same poll the result is sent to the writer.
SourceAnswer(c) ==
    /\ At(c, "fetch", "store")
    /\ Len(jobs) < MaxJobs
    /\ \E v \in (task[c].value .. version[Key(c)]) \cup {NoValue} :
          /\ jobs' = Append(jobs, [key |-> Key(c), value |-> v])
          /\ task' = [task EXCEPT ![c].value = v]
    /\ UNCHANGED <<now, version, tasks, lockq, todo, items, served>>

\* tasks.insert() of the touched copy or of the new task; the value, if
\* there is one, becomes an item of the reply.
Insert(c) ==
    /\ At(c, "store", "lookup")
    /\ tasks' = [tasks EXCEPT ![Key(c)] = task[c]]
    /\ items' = [items EXCEPT ![c][Key(c)] =
                    IF task[c].value = NoValue THEN @ ELSE task[c].value]
    /\ todo' = [todo EXCEPT ![c] = Tail(@)]
    /\ UNCHANGED <<jobs, now, version, lockq, task, served>>

\* handle_command returns its response.
Answer(c) ==
    /\ todo[c] = <<>>
    /\ At(c, "lookup", "reply")
    /\ UNCHANGED <<jobs, now, version, tasks, lockq, todo, task, items, served>>

\* Faulty variants: there is no timeout layer, or it starts the call again
\* without its keys.
TimeoutNever(c) == FALSE

TimeoutRetries(c) ==
    /\ pc[c] \in InCall
    /\ todo' = [todo EXCEPT ![c] = <<>>]
    /\ UNCHANGED <<jobs, now, version, tasks, lockq, pc, task, items, served>>

\* The timeout layer drops the call, at any await, and the reply will be an
\* error; an insert under way may have happened.
Timeout(c) ==
    /\ pc[c] \in InCall
    /\ pc' = [pc EXCEPT ![c] = "reply"]
    /\ \/ UNCHANGED tasks
       \/ pc[c] = "store" /\ tasks' = [tasks EXCEPT ![Key(c)] = task[c]]
    /\ items' = [items EXCEPT ![c] = NoItems]
    /\ todo' = [todo EXCEPT ![c] = <<>>]
    /\ UNCHANGED <<jobs, now, version, lockq, task, served>>

\* write_all returns; the mutex is released at the end of the match arm.
Reply(c) ==
    /\ At(c, "reply", "idle")
    /\ served' = [k \in Keys |->
                    IF items[c][k] = NoValue THEN served[k] ELSE items[c][k]]
    /\ lockq' = Tail(lockq)
    /\ UNCHANGED <<jobs, now, version, tasks, todo, task, items>>

Call(c) ==
    \/ Acquire(c) \/ Quit(c)
    \/ LookupHit(c) \/ LookupMiss(c) \/ LookupNoRoute(c)
    \/ Insert(c) \/ Answer(c)

-----------------------------------------------------------------------------
(* The rest of the world.                                                  *)

\* The actual service behind a source has a new answer.
SourceChange(k) ==
    /\ version[k] < MaxVersion
    /\ version' = [version EXCEPT ![k] = @ + 1]
    /\ UNCHANGED <<jobs, now, tasks, callVars, served>>

Weight(cached) ==
    LET present == {k \in Keys : cached[k] # NoTask}
    IN  TaskSize * Cardinality(present)
          + ValueSize * Cardinality({k \in present : cached[k].value # NoValue})

\* The cache's pending tasks, run by MonitorTasks::tick each second and by
\* its own operations: it evicts what it likes until it fits again.
Maintain ==
    /\ Weight(tasks) > MaxBytes
    /\ \E gone \in SUBSET Keys :
          tasks' = [k \in Keys |-> IF k \in gone THEN NoTask ELSE tasks[k]]
    /\ Weight(tasks') <= MaxBytes
    /\ UNCHANGED <<jobs, now, version, callVars, served>>

Tick ==
    /\ now < MaxTime
    /\ now' = now + 1
    /\ UNCHANGED <<jobs, version, tasks, callVars, served>>

-----------------------------------------------------------------------------
\* An accepted connection, but for its end by notify_shutdown.
Connection(c) ==
    \/ \E keys \in Commands : Receive(c, keys)
    \/ Hangup(c)
    \/ Call(c) \/ SourceAnswer(c) \/ Timeout(c) \/ Reply(c)

\* The process ends and starts again: tasks, connections, the mutex and the
\* cache were its memory.
Restart ==
    /\ tasks' = [k \in Keys |-> NoTask]
    /\ lockq' = <<>>
    /\ pc' = [c \in Conns |-> "closed"]
    /\ todo' = [c \in Conns |-> <<>>]
    /\ task' = [c \in Conns |-> [value |-> NoValue, touched |-> 0]]
    /\ items' = [c \in Conns |-> NoItems]
    /\ UNCHANGED <<jobs, now, version, served>>

World == Maintain \/ Tick \/ \E k \in Keys : SourceChange(k)

Next ==
    \/ World
    \/ Restart
    \/ \E c \in Conns : Accept(c) \/ Leave(c) \/ Connection(c)

Spec == Init /\ [][Next]_serviceVars

\* The runtime polls ready tasks and fires timers.  Nothing is assumed of
\* the sources, nor of the clients: a reply may stay unread.
Fairness ==
    /\ WF_serviceVars(Maintain) /\ WF_serviceVars(Tick)
    /\ \A c \in Conns : WF_serviceVars(Call(c)) /\ WF_serviceVars(Timeout(c))

FairSpec == Spec /\ Fairness

-----------------------------------------------------------------------------
F == INSTANCE FreshReads

(* The server does what FreshReads promises (service.rs handle_command     *)
(* under the mutex of server.rs).                                          *)
FreshReadsRefined == F!Spec

(* No client is given an older version of a key than one given before, to  *)
(* it or to another, whatever calls time out in between.                   *)
MonotonicReads == F!MonotonicReads

(* The writer is never sent an older version of a key after a newer one    *)
(* (MonitorTask::get is called by any connection).                         *)
JobsNeverGoBack == F!JobsNeverGoBack

(* A cached result is the one last sent to the writer, although a call may *)
(* be dropped between its send and its insert (monitor.rs:164-165).        *)
CacheMatchesLastJob ==
    \A k \in Keys : HasValue(k) => LastJobIs(k, tasks[k].value)

(* The inductive invariant behind the promises above.  The mutex is held   *)
(* over the call and the write of its reply.                               *)
CallerHasLock ==
    \A c \in Conns : pc[c] \in InCall \cup {"reply"} => HasLock(c)

\* Nothing sent is newer than the answer of the source.
SentIsOld == \A k \in Keys : NothingNewer(k, version[k])

LastAndNewest(k, v) == LastJobIs(k, v) /\ NothingNewer(k, v)

\* What is cached, or about to be, was sent last and is the newest.
CachedIsLast == \A k \in Keys : HasValue(k) => LastAndNewest(k, tasks[k].value)

StoredIsLast == \A c \in Conns :
    (pc[c] = "store" /\ task[c].value # NoValue) =>
        LastAndNewest(Key(c), task[c].value)

\* A source is asked only for what the cache does not have.
FetchedIsMissing == \A c \in Conns : pc[c] = "fetch" =>
    ~HasValue(Key(c)) /\ NothingNewer(Key(c), task[c].value)

NoItemsYet == \A c \in Conns : pc[c] = "waiting" => items[c] = NoItems

\* Every item of a reply is the newest, unless the insert that comes next
\* replaces it.
Superseded(c, k) == pc[c] = "store" /\ k = Key(c) /\ task[c].value # NoValue

ItemsAreNewest == \A c \in Conns, k \in Keys :
    (pc[c] \in InCall \cup {"reply"} /\ items[c][k] # NoValue /\ ~Superseded(c, k))
        => IsNewest(k, items[c][k])

Inv ==
    /\ CallerHasLock
    /\ SentIsOld
    /\ CachedIsLast
    /\ StoredIsLast
    /\ FetchedIsMissing
    /\ NoItemsYet
    /\ ItemsAreNewest

(* A command that waits for the mutex is answered, or ends its connection, *)
(* even if sources hang, provided that every client reads its replies.     *)
EveryCommandAnswered ==
    (\A c \in Conns : []<>(pc[c] # "reply")) =>
        \A c \in Conns : (pc[c] = "waiting") ~> (pc[c] \in {"idle", "closed"})

(* monitor.rs:182-185: "expired tasks will be lazily removed when accessed *)
(* ... relying on the TTL/expiry logic in get_or_create_task": no lookup   *)
(* is answered from a task past its expiry, as poll defines it.            *)
ExpiredNotServed ==
    [][\A c \in Conns :
         LookupHit(c) => now <= tasks[Key(c)].touched + Expiry]_serviceVars

(* README.md:11, "Periodically fetches answers in the background": a new   *)
(* answer reaches the writer if clients keep asking for the key.           *)
RefreshedInBackground ==
    \A k \in Keys, c \in Conns :
        []<><<LookupHit(c) /\ Key(c) = k>>_serviceVars =>
            ((version[k] = MaxVersion) ~> LastJobIs(k, MaxVersion))
=============================================================================
