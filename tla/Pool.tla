---------------------------------- MODULE Pool ----------------------------------
(***************************************************************************)
(* The AWS sources' connection pool (r2d2) under the service's mutex.      *)
(* Pool::get blocks the runtime's thread it is called on until there is a  *)
(* connection; a call holds its connection over the await of the request   *)
(* to AWS, where the service's timeout may drop it.                        *)
(***************************************************************************)
EXTENDS Integers, FiniteSets

CONSTANTS
    Connections,    \* connections of clients, whose tasks call the source
    Threads,        \* threads of the tokio runtime
    MaxSize,        \* connections the pool may have: max_size
    MinIdle,        \* how many of them it keeps ready: min_idle
    MaxCalls        \* bound: calls

ASSUME PoolAssumption ==
    /\ IsFiniteSet(Connections)
    /\ Threads \in Nat \ {0} /\ MaxSize \in Nat \ {0} /\ MaxCalls \in Nat
    /\ MinIdle \in 0 .. MaxSize

VARIABLES
    pc,             \* of a task: "idle", "lock" (waits for the mutex), "call"
                    \* (in AwsSecretsManager::call, before pool.get), "get"
                    \* (in pool.get, on a thread), "send" (awaits AWS), "reply"
    conns,          \* connections that the pool has opened
    idle,           \* those of them that no call has
    opening,        \* connections that r2d2's own threads are opening
    calls           \* how many calls there have been

poolVars == <<pc, conns, idle, opening, calls>>

In(where) == {c \in Connections : pc[c] = where}
Blocked == Cardinality(In("get"))
Locked == \E c \in Connections : pc[c] \in {"call", "get", "send", "reply"}

\* build returns when min_idle connections are open.
Init ==
    /\ pc = [c \in Connections |-> "idle"]
    /\ conns = MinIdle
    /\ idle = MinIdle
    /\ opening = 0
    /\ calls = 0

At(c, from, to) == pc[c] = from /\ pc' = [pc EXCEPT ![c] = to]

\* r2d2 has its threads open connections while there is room for them ...
OpenUpTo(n) ==
    opening' = IF conns' + opening + n <= MaxSize
               THEN opening + n ELSE MaxSize - conns'

\* ... as many as are missing when some have been taken out.
Replenish == OpenUpTo(IF idle' < MinIdle THEN MinIdle - idle' ELSE 0)

-----------------------------------------------------------------------------
(* The connections' tasks.                                                 *)

Ask(c) ==
    /\ calls < MaxCalls
    /\ At(c, "idle", "lock")
    /\ calls' = calls + 1
    /\ UNCHANGED <<conns, idle, opening>>

\* Faulty variant: the call is made without the service's lock.
AcquireUnlocked(c) ==
    /\ At(c, "lock", "call")
    /\ UNCHANGED <<conns, idle, opening, calls>>

Acquire(c) ==
    /\ ~Locked
    /\ At(c, "lock", "call")
    /\ UNCHANGED <<conns, idle, opening, calls>>

\* pool.get: a connection is there, or one is asked for and the thread waits.
Get(c) ==
    /\ Blocked < Threads
    /\ UNCHANGED <<conns, calls>>
    /\ \/ /\ idle > 0
          /\ At(c, "call", "send")
          /\ idle' = idle - 1
          /\ Replenish
       \/ /\ idle = 0
          /\ At(c, "call", "get")
          /\ idle' = idle
          /\ OpenUpTo(1)

Got(c) ==
    /\ idle > 0
    /\ At(c, "get", "send")
    /\ UNCHANGED <<conns, calls>>
    /\ idle' = idle - 1
    /\ Replenish

\* get gives up after r2d2's connection timeout: the call has no value.
GetFails(c) ==
    /\ idle = 0
    /\ At(c, "get", "reply")
    /\ UNCHANGED <<conns, idle, opening, calls>>

\* AWS answers, or not: the connection goes back.
Answer(c) ==
    /\ Blocked < Threads
    /\ At(c, "send", "reply")
    /\ idle' = idle + 1
    /\ UNCHANGED <<conns, opening, calls>>

\* Faulty variant: the connection of a call that is dropped is lost.
TimeoutLeaks(c) ==
    /\ Blocked < Threads
    /\ At(c, "send", "reply")
    /\ UNCHANGED <<conns, idle, opening, calls>>

\* The timeout layer drops the call where it awaits, and the connection with it.
Timeout(c) ==
    /\ Blocked < Threads
    /\ At(c, "send", "reply")
    /\ idle' = idle + 1
    /\ UNCHANGED <<conns, opening, calls>>

Reply(c) ==
    /\ Blocked < Threads
    /\ At(c, "reply", "idle")
    /\ UNCHANGED <<conns, idle, opening, calls>>

\* One of r2d2's threads: connect needs no runtime, build gave it a config.
Opened ==
    /\ opening > 0
    /\ opening' = opening - 1
    /\ conns' = conns + 1
    /\ idle' = idle + 1
    /\ UNCHANGED <<pc, calls>>

\* It closes a connection after ten minutes without use, or thirty in all:
\* what is opened while a thread waits in get is younger than that.
Reap ==
    /\ idle > 0
    /\ In("get") = {}
    /\ idle' = idle - 1
    /\ conns' = conns - 1
    /\ Replenish
    /\ UNCHANGED <<pc, calls>>

-----------------------------------------------------------------------------
Task(c) ==
    \/ Ask(c) \/ Acquire(c)
    \/ Get(c) \/ Got(c) \/ GetFails(c)
    \/ Answer(c) \/ Timeout(c) \/ Reply(c)

Next == Opened \/ Reap \/ \E c \in Connections : Task(c)

Spec == Init /\ [][Next]_poolVars

\* The pool's threads open connections, and those that wait are woken.
FairSpec ==
    Spec /\ WF_poolVars(Opened)
         /\ \A c \in Connections : WF_poolVars(Got(c) \/ Reply(c))

-----------------------------------------------------------------------------
(* Whether AWS answers or the timeout drops the call, its connection is    *)
(* back in the pool or with one call, and the pool has no more than its    *)
(* size (call, and r2d2's guard that call drops with its future).          *)
Accounted ==
    /\ conns + opening <= MaxSize
    /\ conns = idle + Cardinality(In("send"))

(* The service's mutex makes a pool of one connection enough: a thread is  *)
(* only blocked in get while a connection is on its way to it, and never   *)
(* for another call's to come back, which might need that thread           *)
(* (AwsSecretsManager::call under handle_connection's lock).               *)
NeverShort ==
    In("get") # {} => idle + opening > 0 /\ In("send") = {}

(* So a blocked thread is free again, even if it is the runtime's only one *)
(* (AwsSecretsManager::call).                                              *)
GetReturns == \A c \in Connections : pc[c] = "get" ~> pc[c] # "get"
=============================================================================
