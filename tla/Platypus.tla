------------------------------- MODULE Platypus -------------------------------
(***************************************************************************)
(* The whole server process, from its start to its end and its next start: *)
(* main of server/src/main.rs and the accept loop of Server::serve, around *)
(* the answering side (Service) and the thread that writes to the target   *)
(* (Writer).  The two share the channel of jobs, and at shutdown the       *)
(* reference counts of the Writer.                                         *)
(***************************************************************************)
EXTENDS WriteJobs

CONSTANTS Conns, Routed, NoTask, TaskSize, ValueSize, MaxBytes, Expiry,
          MaxKeys, MaxJobs, MaxTime, MaxFaults,
          Signals      \* SIGINT, SIGTERM

VARIABLES
    now, version, tasks, lockq, pc, todo, task, items, served,
    handle, wpc, taken, client, health, store, applied, faults, losses,
    main,        \* where main is: "start", "built" (the service, and with it
                 \* the writer thread), "select" (parked in serve's select!),
                 \* "woken" (so, and its Notified is ready), "busy" (in the
                 \* body of an arm), "stopped" (serve returned), "joining",
                 \* "ending" (shutdown returned), "dropping" (so has main,
                 \* and the runtime is being dropped) or "exited"
    woken,       \* connections parked in their select! whose Notified is ready
    caught,      \* the signals whose handler is registered
    received,    \* those that have arrived since
    blocking     \* a thread of the runtime is blocked in a source: in the
                 \* read of a file, or in an r2d2 pool's get

S == INSTANCE Service
W == INSTANCE Writer

ASSUME PlatypusAssumption ==
    /\ Routed \subseteq Keys
    /\ NoTask \notin S!Task
    /\ {TaskSize, ValueSize, MaxBytes, Expiry, MaxKeys, MaxJobs, MaxTime,
        MaxFaults} \subseteq Nat

ownServiceVars == <<now, version, tasks, lockq, pc, todo, task, items, served>>
ownWriterVars == <<handle, wpc, taken, client, health, store, applied, faults,
                   losses>>
mainVars == <<main, woken, caught, received, blocking>>
vars == <<jobs, ownServiceVars, ownWriterVars, mainVars>>

TypeOK ==
    /\ S!TypeOK
    /\ W!TypeOK
    /\ main \in {"start", "built", "select", "woken", "busy", "stopped",
                "joining", "ending", "dropping", "exited"}
    /\ woken \subseteq {c \in Conns : pc[c] \in {"idle", "hungup"}}
    /\ received \subseteq caught
    /\ caught \subseteq Signals
    /\ blocking \in BOOLEAN

Init ==
    /\ S!Init
    /\ W!Init
    /\ main = "start"
    /\ woken = {}
    /\ caught = {}
    /\ received = {}
    /\ blocking = FALSE

-----------------------------------------------------------------------------
(* The start of main, where every step may fail and end the process.       *)

\* The configuration, its pools, router and sources, and the target, for
\* which with_target starts the writer thread.
Build ==
    /\ main = "start"
    /\ main' \in {"built", "exited"}
    /\ UNCHANGED <<jobs, ownServiceVars, ownWriterVars, woken, caught, received,
                   blocking>>

\* The address to listen at, from the arguments, and the listener.
Bind ==
    /\ main = "built"
    /\ main' \in {"busy", "exited"}
    /\ UNCHANGED <<jobs, ownServiceVars, ownWriterVars, woken, caught, received,
                   blocking>>

-----------------------------------------------------------------------------
(* Server::serve.                                                          *)

\* Tasks are polled.
Running == main \notin {"start", "built", "dropping", "exited"}

Parked == main \in {"select", "woken"}

\* The select! takes an accepted socket; its Notified, ready or not, is
\* dropped.
AcceptConnection(c) ==
    /\ Parked
    /\ S!Accept(c)
    /\ main' = "busy"
    /\ UNCHANGED <<ownWriterVars, woken, caught, received, blocking>>

\* It takes the interval's tick: MonitorTasks::tick, which is S!Maintain.
IntervalTick ==
    /\ Parked
    /\ main' = "busy"
    /\ UNCHANGED <<jobs, ownServiceVars, ownWriterVars, woken, caught, received,
                   blocking>>

\* The loop comes round and creates a new Notified.
Loop ==
    /\ main = "busy"
    /\ main' = "select"
    /\ UNCHANGED <<jobs, ownServiceVars, ownWriterVars, woken, caught, received,
                   blocking>>

\* It takes the notification: serve returns.
Stop ==
    /\ main = "woken"
    /\ main' = "stopped"
    /\ UNCHANGED <<jobs, ownServiceVars, ownWriterVars, woken, caught, received,
                   blocking>>

\* Faulty variant: a connection is also woken while it serves a command.
SignalAll(s) ==
    /\ Running
    /\ s \in caught \ received
    /\ received' = received \cup {s}
    /\ main' = IF main = "select" THEN "woken" ELSE main
    /\ woken' = {c \in Conns : pc[c] # "closed"}
    /\ UNCHANGED <<jobs, ownServiceVars, ownWriterVars, caught, blocking>>

\* A signal's task ends with notify_waiters: it readies the Notified of
\* those parked at that moment and leaves no permit for the others.  Each
\* task waits for one signal only.
Signal(s) ==
    /\ Running
    /\ s \in caught \ received
    /\ received' = received \cup {s}
    /\ main' = IF main = "select" THEN "woken" ELSE main
    /\ woken' = {c \in Conns : pc[c] \in {"idle", "hungup"}}
    /\ UNCHANGED <<jobs, ownServiceVars, ownWriterVars, caught, blocking>>

\* A task that serve spawns for the signal runs for the first time and
\* registers its handler.
Catch(s) ==
    /\ Running
    /\ s \notin caught
    /\ caught' = caught \cup {s}
    /\ UNCHANGED <<jobs, ownServiceVars, ownWriterVars, main, woken, received,
                   blocking>>

\* Until then the signal ends the process.
SignalKills(s) ==
    /\ main # "exited"
    /\ s \notin caught
    /\ main' = "exited"
    /\ woken' = {}
    /\ blocking' = FALSE
    /\ UNCHANGED <<jobs, ownServiceVars, ownWriterVars, caught, received>>

-----------------------------------------------------------------------------
(* handle_connection.                                                      *)

\* The task is notified and ends.
LeaveConnection(c) ==
    /\ Running
    /\ c \in woken
    /\ S!Leave(c)
    /\ woken' = woken \ {c}
    /\ UNCHANGED <<ownWriterVars, main, caught, received, blocking>>

\* The read of a hung-up client ends first: the Notified is dropped.
SpinConnection(c) ==
    /\ Running
    /\ c \in woken
    /\ pc[c] = "hungup"
    /\ woken' = woken \ {c}
    /\ UNCHANGED <<jobs, ownServiceVars, ownWriterVars, main, caught, received,
                   blocking>>

ServeConnection(c) ==
    /\ Running
    /\ S!Connection(c)
    /\ woken' = woken \ {c}
    /\ UNCHANGED <<ownWriterVars, main, caught, received, blocking>>

-----------------------------------------------------------------------------
(* What blocks a thread while a source is asked.                           *)

\* Faulty variant: the tasks that are being dropped go on to block threads.
BeginBlockingStill ==
    /\ main # "exited"
    /\ \E c \in Conns : pc[c] = "fetch"
    /\ ~blocking
    /\ blocking' = TRUE
    /\ UNCHANGED <<jobs, ownServiceVars, ownWriterVars, main, woken, caught,
                   received>>

BeginBlocking ==
    /\ Running
    /\ \E c \in Conns : pc[c] = "fetch"
    /\ ~blocking
    /\ blocking' = TRUE
    /\ UNCHANGED <<jobs, ownServiceVars, ownWriterVars, main, woken, caught,
                   received>>

\* The last that is blocked goes on.  That its call has timed out since, or
\* was dropped, makes no difference to it.
EndBlocking ==
    /\ blocking
    /\ blocking' = FALSE
    /\ UNCHANGED <<jobs, ownServiceVars, ownWriterVars, main, woken, caught,
                   received>>

-----------------------------------------------------------------------------
(* The end of main.                                                        *)

\* Every connection task holds the service, and with it the Writer; so does
\* every cached MonitorTask, as its target.
SoleOwner ==
    /\ \A c \in Conns : pc[c] = "closed"
    /\ \A k \in Keys : tasks[k] = NoTask

\* Faulty variant: the thread is told to stop whoever else has the Writer.
ShutdownServiceAnyway ==
    /\ main = "stopped"
    /\ W!Shutdown /\ main' = "joining"
    /\ UNCHANGED <<ownServiceVars, woken, caught, received, blocking>>

\* Faulty variant: shutdown tries until it is the only owner.
ShutdownServiceWaits ==
    /\ main = "stopped"
    /\ SoleOwner /\ W!Shutdown /\ main' = "joining"
    /\ UNCHANGED <<ownServiceVars, woken, caught, received, blocking>>

\* Service::shutdown: Arc::try_unwrap, and Writer::shutdown if that works.
ShutdownService ==
    /\ main = "stopped"
    /\ \/ SoleOwner /\ W!Shutdown /\ main' = "joining"
       \/ ~SoleOwner /\ UNCHANGED <<jobs, ownWriterVars>> /\ main' = "ending"
    /\ UNCHANGED <<ownServiceVars, woken, caught, received, blocking>>

\* handle.join() returns.
JoinWriter ==
    /\ main = "joining"
    /\ wpc = "done"
    /\ main' = "ending"
    /\ UNCHANGED <<jobs, ownServiceVars, ownWriterVars, woken, caught, received,
                   blocking>>

\* main returns into the drop of the runtime of #[tokio::main], which polls
\* no task any more and drops them all.
DropRuntime ==
    /\ main = "ending"
    /\ main' = "dropping"
    /\ UNCHANGED <<jobs, ownServiceVars, ownWriterVars, woken, caught, received,
                   blocking>>

\* With the last of its owners the Writer is dropped, if it still is there.
DropLastOwner ==
    /\ main = "dropping"
    /\ W!DropWriter
    /\ UNCHANGED <<ownServiceVars, mainVars>>

\* The drop waits for the threads of the runtime, and so for those that are
\* blocked.  Then the process ends, and the writer thread with it.
Exit ==
    /\ main = "dropping"
    /\ ~blocking
    /\ main' = "exited"
    /\ UNCHANGED <<jobs, ownServiceVars, ownWriterVars, woken, caught, received,
                   blocking>>

\* The process is started again, after its end or after a crash.
Restart ==
    /\ S!Restart
    /\ W!Restart
    /\ main' = "start"
    /\ woken' = {}
    /\ caught' = {}
    /\ received' = {}
    /\ blocking' = FALSE

-----------------------------------------------------------------------------
MainStep ==
    \/ Build \/ Bind
    \/ IntervalTick \/ Loop \/ Stop
    \/ ShutdownService \/ JoinWriter \/ DropRuntime \/ DropLastOwner \/ Exit

ThreadStep ==
    /\ main \notin {"start", "exited"}
    /\ W!Thread \/ W!Process
    /\ UNCHANGED <<ownServiceVars, mainVars>>

\* What happens outside of the process after it, or its part that looks
\* there, has ended is left out.
WorldStep ==
    \/ /\ main \notin {"dropping", "exited"}
       /\ S!World
       /\ UNCHANGED <<ownWriterVars, mainVars>>
    \/ /\ main # "exited"
       /\ W!Target
       /\ UNCHANGED <<ownServiceVars, mainVars>>

Next ==
    \/ MainStep
    \/ ThreadStep
    \/ WorldStep
    \/ Restart
    \/ BeginBlocking \/ EndBlocking
    \/ \E s \in Signals : Signal(s) \/ Catch(s) \/ SignalKills(s)
    \/ \E c \in Conns :
          \/ AcceptConnection(c)
          \/ LeaveConnection(c) \/ SpinConnection(c) \/ ServeConnection(c)

Spec == Init /\ [][Next]_vars

\* The runtime and the thread run on, and timers fire.  Clients, sources
\* (also those that block a thread) and the target are free, and so is
\* whoever starts the process.
Fairness ==
    /\ WF_vars(MainStep)
    /\ WF_vars(ThreadStep)
    /\ \A s \in Signals : WF_vars(Catch(s))
    /\ \A c \in Conns :
          WF_vars(ServeConnection(c) /\ (S!Call(c) \/ S!Timeout(c)))

FairSpec == Spec /\ Fairness

-----------------------------------------------------------------------------
(* What clients are given through the target never goes back either: an    *)
(* item found there is as new as any that has been there, also once one    *)
(* has been lost in between, although fetches, timeouts, evictions, lost   *)
(* jobs and restarts of the process may come in any order (under Writer's  *)
(* assumption that no command is executed late).                           *)
TargetNeverGoesBack ==
    \A k \in Keys : store[k] # 0 =>
        \A i \in applied :
            jobs[i].key = k => jobs[i].value <= jobs[store[k]].value

(* The process uses the Writer as Writer allows: nothing is sent after its *)
(* shutdown, because whoever sends has a reference that prevents it.       *)
WriterUsedAsSpecified == W!Spec

(* If shutdown could stop the writer thread, no job is lost at exit: none  *)
(* was sent after the thread's last look at the channel.                   *)
JoinedExitLosesNothing ==
    (main \in {"ending", "dropping"} /\ handle = "closing") =>
        W!Attempted = Len(jobs)

(* serve's return leads to the end of the process (main does not wait for  *)
(* itself, nor for its connections) unless the target hangs for good, or a *)
(* source blocks a thread for good.                                        *)
StopLeadsToExit ==
    (<>[](health # "hung") /\ [](blocking => <>~blocking)) =>
        (main = "stopped" ~> main \in {"exited", "start"})

(* main.rs:142, "Shutdown the service to ensure Writer threads are         *)
(* properly joined": when shutdown has returned the thread has ended.      *)
ExitJoinsWriter == main = "ending" => wpc = "done"

(* server.rs:66, "It will run until a shutdown signal (SIGINT or SIGTERM)  *)
(* is received": a signal ends serve.                                      *)
SignalStopsServe == (received # {}) ~> ~(Parked \/ main = "busy")
=============================================================================
