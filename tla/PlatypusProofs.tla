---------------------------- MODULE PlatypusProofs ----------------------------
(***************************************************************************)
(* The composition keeps each component's specification, and what the two  *)
(* components promise together is that the target never goes back.         *)
(***************************************************************************)
EXTENDS Platypus, WriteJobsProofs

SP == INSTANCE ServiceProofs
WP == INSTANCE WriterProofs

-----------------------------------------------------------------------------
(* The theorems are about SP's and WP's definitions, which are those of S  *)
(* and W under another name.                                               *)

LEMMA ServiceSizes == SP!ServiceAssumption
BY PlatypusAssumption
DEF SP!ServiceAssumption, S!Task, SP!Task, S!Values, SP!Values

LEMMA WriterBounds == WP!WriterAssumption
BY PlatypusAssumption DEF WP!WriterAssumption

LEMMA SameCommands == S!Commands = SP!Commands
BY DEF S!Commands, SP!Commands, S!BoundedSeq, SP!BoundedSeq, S!SeqOf, SP!SeqOf

LEMMA SameOutstanding == S!Outstanding = SP!Outstanding
BY DEF S!Outstanding, SP!Outstanding, S!SumFunction, SP!SumFunction,
       S!SumFunctionOnSet, SP!SumFunctionOnSet, S!FoldFunctionOnSet,
       SP!FoldFunctionOnSet, S!MapThenFoldSet, SP!MapThenFoldSet

LEMMA SameReceive ==
    ASSUME NEW c \in Conns, NEW keys
    PROVE  S!Receive(c, keys) => SP!Receive(c, keys)
BY SameOutstanding
DEF S!Receive, SP!Receive, S!At, SP!At, S!NoItems, SP!NoItems, S!NoValue,
    SP!NoValue

LEMMA SameCall ==
    ASSUME NEW c \in Conns
    PROVE  S!Call(c) => SP!Call(c)
BY DEF S!Call, SP!Call, S!At, SP!At, S!HasLock, SP!HasLock, S!Key, SP!Key,
       S!HasValue, SP!HasValue, S!NoValue, SP!NoValue,
       S!Acquire, SP!Acquire, S!Quit, SP!Quit, S!LookupHit, SP!LookupHit,
       S!LookupMiss, SP!LookupMiss, S!LookupNoRoute, SP!LookupNoRoute,
       S!Insert, SP!Insert, S!Answer, SP!Answer

LEMMA SameConnection ==
    ASSUME NEW c \in Conns
    PROVE  /\ S!Accept(c) => SP!Accept(c)
           /\ S!Leave(c) => SP!Leave(c)
           /\ S!Connection(c) => SP!Connection(c)
<1>1. S!Accept(c) => SP!Accept(c)
  BY DEF S!Accept, SP!Accept, S!At, SP!At
<1>2. S!Leave(c) => SP!Leave(c)
  BY DEF S!Leave, SP!Leave
<1>3. S!Hangup(c) => SP!Hangup(c)
  BY DEF S!Hangup, SP!Hangup, S!At, SP!At
<1>4. S!SourceAnswer(c) => SP!SourceAnswer(c)
  BY DEF S!SourceAnswer, SP!SourceAnswer, S!At, SP!At, S!Key, SP!Key,
         S!NoValue, SP!NoValue
<1>5. S!Timeout(c) => SP!Timeout(c)
  BY DEF S!Timeout, SP!Timeout, S!InCall, SP!InCall, S!Key, SP!Key,
         S!NoItems, SP!NoItems, S!NoValue, SP!NoValue
<1>6. S!Reply(c) => SP!Reply(c)
  BY DEF S!Reply, SP!Reply, S!At, SP!At, S!NoValue, SP!NoValue
<1> QED
  BY <1>1, <1>2, <1>3, <1>4, <1>5, <1>6, SameCall, SameReceive, SameCommands
  DEF S!Connection, SP!Connection

LEMMA SameWeight ==
    ASSUME NEW cached
    PROVE  S!Weight(cached) = SP!Weight(cached)
BY DEF S!Weight, SP!Weight, S!NoValue, SP!NoValue, S!Cardinality,
       SP!Cardinality

LEMMA SameWorld == S!World => SP!World
BY SameWeight
DEF S!World, SP!World, S!Maintain, SP!Maintain, S!Tick, SP!Tick,
    S!SourceChange, SP!SourceChange, S!callVars, SP!callVars

LEMMA SameRestart == S!Restart => SP!Restart
BY DEF S!Restart, SP!Restart, S!NoItems, SP!NoItems, S!NoValue, SP!NoValue

LEMMA SameInit == S!Init => SP!Init
BY DEF S!Init, SP!Init, S!NoItems, SP!NoItems, S!NoValue, SP!NoValue

LEMMA SameServiceStep == [S!Next]_(S!serviceVars) => [SP!Next]_(SP!serviceVars)
BY SameConnection, SameWorld, SameRestart
DEF S!Next, SP!Next, S!serviceVars, SP!serviceVars, S!callVars, SP!callVars

LEMMA SameThread == W!Thread => WP!Thread
BY DEF W!Thread, WP!Thread, W!Start, WP!Start, W!CheckShutdown,
       WP!CheckShutdown, W!Receive, WP!Receive, W!ReceiveNothing,
       WP!ReceiveNothing, W!Drain, WP!Drain, W!Dial, WP!Dial,
       W!targetVars, WP!targetVars

LEMMA SameApply == W!Apply => WP!Apply
BY DEF W!Apply, WP!Apply, W!D!StoreAfter, WP!D!StoreAfter, W!D!NoValue,
       WP!D!NoValue

LEMMA SameProcess == W!Process => WP!Process
BY SameApply
DEF W!Process, WP!Process, W!Written, WP!Written, W!IoError, WP!IoError,
    W!Rejected, WP!Rejected, W!NotConnected, WP!NotConnected, W!Processing,
    WP!Processing, W!Finish, WP!Finish, W!Dial, WP!Dial, W!CountLoss,
    WP!CountLoss, W!targetVars, WP!targetVars

LEMMA SameTarget == W!Target => WP!Target
BY DEF W!Target, WP!Target, W!Fault, WP!Fault, W!Expire, WP!Expire,
       W!threadVars, WP!threadVars

LEMMA SameWriterRestart == W!Restart => WP!Restart
BY SameApply DEF W!Restart, WP!Restart, W!Processing, WP!Processing

LEMMA SameWriterStep == [W!Next]_(W!writerVars) => [WP!Next]_(WP!writerVars)
<1>1. ASSUME NEW job \in WriteJob, W!Send(job) PROVE WP!Send(job)
  BY <1>1 DEF W!Send, WP!Send, W!threadVars, WP!threadVars, W!targetVars,
              WP!targetVars
<1>2. W!WriteJob = WriteJob /\ WP!WriteJob = WriteJob
  BY DEF W!WriteJob, WP!WriteJob, WriteJob, W!Values, WP!Values, Values
<1>3. W!Shutdown => WP!Shutdown
  BY DEF W!Shutdown, WP!Shutdown, W!threadVars, WP!threadVars, W!targetVars,
         WP!targetVars
<1>4. W!DropWriter => WP!DropWriter
  BY DEF W!DropWriter, WP!DropWriter, W!threadVars, WP!threadVars,
         W!targetVars, WP!targetVars
<1> QED
  BY <1>1, <1>2, <1>3, <1>4, SameThread, SameProcess, SameTarget,
     SameWriterRestart
  DEF W!Next, WP!Next, W!writerVars, WP!writerVars, W!threadVars,
      WP!threadVars, W!targetVars, WP!targetVars
-----------------------------------------------------------------------------
(* The answering side.                                                     *)

LEMMA StepIsService == [Next]_vars => [S!Next]_(S!serviceVars)
<1> SUFFICES ASSUME [Next]_vars PROVE [S!Next]_(S!serviceVars)
  OBVIOUS
<1> USE DEF ownServiceVars, S!serviceVars, S!callVars
<1>1. CASE MainStep
  BY <1>1 DEF MainStep, Build, Bind, IntervalTick, Loop, Stop, ShutdownService,
              JoinWriter, DropRuntime, DropLastOwner, Exit, W!Shutdown,
              W!DropWriter, mainVars
<1>2. CASE ThreadStep
  <2>1. jobs' = jobs
    BY <1>2 DEF ThreadStep, W!Thread, W!Start, W!CheckShutdown, W!Receive,
       W!ReceiveNothing, W!Drain, W!Process, W!Written, W!IoError, W!Rejected,
       W!NotConnected
  <2> QED BY <1>2, <2>1 DEF ThreadStep
<1>3. CASE WorldStep
  <2>1. W!Target => jobs' = jobs
    BY DEF W!Target, W!Fault, W!Expire
  <2> QED BY <1>3, <2>1 DEF WorldStep, S!Next
<1>4. CASE Restart
  BY <1>4 DEF Restart, S!Next
<1>5. ASSUME NEW s \in Signals, Signal(s) \/ Catch(s) \/ SignalKills(s)
      PROVE  UNCHANGED S!serviceVars
  BY <1>5 DEF Signal, Catch, SignalKills
<1>6. ASSUME NEW c \in Conns,
             \/ AcceptConnection(c) \/ LeaveConnection(c)
             \/ SpinConnection(c) \/ ServeConnection(c)
      PROVE  [S!Next]_(S!serviceVars)
  BY <1>6 DEF AcceptConnection, LeaveConnection, SpinConnection,
              ServeConnection, S!Next
<1>7. CASE BeginBlocking \/ EndBlocking \/ UNCHANGED vars
  BY <1>7 DEF BeginBlocking, EndBlocking, vars
<1> QED BY <1>1, <1>2, <1>3, <1>4, <1>5, <1>6, <1>7 DEF Next

(* Whatever the process does around it, the answering side does what       *)
(* Service says (Server::serve, main).                                     *)
THEOREM ServiceHolds == Spec => S!Spec
<1>1. Init => S!Init
  BY DEF Init
<1> QED BY <1>1, StepIsService, PTL DEF Spec, S!Spec

LEMMA IsService == Spec => SP!Spec
BY ServiceHolds, SameInit, SameServiceStep, PTL DEF S!Spec, SP!Spec

LEMMA ServiceTypes == Spec => []SP!TypeOK
<1>1. SP!Spec => [](SP!TypeOK /\ SP!Inv)
  BY ServiceSizes, VersionAssumption, SP!InvHolds
<1> QED BY <1>1, IsService, PTL

-----------------------------------------------------------------------------
(* The writer is shut down by its only owner, so nobody can send any more: *)
(* no connection is left, and none is accepted.                            *)

OnlyOwnerShuts ==
    /\ handle \in {"open", "closing", "dropped"}
    /\ handle = "closing" =>
          /\ main \in {"joining", "ending", "dropping", "exited"}
          /\ \A c \in Conns : pc[c] = "closed"
    /\ handle = "dropped" => main \in {"dropping", "exited"}

LEMMA OwnerStep ==
    ASSUME OnlyOwnerShuts, [Next]_vars
    PROVE  OnlyOwnerShuts'
<1> USE DEF OnlyOwnerShuts, ownServiceVars, ownWriterVars, mainVars
<1>1. CASE MainStep
  <2>1. CASE ShutdownService
    BY <2>1 DEF ShutdownService, SoleOwner, W!Shutdown, W!threadVars,
                W!targetVars
  <2>2. CASE DropLastOwner
    BY <2>2 DEF DropLastOwner, W!DropWriter
  <2>3. CASE \/ Build \/ Bind \/ IntervalTick \/ Loop \/ Stop \/ JoinWriter
             \/ DropRuntime \/ Exit
    BY <2>3 DEF Build, Bind, IntervalTick, Loop, Stop, JoinWriter, DropRuntime,
                Exit, Parked
  <2> QED BY <1>1, <2>1, <2>2, <2>3 DEF MainStep
<1>2. CASE ThreadStep
  <2>1. handle' = handle
    BY <1>2 DEF ThreadStep, W!Thread, W!Start, W!CheckShutdown, W!Receive,
       W!ReceiveNothing, W!Drain, W!Process, W!Written, W!IoError, W!Rejected,
       W!NotConnected
  <2> QED BY <1>2, <2>1 DEF ThreadStep
<1>3. CASE WorldStep
  <2>1. W!Target => handle' = handle
    BY DEF W!Target, W!Fault, W!Expire
  <2>2. S!World => pc' = pc
    BY DEF S!World, S!Maintain, S!Tick, S!SourceChange, S!callVars
  <2> QED BY <1>3, <2>1, <2>2 DEF WorldStep
<1>4. CASE Restart
  BY <1>4 DEF Restart, W!Restart
<1>5. ASSUME NEW s \in Signals, Signal(s) \/ Catch(s) \/ SignalKills(s)
      PROVE  OnlyOwnerShuts'
  BY <1>5 DEF Signal, Catch, SignalKills
<1>6. ASSUME NEW c \in Conns, AcceptConnection(c) \/ SpinConnection(c)
      PROVE  OnlyOwnerShuts'
  BY <1>6 DEF AcceptConnection, SpinConnection, Parked
<1>7. ASSUME NEW c \in Conns, LeaveConnection(c) \/ ServeConnection(c)
      PROVE  OnlyOwnerShuts'
  <2>1. handle' = handle /\ pc[c] # "closed"
    BY <1>7 DEF LeaveConnection, ServeConnection, S!Leave, S!Connection,
       S!Receive, S!Hangup, S!Call, S!Acquire, S!Quit, S!LookupHit,
       S!LookupMiss, S!LookupNoRoute, S!Insert, S!Answer, S!SourceAnswer,
       S!Timeout, S!Reply, S!At, S!InCall
  <2>2. handle = "open"
    BY <1>7, <2>1 DEF LeaveConnection, ServeConnection, Running
  <2> QED BY <2>1, <2>2
<1>8. CASE BeginBlocking \/ EndBlocking \/ UNCHANGED vars
  BY <1>8 DEF BeginBlocking, EndBlocking, vars
<1> QED
  BY <1>1, <1>2, <1>3, <1>4, <1>5, <1>6, <1>7, <1>8 DEF Next

LEMMA OwnerAlways == Spec => []OnlyOwnerShuts
<1>1. Init => OnlyOwnerShuts
  BY DEF Init, W!Init, OnlyOwnerShuts
<1> QED BY <1>1, OwnerStep, PTL DEF Spec

(* A fetch that ends is a send, which an open Writer accepts.              *)
LEMMA AnswerIsSend ==
    ASSUME SP!TypeOK, OnlyOwnerShuts, Running, UNCHANGED ownWriterVars,
           NEW c \in Conns, S!SourceAnswer(c)
    PROVE  \E job \in WriteJob : W!Send(job)
<1>1. pc[c] = "fetch"
  BY DEF S!SourceAnswer, S!At
<1>2. handle = "open"
  BY <1>1 DEF OnlyOwnerShuts, Running
<1>3. todo[c] # <<>> /\ todo[c] \in Seq(Keys)
  BY <1>1 DEF SP!TypeOK
<1>4. S!Key(c) \in Keys
  BY <1>3, HeadTailProperties DEF S!Key
<1>5. version[S!Key(c)] \in Values /\ task[c].value \in Values
  BY <1>4 DEF SP!TypeOK, SP!Task, SP!Values, Values
<1>6. PICK v \in (task[c].value .. version[S!Key(c)]) \cup {S!NoValue} :
          jobs' = Append(jobs, [key |-> S!Key(c), value |-> v])
  BY DEF S!SourceAnswer
<1>7. v \in Values
  BY <1>5, <1>6, VersionAssumption DEF Values, S!NoValue
<1>8. [key |-> S!Key(c), value |-> v] \in WriteJob
  BY <1>4, <1>7 DEF WriteJob
<1>9. W!Send([key |-> S!Key(c), value |-> v])
  BY <1>2, <1>6 DEF S!SourceAnswer, W!Send, W!threadVars, W!targetVars,
                    ownWriterVars
<1> QED BY <1>8, <1>9

LEMMA StepIsWriter ==
    ASSUME SP!TypeOK, OnlyOwnerShuts, [Next]_vars
    PROVE  [W!Next]_(W!writerVars)
<1> USE DEF ownWriterVars, W!writerVars, W!threadVars, W!targetVars
<1>0. W!WriteJob = WriteJob
  BY DEF W!WriteJob, WriteJob, W!Values, Values
<1>1. CASE MainStep
  BY <1>1 DEF MainStep, Build, Bind, IntervalTick, Loop, Stop, ShutdownService,
              JoinWriter, DropRuntime, DropLastOwner, Exit, W!Next
<1>2. CASE ThreadStep
  BY <1>2 DEF ThreadStep, W!Next
<1>3. CASE WorldStep
  <2>1. S!World => jobs' = jobs
    BY DEF S!World, S!Maintain, S!Tick, S!SourceChange
  <2> QED BY <1>3, <2>1 DEF WorldStep, W!Next
<1>4. CASE Restart
  BY <1>4 DEF Restart, W!Next
<1>5. ASSUME NEW s \in Signals, Signal(s) \/ Catch(s) \/ SignalKills(s)
      PROVE  UNCHANGED W!writerVars
  BY <1>5 DEF Signal, Catch, SignalKills
<1>6. ASSUME NEW c \in Conns,
             AcceptConnection(c) \/ LeaveConnection(c) \/ SpinConnection(c)
      PROVE  UNCHANGED W!writerVars
  BY <1>6 DEF AcceptConnection, LeaveConnection, SpinConnection, S!Accept,
              S!Leave
<1>7. ASSUME NEW c \in Conns, ServeConnection(c)
      PROVE  [W!Next]_(W!writerVars)
  <2>1. CASE S!SourceAnswer(c)
    BY <1>0, <1>7, <2>1, AnswerIsSend DEF ServeConnection, W!Next
  <2>2. CASE ~S!SourceAnswer(c)
    BY <1>7, <2>2 DEF ServeConnection, S!Connection,
       S!Receive, S!Hangup, S!Call, S!Acquire, S!Quit, S!LookupHit,
       S!LookupMiss, S!LookupNoRoute, S!Insert, S!Answer, S!Timeout, S!Reply
  <2> QED BY <2>1, <2>2
<1>8. CASE BeginBlocking \/ EndBlocking \/ UNCHANGED vars
  BY <1>8 DEF BeginBlocking, EndBlocking, vars
<1> QED
  BY <1>1, <1>2, <1>3, <1>4, <1>5, <1>6, <1>7, <1>8 DEF Next

(* The process uses the Writer as Writer allows (Service::shutdown).       *)
THEOREM WriterHolds == Spec => WriterUsedAsSpecified
<1>1. Init => W!Init
  BY DEF Init
<1> QED
  BY <1>1, StepIsWriter, ServiceTypes, OwnerAlways, PTL
  DEF Spec, W!Spec, WriterUsedAsSpecified

LEMMA IsWriter == Spec => WP!Spec
<1>1. W!Init => WP!Init
  BY DEF W!Init, WP!Init
<1> QED
  BY <1>1, WriterHolds, SameWriterStep, PTL
  DEF W!Spec, WP!Spec, WriterUsedAsSpecified

LEMMA WriterTypes == Spec => []WP!TypeOK
<1>1. WP!Spec => []WP!TypeOK
  BY WriterBounds, VersionAssumption, WP!TypeCorrect
<1> QED BY <1>1, IsWriter, PTL
-----------------------------------------------------------------------------
(* What the components' theorems say together.                             *)

LEMMA JobsInOrder == Spec => []SP!JobsNeverGoBack
<1>1. SP!Spec => []SP!JobsNeverGoBack
  BY ServiceSizes, VersionAssumption, SP!JobsNeverGoBackHolds
<1> QED BY <1>1, IsService, PTL

LEMMA LastApplied == Spec => []WP!TargetIsLastApplied
<1>1. WP!Spec => []WP!TargetIsLastApplied
  BY WriterBounds, VersionAssumption, WP!TargetIsLastAppliedHolds
<1> QED BY <1>1, IsWriter, PTL

(* An item in the target (Writer::process) is as new as anything that has  *)
(* been there for its key: jobs are sent in order of age, and the item is  *)
(* from the last that took effect.                                         *)
THEOREM TargetNeverGoesBackHolds == Spec => []TargetNeverGoesBack
<1>1. ASSUME SP!JobsNeverGoBack, WP!TargetIsLastApplied, WP!TypeOK
      PROVE  TargetNeverGoesBack
  <2> SUFFICES ASSUME NEW k \in Keys, store[k] # 0,
                      NEW i \in applied, jobs[i].key = k
               PROVE  jobs[i].value <= jobs[store[k]].value
    BY DEF TargetNeverGoesBack
  <2>1. /\ store[k] \in applied /\ jobs[store[k]].key = k
        /\ jobs[store[k]].value # 0 /\ i <= store[k]
    BY <1>1 DEF WP!TargetIsLastApplied, WP!D!StoreIsLastApplied, WP!D!NoValue
  <2>2. JobsTypeOK
    BY <1>1 DEF WP!TypeOK, WP!JobsTypeOK, JobsTypeOK, WP!WriteJob, WriteJob,
                WP!Values, Values
  <2>3. taken \in Nat /\ taken <= Len(jobs) /\ Len(jobs) \in Nat
    BY <1>1, <2>2, LenProperties DEF WP!TypeOK, JobsTypeOK
  <2>4. applied \subseteq 1 .. Len(jobs)
    <3>1. WP!Attempted \in Int /\ WP!Attempted <= Len(jobs)
      BY <2>3 DEF WP!Attempted
    <3>2. applied \subseteq 1 .. WP!Attempted
      BY <1>1 DEF WP!TypeOK
    <3> QED BY <2>3, <3>1, <3>2
  <2>5. i \in 1 .. Len(jobs) /\ store[k] \in 1 .. Len(jobs)
    BY <2>1, <2>4
  <2>6. CASE i = store[k]
    <3>1. jobs[i].value \in Nat
      BY <2>2, <2>5, JobFields, ValuesAreNat
    <3> QED BY <2>6, <3>1
  <2>7. CASE i < store[k]
    BY <1>1, <2>1, <2>5, <2>7
    DEF SP!JobsNeverGoBack, SP!F!JobsNeverGoBack, SP!F!NoValue
  <2> QED BY <2>1, <2>5, <2>6, <2>7
<1> QED BY <1>1, JobsInOrder, LastApplied, WriterTypes, PTL

(* Once main has joined the thread it stays at its end.                    *)
JoinedIsDone ==
    main \in {"ending", "dropping"} /\ handle = "closing" => wpc = "done"

LEMMA JoinedStep ==
    ASSUME OnlyOwnerShuts, JoinedIsDone, [Next]_vars
    PROVE  JoinedIsDone'
<1> USE DEF JoinedIsDone, ownServiceVars, ownWriterVars, mainVars
<1>1. CASE MainStep
  BY <1>1 DEF MainStep, Build, Bind, IntervalTick, Loop, Stop, ShutdownService,
              JoinWriter, DropRuntime, DropLastOwner, Exit, W!DropWriter,
              OnlyOwnerShuts
<1>2. CASE ThreadStep
  <2>1. handle' = handle /\ wpc # "done"
    BY <1>2 DEF ThreadStep, W!Thread, W!Start, W!CheckShutdown, W!Receive,
       W!ReceiveNothing, W!Drain, W!Process, W!Written, W!IoError, W!Rejected,
       W!NotConnected, W!Processing
  <2> QED BY <1>2, <2>1 DEF ThreadStep
<1>3. CASE WorldStep
  <2>1. W!Target => UNCHANGED <<handle, wpc>>
    BY DEF W!Target, W!Fault, W!Expire, W!threadVars
  <2> QED BY <1>3, <2>1 DEF WorldStep
<1>4. CASE Restart
  BY <1>4 DEF Restart
<1>5. ASSUME NEW s \in Signals, Signal(s) \/ Catch(s) \/ SignalKills(s)
      PROVE  JoinedIsDone'
  BY <1>5 DEF Signal, Catch, SignalKills
<1>6. ASSUME NEW c \in Conns,
             \/ AcceptConnection(c) \/ LeaveConnection(c)
             \/ SpinConnection(c) \/ ServeConnection(c)
      PROVE  JoinedIsDone'
  BY <1>6 DEF AcceptConnection, LeaveConnection, SpinConnection,
              ServeConnection
<1>7. CASE BeginBlocking \/ EndBlocking \/ UNCHANGED vars
  BY <1>7 DEF BeginBlocking, EndBlocking, vars
<1> QED BY <1>1, <1>2, <1>3, <1>4, <1>5, <1>6, <1>7 DEF Next

(* If main has joined the thread, every job sent was attempted             *)
(* (Service::shutdown, the drain of Writer::new).                          *)
THEOREM JoinedExitLosesNothingHolds == Spec => []JoinedExitLosesNothing
<1>1. WP!Spec => []WP!DoneMeansDrained
  BY WriterBounds, VersionAssumption, WP!DoneMeansDrainedHolds
<1>2. Init => JoinedIsDone
  BY DEF Init, JoinedIsDone
<1>3. JoinedIsDone /\ WP!DoneMeansDrained => JoinedExitLosesNothing
  BY DEF JoinedIsDone, WP!DoneMeansDrained, JoinedExitLosesNothing,
         W!Attempted, W!Processing
<1> QED BY <1>1, <1>2, <1>3, IsWriter, OwnerAlways, JoinedStep, PTL DEF Spec

-----------------------------------------------------------------------------
(* Types: those of the two components, and of main and its signals.        *)

MainTypeOK ==
    /\ main \in {"start", "built", "select", "woken", "busy", "stopped",
                "joining", "ending", "dropping", "exited"}
    /\ woken \subseteq {c \in Conns : pc[c] \in {"idle", "hungup"}}
    /\ received \subseteq caught
    /\ caught \subseteq Signals
    /\ blocking \in BOOLEAN

LEMMA MainTypeStep ==
    ASSUME SP!TypeOK, MainTypeOK, [Next]_vars
    PROVE  MainTypeOK'
<1> USE DEF MainTypeOK, ownServiceVars, mainVars
<1>1. CASE MainStep
  BY <1>1 DEF MainStep, Build, Bind, IntervalTick, Loop, Stop, ShutdownService,
              JoinWriter, DropRuntime, DropLastOwner, Exit
<1>2. CASE ThreadStep
  BY <1>2 DEF ThreadStep
<1>3. CASE WorldStep
  <2>1. S!World => pc' = pc
    BY DEF S!World, S!Maintain, S!Tick, S!SourceChange, S!callVars
  <2> QED BY <1>3, <2>1 DEF WorldStep
<1>4. CASE Restart
  BY <1>4 DEF Restart
<1>5. ASSUME NEW s \in Signals, Signal(s) \/ Catch(s) \/ SignalKills(s)
      PROVE  MainTypeOK'
  BY <1>5 DEF Signal, Catch, SignalKills
<1>6. ASSUME NEW c \in Conns,
             AcceptConnection(c) \/ LeaveConnection(c) \/ ServeConnection(c)
      PROVE  MainTypeOK'
  <2>1. \A d \in Conns : d # c => pc'[d] = pc[d]
    BY <1>6 DEF AcceptConnection, LeaveConnection, ServeConnection, S!Accept,
       S!Leave, S!Connection, S!Receive, S!Hangup, S!Call, S!Acquire, S!Quit,
       S!LookupHit, S!LookupMiss, S!LookupNoRoute, S!Insert, S!Answer,
       S!SourceAnswer, S!Timeout, S!Reply, S!At, SP!TypeOK
  <2>2. c \notin woken' /\ woken' \subseteq woken
    BY <1>6 DEF AcceptConnection, LeaveConnection, ServeConnection, S!Accept,
                S!At
  <2>3. UNCHANGED <<caught, received, blocking>> /\ main' \in {main, "busy"}
    BY <1>6 DEF AcceptConnection, LeaveConnection, ServeConnection
  <2> QED BY <2>1, <2>2, <2>3
<1>7. ASSUME NEW c \in Conns, SpinConnection(c)
      PROVE  MainTypeOK'
  BY <1>7 DEF SpinConnection
<1>8. CASE BeginBlocking \/ EndBlocking \/ UNCHANGED vars
  BY <1>8 DEF BeginBlocking, EndBlocking, vars
<1> QED
  BY <1>1, <1>2, <1>3, <1>4, <1>5, <1>6, <1>7, <1>8 DEF Next

THEOREM TypeCorrect == Spec => []TypeOK
<1>1. Init => MainTypeOK
  BY DEF Init, MainTypeOK
<1>2. SP!TypeOK => S!TypeOK
  BY DEF SP!TypeOK, S!TypeOK, SP!JobsTypeOK, S!JobsTypeOK, SP!WriteJob,
         S!WriteJob, SP!Values, S!Values, SP!Task, S!Task, SP!InCall, S!InCall
<1>3. WP!TypeOK => W!TypeOK
  BY DEF WP!TypeOK, W!TypeOK, WP!JobsTypeOK, W!JobsTypeOK, WP!WriteJob,
         W!WriteJob, WP!Values, W!Values, WP!Processing, W!Processing,
         WP!Attempted, W!Attempted
<1>4. S!TypeOK /\ W!TypeOK /\ MainTypeOK => TypeOK
  BY DEF TypeOK, MainTypeOK
<1> QED
  BY <1>1, <1>2, <1>3, <1>4, ServiceTypes, WriterTypes, MainTypeStep, PTL
  DEF Spec
=============================================================================
