---------------------------- MODULE ServiceProofs -----------------------------
(***************************************************************************)
(* Service keeps its promises for any number of keys, connections,         *)
(* versions and jobs, and whatever the cache evicts.  Everything rests on  *)
(* the mutex: whoever is between its lookup and the end of its reply is    *)
(* alone there.                                                            *)
(***************************************************************************)
EXTENDS Service, WriteJobsProofs

LEMMA CommandsAreSeqs == Commands \subseteq Seq(Keys)
BY ServiceAssumption DEF Commands, BoundedSeq, SeqOf

LEMMA KeyType ==
    ASSUME TypeOK, NEW c \in Conns, todo[c] # <<>>
    PROVE  Key(c) \in Keys /\ Tail(todo[c]) \in Seq(Keys)
<1>1. todo[c] \in Seq(Keys)
  BY DEF TypeOK
<1> QED BY <1>1, HeadTailProperties DEF Key

-----------------------------------------------------------------------------
(* Type correctness.                                                       *)

LEMMA TypeInit == Init => TypeOK
<1> SUFFICES ASSUME Init PROVE TypeOK
  OBVIOUS
<1>1. <<>> \in Seq(WriteJob) /\ <<>> \in Seq(Conns) /\ <<>> \in Seq(Keys)
  BY EmptySeq
<1>2. 1 \in Values /\ NoValue \in Values /\ 0 \in 0 .. MaxTime
  BY VersionAssumption, ServiceAssumption DEF Values, NoValue
<1> QED BY <1>1, <1>2 DEF Init, TypeOK, JobsTypeOK, NoItems, Task, InCall

LEMMA TypeConnection ==
    ASSUME TypeOK, CallerHasLock,
           NEW c \in Conns, Accept(c) \/ Leave(c) \/ Connection(c)
    PROVE  TypeOK'
<1> USE DEF At, InCall
<1>1. CASE Accept(c)
  BY <1>1 DEF Accept, TypeOK, JobsTypeOK
<1>2. CASE Leave(c)
  BY <1>2 DEF Leave, TypeOK, JobsTypeOK
<1>3. ASSUME NEW keys \in Commands, Receive(c, keys) PROVE TypeOK'
  <2>1. NoItems \in [Keys -> Values]
    BY ValuesAreNat DEF NoItems
  <2>2. lockq' \in Seq(Conns)
    BY <1>3, AppendProperties DEF Receive, TypeOK
  <2> QED BY <1>3, <2>1, <2>2, CommandsAreSeqs DEF Receive, TypeOK, JobsTypeOK
<1>4. CASE Hangup(c)
  BY <1>4 DEF Hangup, TypeOK, JobsTypeOK
<1>5. CASE Acquire(c)
  BY <1>5 DEF Acquire, TypeOK, JobsTypeOK
<1>6. CASE Quit(c)
  <2>1. lockq' \in Seq(Conns)
    BY <1>6, HeadTailProperties DEF Quit, HasLock, TypeOK
  <2> QED BY <1>6, <2>1 DEF Quit, TypeOK, JobsTypeOK
<1>7. CASE LookupHit(c)
  <2>1. task'[c] \in Task
    BY <1>7, KeyType DEF LookupHit, HasValue, TypeOK, Task
  <2> QED BY <1>7, <2>1 DEF LookupHit, TypeOK, JobsTypeOK
<1>8. CASE LookupMiss(c)
  <2>1. task'[c] \in Task
    BY <1>8, KeyType DEF LookupMiss, TypeOK, Task
  <2> QED BY <1>8, <2>1 DEF LookupMiss, TypeOK, JobsTypeOK
<1>9. CASE LookupNoRoute(c)
  BY <1>9, KeyType DEF LookupNoRoute, TypeOK, JobsTypeOK
<1>10. CASE Insert(c)
  <2>1. Key(c) \in Keys /\ Tail(todo[c]) \in Seq(Keys)
    BY <1>10, KeyType DEF Insert, TypeOK
  <2>2. task[c].value \in Values
    BY DEF TypeOK, Task
  <2>3. items' \in [Conns -> [Keys -> Values]]
    BY <1>10, <2>1, <2>2 DEF Insert, TypeOK
  <2> QED BY <1>10, <2>1, <2>3 DEF Insert, TypeOK, JobsTypeOK
<1>11. CASE Answer(c)
  BY <1>11 DEF Answer, TypeOK, JobsTypeOK
<1>12. CASE SourceAnswer(c)
  <2>1. Key(c) \in Keys
    BY <1>12, KeyType DEF SourceAnswer, TypeOK
  <2>2. PICK v \in (task[c].value .. version[Key(c)]) \cup {NoValue} :
            /\ jobs' = Append(jobs, [key |-> Key(c), value |-> v])
            /\ task' = [task EXCEPT ![c].value = v]
    BY <1>12 DEF SourceAnswer
  <2>3. v \in Values
    BY <2>1, <2>2, VersionAssumption DEF TypeOK, Task, Values, NoValue
  <2>4. JobsTypeOK'
    BY <2>1, <2>2, <2>3, SendProperties DEF TypeOK, WriteJob
  <2>5. task' \in [Conns -> Task]
    BY <2>2, <2>3 DEF TypeOK, Task
  <2> QED BY <1>12, <2>4, <2>5 DEF SourceAnswer, TypeOK
<1>13. CASE Timeout(c)
  <2>1. NoItems \in [Keys -> Values] /\ <<>> \in Seq(Keys)
    BY ValuesAreNat, EmptySeq DEF NoItems
  <2>2. tasks' \in [Keys -> Task \cup {NoTask}]
    BY <1>13, KeyType DEF Timeout, TypeOK
  <2> QED BY <1>13, <2>1, <2>2 DEF Timeout, TypeOK, JobsTypeOK
<1>14. CASE Reply(c)
  <2>1. served' \in [Keys -> Values]
    BY <1>14 DEF Reply, TypeOK
  <2>2. lockq' \in Seq(Conns)
    BY <1>14, HeadTailProperties DEF Reply, CallerHasLock, HasLock, TypeOK
  <2> QED BY <1>14, <2>1, <2>2 DEF Reply, TypeOK, JobsTypeOK
<1> QED
  BY <1>1, <1>2, <1>3, <1>4, <1>5, <1>6, <1>7, <1>8, <1>9, <1>10, <1>11,
     <1>12, <1>13, <1>14 DEF Connection, Call

LEMMA TypeStep == TypeOK /\ CallerHasLock /\ [Next]_serviceVars => TypeOK'
<1> SUFFICES ASSUME TypeOK, CallerHasLock, [Next]_serviceVars PROVE TypeOK'
  OBVIOUS
<1>1. ASSUME NEW c \in Conns, Accept(c) \/ Leave(c) \/ Connection(c)
      PROVE  TypeOK'
  BY <1>1, TypeConnection
<1>2. ASSUME NEW k \in Keys, SourceChange(k) PROVE TypeOK'
  BY <1>2, VersionAssumption
  DEF SourceChange, callVars, TypeOK, JobsTypeOK, Values
<1>3. CASE Maintain
  BY <1>3 DEF Maintain, callVars, TypeOK, JobsTypeOK
<1>4. CASE Tick
  <2>1. now' \in 0 .. MaxTime
    BY <1>4, ServiceAssumption DEF Tick, TypeOK
  <2>2. UNCHANGED <<jobs, version, tasks, callVars, served>>
    BY <1>4 DEF Tick
  <2> QED BY <2>1, <2>2 DEF callVars, TypeOK, JobsTypeOK
<1>5. CASE UNCHANGED serviceVars
  BY <1>5 DEF serviceVars, callVars, TypeOK, JobsTypeOK
<1>6. CASE Restart
  <2>1. NoValue \in Values /\ 0 \in 0 .. MaxTime
    BY VersionAssumption, ServiceAssumption DEF Values, NoValue
  <2>2. [value |-> NoValue, touched |-> 0] \in Task
    BY <2>1 DEF Task
  <2>3. lockq' \in Seq(Conns) /\ todo' \in [Conns -> Seq(Keys)]
    BY <1>6, EmptySeq DEF Restart
  <2> QED BY <1>6, <2>1, <2>2, <2>3 DEF Restart, TypeOK, JobsTypeOK, NoItems
<1> QED BY <1>1, <1>2, <1>3, <1>4, <1>5, <1>6 DEF Next, World

-----------------------------------------------------------------------------
(* The mutex.                                                              *)

LEMMA LockStep ==
    ASSUME TypeOK, CallerHasLock, [Next]_serviceVars
    PROVE  CallerHasLock'
<1> USE DEF At, InCall
<1>1. ASSUME NEW c \in Conns, NEW keys \in Commands, Receive(c, keys)
      PROVE  CallerHasLock'
  <2>1. lockq # <<>> => lockq' # <<>> /\ Head(lockq') = Head(lockq)
    BY <1>1, AppendProperties, LenProperties, EmptySeq DEF Receive, TypeOK
  <2> QED BY <1>1, <2>1 DEF Receive, CallerHasLock, HasLock, TypeOK
<1>2. ASSUME NEW c \in Conns, Quit(c) \/ Reply(c)
      PROVE  CallerHasLock'
  <2>1. HasLock(c)
    BY <1>2 DEF Quit, Reply, CallerHasLock
  <2>2. \A d \in Conns : d # c => pc'[d] \notin InCall \cup {"reply"}
    BY <1>2, <2>1 DEF Quit, Reply, CallerHasLock, HasLock, TypeOK
  <2>3. pc'[c] \notin InCall \cup {"reply"}
    BY <1>2 DEF Quit, Reply, TypeOK
  <2> QED BY <2>2, <2>3 DEF CallerHasLock
<1>3. ASSUME NEW c \in Conns,
             \/ Accept(c) \/ Leave(c) \/ Hangup(c) \/ Acquire(c)
             \/ LookupHit(c) \/ LookupMiss(c) \/ LookupNoRoute(c)
             \/ SourceAnswer(c) \/ Insert(c) \/ Answer(c) \/ Timeout(c)
      PROVE  CallerHasLock'
  <2>1. lockq' = lockq /\ \A d \in Conns : d # c => pc'[d] = pc[d]
    BY <1>3 DEF Accept, Leave, Hangup, Acquire, LookupHit, LookupMiss,
                LookupNoRoute, SourceAnswer, Insert, Answer, Timeout, TypeOK
  <2>2. pc'[c] \in InCall \cup {"reply"} => HasLock(c)
    BY <1>3 DEF Accept, Leave, Hangup, Acquire, LookupHit, LookupMiss,
                LookupNoRoute, SourceAnswer, Insert, Answer, Timeout, TypeOK,
                CallerHasLock
  <2> QED BY <2>1, <2>2 DEF CallerHasLock, HasLock
<1>4. CASE World \/ UNCHANGED serviceVars
  BY <1>4 DEF World, Maintain, Tick, SourceChange, serviceVars, callVars,
              CallerHasLock, HasLock
<1>5. CASE Restart
  BY <1>5 DEF Restart, CallerHasLock
<1> QED BY <1>1, <1>2, <1>3, <1>4, <1>5 DEF Next, Connection, Call

LEMMA LockInit == Init => CallerHasLock
BY DEF Init, CallerHasLock, InCall

(* The variables of Service keep their types.                              *)
THEOREM TypeCorrect == Spec => []TypeOK
BY TypeInit, TypeStep, LockInit, LockStep, PTL DEF Spec

-----------------------------------------------------------------------------
(* The inductive invariant.                                                *)

LEMMA InvInit == Init => Inv
<1> SUFFICES ASSUME Init PROVE Inv
  OBVIOUS
<1>1. /\ Len(jobs) = 0
      /\ \A k \in Keys : tasks[k] = NoTask
      /\ \A c \in Conns : pc[c] = "closed"
  BY DEF Init
<1> QED
  BY <1>1 DEF Inv, CallerHasLock, SentIsOld, CachedIsLast, StoredIsLast,
              FetchedIsMissing, NoItemsYet, ItemsAreNewest, InCall, HasValue,
              NothingNewer

(* Two callers with the mutex are one.                                     *)
LEMMA OneCaller ==
    ASSUME CallerHasLock, NEW c \in Conns, NEW d \in Conns,
           pc[c] \in InCall \cup {"reply"}, pc[d] \in InCall \cup {"reply"}
    PROVE  c = d
BY DEF CallerHasLock, HasLock

LEMMA InvAnswer ==
    ASSUME TypeOK, Inv, NEW c \in Conns, SourceAnswer(c), CallerHasLock'
    PROVE  Inv'
<1> DEFINE k0 == Key(c)
           asked == task[c].value
<1>1. PICK v \in (asked .. version[k0]) \cup {NoValue} :
          /\ jobs' = Append(jobs, [key |-> k0, value |-> v])
          /\ task' = [task EXCEPT ![c].value = v]
  BY DEF SourceAnswer
<1> DEFINE job == [key |-> k0, value |-> v]
<1>2. k0 \in Keys /\ pc[c] = "fetch"
  BY KeyType DEF SourceAnswer, At, TypeOK
<1>3. /\ asked \in Nat /\ version[k0] \in Nat
      /\ \A k \in Keys : version[k] \in Values
  BY <1>2, ValuesAreNat DEF TypeOK, Task
<1>4. v \in Values /\ v <= version[k0] /\ (v # NoValue => asked <= v)
  BY <1>2, <1>3, VersionAssumption DEF TypeOK, Values, NoValue
<1>5. job \in WriteJob /\ job.key = k0 /\ job.value = v /\ jobs' = Append(jobs, job)
  BY <1>1, <1>2, <1>4 DEF WriteJob
<1>6. /\ UNCHANGED <<version, tasks, todo, items>>
      /\ pc'[c] = "store" /\ task'[c].value = v
  BY <1>1, <1>2 DEF SourceAnswer, At, TypeOK, Task
<1>7. \A d \in Conns : d # c =>
          pc'[d] = pc[d] /\ pc[d] \notin InCall \cup {"reply"}
  BY <1>2, OneCaller DEF SourceAnswer, At, TypeOK, Inv, InCall
<1>queue.
      /\ Len(jobs) \in Nat
      /\ Len(jobs') = Len(jobs) + 1
      /\ \A i \in 1 .. Len(jobs) : jobs'[i] = jobs[i]
      /\ jobs'[Len(jobs')] = job
  BY <1>5, SendProperties DEF TypeOK
<1> HIDE DEF job, k0, asked
<1>bound. ASSUME NEW k \in Keys, NEW w \in Values, NothingNewer(k, w), k # k0 \/ v <= w
       PROVE  \A i \in 1 .. Len(jobs') : jobs'[i].key = k => jobs'[i].value <= w
  BY <1>5, <1>queue, <1>bound DEF NothingNewer
<1>8. SentIsOld'
  BY <1>3, <1>4, <1>6, <1>bound DEF SentIsOld, Inv, NothingNewer
<1>9. CachedIsLast'
  <2> SUFFICES ASSUME NEW k \in Keys, HasValue(k)'
               PROVE  LastAndNewest(k, tasks[k].value)'
    BY DEF CachedIsLast
  <2>1. HasValue(k) /\ k # k0 /\ tasks'[k] = tasks[k]
    BY <1>2, <1>6 DEF HasValue, Inv, FetchedIsMissing, k0
  <2>2. PICK w \in Values : w = tasks[k].value
    BY <2>1 DEF HasValue, TypeOK, Task
  <2>3. LastJobIs(k, w) /\ NothingNewer(k, w)
    BY <2>1, <2>2 DEF Inv, CachedIsLast, LastAndNewest
  <2>4. LastJobIs(k, w)'
    BY <1>5, <2>1, <2>3, SendElsewhere DEF TypeOK
  <2>5. NothingNewer(k, w)'
    BY <1>bound, <2>1, <2>3 DEF NothingNewer
  <2> QED
    BY <2>1, <2>2, <2>4, <2>5 DEF LastAndNewest, LastJobIs, NothingNewer
<1>10. v # NoValue => LastAndNewest(k0, v)'
  <2> SUFFICES
        ASSUME v # NoValue
        PROVE  /\ \A i \in 1 .. Len(jobs') :
                      jobs'[i].key = k0 => jobs'[i].value <= v
               /\ jobs'[Len(jobs')] = job
               /\ Len(jobs') \in 1 .. Len(jobs')
    BY <1>6 DEF LastAndNewest, Key, LastJobIs, NothingNewer, k0, job
  <2>1. \A i \in 1 .. Len(jobs) : jobs[i].key = k0 => jobs[i].value <= v
    <3>1. \A i \in 1 .. Len(jobs) : jobs[i].key = k0 => jobs[i].value <= asked
      BY <1>2 DEF Inv, FetchedIsMissing, NothingNewer, k0, asked
    <3>2. \A i \in 1 .. Len(jobs) : jobs[i].value \in Nat
      BY JobFields, ValuesAreNat DEF TypeOK
    <3> QED BY <1>3, <1>4, <3>1, <3>2, ValuesAreNat
  <2>2. \A i \in 1 .. Len(jobs') : jobs'[i].key = k0 => jobs'[i].value <= v
    BY <1>4, <1>5, <1>queue, <2>1, ValuesAreNat
  <2>3. jobs'[Len(jobs')] = job
    BY <1>queue
  <2>4. Len(jobs') \in 1 .. Len(jobs')
    BY <1>queue
  <2> QED BY <2>2, <2>3, <2>4
<1>11. StoredIsLast'
  BY <1>6, <1>7, <1>10
  DEF StoredIsLast, LastAndNewest, LastJobIs, NothingNewer, InCall, Key, k0
<1>12. FetchedIsMissing'
  BY <1>6, <1>7 DEF FetchedIsMissing, InCall
<1>13. NoItemsYet'
  BY <1>6, <1>7 DEF NoItemsYet, Inv
<1>14. ItemsAreNewest'
  <2> SUFFICES ASSUME NEW k \in Keys, items[c][k] # NoValue,
                      k # k0 \/ v = NoValue
               PROVE  IsNewest(k, items[c][k])'
    BY <1>6, <1>7 DEF ItemsAreNewest, Superseded, Key, IsNewest, NothingNewer, k0
  <2>1. PICK w \in Values : w = items[c][k]
    BY DEF TypeOK
  <2>2. IsNewest(k, w)
    BY <1>2, <2>1 DEF Inv, ItemsAreNewest, Superseded, InCall
  <2>3. k # k0 \/ v <= w
    BY <2>1, ValuesAreNat DEF NoValue
  <2>4. IsNewest(k, w)'
    BY <1>queue, <1>bound, <2>2, <2>3 DEF IsNewest, NothingNewer
  <2> QED
    BY <1>6, <2>1, <2>4 DEF IsNewest, NothingNewer
<1> QED
  BY <1>8, <1>9, <1>11, <1>12, <1>13, <1>14 DEF Inv

(* A step of c that leaves the queue, the sources and other tasks alone.   *)
OwnStep(c) ==
    /\ UNCHANGED <<jobs, version>>
    /\ \A d \in Conns : d # c =>
          /\ pc'[d] = pc[d] /\ todo'[d] = todo[d]
          /\ task'[d] = task[d] /\ items'[d] = items[d]

(* Such a step leaves all other connections as the invariant has them,     *)
(* unless it stores for a key one of them fetches, which takes the mutex.  *)
LEMMA OthersKept ==
    ASSUME Inv, NEW c \in Conns, OwnStep(c), CallerHasLock',
           \/ tasks' = tasks
           \/ pc[c] \in InCall
    PROVE  \A d \in Conns : d # c =>
             /\ (pc'[d] = "store" /\ task'[d].value # NoValue) =>
                   LastAndNewest(Key(d), task[d].value)'
             /\ pc'[d] = "fetch" =>
                   (~HasValue(Key(d)) /\ NothingNewer(Key(d), task[d].value))'
             /\ pc'[d] = "waiting" => items'[d] = NoItems
             /\ \A k \in Keys :
                   (pc'[d] \in InCall \cup {"reply"} /\ items'[d][k] # NoValue
                      /\ ~Superseded(d, k)') => IsNewest(k, items[d][k])'
<1> SUFFICES ASSUME NEW d \in Conns, d # c
             PROVE  /\ (pc'[d] = "store" /\ task'[d].value # NoValue) =>
                          LastAndNewest(Key(d), task[d].value)'
                    /\ pc'[d] = "fetch" =>
                          (~HasValue(Key(d)) /\ NothingNewer(Key(d), task[d].value))'
                    /\ pc'[d] = "waiting" => items'[d] = NoItems
                    /\ \A k \in Keys :
                          (pc'[d] \in InCall \cup {"reply"}
                             /\ items'[d][k] # NoValue /\ ~Superseded(d, k)')
                               => IsNewest(k, items[d][k])'
  OBVIOUS
<1>1. /\ UNCHANGED <<jobs, version>>
      /\ pc'[d] = pc[d] /\ todo'[d] = todo[d]
      /\ task'[d] = task[d] /\ items'[d] = items[d]
  BY DEF OwnStep
<1>2. (pc'[d] = "store" /\ task'[d].value # NoValue) =>
         LastAndNewest(Key(d), task[d].value)'
  BY <1>1 DEF Inv, StoredIsLast, LastAndNewest, LastJobIs, NothingNewer, Key
<1>3. pc'[d] = "fetch" =>
         (~HasValue(Key(d)) /\ NothingNewer(Key(d), task[d].value))'
  <2>1. pc[d] = "fetch" => tasks' = tasks
    BY OneCaller DEF Inv, InCall
  <2> QED
    BY <1>1, <2>1 DEF Inv, FetchedIsMissing, HasValue, NothingNewer, Key
<1>4. pc'[d] = "waiting" => items'[d] = NoItems
  BY <1>1 DEF Inv, NoItemsYet
<1>5. \A k \in Keys :
         (pc'[d] \in InCall \cup {"reply"} /\ items'[d][k] # NoValue
            /\ ~Superseded(d, k)') => IsNewest(k, items[d][k])'
  BY <1>1 DEF Inv, ItemsAreNewest, Superseded, IsNewest, NothingNewer, Key
<1> QED BY <1>2, <1>3, <1>4, <1>5

(* With the others kept, c's own part of the invariant is what is left.    *)
LEMMA OwnPart ==
    ASSUME Inv, NEW c \in Conns, OwnStep(c), CallerHasLock',
           \/ tasks' = tasks
           \/ pc[c] \in InCall,
           \A k \in Keys : HasValue(k)' =>
              LastAndNewest(k, tasks[k].value)',
           (pc'[c] = "store" /\ task'[c].value # NoValue) =>
              LastAndNewest(Key(c), task[c].value)',
           pc'[c] = "fetch" =>
              (~HasValue(Key(c)) /\ NothingNewer(Key(c), task[c].value))',
           pc'[c] = "waiting" => items'[c] = NoItems,
           \A k \in Keys :
              (pc'[c] \in InCall \cup {"reply"} /\ items'[c][k] # NoValue
                 /\ ~Superseded(c, k)') => IsNewest(k, items[c][k])'
    PROVE  Inv'
<1>1. SentIsOld'
  BY DEF OwnStep, Inv, SentIsOld, NothingNewer
<1>2. CachedIsLast' /\ StoredIsLast' /\ FetchedIsMissing' /\ NoItemsYet'
  BY OthersKept DEF CachedIsLast, StoredIsLast, FetchedIsMissing, NoItemsYet
<1>3. ItemsAreNewest'
  BY OthersKept DEF ItemsAreNewest
<1> QED BY <1>1, <1>2, <1>3 DEF Inv

(* Caching what was sent last keeps the cache right.                       *)
LEMMA InsertKeepsCache ==
    ASSUME TypeOK, Inv, NEW c \in Conns, Key(c) \in Keys, jobs' = jobs,
           tasks' = [tasks EXCEPT ![Key(c)] = task[c]],
           task[c].value # NoValue => LastAndNewest(Key(c), task[c].value)
    PROVE  CachedIsLast'
<1> SUFFICES ASSUME NEW k \in Keys, HasValue(k)'
             PROVE  LastAndNewest(k, tasks[k].value)'
  BY DEF CachedIsLast
<1>1. CASE k = Key(c)
  <2>1. tasks'[k] = task[c]
    BY <1>1 DEF TypeOK
  <2>2. LastAndNewest(k, task[c].value)
    BY <1>1, <2>1 DEF HasValue
  <2> QED BY <2>1, <2>2 DEF LastAndNewest, LastJobIs, NothingNewer
<1>2. CASE k # Key(c)
  <2>1. tasks'[k] = tasks[k]
    BY <1>2 DEF TypeOK
  <2>2. LastAndNewest(k, tasks[k].value)
    BY <2>1 DEF HasValue, Inv, CachedIsLast
  <2> QED BY <2>1, <2>2 DEF LastAndNewest, LastJobIs, NothingNewer
<1> QED BY <1>1, <1>2

LEMMA InvConnection ==
    ASSUME TypeOK, Inv, CallerHasLock', NEW c \in Conns,
           Accept(c) \/ Leave(c) \/ Connection(c)
    PROVE  Inv'
<1> USE DEF At, InCall
<1>1. CASE Accept(c) \/ Leave(c) \/ Hangup(c) \/ Quit(c) \/ Reply(c)
  <2>1. OwnStep(c) /\ tasks' = tasks
    BY <1>1 DEF Accept, Leave, Hangup, Quit, Reply, OwnStep, TypeOK
  <2>2. pc'[c] \in {"idle", "closed", "hungup"}
    BY <1>1 DEF Accept, Leave, Hangup, Quit, Reply, TypeOK
  <2>3. CachedIsLast'
    BY <2>1 DEF OwnStep, Inv, CachedIsLast, LastAndNewest, LastJobIs,
                NothingNewer, HasValue
  <2> QED BY <2>1, <2>2, <2>3, OwnPart DEF CachedIsLast
<1>2. ASSUME NEW keys \in Commands, Receive(c, keys) PROVE Inv'
  <2>1. OwnStep(c) /\ tasks' = tasks
    BY <1>2 DEF Receive, OwnStep, TypeOK
  <2>2. pc'[c] = "waiting" /\ items'[c] = NoItems
    BY <1>2 DEF Receive, TypeOK
  <2>3. CachedIsLast'
    BY <2>1 DEF OwnStep, Inv, CachedIsLast, LastAndNewest, LastJobIs,
                NothingNewer, HasValue
  <2> QED BY <2>1, <2>2, <2>3, OwnPart DEF CachedIsLast
<1>3. CASE Acquire(c)
  <2>1. OwnStep(c) /\ tasks' = tasks
    BY <1>3 DEF Acquire, OwnStep, TypeOK
  <2>2. pc'[c] = "lookup" /\ items'[c] = NoItems
    BY <1>3 DEF Acquire, TypeOK, Inv, NoItemsYet
  <2>3. CachedIsLast'
    BY <2>1 DEF OwnStep, Inv, CachedIsLast, LastAndNewest, LastJobIs,
                NothingNewer, HasValue
  <2> QED BY <2>1, <2>2, <2>3, OwnPart DEF CachedIsLast, NoItems
<1>4. CASE LookupHit(c) \/ LookupMiss(c) \/ LookupNoRoute(c) \/ Answer(c)
  <2>1. OwnStep(c) /\ tasks' = tasks /\ items' = items
    BY <1>4 DEF LookupHit, LookupMiss, LookupNoRoute, Answer, OwnStep, TypeOK
  <2>2. pc[c] = "lookup" /\ pc'[c] \in {"lookup", "store", "fetch", "reply"}
    BY <1>4 DEF LookupHit, LookupMiss, LookupNoRoute, Answer, TypeOK
  <2>3. CachedIsLast'
    BY <2>1 DEF OwnStep, Inv, CachedIsLast, LastAndNewest, LastJobIs,
                NothingNewer, HasValue
  <2>4. pc'[c] = "store" => LastAndNewest(Key(c), task[c].value)'
    <3> SUFFICES ASSUME pc'[c] = "store"
                 PROVE  LastAndNewest(Key(c), task[c].value)'
      OBVIOUS
    <3>1. LookupHit(c)
      BY <1>4 DEF LookupMiss, LookupNoRoute, Answer, TypeOK
    <3>2. /\ Key(c) \in Keys /\ HasValue(Key(c))
          /\ task'[c] = [tasks[Key(c)] EXCEPT !.touched = now]
      BY <3>1, KeyType DEF LookupHit, TypeOK
    <3>3. task'[c].value = tasks[Key(c)].value
      BY <3>2 DEF TypeOK, HasValue, Task
    <3>4. LastAndNewest(Key(c), tasks[Key(c)].value)
      BY <3>2 DEF Inv, CachedIsLast
    <3>5. UNCHANGED <<jobs, todo>>
      BY <3>1 DEF LookupHit
    <3> QED
      BY <3>3, <3>4, <3>5 DEF LastAndNewest, LastJobIs, NothingNewer, Key
  <2>5. pc'[c] = "fetch" =>
          (~HasValue(Key(c)) /\ NothingNewer(Key(c), task[c].value))'
    <3> SUFFICES ASSUME pc'[c] = "fetch"
                 PROVE  (~HasValue(Key(c)) /\ NothingNewer(Key(c), task[c].value))'
      OBVIOUS
    <3>1. LookupMiss(c)
      BY <1>4 DEF LookupHit, LookupNoRoute, Answer, TypeOK
    <3>2. Key(c) \in Keys /\ ~HasValue(Key(c))
      BY <3>1, KeyType DEF LookupMiss, TypeOK
    <3>3. UNCHANGED <<jobs, tasks, todo>> /\ task'[c].value = version[Key(c)]
      BY <3>1 DEF LookupMiss, TypeOK
    <3>4. NothingNewer(Key(c), version[Key(c)])
      BY <3>2 DEF Inv, SentIsOld
    <3> QED BY <3>2, <3>3, <3>4 DEF HasValue, NothingNewer, Key
  <2>6. \A k \in Keys : items'[c][k] # NoValue => IsNewest(k, items[c][k])'
    BY <2>1, <2>2 DEF OwnStep, Inv, ItemsAreNewest, Superseded, IsNewest,
                      NothingNewer
  <2> QED BY <2>1, <2>2, <2>3, <2>4, <2>5, <2>6, OwnPart DEF CachedIsLast
<1>5. CASE Insert(c)
  <2>1. /\ OwnStep(c) /\ pc[c] = "store" /\ pc'[c] = "lookup"
        /\ Key(c) \in Keys /\ task[c] \in Task
    BY <1>5, KeyType DEF Insert, OwnStep, TypeOK
  <2>2. task[c].value # NoValue => LastAndNewest(Key(c), task[c].value)
    BY <2>1 DEF Inv, StoredIsLast
  <2>3. tasks' = [tasks EXCEPT ![Key(c)] = task[c]] /\ jobs' = jobs
    BY <1>5 DEF Insert
  <2>4. CachedIsLast'
    BY <2>1, <2>2, <2>3, InsertKeepsCache
  <2>5. ASSUME NEW k \in Keys, items'[c][k] # NoValue
        PROVE  IsNewest(k, items[c][k])'
    <3>1. CASE k = Key(c) /\ task[c].value # NoValue
      <4>1. items'[c][k] = task[c].value
        BY <1>5, <3>1 DEF Insert, TypeOK
      <4>2. IsNewest(k, task[c].value)
        BY <2>2, <3>1 DEF LastAndNewest, LastJobIs, IsNewest
      <4> QED BY <2>3, <4>1, <4>2 DEF IsNewest, NothingNewer
    <3>2. CASE ~(k = Key(c) /\ task[c].value # NoValue)
      <4>1. items'[c][k] = items[c][k]
        BY <1>5, <2>1, <3>2 DEF Insert, TypeOK
      <4>2. IsNewest(k, items[c][k])
        BY <2>1, <2>5, <3>2, <4>1 DEF Inv, ItemsAreNewest, Superseded
      <4> QED BY <2>3, <4>1, <4>2 DEF IsNewest, NothingNewer
    <3> QED BY <3>1, <3>2
  <2> QED BY <2>1, <2>4, <2>5, OwnPart DEF CachedIsLast
<1>6. CASE Timeout(c)
  <2>1. /\ OwnStep(c) /\ pc[c] \in InCall /\ pc'[c] = "reply"
        /\ items'[c] = NoItems /\ jobs' = jobs
    BY <1>6 DEF Timeout, OwnStep, TypeOK
  <2>2. \/ tasks' = tasks
        \/ /\ pc[c] = "store" /\ Key(c) \in Keys
           /\ tasks' = [tasks EXCEPT ![Key(c)] = task[c]]
    BY <1>6, KeyType DEF Timeout, TypeOK
  <2>3. pc[c] = "store" /\ task[c].value # NoValue
          => LastAndNewest(Key(c), task[c].value)
    BY DEF Inv, StoredIsLast
  <2>4. ASSUME tasks' = tasks PROVE CachedIsLast'
    BY <2>1, <2>4 DEF Inv, CachedIsLast, LastAndNewest, LastJobIs,
                      NothingNewer, HasValue
  <2>5. CachedIsLast'
    BY <2>1, <2>2, <2>3, <2>4, InsertKeepsCache
  <2> QED BY <2>1, <2>5, OwnPart DEF CachedIsLast, NoItems
<1>7. CASE SourceAnswer(c)
  BY <1>7, InvAnswer
<1> QED
  BY <1>1, <1>2, <1>3, <1>4, <1>5, <1>6, <1>7 DEF Connection, Call

LEMMA InvWorld ==
    ASSUME TypeOK, Inv, CallerHasLock', World \/ UNCHANGED serviceVars
    PROVE  Inv'
<1>1. /\ UNCHANGED <<jobs, callVars>>
      /\ \A k \in Keys : tasks'[k] = tasks[k] \/ tasks'[k] = NoTask
      /\ \A k \in Keys : version[k] \in Nat /\ version'[k] \in Nat
                          /\ version[k] <= version'[k]
  <2>1. \A k \in Keys : version[k] \in Nat
    BY ValuesAreNat DEF TypeOK
  <2>2. ASSUME NEW k \in Keys, SourceChange(k)
        PROVE  /\ UNCHANGED <<jobs, callVars, tasks>>
               /\ \A l \in Keys : /\ version'[l] \in Nat
                                  /\ version[l] <= version'[l]
    <3>1. /\ UNCHANGED <<jobs, callVars, tasks>>
          /\ \A l \in Keys :
                version'[l] = IF l = k THEN version[k] + 1 ELSE version[l]
      BY <2>2 DEF SourceChange, TypeOK
    <3> QED BY <2>1, <3>1
  <2>3. CASE Maintain
    BY <2>1, <2>3 DEF Maintain
  <2>4. CASE Tick \/ UNCHANGED serviceVars
    BY <2>1, <2>4 DEF Tick, serviceVars
  <2> QED
    BY <2>1, <2>2, <2>3, <2>4 DEF World
<1>2. SentIsOld'
  <2> SUFFICES ASSUME NEW k \in Keys, NEW i \in 1 .. Len(jobs), jobs[i].key = k
               PROVE  jobs[i].value <= version'[k]
    BY <1>1 DEF SentIsOld, NothingNewer
  <2>1. jobs[i].value \in Nat
    BY JobFields, ValuesAreNat DEF TypeOK
  <2>2. jobs[i].value <= version[k]
    BY DEF Inv, SentIsOld, NothingNewer
  <2> QED BY <1>1, <2>1, <2>2
<1>3. \A k \in Keys : HasValue(k)' => HasValue(k) /\ tasks'[k] = tasks[k]
  BY <1>1 DEF HasValue
<1>4. CachedIsLast'
  BY <1>1, <1>3 DEF Inv, CachedIsLast, LastAndNewest, LastJobIs, NothingNewer
<1>5. StoredIsLast'
  BY <1>1 DEF callVars, Inv, StoredIsLast, LastAndNewest, LastJobIs,
              NothingNewer, Key
<1>6. FetchedIsMissing'
  <2> SUFFICES ASSUME NEW c \in Conns, pc[c] = "fetch"
               PROVE  (~HasValue(Key(c)) /\ NothingNewer(Key(c), task[c].value))'
    BY <1>1 DEF callVars, FetchedIsMissing
  <2>1. Key(c) \in Keys
    BY KeyType DEF TypeOK
  <2>2. ~HasValue(Key(c)) /\ NothingNewer(Key(c), task[c].value)
    BY DEF Inv, FetchedIsMissing
  <2>3. Key(c)' = Key(c)
    BY <1>1 DEF callVars, Key
  <2>4. ~HasValue(Key(c))'
    BY <1>1, <2>1, <2>2, <2>3 DEF HasValue
  <2>5. NothingNewer(Key(c), task[c].value)'
    BY <1>1, <2>2, <2>3 DEF callVars, NothingNewer
  <2> QED BY <2>4, <2>5
<1>7. NoItemsYet'
  BY <1>1 DEF callVars, Inv, NoItemsYet
<1>8. ItemsAreNewest'
  BY <1>1 DEF callVars, Inv, ItemsAreNewest, Superseded, IsNewest,
              NothingNewer, Key
<1> QED BY <1>2, <1>4, <1>5, <1>6, <1>7, <1>8 DEF Inv

(* A restart leaves only what was sent, which stays old.                   *)
LEMMA InvRestart ==
    ASSUME TypeOK, Inv, Restart
    PROVE  Inv'
<1>1. /\ UNCHANGED <<jobs, version>>
      /\ \A k \in Keys : tasks'[k] = NoTask
      /\ \A c \in Conns : pc'[c] = "closed"
  BY DEF Restart
<1>2. SentIsOld'
  BY <1>1 DEF Inv, SentIsOld, NothingNewer
<1> QED
  BY <1>1, <1>2 DEF Inv, CallerHasLock, CachedIsLast, StoredIsLast,
                    FetchedIsMissing, NoItemsYet, ItemsAreNewest, InCall,
                    HasValue

LEMMA InvStep == TypeOK /\ Inv /\ [Next]_serviceVars => TypeOK' /\ Inv'
<1> SUFFICES ASSUME TypeOK, Inv, [Next]_serviceVars PROVE TypeOK' /\ Inv'
  OBVIOUS
<1>1. CallerHasLock
  BY DEF Inv
<1>2. TypeOK' /\ CallerHasLock'
  BY <1>1, TypeStep, LockStep
<1>3. Inv'
  BY <1>2, InvConnection, InvWorld, InvRestart DEF Next
<1> QED BY <1>2, <1>3

(* The invariant that everything below follows from.                       *)
THEOREM InvHolds == Spec => [](TypeOK /\ Inv)
BY TypeInit, InvInit, InvStep, PTL DEF Spec

(* A cached result is the one last sent to the writer.                     *)
THEOREM CacheMatchesLastJobHolds == Spec => []CacheMatchesLastJob
<1>1. Inv => CacheMatchesLastJob
  BY DEF Inv, CachedIsLast, LastAndNewest, CacheMatchesLastJob
<1> QED BY <1>1, InvHolds, PTL

-----------------------------------------------------------------------------
(* What follows from FreshReads.                                           *)

(* The jobs are the same here and there.                                   *)
LEMMA SameJobs ==
    /\ F!JobsTypeOK <=> JobsTypeOK
    /\ F!JobsTypeOK' <=> JobsTypeOK'
    /\ F!WriteJob = WriteJob
    /\ F!NoValue = NoValue
    /\ F!Values = Values
BY DEF F!JobsTypeOK, JobsTypeOK, F!WriteJob, WriteJob, F!Values, Values,
       F!NoValue, NoValue

(* What FreshReads serves is a version.                                    *)
THEOREM FreshTypes == F!Spec => []F!TypeOK
<1> USE SameJobs
<1>1. F!Init => F!TypeOK
  BY ValuesAreNat, EmptySeq DEF F!Init, F!TypeOK, JobsTypeOK
<1>2. F!TypeOK /\ [F!Next]_(F!freshVars) => F!TypeOK'
  BY SendProperties DEF F!TypeOK, F!Next, F!Queue, F!Serve, F!freshVars, JobsTypeOK
<1> QED BY <1>1, <1>2, PTL DEF F!Spec

(* Everything served was sent to the writer.                               *)
ServedWasSent ==
    \A k \in Keys : served[k] # NoValue =>
        \E i \in 1 .. Len(jobs) : jobs[i] = [key |-> k, value |-> served[k]]

LEMMA ServedWasSentStep ==
    ASSUME F!TypeOK, ServedWasSent, [F!Next]_(F!freshVars)
    PROVE  ServedWasSent'
<1> USE SameJobs
<1>1. CASE F!Queue
  BY <1>1, SendProperties DEF F!Queue, ServedWasSent, F!TypeOK
<1>2. CASE F!Serve
  BY <1>2 DEF F!Serve, ServedWasSent, F!IsNewest
<1>3. CASE UNCHANGED F!freshVars
  BY <1>3 DEF F!freshVars, ServedWasSent
<1> QED BY <1>1, <1>2, <1>3 DEF F!Next

LEMMA ServeMonotonic ==
    ASSUME F!TypeOK, ServedWasSent, F!Serve, NEW k \in Keys
    PROVE  served'[k] >= served[k]
<1> USE SameJobs
<1>1. served[k] \in Nat /\ served'[k] \in Nat
  BY ValuesAreNat DEF F!TypeOK, F!Serve
<1>2. CASE served'[k] = served[k]
  BY <1>1, <1>2
<1>3. CASE served[k] = NoValue
  BY <1>1, <1>3 DEF NoValue
<1>4. CASE served'[k] # served[k] /\ served[k] # NoValue
  <2>1. PICK i \in 1 .. Len(jobs) : jobs[i] = [key |-> k, value |-> served[k]]
    BY <1>4 DEF ServedWasSent
  <2>2. F!NothingNewer(k, served'[k])
    BY <1>4 DEF F!Serve, F!IsNewest
  <2> QED BY <1>1, <2>1, <2>2 DEF F!NothingNewer
<1> QED BY <1>2, <1>3, <1>4

(* A client is never given an older version than one given before.         *)
THEOREM FreshReadsAreMonotonic == F!Spec => F!MonotonicReads
<1> USE SameJobs
<1>1. F!Init => ServedWasSent
  BY DEF F!Init, ServedWasSent
<1>2. F!TypeOK /\ ServedWasSent /\ [F!Next]_(F!freshVars)
        => [\A k \in Keys : served'[k] >= served[k]]_served
  BY ServeMonotonic DEF F!Next, F!Queue, F!freshVars
<1> QED
  BY <1>1, <1>2, FreshTypes, ServedWasSentStep, PTL DEF F!Spec, F!MonotonicReads

LEMMA JobsNeverGoBackStep ==
    ASSUME F!TypeOK, F!JobsNeverGoBack, [F!Next]_(F!freshVars)
    PROVE  F!JobsNeverGoBack'
<1> USE SameJobs
<1>1. CASE F!Queue
  <2>1. PICK job \in WriteJob :
            /\ job.value = NoValue \/ F!NothingNewer(job.key, job.value)
            /\ jobs' = Append(jobs, job)
    BY <1>1 DEF F!Queue
  <2>2. /\ Len(jobs) \in Nat
        /\ Len(jobs') = Len(jobs) + 1
        /\ \A i \in 1 .. Len(jobs) : jobs'[i] = jobs[i]
        /\ jobs'[Len(jobs')] = job
    BY <2>1, SendProperties DEF F!TypeOK
  <2> SUFFICES ASSUME NEW i \in 1 .. Len(jobs'), NEW j \in 1 .. Len(jobs'), i < j,
                      jobs'[i].key = jobs'[j].key, jobs'[j].value # NoValue
               PROVE  jobs'[i].value <= jobs'[j].value
    BY DEF F!JobsNeverGoBack
  <2>3. i \in 1 .. Len(jobs)
    BY <2>2
  <2>4. CASE j \in 1 .. Len(jobs)
    BY <2>2, <2>3, <2>4 DEF F!JobsNeverGoBack
  <2>5. CASE j = Len(jobs')
    BY <2>1, <2>2, <2>3, <2>5 DEF F!NothingNewer
  <2> QED BY <2>2, <2>4, <2>5
<1>2. CASE UNCHANGED jobs
  BY <1>2 DEF F!JobsNeverGoBack
<1> QED BY <1>1, <1>2 DEF F!Next, F!Serve, F!freshVars

(* The writer is never sent an older version after a newer one.            *)
THEOREM FreshJobsNeverGoBack == F!Spec => []F!JobsNeverGoBack
<1> USE SameJobs
<1>1. F!Init => F!JobsNeverGoBack
  BY DEF F!Init, F!JobsNeverGoBack
<1> QED BY <1>1, FreshTypes, JobsNeverGoBackStep, PTL DEF F!Spec

-----------------------------------------------------------------------------
(* Service implements FreshReads: a fetch that ends is Queue, a reply is   *)
(* Serve, and everything else is invisible there.                          *)

LEMMA AnswerIsQueue ==
    ASSUME TypeOK, Inv, NEW c \in Conns, SourceAnswer(c)
    PROVE  F!Queue
<1>1. PICK v \in (task[c].value .. version[Key(c)]) \cup {NoValue} :
          jobs' = Append(jobs, [key |-> Key(c), value |-> v])
  BY DEF SourceAnswer
<1>2. Key(c) \in Keys /\ pc[c] = "fetch"
  BY KeyType DEF SourceAnswer, At, TypeOK
<1>3. task[c].value \in Nat /\ version[Key(c)] \in Values
  BY <1>2, ValuesAreNat DEF TypeOK, Task
<1>4. v \in Values /\ (v # NoValue => task[c].value <= v)
  BY <1>3, VersionAssumption DEF Values, NoValue
<1>5. v = NoValue \/ NothingNewer(Key(c), v)
  <2>1. NothingNewer(Key(c), task[c].value)
    BY <1>2 DEF Inv, FetchedIsMissing
  <2>2. \A i \in 1 .. Len(jobs) : jobs[i].value \in Nat
    BY JobFields, ValuesAreNat DEF TypeOK
  <2> QED BY <1>3, <1>4, <2>1, <2>2, ValuesAreNat DEF NothingNewer
<1>6. [key |-> Key(c), value |-> v] \in WriteJob
  BY <1>2, <1>4 DEF WriteJob
<1>7. served' = served
  BY DEF SourceAnswer
<1> QED
  BY <1>1, <1>5, <1>6, <1>7
  DEF F!Queue, F!WriteJob, F!NoValue, F!NothingNewer, F!Values,
      WriteJob, NoValue, NothingNewer, Values

LEMMA ReplyIsServe ==
    ASSUME TypeOK, Inv, NEW c \in Conns, Reply(c)
    PROVE  F!Serve
<1>1. pc[c] = "reply" /\ jobs' = jobs
  BY DEF Reply, At
<1>2. \A k \in Keys : served'[k] =
          IF items[c][k] = NoValue THEN served[k] ELSE items[c][k]
  BY DEF Reply
<1>3. served' \in [Keys -> Values]
  BY DEF Reply, TypeOK
<1>4. ASSUME NEW k \in Keys, served'[k] # served[k]
      PROVE  served'[k] # NoValue /\ IsNewest(k, served'[k])
  <2>1. items[c][k] # NoValue /\ served'[k] = items[c][k]
    BY <1>2, <1>4
  <2> QED BY <1>1, <2>1 DEF Inv, ItemsAreNewest, Superseded
<1> QED
  BY <1>1, <1>3, <1>4
  DEF F!Serve, F!IsNewest, F!NothingNewer, F!Values, F!NoValue,
      IsNewest, NothingNewer, Values, NoValue

LEMMA StepIsFresh ==
    ASSUME TypeOK, Inv, [Next]_serviceVars
    PROVE  [F!Next]_(F!freshVars)
<1>1. ASSUME NEW c \in Conns, SourceAnswer(c) PROVE F!Next
  BY <1>1, AnswerIsQueue DEF F!Next
<1>2. ASSUME NEW c \in Conns, Reply(c) PROVE F!Next
  BY <1>2, ReplyIsServe DEF F!Next
<1>3. ASSUME NEW c \in Conns,
             \/ Accept(c) \/ Leave(c) \/ Hangup(c) \/ Call(c) \/ Timeout(c)
             \/ \E keys \in Commands : Receive(c, keys)
      PROVE  UNCHANGED F!freshVars
  BY <1>3 DEF F!freshVars, Accept, Leave, Hangup, Call, Timeout, Receive,
              Acquire, Quit, LookupHit, LookupMiss, LookupNoRoute, Insert,
              Answer
<1>4. ASSUME World \/ Restart \/ UNCHANGED serviceVars
      PROVE  UNCHANGED F!freshVars
  BY <1>4 DEF F!freshVars, World, Maintain, Tick, SourceChange, Restart,
              serviceVars
<1> QED BY <1>1, <1>2, <1>3, <1>4 DEF Next, Connection

LEMMA InitIsFresh == Init => F!Init
BY DEF Init, F!Init, NoItems, NoValue, F!NoValue

(* The server gives its clients the answers FreshReads promises.           *)
THEOREM FreshReadsHold == Spec => FreshReadsRefined
BY InitIsFresh, StepIsFresh, InvHolds, PTL DEF Spec, F!Spec, FreshReadsRefined

(* No client is given an older version than one given before.              *)
THEOREM MonotonicReadsHold == Spec => MonotonicReads
BY FreshReadsHold, FreshReadsAreMonotonic, PTL
   DEF MonotonicReads, FreshReadsRefined

(* The writer is never sent an older version after a newer one.            *)
THEOREM JobsNeverGoBackHolds == Spec => []JobsNeverGoBack
<1>1. F!JobsNeverGoBack => JobsNeverGoBack
  BY DEF JobsNeverGoBack
<1> QED BY <1>1, FreshReadsHold, FreshJobsNeverGoBack, PTL DEF FreshReadsRefined
=============================================================================
