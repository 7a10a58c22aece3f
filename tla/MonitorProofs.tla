---------------------------- MODULE MonitorProofs -----------------------------
(***************************************************************************)
(* What Monitor keeps, it keeps for any TTL, expiry, latency and delay,    *)
(* for any number of jobs that wait, and for any resolution of the clock.  *)
(* Everything rests on what is known of a job: by when it was sent, after  *)
(* its key was last asked for and after the source replaced what it        *)
(* carries.                                                                *)
(* An item is from a job that took effect within the delay of the writer.  *)
(***************************************************************************)
EXTENDS Monitor, Integers, SequenceTheorems, TLAPS

\* The TTL as the target counts it.
Lasting == Seconds * Second

Calling == call # NoCall
Tasked == task # NoTask

(* A call takes its time, and began while the last request for its key had *)
(* not expired.                                                            *)
CallOK ==
    Calling =>
        /\ now <= call.since + MaxLatency
        /\ call.creates => call.since <= used
        /\ ~call.creates => Tasked /\ call.since <= used + Expiry
        /\ call.from < version => changed >= call.since

(* A task was touched by a request, and its response is younger than the   *)
(* call it is of.                                                          *)
TaskOK == Tasked => task.touched <= used /\ began <= task.updated

(* A job was sent a response's time after the last request, or after the   *)
(* end of what it carries, and its writer is not too late.                 *)
JobOK(job) ==
    /\ now <= job.sent + MaxDelay
    /\ job.sent <= used + Expiry + MaxLatency
    /\ (job.value # NoValue /\ job.value < version) =>
          job.sent <= changed + MaxLatency

JobsOK == \A i \in 1 .. Len(queue) : JobOK(queue[i])

(* An item ends a TTL after its job took effect.                           *)
ItemOK ==
    (item # NoItem /\ Seconds > 0) =>
        /\ item.until <= now + Lasting
        /\ item.until <= used + Expiry + MaxLatency + MaxDelay + Lasting
        /\ item.value < version =>
              item.until <= changed + MaxLatency + MaxDelay + Lasting

Inv == TypeOK /\ CallOK /\ TaskOK /\ JobsOK /\ ItemOK

-----------------------------------------------------------------------------
LEMMA Division ==
    ASSUME NEW a \in Nat, NEW b \in Nat \ {0}
    PROVE  a \div b \in Nat /\ (a \div b) * b \in Nat /\ (a \div b) * b <= a
OBVIOUS

LEMMA Positive ==
    ASSUME NEW a \in Nat \ {0}, NEW b \in Nat \ {0}
    PROVE  a * b > 0
OBVIOUS

LEMMA SeqGrows ==
    ASSUME NEW A, NEW B, A \subseteq B, NEW s \in Seq(A)
    PROVE  s \in Seq(B)
<1>1. s \in [1 .. Len(s) -> A] /\ Len(s) \in Nat
  BY LenProperties
<1>2. s \in [1 .. Len(s) -> B]
  BY <1>1
<1> QED BY <1>1, <1>2, SeqDef

(* What TypeOK says of the single numbers.                                 *)
LEMMA Numbers ==
    ASSUME TypeOK
    PROVE  /\ now \in Nat /\ now < Never /\ Never \in Nat /\ Never = MaxTime + 1
           /\ Seconds \in Nat /\ ttl \div 2 \in Nat
           /\ Lasting \in Nat /\ Lasting <= ttl /\ (Seconds > 0 => Lasting > 0)
           /\ ttl \in Nat /\ Month \in Nat /\ Expiry \in Nat /\ MaxLatency \in Nat
           /\ MaxDelay \in Nat /\ changed \in Nat /\ changed <= now
           /\ version \in Nat /\ version >= 1 /\ version <= MaxVersion
           /\ used \in Nat /\ used <= now
<1>1. ttl \in Nat /\ Second \in Nat \ {0}
  BY MonitorAssumption DEF TypeOK
<1>2. /\ now \in Nat /\ now < Never /\ Never \in Nat /\ Never = MaxTime + 1
      /\ Month \in Nat /\ Expiry \in Nat /\ MaxLatency \in Nat
      /\ MaxDelay \in Nat /\ changed \in Nat /\ changed <= now
      /\ version \in Nat /\ version >= 1 /\ version <= MaxVersion
      /\ used \in Nat /\ used <= now
  BY MonitorAssumption DEF TypeOK, Times, Never
<1>3. ttl \div 2 \in Nat
  <2>1. 2 \in Nat \ {0}
    OBVIOUS
  <2> QED BY <1>1, <2>1, Division
<1>4. Seconds \in Nat /\ Lasting \in Nat /\ Lasting <= ttl
  BY <1>1, Division DEF Seconds, Lasting
<1>5. Seconds > 0 => Lasting > 0
  BY <1>1, <1>4, Positive DEF Lasting
<1> QED BY <1>1, <1>2, <1>3, <1>4, <1>5

LEMMA TaskFields ==
    ASSUME TypeOK, Tasked
    PROVE  /\ task = [touched |-> task.touched, value |-> task.value, updated |-> task.updated]
           /\ task.touched \in Nat /\ task.touched <= now
           /\ task.updated \in Nat /\ task.updated <= now
           /\ task.value \in Values
<1>1. task \in [touched : 0 .. now, value : Values, updated : 0 .. now] /\ now \in Nat
  BY Numbers DEF TypeOK, Tasked
<1> QED BY <1>1

LEMMA CallFields ==
    ASSUME TypeOK, Calling
    PROVE  /\ call.since \in Nat /\ call.since <= now
           /\ call.from \in Nat /\ 1 <= call.from /\ call.from <= version
           /\ call.creates \in BOOLEAN
<1>1. /\ call \in [since : 0 .. now, from : 1 .. version, creates : BOOLEAN]
      /\ now \in Nat /\ version \in Nat
  BY Numbers DEF TypeOK, Calling
<1> QED BY <1>1

LEMMA JobFields ==
    ASSUME TypeOK, NEW i \in 1 .. Len(queue)
    PROVE  /\ queue[i].value \in Nat /\ queue[i].value <= version
           /\ queue[i].sent \in Nat /\ queue[i].sent <= now
<1>1. /\ queue \in Seq([value : 0 .. version, sent : 0 .. now])
      /\ now \in Nat /\ version \in Nat
  BY Numbers DEF TypeOK
<1>2. queue[i] \in [value : 0 .. version, sent : 0 .. now]
  BY <1>1, ElementOfSeq
<1> QED BY <1>1, <1>2

LEMMA ItemFields ==
    ASSUME TypeOK, item # NoItem
    PROVE  /\ item.until \in Nat /\ item.value \in Nat
           /\ now < item.until /\ item.until <= Never
           /\ item.value # NoValue /\ item.value <= version
<1>1. /\ item \in [until : (now + 1) .. Never, value : 1 .. version]
      /\ now \in Nat /\ version \in Nat /\ Never \in Nat
  BY Numbers DEF TypeOK
<1> QED BY <1>1 DEF NoValue

-----------------------------------------------------------------------------
(* The invariant, action by action.                                        *)

(* ttl never changes, and nothing that is made of it.                      *)
LEMMA SameTtl ==
    ASSUME ttl' = ttl
    PROVE  Seconds' = Seconds /\ Lasting' = Lasting
BY DEF Seconds, Lasting

(* Most actions leave the jobs and the item alone, and all that they are   *)
(* measured by.                                                            *)
LEMMA SameJobs ==
    ASSUME JobsOK, ItemOK,
           UNCHANGED <<now, ttl, version, changed, queue, item, used>>
    PROVE  JobsOK' /\ ItemOK'
BY SameTtl DEF JobsOK, JobOK, ItemOK

(* A request only puts the bounds off.                                     *)
LEMMA UsedJobs ==
    ASSUME Inv, used' = now,
           UNCHANGED <<now, ttl, version, changed, queue, item>>
    PROVE  JobsOK' /\ ItemOK'
<1>1. /\ now \in Nat /\ used \in Nat /\ used <= now /\ Expiry \in Nat
      /\ MaxLatency \in Nat /\ MaxDelay \in Nat /\ Lasting \in Nat
  BY Numbers DEF Inv
<1>2. JobsOK'
  <2> SUFFICES ASSUME NEW i \in 1 .. Len(queue) PROVE JobOK(queue[i])'
    BY DEF JobsOK
  <2>1. JobOK(queue[i]) /\ queue[i].sent \in Nat
    BY JobFields DEF Inv, JobsOK
  <2> QED BY <1>1, <2>1 DEF JobOK
<1>3. ItemOK'
  <2> SUFFICES ASSUME item # NoItem, Seconds > 0
               PROVE  item.until <= now + Expiry + MaxLatency + MaxDelay + Lasting
    BY SameTtl DEF Inv, ItemOK
  <2>1. item.until <= used + Expiry + MaxLatency + MaxDelay + Lasting
    BY DEF Inv, ItemOK
  <2>2. item.until \in Nat
    BY ItemFields DEF Inv
  <2> QED BY <1>1, <2>1, <2>2
<1> QED BY <1>2, <1>3

(* A call begins, of a poll or of a creation.                              *)
LEMMA BeginKept ==
    ASSUME Inv, NEW creates \in BOOLEAN, Begin(creates),
           creates => used' = now,
           ~creates => Tasked /\ now <= used + Expiry /\ used' = used
    PROVE  Inv'
<1>1. /\ call' = [since |-> now, from |-> version, creates |-> creates]
      /\ UNCHANGED <<now, ttl, version, changed, task, queue, item, began>>
  BY DEF Begin
<1>2. /\ now \in Nat /\ MaxLatency \in Nat /\ version \in 1 .. version
      /\ used \in Nat /\ used <= now
  BY Numbers DEF Inv
<1>3. TypeOK'
  <2>1. /\ call' \in [since : 0 .. now, from : 1 .. version, creates : BOOLEAN]
        /\ used' \in 0 .. now
    BY <1>1, <1>2
  <2> QED BY <1>1, <2>1 DEF Inv, TypeOK
<1>4. CallOK'
  <2>1. call'.since = now /\ call'.from = version /\ call'.creates = creates
    BY <1>1
  <2> QED BY <1>1, <1>2, <2>1 DEF CallOK, Tasked
<1>5. TaskOK'
  <2>1. Tasked => task.touched \in Nat /\ task.touched <= now
    BY TaskFields DEF Inv
  <2> QED BY <1>1, <1>2, <2>1 DEF Inv, TaskOK, Tasked
<1>6. JobsOK' /\ ItemOK'
  BY <1>1, SameJobs, UsedJobs DEF Inv
<1> QED BY <1>3, <1>4, <1>5, <1>6 DEF Inv

LEMMA CreateKept == ASSUME Inv, Create PROVE Inv'
BY BeginKept DEF Create

LEMMA PollRefreshesKept == ASSUME Inv, PollRefreshes PROVE Inv'
<1>1. Tasked /\ ~Expired /\ Begin(FALSE) /\ used' = used
  BY DEF PollRefreshes, Tasked
<1>2. now <= used + Expiry
  <2>1. now <= task.touched + Expiry /\ task.touched <= used
    BY <1>1, Numbers, TaskFields DEF Inv, Expired, TaskOK
  <2> QED BY <1>1, <2>1, Numbers, TaskFields DEF Inv
<1> QED BY <1>1, <1>2, BeginKept

LEMMA DropKept == ASSUME Inv, Drop PROVE Inv'
<1>1. /\ call' = NoCall
      /\ UNCHANGED <<now, ttl, version, changed, task, queue, item, began, used>>
  BY DEF Drop
<1>2. TypeOK'
  BY <1>1 DEF Inv, TypeOK
<1>3. CallOK' /\ TaskOK'
  BY <1>1 DEF Inv, CallOK, Calling, NoCall, TaskOK, Tasked
<1> QED BY <1>1, <1>2, <1>3, SameJobs DEF Inv

LEMMA ForgetKept == ASSUME Inv, Forget PROVE Inv'
<1>1. /\ task' = NoTask /\ began' = 0
      /\ Calling => call.creates
      /\ UNCHANGED <<now, ttl, version, changed, call, queue, item, used>>
  BY DEF Forget, Calling
<1>2. TypeOK'
  <2>1. began' \in 0 .. now
    BY <1>1, Numbers DEF Inv
  <2> QED BY <1>1, <2>1 DEF Inv, TypeOK
<1>3. CallOK' /\ TaskOK'
  BY <1>1 DEF Inv, CallOK, Calling, TaskOK, Tasked
<1> QED BY <1>1, <1>2, <1>3, SameJobs DEF Inv

LEMMA TouchKept == ASSUME Inv, Touch PROVE Inv'
<1>1. /\ ~Calling /\ Tasked
      /\ task' = [task EXCEPT !.touched = now] /\ used' = now
      /\ UNCHANGED <<now, ttl, version, changed, call, queue, item, began>>
  BY DEF Touch, Calling, Tasked
<1>2. now \in Nat
  BY Numbers DEF Inv
<1>3. /\ task = [touched |-> task.touched, value |-> task.value, updated |-> task.updated]
      /\ task.updated \in Nat /\ task.updated <= now
      /\ task.value \in Values
  BY <1>1, TaskFields DEF Inv
<1>4. task' = [touched |-> now, value |-> task.value, updated |-> task.updated]
  BY <1>1, <1>3
<1>5. TypeOK'
  <2>1. /\ task' \in [touched : 0 .. now, value : Values, updated : 0 .. now]
        /\ used' \in 0 .. now
    BY <1>1, <1>2, <1>3, <1>4
  <2> QED BY <1>1, <2>1 DEF Inv, TypeOK
<1>6. CallOK' /\ TaskOK'
  <2>1. task'.touched = now /\ task'.updated = task.updated
    BY <1>4
  <2> QED BY <1>1, <1>2, <2>1 DEF Inv, CallOK, Calling, TaskOK
<1> QED BY <1>1, <1>5, <1>6, UsedJobs DEF Inv

(* What get sends was asked for not long ago.                              *)
LEMMA SendKept ==
    ASSUME Inv, NEW value \in Values, Send(value)
    PROVE  /\ queue' \in Seq([value : 0 .. version, sent : 0 .. now])
           /\ CallOK' /\ JobsOK' /\ ItemOK'
<1> DEFINE job == [value |-> value, sent |-> now]
<1>1. /\ Calling /\ value \in (call.from .. version) \cup {NoValue}
      /\ call' = NoCall
      /\ queue' = Append(queue, job)
      /\ UNCHANGED <<now, ttl, version, changed, item, used>>
  BY DEF Send, Calling
<1>2. /\ now \in Nat /\ Expiry \in Nat /\ MaxLatency \in Nat /\ MaxDelay \in Nat
      /\ version \in Nat /\ changed \in Nat /\ used \in Nat
  BY Numbers DEF Inv
<1>3. /\ call.since \in Nat /\ call.since <= now
      /\ call.from \in Nat /\ 1 <= call.from /\ call.from <= version
      /\ now <= call.since + MaxLatency
      /\ call.from < version => changed >= call.since
      /\ call.since <= used + Expiry
  BY <1>1, <1>2, CallFields DEF Inv, CallOK
<1>4. /\ queue \in Seq([value : 0 .. version, sent : 0 .. now])
      /\ job \in [value : 0 .. version, sent : 0 .. now]
  <2>1. value \in 0 .. version /\ now \in 0 .. now
    BY <1>1, <1>2, <1>3 DEF NoValue
  <2> QED BY <2>1 DEF Inv, TypeOK
<1>5. job.value = value /\ job.sent = now
  OBVIOUS
<1> HIDE DEF job
<1>6. queue' \in Seq([value : 0 .. version, sent : 0 .. now])
  BY <1>1, <1>4, AppendProperties
<1>7. CallOK'
  BY <1>1 DEF CallOK, Calling
<1>8. JobsOK'
  <2> SUFFICES ASSUME NEW i \in 1 .. Len(queue') PROVE JobOK(queue[i])'
    BY DEF JobsOK
  <2>1. /\ i \in 1 .. Len(queue) => queue'[i] = queue[i]
        /\ i \in 1 .. Len(queue) \/ queue'[i] = job
    BY <1>1, <1>4, AppendProperties, LenProperties
  <2>2. CASE queue'[i] = job
    <3>1. value # NoValue /\ value < version => changed >= call.since
      BY <1>1, <1>2, <1>3
    <3>2. now <= used + Expiry + MaxLatency
      BY <1>2, <1>3
    <3>3. changed >= call.since => now <= changed + MaxLatency
      BY <1>2, <1>3
    <3>4. now <= now + MaxDelay
      BY <1>2
    <3> QED BY <1>1, <1>5, <2>2, <3>1, <3>2, <3>3, <3>4 DEF JobOK
  <2>3. CASE i \in 1 .. Len(queue)
    <3>1. JobOK(queue[i])
      BY <2>3 DEF Inv, JobsOK
    <3> QED BY <1>1, <2>1, <2>3, <3>1 DEF JobOK
  <2> QED BY <2>1, <2>2, <2>3
<1>9. ItemOK'
  BY <1>1, SameTtl DEF Inv, ItemOK
<1> QED BY <1>6, <1>7, <1>8, <1>9

LEMMA ReturnKept ==
    ASSUME Inv, NEW value \in Values, Return(value)
    PROVE  Inv'
<1>1. /\ Calling /\ call' = NoCall /\ began' = call.since
      /\ task' = [touched |-> IF call.creates THEN call.since ELSE task.touched,
                  value |-> value, updated |-> UpdatedAt(value)]
      /\ UNCHANGED <<now, ttl, version, changed, item, used>>
  BY DEF Return, Send, Calling
<1>2. /\ now \in Nat /\ used \in Nat
      /\ call.since \in Nat /\ call.since <= now /\ call.creates \in BOOLEAN
  BY <1>1, Numbers, CallFields DEF Inv
<1>3. /\ call.creates => call.since <= used
      /\ ~call.creates => task.touched \in 0 .. now /\ task.touched <= used
  BY <1>1, <1>2, TaskFields DEF Inv, CallOK, TaskOK
<1>4. UpdatedAt(value) \in 0 .. now /\ call.since <= UpdatedAt(value)
  BY <1>2 DEF UpdatedAt
<1>5. /\ task'.touched = (IF call.creates THEN call.since ELSE task.touched)
      /\ task'.updated = UpdatedAt(value)
  BY <1>1
<1>6. TaskOK'
  BY <1>1, <1>3, <1>4, <1>5 DEF TaskOK
<1>7. /\ queue' \in Seq([value : 0 .. version, sent : 0 .. now])
      /\ CallOK' /\ JobsOK' /\ ItemOK'
  BY SendKept DEF Return
<1>8. TypeOK'
  <2>1. task' \in [touched : 0 .. now, value : Values, updated : 0 .. now]
    BY <1>1, <1>2, <1>3, <1>4
  <2>2. began' \in 0 .. now
    BY <1>1, <1>2
  <2> QED BY <1>1, <1>7, <2>1, <2>2 DEF Inv, TypeOK
<1> QED BY <1>6, <1>7, <1>8 DEF Inv

LEMMA DropInsertKept ==
    ASSUME Inv, NEW value \in Values, DropInsert(value)
    PROVE  Inv'
<1>1. /\ call' = NoCall
      /\ UNCHANGED <<now, ttl, version, changed, task, item, began, used>>
  BY DEF DropInsert, Send
<1>2. /\ queue' \in Seq([value : 0 .. version, sent : 0 .. now])
      /\ CallOK' /\ JobsOK' /\ ItemOK'
  BY SendKept DEF DropInsert
<1>3. TypeOK'
  BY <1>1, <1>2 DEF Inv, TypeOK
<1>4. TaskOK'
  BY <1>1 DEF Inv, TaskOK, Tasked
<1> QED BY <1>2, <1>3, <1>4 DEF Inv

(* The writer deals with a job: those behind it come forward.              *)
LEMMA Taken ==
    ASSUME Inv, queue # <<>>, queue' = Tail(queue),
           UNCHANGED <<now, version, changed, used>>
    PROVE  /\ queue' \in Seq([value : 0 .. version, sent : 0 .. now])
           /\ JobsOK'
           /\ JobOK(Head(queue))
           /\ Head(queue).value \in Nat /\ Head(queue).value <= version
           /\ Head(queue).sent \in Nat
<1>1. queue \in Seq([value : 0 .. version, sent : 0 .. now])
  BY DEF Inv, TypeOK
<1>2. /\ queue' \in Seq([value : 0 .. version, sent : 0 .. now])
      /\ Len(queue) \in Nat /\ Len(queue) >= 1 /\ Len(queue') = Len(queue) - 1
      /\ Head(queue) = queue[1]
      /\ \A i \in 1 .. Len(queue') : queue'[i] = queue[i + 1]
  BY <1>1, HeadTailProperties, LenProperties, EmptySeq
<1>3. 1 \in 1 .. Len(queue)
  BY <1>2
<1>4. ASSUME NEW i \in 1 .. Len(queue') PROVE JobOK(queue[i])'
  <2>1. i + 1 \in 1 .. Len(queue) /\ queue'[i] = queue[i + 1]
    BY <1>2
  <2>2. JobOK(queue[i + 1])
    BY <2>1 DEF Inv, JobsOK
  <2> QED BY <2>1, <2>2 DEF JobOK
<1>5. JobsOK'
  BY <1>4 DEF JobsOK
<1> QED BY <1>2, <1>3, <1>5, JobFields DEF Inv, JobsOK

LEMMA LostKept == ASSUME Inv, Lost PROVE Inv'
<1>1. /\ queue # <<>> /\ queue' = Tail(queue)
      /\ UNCHANGED <<now, ttl, version, changed, task, call, item, began, used>>
  BY DEF Lost
<1>2. queue' \in Seq([value : 0 .. version, sent : 0 .. now]) /\ JobsOK'
  BY <1>1, Taken
<1>3. TypeOK'
  BY <1>1, <1>2 DEF Inv, TypeOK
<1>4. CallOK' /\ TaskOK' /\ ItemOK'
  BY <1>1, SameTtl DEF Inv, CallOK, Calling, TaskOK, ItemOK, Tasked
<1> QED BY <1>2, <1>3, <1>4 DEF Inv

LEMMA WrittenKept == ASSUME Inv, Written PROVE Inv'
<1>1. /\ queue # <<>> /\ queue' = Tail(queue)
      /\ item' = (IF Head(queue).value = NoValue \/ Until = now THEN NoItem
                  ELSE [until |-> Until, value |-> Head(queue).value])
      /\ UNCHANGED <<now, ttl, version, changed, task, call, began, used>>
  BY DEF Written
<1>2. /\ queue' \in Seq([value : 0 .. version, sent : 0 .. now]) /\ JobsOK'
      /\ JobOK(Head(queue))
      /\ Head(queue).value \in Nat /\ Head(queue).value <= version
      /\ Head(queue).sent \in Nat
  BY <1>1, Taken
<1>3. /\ now \in Nat /\ now < Never /\ Never \in Nat /\ Month \in Nat
      /\ Seconds \in Nat /\ Lasting \in Nat /\ (Seconds > 0 => Lasting > 0)
      /\ Expiry \in Nat /\ MaxLatency \in Nat /\ MaxDelay \in Nat
      /\ changed \in Nat /\ version \in Nat /\ used \in Nat
  BY Numbers DEF Inv
<1>4. /\ Until \in Nat /\ now <= Until /\ Until <= Never
      /\ Until # now /\ Seconds > 0 => Until <= now + Lasting
  BY <1>3 DEF Until, Lasting
<1>5. CASE Head(queue).value = NoValue \/ Until = now
  <2>1. item' = NoItem
    BY <1>1, <1>5
  <2>2. TypeOK'
    BY <1>1, <1>2, <2>1 DEF Inv, TypeOK
  <2>3. CallOK' /\ TaskOK' /\ ItemOK'
    BY <1>1, <2>1 DEF Inv, CallOK, Calling, TaskOK, ItemOK, Tasked
  <2> QED BY <1>2, <2>2, <2>3 DEF Inv
<1>6. CASE Head(queue).value # NoValue /\ Until # now
  <2>1. item' = [until |-> Until, value |-> Head(queue).value]
    BY <1>1, <1>6
  <2>2. item'.until = Until /\ item'.value = Head(queue).value
    BY <2>1
  <2>3. TypeOK'
    <3>1. Until \in (now + 1) .. Never /\ Head(queue).value \in 1 .. version
      BY <1>2, <1>3, <1>4, <1>6 DEF NoValue
    <3> QED BY <1>1, <1>2, <2>1, <3>1 DEF Inv, TypeOK
  <2>4. CallOK' /\ TaskOK'
    BY <1>1 DEF Inv, CallOK, Calling, TaskOK, Tasked
  <2>5. ItemOK'
    <3> SUFFICES ASSUME Seconds > 0
                 PROVE  /\ Until <= now + Lasting
                        /\ Until <= used + Expiry + MaxLatency + MaxDelay + Lasting
                        /\ Head(queue).value < version =>
                              Until <= changed + MaxLatency + MaxDelay + Lasting
      BY <1>1, <2>2, SameTtl DEF ItemOK
    <3>1. Until <= now + Lasting
      BY <1>4, <1>6
    <3> DEFINE sent == Head(queue).sent
               value == Head(queue).value
    <3>2. /\ sent \in Nat /\ now <= sent + MaxDelay
          /\ sent <= used + Expiry + MaxLatency
          /\ value < version => sent <= changed + MaxLatency
      BY <1>2, <1>6 DEF JobOK
    <3> HIDE DEF sent, value
    <3>3. Until <= sent + MaxDelay + Lasting
      BY <1>3, <1>4, <3>1, <3>2
    <3>4. Until <= used + Expiry + MaxLatency + MaxDelay + Lasting
      BY <1>3, <1>4, <3>2, <3>3
    <3>5. value < version => Until <= changed + MaxLatency + MaxDelay + Lasting
      BY <1>3, <1>4, <3>2, <3>3
    <3> QED BY <3>1, <3>4, <3>5 DEF value
  <2> QED BY <1>2, <2>3, <2>4, <2>5 DEF Inv
<1> QED BY <1>5, <1>6

LEMMA EvictKept == ASSUME Inv, Evict PROVE Inv'
<1>1. /\ item' = NoItem
      /\ UNCHANGED <<now, ttl, version, changed, task, call, queue, began, used>>
  BY DEF Evict
<1>2. TypeOK'
  BY <1>1 DEF Inv, TypeOK
<1>3. CallOK' /\ TaskOK' /\ JobsOK' /\ ItemOK'
  BY <1>1 DEF Inv, CallOK, Calling, TaskOK, JobsOK, JobOK, ItemOK, Tasked
<1> QED BY <1>2, <1>3 DEF Inv

(* What is replaced now was sent, and is in the target, since before now.  *)
LEMMA SourceChangeKept == ASSUME Inv, SourceChange PROVE Inv'
<1>1. /\ version < MaxVersion /\ version' = version + 1 /\ changed' = now
      /\ UNCHANGED <<now, ttl, task, call, queue, item, began, used>>
  BY DEF SourceChange
<1>2. /\ now \in Nat /\ version \in Nat /\ MaxLatency \in Nat /\ MaxDelay \in Nat
      /\ version >= 1 /\ changed \in Nat /\ changed <= now /\ Lasting \in Nat
  BY Numbers DEF Inv
<1>3. TypeOK'
  <2>1. /\ version' \in 1 .. MaxVersion /\ changed' \in 0 .. now
        /\ 1 .. version \subseteq 1 .. version' /\ 0 .. version \subseteq 0 .. version'
    BY <1>1, <1>2, MonitorAssumption
  <2>2. queue' \in Seq([value : 0 .. version', sent : 0 .. now'])
    <3> DEFINE Sent == [value : 0 .. version, sent : 0 .. now]
               SentThen == [value : 0 .. version', sent : 0 .. now']
    <3>1. Sent \subseteq SentThen
      BY <1>1, <2>1
    <3>2. queue \in Seq(Sent)
      BY DEF Inv, TypeOK
    <3> HIDE DEF Sent, SentThen
    <3>3. queue \in Seq(SentThen)
      BY <3>1, <3>2, SeqGrows
    <3> QED BY <1>1, <3>3 DEF SentThen
  <2>3. call' \in [since : 0 .. now', from : 1 .. version', creates : BOOLEAN] \cup {NoCall}
    BY <1>1, <2>1 DEF Inv, TypeOK
  <2>4. item' \in [until : (now' + 1) .. Never, value : 1 .. version'] \cup {NoItem}
    BY <1>1, <2>1 DEF Inv, TypeOK
  <2> QED BY <1>1, <2>1, <2>2, <2>3, <2>4 DEF Inv, TypeOK
<1>4. CallOK'
  <2> SUFFICES ASSUME Calling PROVE CallOK'
    BY <1>1 DEF CallOK, Calling
  <2>1. call.since <= now
    BY CallFields DEF Inv
  <2> QED BY <1>1, <2>1 DEF Inv, CallOK, Calling, Tasked
<1>5. TaskOK'
  BY <1>1 DEF Inv, TaskOK, Tasked
<1>6. JobsOK'
  <2> SUFFICES ASSUME NEW i \in 1 .. Len(queue) PROVE JobOK(queue[i])'
    BY <1>1 DEF JobsOK
  <2>1. JobOK(queue[i]) /\ queue[i].sent \in Nat /\ queue[i].sent <= now
    BY JobFields DEF Inv, JobsOK
  <2> QED BY <1>1, <1>2, <2>1 DEF JobOK, Tasked
<1>7. ItemOK'
  <2> SUFFICES ASSUME item # NoItem, Seconds > 0
               PROVE  item.until <= now + MaxLatency + MaxDelay + Lasting
    BY <1>1, SameTtl DEF Inv, ItemOK, Tasked
  <2>1. item.until <= now + Lasting /\ item.until \in Nat
    BY ItemFields DEF Inv, ItemOK
  <2> QED BY <1>2, <2>1
<1> QED BY <1>3, <1>4, <1>5, <1>6, <1>7 DEF Inv

LEMMA TickKept == ASSUME Inv, Tick PROVE Inv'
<1>1. /\ now < MaxTime /\ now' = now + 1
      /\ Calling => now < call.since + MaxLatency
      /\ \A i \in DOMAIN queue : now < queue[i].sent + MaxDelay
      /\ item' = (IF item.until <= now' THEN NoItem ELSE item)
      /\ UNCHANGED <<ttl, version, changed, task, call, queue, began, used>>
  BY DEF Tick, Calling
<1>2. /\ now \in Nat /\ MaxTime \in Nat /\ Never = MaxTime + 1 /\ MaxLatency \in Nat
      /\ MaxDelay \in Nat /\ Lasting \in Nat
  BY Numbers, MonitorAssumption DEF Inv
<1>3. item' = NoItem \/ (item' = item /\ (item # NoItem => now + 1 < item.until))
  <2>1. item # NoItem => item.until \in Nat
    BY ItemFields DEF Inv
  <2> QED BY <1>1, <1>2, <2>1
<1>4. TypeOK'
  <2>1. now' \in Times /\ 0 .. now \subseteq 0 .. now'
    BY <1>1, <1>2 DEF Times
  <2>2. changed' \in 0 .. now' /\ began' \in 0 .. now' /\ used' \in 0 .. now'
    BY <1>1, <2>1 DEF Inv, TypeOK
  <2>3. task' \in [touched : 0 .. now', value : Values, updated : 0 .. now'] \cup {NoTask}
    BY <1>1, <2>1 DEF Inv, TypeOK
  <2>4. call' \in [since : 0 .. now', from : 1 .. version', creates : BOOLEAN] \cup {NoCall}
    BY <1>1, <2>1 DEF Inv, TypeOK
  <2>5. queue' \in Seq([value : 0 .. version', sent : 0 .. now'])
    <3> DEFINE Sent == [value : 0 .. version, sent : 0 .. now]
               SentThen == [value : 0 .. version', sent : 0 .. now']
    <3>1. Sent \subseteq SentThen
      BY <1>1, <2>1
    <3>2. queue \in Seq(Sent)
      BY DEF Inv, TypeOK
    <3> HIDE DEF Sent, SentThen
    <3>3. queue \in Seq(SentThen)
      BY <3>1, <3>2, SeqGrows
    <3> QED BY <1>1, <3>3 DEF SentThen
  <2>6. item' \in [until : (now' + 1) .. Never, value : 1 .. version'] \cup {NoItem}
    <3> SUFFICES ASSUME item # NoItem, item' = item
                 PROVE  item \in [until : (now' + 1) .. Never, value : 1 .. version]
      BY <1>1, <1>3
    <3>1. item \in [until : (now + 1) .. Never, value : 1 .. version]
      BY DEF Inv, TypeOK
    <3>2. item = [until |-> item.until, value |-> item.value] /\ item.value \in 1 .. version
      BY <3>1
    <3>3. item.until \in (now' + 1) .. Never
      <4>1. item.until \in Nat /\ item.until <= Never /\ now + 1 < item.until
        BY <1>3, ItemFields DEF Inv
      <4> QED BY <1>1, <1>2, <4>1
    <3> QED BY <3>2, <3>3
  <2> QED BY <1>1, <2>1, <2>2, <2>3, <2>4, <2>5, <2>6 DEF Inv, TypeOK
<1>5. CallOK'
  <2> SUFFICES ASSUME Calling PROVE CallOK'
    BY <1>1 DEF CallOK, Calling
  <2>1. call.since \in Nat
    BY CallFields DEF Inv
  <2> QED BY <1>1, <1>2, <2>1 DEF Inv, CallOK, Calling, Tasked
<1>6. TaskOK'
  BY <1>1 DEF Inv, TaskOK, Tasked
<1>7. JobsOK'
  <2> SUFFICES ASSUME NEW i \in 1 .. Len(queue) PROVE JobOK(queue[i])'
    BY <1>1 DEF JobsOK
  <2>1. JobOK(queue[i]) /\ queue[i].sent \in Nat
    BY JobFields DEF Inv, JobsOK
  <2>2. now < queue[i].sent + MaxDelay
    BY <1>1, LenProperties DEF Inv, TypeOK
  <2> QED BY <1>1, <1>2, <2>1, <2>2 DEF JobOK, Tasked
<1>8. ItemOK'
  <2> SUFFICES ASSUME item # NoItem, item' = item PROVE ItemOK'
    BY <1>3 DEF ItemOK
  <2>1. item.until \in Nat
    BY ItemFields DEF Inv
  <2> QED BY <1>1, <1>2, <2>1, SameTtl DEF Inv, ItemOK, Tasked
<1> QED BY <1>4, <1>5, <1>6, <1>7, <1>8 DEF Inv

LEMMA StutterKept == ASSUME Inv, UNCHANGED monitorVars PROVE Inv'
<1>1. UNCHANGED <<now, ttl, version, changed, task, call, queue, item, began, used>>
  BY DEF monitorVars
<1>2. TypeOK' /\ CallOK' /\ TaskOK'
  BY <1>1 DEF Inv, TypeOK, CallOK, Calling, TaskOK, Tasked
<1> QED BY <1>1, <1>2, SameJobs DEF Inv

LEMMA InvInit == Init => Inv
<1> SUFFICES ASSUME Init PROVE Inv
  OBVIOUS
<1>1. TypeOK
  BY MonitorAssumption, EmptySeq
  DEF Init, TypeOK, Times, NoTask, NoCall, NoItem
<1>2. ~Tasked /\ ~Calling /\ item = NoItem /\ 1 .. Len(queue) = {}
  BY EmptySeq DEF Init, Tasked, Calling
<1> QED BY <1>1, <1>2 DEF Inv, CallOK, TaskOK, JobsOK, ItemOK

LEMMA InvStep == Inv /\ [Next]_monitorVars => Inv'
BY CreateKept, TouchKept, DropKept, ForgetKept, PollRefreshesKept, ReturnKept,
   DropInsertKept, WrittenKept, LostKept, EvictKept, SourceChangeKept, TickKept, StutterKept
   DEF Next

(* How long after the last request, and after the source replaced what     *)
(* they carry, jobs are sent and items end, in any order of late, lost and *)
(* written jobs (get, poll, process).                                      *)
THEOREM InvHolds == Spec => []Inv
BY InvInit, InvStep, PTL DEF Spec

(* The type invariant, for any TTLs, expiry, latency, delay and clock.     *)
THEOREM TypeCorrect == Spec => []TypeOK
<1>1. Inv => TypeOK
  BY DEF Inv
<1> QED BY <1>1, InvHolds, PTL

(* The target gives a replaced answer for a TTL, a call and a job only     *)
(* (get, send, process).                                                   *)
THEOREM StaleForTtlOnlyHolds == Spec => []StaleForTtlOnly
<1>1. Inv => StaleForTtlOnly
  <2> SUFFICES ASSUME Inv, item # NoItem, Seconds > 0, item.value < version
               PROVE  now <= changed + MaxLatency + MaxDelay + ttl
    BY DEF StaleForTtlOnly
  <2>1. now < item.until /\ item.until <= changed + MaxLatency + MaxDelay + Lasting
    BY ItemFields DEF Inv, ItemOK
  <2>2. item.until \in Nat
    BY ItemFields DEF Inv
  <2>3. /\ now \in Nat /\ changed \in Nat /\ MaxLatency \in Nat /\ MaxDelay \in Nat
        /\ Lasting \in Nat /\ ttl \in Nat /\ Lasting <= ttl
    BY Numbers DEF Inv
  <2> QED BY <2>1, <2>2, <2>3
<1> QED BY <1>1, InvHolds, PTL

(* A key that is not asked for leaves the target (poll, send, process).    *)
THEOREM UnusedIsForgottenHolds == Spec => []UnusedIsForgotten
<1>1. Inv => UnusedIsForgotten
  <2> SUFFICES ASSUME Inv, item # NoItem, Seconds > 0
               PROVE  now <= used + Expiry + MaxLatency + MaxDelay + ttl
    BY DEF UnusedIsForgotten
  <2>1. /\ now < item.until
        /\ item.until <= used + Expiry + MaxLatency + MaxDelay + Lasting
    BY ItemFields DEF Inv, ItemOK
  <2>2. item.until \in Nat /\ used \in Nat
    BY ItemFields, Numbers DEF Inv
  <2>3. /\ now \in Nat /\ Expiry \in Nat /\ MaxLatency \in Nat /\ MaxDelay \in Nat
        /\ Lasting \in Nat /\ ttl \in Nat /\ Lasting <= ttl
    BY Numbers DEF Inv
  <2> QED BY <2>1, <2>2, <2>3
<1> QED BY <1>1, InvHolds, PTL

(* A poll asks the source once in half a TTL at most (poll, Response).     *)
THEOREM SourceIsSparedHolds == Spec => SourceIsSpared
<1>1. ASSUME Inv, PollRefreshes PROVE now > began + ttl \div 2
  <2>1. now > task.updated + ttl \div 2 /\ Tasked
    BY <1>1 DEF PollRefreshes, NextPoll, Tasked
  <2>2. began <= task.updated
    BY <1>1, <2>1 DEF Inv, TaskOK
  <2>3. task.updated \in Nat /\ began \in Nat /\ ttl \div 2 \in Nat /\ now \in Nat
    BY <1>1, <2>1, TaskFields, Numbers DEF Inv, TypeOK
  <2> QED BY <2>1, <2>2, <2>3
<1>2. Inv => [PollRefreshes => now > began + ttl \div 2]_monitorVars
  BY <1>1
<1> QED BY <1>2, InvHolds, PTL DEF SourceIsSpared
=============================================================================
