------------------------------ MODULE PoolProofs ------------------------------
(***************************************************************************)
(* The pool serves the calls that the service's mutex lets through, for    *)
(* any number of clients, threads and connections.                         *)
(***************************************************************************)
EXTENDS Pool, FiniteSetTheorems, TLAPS

Calling == {"call", "get", "send", "reply"}

TypeOK ==
    /\ pc \in [Connections -> Calling \cup {"idle", "lock"}]
    /\ conns \in Nat /\ idle \in Nat /\ opening \in Nat

(* The mutex lets one task at a time call the source.                      *)
OneCall == \A c, d \in Connections :
    pc[c] \in Calling /\ pc[d] \in Calling => c = d

Inv == TypeOK /\ OneCall /\ Accounted /\ NeverShort

-----------------------------------------------------------------------------
(* With one call there is one connection out, or none.                     *)
LEMMA Out ==
    ASSUME NEW f,
           \A c, d \in Connections : f[c] \in Calling /\ f[d] \in Calling => c = d
    PROVE  LET out == {c \in Connections : f[c] = "send"} IN
           /\ Cardinality(out) \in {0, 1}
           /\ \A c \in Connections : f[c] \in Calling =>
                 Cardinality(out) = IF f[c] = "send" THEN 1 ELSE 0
           /\ (\A c \in Connections : f[c] # "send") => Cardinality(out) = 0
<1> DEFINE out == {c \in Connections : f[c] = "send"}
<1>1. ASSUME NEW c \in Connections, f[c] = "send"
      PROVE  Cardinality(out) = 1
  <2>1. out = {c}
    BY <1>1 DEF Calling
  <2> QED BY <2>1, FS_Singleton
<1>2. ASSUME \A c \in Connections : f[c] # "send"
      PROVE  Cardinality(out) = 0
  <2>1. out = {}
    BY <1>2
  <2> QED BY <2>1, FS_EmptySet
<1>3. Cardinality(out) \in {0, 1}
  BY <1>1, <1>2
<1>4. ASSUME NEW c \in Connections, f[c] \in Calling
      PROVE  Cardinality(out) = IF f[c] = "send" THEN 1 ELSE 0
  <2>1. CASE f[c] = "send"
    BY <1>1, <2>1
  <2>2. CASE f[c] # "send"
    <3>1. \A d \in Connections : f[d] # "send"
      BY <1>4, <2>2 DEF Calling
    <3> QED BY <1>2, <2>2, <3>1
  <2> QED BY <2>1, <2>2
<1> QED BY <1>2, <1>3, <1>4

(* What r2d2's threads are told to open fits the pool.                     *)
LEMMA Room ==
    ASSUME NEW n \in Nat, NEW o \in Nat, NEW k \in Nat, NEW size \in Nat,
           k + o <= size
    PROVE  LET p == IF k + o + n <= size THEN o + n ELSE size - k IN
           /\ p \in Nat /\ k + p <= size
           /\ n > 0 /\ k = 0 /\ size > 0 => p > 0
OBVIOUS

LEMMA Missing ==
    ASSUME NEW i \in Nat, NEW least \in Nat
    PROVE  (IF i < least THEN least - i ELSE 0) \in Nat
OBVIOUS

LEMMA Opening ==
    ASSUME NEW n \in Nat, opening \in Nat, conns' \in Nat,
           conns' + opening <= MaxSize, OpenUpTo(n)
    PROVE  /\ opening' \in Nat
           /\ conns' + opening' <= MaxSize
           /\ n > 0 /\ conns' = 0 => opening' > 0
<1>1. MaxSize \in Nat /\ MaxSize > 0
  BY PoolAssumption
<1>2. opening' = IF conns' + opening + n <= MaxSize THEN opening + n ELSE MaxSize - conns'
  BY DEF OpenUpTo
<1> QED BY <1>1, <1>2, Room

LEMMA Replenished ==
    ASSUME TypeOK, idle' \in Nat, conns' \in Nat,
           conns' + opening <= MaxSize, Replenish
    PROVE  opening' \in Nat /\ conns' + opening' <= MaxSize
<1> DEFINE n == IF idle' < MinIdle THEN MinIdle - idle' ELSE 0
<1>1. MinIdle \in Nat
  BY PoolAssumption
<1>2. n \in Nat
  BY <1>1, Missing
<1>3. OpenUpTo(n)
  BY DEF Replenish
<1> HIDE DEF n
<1> QED BY <1>2, <1>3, Opening DEF TypeOK

-----------------------------------------------------------------------------
(* One step of each kind.                                                  *)

LEMMA InvInit == Init => Inv
<1> SUFFICES ASSUME Init PROVE Inv
  OBVIOUS
<1>1. \A c \in Connections : pc[c] = "idle"
  BY DEF Init
<1>2. TypeOK /\ OneCall
  BY <1>1, PoolAssumption DEF Init, TypeOK, OneCall, Calling
<1>3. Cardinality(In("send")) = 0 /\ In("get") = {}
  BY <1>1, FS_EmptySet DEF In
<1>4. Accounted
  BY <1>3, PoolAssumption DEF Init, Accounted
<1> QED BY <1>2, <1>3, <1>4 DEF Inv, NeverShort

(* A task's step leaves one call, whose place the task's own says.         *)
LEMMA OneCallStep ==
    ASSUME TypeOK, OneCall, [Next]_poolVars
    PROVE  OneCall'
<1>1. ASSUME NEW c \in Connections, Acquire(c)
      PROVE  OneCall'
  <2>1. \A d \in Connections : pc[d] \notin Calling
    BY <1>1 DEF Acquire, Locked, Calling
  <2>2. \A d \in Connections : d # c => pc'[d] = pc[d]
    BY <1>1 DEF Acquire, At, TypeOK
  <2> QED BY <2>1, <2>2 DEF OneCall
<1>2. ASSUME NEW c \in Connections,
             \/ Ask(c) \/ Get(c) \/ Got(c) \/ GetFails(c)
             \/ Answer(c) \/ Timeout(c) \/ Reply(c)
      PROVE  OneCall'
  <2>1. \A d \in Connections : pc'[d] \in Calling => pc[d] \in Calling
    BY <1>2 DEF Ask, Get, Got, GetFails, Answer, Timeout, Reply, At, TypeOK,
                Calling
  <2> QED BY <2>1 DEF OneCall
<1>3. CASE Opened \/ Reap \/ UNCHANGED poolVars
  BY <1>3 DEF Opened, Reap, poolVars, OneCall
<1> QED BY <1>1, <1>2, <1>3 DEF Next, Task

(* How many connections are out, before a step or after it: as many as     *)
(* there are calls that have one, and there is one call.                   *)
LEMMA OneOut ==
    ASSUME OneCall
    PROVE  /\ Cardinality(In("send")) \in {0, 1}
           /\ \A c \in Connections : pc[c] \in Calling =>
                 Cardinality(In("send")) = IF pc[c] = "send" THEN 1 ELSE 0
           /\ (\A c \in Connections : pc[c] # "send") =>
                 Cardinality(In("send")) = 0
BY Out DEF OneCall, In

LEMMA OneOutAfter ==
    ASSUME OneCall'
    PROVE  /\ Cardinality(In("send"))' \in {0, 1}
           /\ \A c \in Connections : pc'[c] \in Calling =>
                 Cardinality(In("send"))' = IF pc'[c] = "send" THEN 1 ELSE 0
           /\ (\A c \in Connections : pc'[c] # "send") =>
                 Cardinality(In("send"))' = 0
BY Out DEF OneCall, In

(* Who takes a connection was the only call, and had none.                 *)
LEMMA Taken ==
    ASSUME Inv, OneCall', NEW c \in Connections, pc[c] \in {"call", "get"},
           At(c, pc[c], "send")
    PROVE  Cardinality(In("send")) = 0 /\ Cardinality(In("send"))' = 1
<1>1. pc'[c] = "send"
  BY DEF At, Inv, TypeOK
<1> QED BY <1>1, OneOut, OneOutAfter DEF Calling, Inv

LEMMA GivenBack ==
    ASSUME Inv, OneCall', NEW c \in Connections, At(c, "send", "reply")
    PROVE  Cardinality(In("send")) = 1 /\ Cardinality(In("send"))' = 0
<1>1. pc[c] = "send" /\ pc'[c] = "reply"
  BY DEF At, Inv, TypeOK
<1> QED BY <1>1, OneOut, OneOutAfter DEF Calling, Inv

LEMMA Counting ==
    ASSUME NEW k \in Nat, NEW i \in Nat, NEW o \in Nat, NEW n \in Nat,
           NEW size \in Nat, k = i + n, k + o <= size
    PROVE  /\ n = 0 /\ i > 0 => i - 1 \in Nat /\ k = (i - 1) + 1
           /\ n = 1 => i + 1 \in Nat /\ k = (i + 1) + 0
           /\ o > 0 => /\ o - 1 \in Nat /\ k + 1 \in Nat /\ i + 1 \in Nat
                       /\ k + 1 = (i + 1) + n /\ (k + 1) + (o - 1) <= size
                       /\ (i + 1) + (o - 1) = i + o
           /\ i > 0 => /\ i - 1 \in Nat /\ k - 1 \in Nat
                       /\ k - 1 = (i - 1) + n /\ (k - 1) + o <= size
           /\ n = 0 /\ i = 0 => k = 0
OBVIOUS

LEMMA OnItsWay ==
    ASSUME NEW i \in Nat, NEW o \in Nat, o > 0
    PROVE  i + o > 0
OBVIOUS

(* The pool's numbers after a step.                                        *)
Numbers ==
    /\ conns \in Nat /\ idle \in Nat /\ opening \in Nat
    /\ Accounted

LEMMA NumbersStep ==
    ASSUME Inv, OneCall', [Next]_poolVars
    PROVE  Numbers'
<1> DEFINE out == Cardinality(In("send"))
<1>0. /\ conns \in Nat /\ idle \in Nat /\ opening \in Nat /\ out \in Nat
      /\ MaxSize \in Nat
      /\ conns = idle + out /\ conns + opening <= MaxSize
  BY OneOut, PoolAssumption DEF Inv, TypeOK, Accounted
<1>00. out' = Cardinality(In("send"))'
  OBVIOUS
<1>1. ASSUME NEW c \in Connections,
             Ask(c) \/ Acquire(c) \/ GetFails(c) \/ Reply(c)
      PROVE  Numbers'
  <2>1. In("send")' = In("send")
    BY <1>1 DEF Ask, Acquire, GetFails, Reply, At, In, Inv, TypeOK
  <2>2. UNCHANGED <<conns, idle, opening>>
    BY <1>1 DEF Ask, Acquire, GetFails, Reply
  <2> QED BY <1>0, <2>1, <2>2 DEF Numbers, Accounted
<1>2. ASSUME NEW c \in Connections, Get(c), idle = 0
      PROVE  Numbers'
  <2>1. At(c, "call", "get") /\ UNCHANGED <<conns, idle>> /\ OpenUpTo(1)
    BY <1>2 DEF Get
  <2>2. In("send")' = In("send")
    BY <2>1 DEF At, In, Inv, TypeOK
  <2>3. opening' \in Nat /\ conns' + opening' <= MaxSize
    BY <1>0, <2>1, Opening
  <2> QED BY <1>0, <2>1, <2>2, <2>3 DEF Numbers, Accounted
<1>3. ASSUME NEW c \in Connections, Got(c) \/ (Get(c) /\ idle > 0)
      PROVE  Numbers'
  <2>1. /\ idle > 0 /\ idle' = idle - 1 /\ conns' = conns /\ Replenish
        /\ pc[c] \in {"call", "get"} /\ At(c, pc[c], "send")
    BY <1>0, <1>3 DEF Get, Got, At
  <2>2. out = 0 /\ out' = 1
    BY <2>1, Taken
  <2>3. idle' \in Nat /\ conns' = idle' + 1
    BY <1>0, <2>1, <2>2, Counting
  <2>4. opening' \in Nat /\ conns' + opening' <= MaxSize
    BY <1>0, <2>1, <2>3, Replenished DEF Inv
  <2> QED BY <1>0, <2>1, <2>2, <2>3, <2>4 DEF Numbers, Accounted
<1>4. ASSUME NEW c \in Connections, Answer(c) \/ Timeout(c)
      PROVE  Numbers'
  <2>1. At(c, "send", "reply") /\ idle' = idle + 1 /\ UNCHANGED <<conns, opening>>
    BY <1>4 DEF Answer, Timeout
  <2>2. out = 1 /\ out' = 0
    BY <2>1, GivenBack
  <2>3. idle' \in Nat /\ conns' = idle' + 0
    BY <1>0, <2>1, <2>2, Counting
  <2> QED BY <1>0, <2>1, <2>2, <2>3 DEF Numbers, Accounted
<1>5. CASE Opened
  <2>1. /\ opening > 0 /\ opening' = opening - 1 /\ conns' = conns + 1
        /\ idle' = idle + 1 /\ In("send")' = In("send")
    BY <1>5 DEF Opened, In
  <2>2. /\ opening - 1 \in Nat /\ conns + 1 \in Nat /\ idle + 1 \in Nat
        /\ conns + 1 = (idle + 1) + out /\ (conns + 1) + (opening - 1) <= MaxSize
    BY <1>0, <2>1, Counting
  <2> QED BY <2>1, <2>2 DEF Numbers, Accounted
<1>6. CASE Reap
  <2>1. /\ idle > 0 /\ idle' = idle - 1 /\ conns' = conns - 1 /\ Replenish
        /\ In("send")' = In("send")
    BY <1>6 DEF Reap, In
  <2>2. /\ idle' \in Nat /\ conns' \in Nat
        /\ conns' = idle' + out /\ conns' + opening <= MaxSize
    BY <1>0, <2>1, Counting
  <2>3. opening' \in Nat /\ conns' + opening' <= MaxSize
    BY <2>1, <2>2, Replenished DEF Inv
  <2> QED BY <2>1, <2>2, <2>3 DEF Numbers, Accounted
<1>7. CASE UNCHANGED poolVars
  <2>1. UNCHANGED <<conns, idle, opening>> /\ In("send")' = In("send")
    BY <1>7 DEF poolVars, In
  <2> QED BY <1>0, <2>1 DEF Numbers, Accounted
<1>8. ASSUME NEW c \in Connections, Get(c)
      PROVE  idle = 0 \/ (Get(c) /\ idle > 0)
  BY <1>8 DEF Get
<1> HIDE DEF out
<1> QED BY <1>1, <1>2, <1>3, <1>4, <1>5, <1>6, <1>7, <1>8 DEF Next, Task

(* Whoever waits in get is the only call, and none was when it came.       *)
LEMMA NeverShortStep ==
    ASSUME Inv, OneCall', Numbers', [Next]_poolVars
    PROVE  NeverShort'
<1> USE DEF Inv, TypeOK
<1>1. SUFFICES ASSUME NEW d \in Connections, pc'[d] = "get"
               PROVE  (idle + opening > 0)'
  <2>1. In("get")' # {} => In("send")' = {}
    BY DEF In, OneCall, Calling
  <2> QED BY <1>1, <2>1 DEF NeverShort, In
<1>2. pc[d] = "get" => idle + opening > 0 /\ \A c \in Connections : pc[c] \in Calling => c = d
  BY DEF NeverShort, In, OneCall, Calling
<1>3. ASSUME NEW c \in Connections,
             Acquire(c) \/ Got(c) \/ GetFails(c) \/ Answer(c) \/ Timeout(c)
      PROVE  FALSE
  <2>1. pc'[c] \in Calling /\ pc'[c] # "get"
    BY <1>3 DEF Acquire, Got, GetFails, Answer, Timeout, At, Calling
  <2> QED BY <1>1, <2>1 DEF OneCall, Calling
<1>4. ASSUME NEW c \in Connections, Ask(c) \/ Reply(c)
      PROVE  (idle + opening > 0)'
  <2>1. pc[d] = "get" /\ UNCHANGED <<idle, opening>>
    BY <1>1, <1>4 DEF Ask, Reply, At
  <2> QED BY <1>2, <2>1
<1>5. ASSUME NEW c \in Connections, Get(c)
      PROVE  (idle + opening > 0)'
  <2>1. pc[c] = "call" /\ pc'[c] \in {"get", "send"}
    BY <1>5 DEF Get, At
  <2>2. c = d
    BY <1>1, <2>1 DEF OneCall, Calling
  <2>3. idle = 0 /\ OpenUpTo(1) /\ UNCHANGED <<conns, idle>>
    BY <1>1, <1>5, <2>2 DEF Get, At
  <2>4. Cardinality(In("send")) = 0
    BY <2>1, OneOut DEF Calling
  <2>5. conns = 0
    BY <2>3, <2>4 DEF Accounted
  <2>6. opening' > 0
    BY <2>3, <2>5, Opening DEF Accounted
  <2>7. idle' \in Nat /\ opening' \in Nat
    BY DEF Numbers
  <2> QED BY <2>6, <2>7, OnItsWay
<1>6. CASE Opened
  <2>1. pc[d] = "get" /\ idle' = idle + 1 /\ opening \in Nat /\ opening > 0
        /\ opening' = opening - 1 /\ idle \in Nat
    BY <1>1, <1>6 DEF Opened
  <2> QED BY <2>1
<1>7. CASE Reap
  BY <1>1, <1>7 DEF Reap, In
<1>8. CASE UNCHANGED poolVars
  BY <1>1, <1>2, <1>8 DEF poolVars
<1> QED BY <1>3, <1>4, <1>5, <1>6, <1>7, <1>8 DEF Next, Task

LEMMA InvStep == Inv /\ [Next]_poolVars => Inv'
<1> SUFFICES ASSUME Inv, [Next]_poolVars PROVE Inv'
  OBVIOUS
<1>1. OneCall'
  BY OneCallStep DEF Inv
<1>2. Numbers'
  BY <1>1, NumbersStep
<1>3. (pc \in [Connections -> Calling \cup {"idle", "lock"}])'
  BY DEF Inv, TypeOK, Calling, Next, Task, Ask, Acquire, Get, Got, GetFails,
         Answer, Timeout, Reply, At, Opened, Reap, poolVars
<1>4. NeverShort'
  BY <1>1, <1>2, NeverShortStep
<1> QED BY <1>1, <1>2, <1>3, <1>4 DEF Inv, TypeOK, Numbers

LEMMA InvAlways == Spec => []Inv
BY InvInit, InvStep, PTL DEF Spec

-----------------------------------------------------------------------------
(* A dropped call loses no connection (AwsSecretsManager::call), and the   *)
(* pool never has more than its size.                                      *)
THEOREM AccountedHolds == Spec => []Accounted
BY InvAlways, PTL DEF Inv

(* A thread that is blocked in get (AwsSecretsManager::call) waits for a   *)
(* connection that is on its way, and never for another call.              *)
THEOREM NeverShortHolds == Spec => []NeverShort
BY InvAlways, PTL DEF Inv
=============================================================================
