---------------------------- MODULE WorkerProofs ----------------------------
(* TLAPS proofs about Worker, for every set of calls, keys and inputs and  *)
(* every limit.                                                            *)
EXTENDS Worker, FiniteSetTheorems, TLAPS

\* A closed worker is down, and an ended worker runs nothing.
WorkerDown ==
  /\ phase = "closed" => ~up
  /\ ~up => running = NoJob

-----------------------------------------------------------------------------
(* Type correctness.                                                       *)

LEMMA PopExpiredType ==
  ASSUME TypeOK, PopExpired
  PROVE  cache' \in Seq(Entries)
BY DEF TypeOK, PopExpired

LEMMA RememberType ==
  ASSUME TypeOK, NEW e \in Entries, Remember(e)
  PROVE  cache' \in Seq(Entries)
<1> DEFINE put == IF Cached(cache, e.key) = {}
                  THEN Append(cache, e)
                  ELSE [n \in 1..Len(cache) |-> IF n \in Cached(cache, e.key) THEN e ELSE cache[n]]
<1>1. put \in Seq(Entries)
  <2>1. CASE Cached(cache, e.key) = {}
    BY <2>1 DEF TypeOK
  <2>2. CASE Cached(cache, e.key) # {}
    <3>1. \A n \in 1..Len(cache) : cache[n] \in Entries
      BY DEF TypeOK
    <3>2. put = [n \in 1..Len(cache) |-> IF n \in Cached(cache, e.key) THEN e ELSE cache[n]]
      BY <2>2
    <3>3. put \in [1..Len(cache) -> Entries]
      BY <3>1, <3>2
    <3>4. Len(cache) \in Nat
      BY DEF TypeOK
    <3> QED BY <3>3, <3>4
  <2> QED BY <2>1, <2>2
<1>2. Len(put) > CacheEntries => Tail(put) \in Seq(Entries)
  BY <1>1, LimitsAssumption
<1> QED BY <1>1, <1>2 DEF Remember, TypeOK

LEMMA SettleType ==
  ASSUME TypeOK, NEW k \in Keys, NEW s \in Results \cup Failures, Settle(k, s),
         work[k] # NoJob
  PROVE  /\ status' \in [Calls -> {"unused", "waiting"} \cup Results \cup Refusals \cup Failures]
         /\ got' \in [Calls -> Inputs \cup {NoJob}]
BY DEF TypeOK, Settle, Jobs

LEMMA InitType == Init => TypeOK
BY DEF Init, TypeOK, Requests

LEMMA AcceptType ==
  ASSUME TypeOK, NEW c \in Calls, NEW k \in Keys, NEW i \in Inputs, NEW ttl \in 1..MaxTTL,
         Accept(c, k, i, ttl)
  PROVE  TypeOK'
<1> USE DEF Refusals, Results, Failures
<1>1. cache' \in Seq(Entries)
  BY PopExpiredType DEF Accept
<1>2. req' \in [Calls -> Requests] /\ now' = now /\ phase' = phase /\ running' = running /\ up' = up
  BY LimitsAssumption DEF Accept, TypeOK, Requests
<1>3. CASE Join(c, k, i)
  BY <1>1, <1>2, <1>3 DEF TypeOK, Join, Answer
<1>4. CASE Replay(c, k, i)
  <2>1. PICK n \in Cached(cache', k) :
          IF cache'[n].input = i THEN Answer(c, cache'[n].result, cache'[n].input)
                                 ELSE Answer(c, "mismatch", NoJob)
    BY <1>4 DEF Replay
  <2>2. cache'[n] \in Entries
    BY <1>1 DEF Cached
  <2>3. cache'[n].result \in Results /\ cache'[n].input \in Inputs
    BY <2>2 DEF Entries
  <2>4. \E s \in Results \cup Refusals, j \in Inputs \cup {NoJob} : Answer(c, s, j)
    BY <2>1, <2>3 DEF Refusals
  <2>5. /\ status' \in [Calls -> {"unused", "waiting"} \cup Results \cup Refusals \cup Failures]
        /\ got' \in [Calls -> Inputs \cup {NoJob}]
    BY <2>4 DEF TypeOK, Answer
  <2>6. work' = work /\ queue' = queue
    BY <1>4 DEF Replay
  <2> QED BY <1>1, <1>2, <2>5, <2>6 DEF TypeOK
<1>5. CASE Refuse(c, k)
  BY <1>1, <1>2, <1>5 DEF TypeOK, Refuse, Answer
<1>6. CASE Enqueue(c, k, i, ttl)
  <2>1. [input |-> i, deadline |-> now + ttl] \in Jobs
    BY LimitsAssumption DEF TypeOK, Jobs
  <2> QED BY <1>1, <1>2, <1>6, <2>1 DEF TypeOK, Enqueue, Answer
<1> QED BY <1>3, <1>4, <1>5, <1>6 DEF Accept

LEMMA FinishType ==
  ASSUME TypeOK, WorkAccounted, WorkerDown, NEW outcome \in Results \cup {"failed"}, FinishJob(outcome)
  PROVE  TypeOK'
<1>1. running \in Keys /\ work[running] \in Jobs
  BY DEF FinishJob, TypeOK, WorkAccounted, WorkerDown, Accepted
<1> DEFINE s == IF work[running].deadline <= now THEN "failed" ELSE outcome
           e == [key |-> running, expiry |-> now + CacheTTL,
                 input |-> work[running].input, result |-> s]
<1>2. s \in Results \cup Failures
  BY DEF Failures
<1>3. s # "failed" => e \in Entries
  BY <1>1, LimitsAssumption DEF Entries, Jobs, TypeOK
<1>4. cache' \in Seq(Entries)
  BY <1>3, RememberType DEF FinishJob, TypeOK
<1>5. Settle(running, s) /\ Forget(running)
  BY DEF FinishJob
<1>6. work' \in [Keys -> Jobs \cup {NoJob}]
  BY <1>5 DEF TypeOK, Forget
<1>7. work[running] # NoJob
  BY DEF FinishJob, WorkAccounted, WorkerDown, Accepted
<1> QED BY <1>1, <1>2, <1>4, <1>5, <1>6, <1>7, SettleType DEF FinishJob, TypeOK

LEMMA DropType ==
  ASSUME TypeOK, WorkAccounted, WorkerDown, DropExpiredJob
  PROVE  TypeOK'
<1>1. Head(queue) \in Keys /\ Tail(queue) \in Seq(Keys)
  BY DEF DropExpiredJob, TypeOK
<1>2. Head(queue) \in Queued
  BY DEF DropExpiredJob, TypeOK, Queued
<1>3. work[Head(queue)] # NoJob
  BY <1>2 DEF DropExpiredJob, WorkAccounted, WorkerDown, Accepted
<1>4. "failed" \in Results \cup Failures
  BY DEF Failures
<1> QED BY <1>1, <1>3, <1>4, SettleType DEF DropExpiredJob, TypeOK, Forget

LEMMA CancelType ==
  ASSUME TypeOK, WorkAccounted, WorkerDown, CancelWorker
  PROVE  TypeOK'
<1>1. CASE running = NoJob
  BY <1>1 DEF CancelWorker, TypeOK
<1>2. CASE running # NoJob
  <2>1. running \in Keys /\ work[running] # NoJob
    BY <1>2 DEF CancelWorker, TypeOK, WorkAccounted, WorkerDown, Accepted
  <2>2. "stopped" \in Results \cup Failures
    BY DEF Failures
  <2> QED BY <1>2, <2>1, <2>2, SettleType DEF CancelWorker, TypeOK, Forget
<1> QED BY <1>1, <1>2

\* Every step keeps the types, given that the worker runs accepted jobs.
LEMMA NextType ==
  ASSUME TypeOK, WorkAccounted, WorkerDown, [Next]_vars
  PROVE  TypeOK'
<1>1. ASSUME NEW c \in Calls, NEW k \in Keys, NEW i \in Inputs, NEW ttl \in 1..MaxTTL,
             Accept(c, k, i, ttl)
      PROVE  TypeOK'
  BY <1>1, AcceptType
<1>2. ASSUME NEW c \in Calls, Expire(c) \/ Abandon(c)
      PROVE  TypeOK'
  BY <1>2 DEF Expire, Abandon, TypeOK, Failures
<1>3. CASE StartJob
  BY <1>3 DEF StartJob, TypeOK
<1>4. CASE DropExpiredJob
  BY <1>4, DropType
<1>5. ASSUME NEW outcome \in Results \cup {"failed"}, FinishJob(outcome)
      PROVE  TypeOK'
  BY <1>5, FinishType
<1>6. CASE BeginClose
  BY <1>6 DEF BeginClose, TypeOK
<1>7. CASE CancelWorker
  BY <1>7, CancelType
<1>8. CASE EndClose
  BY <1>8 DEF EndClose, TypeOK, Failures
<1>9. CASE Tick
  BY <1>9 DEF Tick, TypeOK
<1>10. CASE UNCHANGED vars
  BY <1>10 DEF vars, TypeOK
<1> QED BY <1>1, <1>2, <1>3, <1>4, <1>5, <1>6, <1>7, <1>8, <1>9, <1>10 DEF Next

-----------------------------------------------------------------------------
(* The worker's accounting: _work is the queue and the running job.        *)

LEMMA AppendQueued ==
  ASSUME NEW k \in Keys, TypeOK, queue' = Append(queue, k)
  PROVE  /\ Queued' = Queued \cup {k}
         /\ k \notin Queued /\ (\A m, n \in 1..Len(queue) : queue[m] = queue[n] => m = n)
              => \A m, n \in 1..Len(queue') : queue'[m] = queue'[n] => m = n
<1>1. Len(queue') = Len(queue) + 1 /\ Len(queue) \in Nat
  BY DEF TypeOK
<1>2. \A n \in 1..Len(queue') : queue'[n] = IF n <= Len(queue) THEN queue[n] ELSE k
  BY DEF TypeOK
<1> QED BY <1>1, <1>2 DEF Queued

LEMMA TailQueued ==
  ASSUME TypeOK, queue # <<>>, queue' = Tail(queue)
  PROVE  /\ Queued = Queued' \cup {Head(queue)}
         /\ (\A m, n \in 1..Len(queue) : queue[m] = queue[n] => m = n)
              => /\ \A m, n \in 1..Len(queue') : queue'[m] = queue'[n] => m = n
                 /\ Head(queue) \notin Queued'
<1>1. Len(queue') = Len(queue) - 1 /\ Len(queue) \in Nat \ {0} /\ Head(queue) = queue[1]
  BY DEF TypeOK
<1>2. \A n \in 1..Len(queue') : queue'[n] = queue[n + 1]
  BY DEF TypeOK
<1>3. ASSUME NEW n \in 1..Len(queue)
      PROVE  queue[n] \in Queued' \cup {Head(queue)}
  <2>1. CASE n = 1
    BY <1>1, <2>1
  <2>2. CASE n # 1
    <3>1. n - 1 \in 1..Len(queue') /\ queue'[n - 1] = queue[n]
      BY <1>1, <1>2, <2>2
    <3> QED BY <3>1 DEF Queued
  <2> QED BY <2>1, <2>2
<1>4. ASSUME NEW n \in 1..Len(queue')
      PROVE  n + 1 \in 1..Len(queue) /\ queue'[n] = queue[n + 1]
  BY <1>1, <1>2
<1>5. Queued = Queued' \cup {Head(queue)}
  <2>1. Head(queue) \in Queued
    BY <1>1 DEF Queued
  <2>2. Queued' \subseteq Queued
    BY <1>4 DEF Queued
  <2>3. Queued \subseteq Queued' \cup {Head(queue)}
    BY <1>3 DEF Queued
  <2> QED BY <2>1, <2>2, <2>3
<1>6. ASSUME \A m, n \in 1..Len(queue) : queue[m] = queue[n] => m = n
      PROVE  /\ \A m, n \in 1..Len(queue') : queue'[m] = queue'[n] => m = n
             /\ Head(queue) \notin Queued'
  <2>1. ASSUME NEW m \in 1..Len(queue'), NEW n \in 1..Len(queue'), queue'[m] = queue'[n]
        PROVE  m = n
    <3>1. m + 1 = n + 1
      BY <1>4, <1>6, <2>1
    <3> QED BY <3>1, <1>1
  <2>2. ASSUME NEW n \in 1..Len(queue')
        PROVE  queue'[n] # Head(queue)
    <3>1. n + 1 # 1 /\ 1 \in 1..Len(queue)
      BY <1>1
    <3> QED BY <1>1, <1>4, <1>6, <3>1
  <2> QED BY <2>1, <2>2 DEF Queued
<1> QED BY <1>5, <1>6

LEMMA NextDown ==
  ASSUME TypeOK, WorkAccounted, WorkerDown, [Next]_vars
  PROVE  WorkerDown'
<1>1. CASE UNCHANGED <<phase, running, up>>
  BY <1>1 DEF WorkerDown
<1>2. CASE StartJob \/ DropExpiredJob \/ CancelWorker \/ EndClose \/ BeginClose
  BY <1>2 DEF WorkerDown, StartJob, DropExpiredJob, CancelWorker, EndClose, BeginClose, TypeOK
<1>3. ASSUME NEW outcome \in Results \cup {"failed"}, FinishJob(outcome)
      PROVE  WorkerDown'
  BY <1>3 DEF WorkerDown, FinishJob, TypeOK
<1>4. Next => \/ UNCHANGED <<phase, running, up>>
              \/ StartJob \/ DropExpiredJob \/ CancelWorker \/ EndClose \/ BeginClose
              \/ \E outcome \in Results \cup {"failed"} : FinishJob(outcome)
  BY DEF Next, Accept, Expire, Abandon, Tick
<1> QED BY <1>1, <1>2, <1>3, <1>4 DEF vars

\* Accepting a job adds its key to both sides; every other branch adds nothing.
LEMMA AcceptAccounted ==
  ASSUME TypeOK, WorkAccounted, NEW c \in Calls, NEW k \in Keys, NEW i \in Inputs,
         NEW ttl \in 1..MaxTTL, Accept(c, k, i, ttl)
  PROVE  WorkAccounted'
<1>1. phase # "closed" /\ running' = running
  BY DEF Accept
<1>2. CASE Enqueue(c, k, i, ttl)
  <2>1. queue' = Append(queue, k) /\ k \notin Accepted
    BY <1>2 DEF Enqueue, Accepted
  <2>2. Queued' = Queued \cup {k} /\ k \notin Queued /\ k # running
    BY <1>1, <2>1, AppendQueued, KeysAssumption DEF WorkAccounted
  <2>3. [input |-> i, deadline |-> now + ttl] # NoJob
    BY KeysAssumption, LimitsAssumption DEF Jobs, TypeOK
  <2>4. \A x \in Keys : work'[x] = IF x = k THEN [input |-> i, deadline |-> now + ttl] ELSE work[x]
    BY <1>2 DEF Enqueue, TypeOK
  <2>5. Accepted' = Accepted \cup {k}
    BY <2>3, <2>4 DEF Accepted
  <2>6. \A m, n \in 1..Len(queue') : queue'[m] = queue'[n] => m = n
    BY <1>1, <2>1, <2>2, AppendQueued DEF WorkAccounted
  <2> QED BY <1>1, <2>2, <2>5, <2>6 DEF WorkAccounted
<1>3. CASE UNCHANGED <<work, queue>>
  BY <1>1, <1>3 DEF WorkAccounted, Accepted, Queued
<1> QED BY <1>2, <1>3 DEF Accept, Join, Replay, Refuse

\* Taking the head of the queue: it runs, or it is forgotten.
LEMMA WorkerAccounted ==
  ASSUME TypeOK, WorkAccounted, WorkerDown, StartJob \/ DropExpiredJob
  PROVE  WorkAccounted'
<1>1. /\ queue # <<>> /\ queue' = Tail(queue) /\ running = NoJob
      /\ phase' = phase /\ phase # "closed"
  BY DEF StartJob, DropExpiredJob, WorkerDown
<1> DEFINE h == Head(queue)
<1>2. h \in Keys
  BY <1>1 DEF TypeOK
<1>3. /\ Queued = Queued' \cup {h} /\ h \notin Queued'
      /\ \A m, n \in 1..Len(queue') : queue'[m] = queue'[n] => m = n
  BY <1>1, TailQueued DEF WorkAccounted
<1>4. Accepted = Queued
  BY <1>1 DEF WorkAccounted
<1>5. CASE StartJob
  <2>1. running' = h /\ Accepted' = Accepted
    BY <1>5 DEF StartJob, Accepted
  <2> QED BY <1>1, <1>2, <1>3, <1>4, <2>1, KeysAssumption DEF WorkAccounted
<1>6. CASE DropExpiredJob
  <2>1. running' = NoJob /\ \A x \in Keys : work'[x] = IF x = h THEN NoJob ELSE work[x]
    BY <1>1, <1>6 DEF DropExpiredJob, Forget, TypeOK
  <2>2. Accepted' = Accepted \ {h}
    BY <2>1 DEF Accepted
  <2>3. NoJob \notin Queued'
    BY <1>3, <1>4, KeysAssumption DEF Accepted
  <2> QED BY <1>1, <1>3, <1>4, <2>1, <2>2, <2>3 DEF WorkAccounted
<1> QED BY <1>5, <1>6

\* The running job ends, by itself or by close.
LEMMA EndAccounted ==
  ASSUME TypeOK, WorkAccounted, WorkerDown,
         CancelWorker \/ \E outcome \in Results \cup {"failed"} : FinishJob(outcome)
  PROVE  WorkAccounted'
<1>1. /\ queue' = queue /\ running' = NoJob /\ phase' = phase /\ phase # "closed"
  BY DEF CancelWorker, FinishJob, WorkerDown
<1>2. \A x \in Keys : work'[x] = IF x = running THEN NoJob ELSE work[x]
  BY KeysAssumption DEF CancelWorker, FinishJob, Forget, TypeOK
<1>3. Accepted' = Accepted \ {running}
  BY <1>2 DEF Accepted
<1>4. Queued' = Queued /\ NoJob \notin Queued
  BY <1>1, KeysAssumption DEF Queued, TypeOK
<1> QED BY <1>1, <1>3, <1>4 DEF WorkAccounted

LEMMA NextAccounted ==
  ASSUME TypeOK, WorkAccounted, WorkerDown, [Next]_vars
  PROVE  WorkAccounted'
<1>1. ASSUME NEW c \in Calls, NEW k \in Keys, NEW i \in Inputs, NEW ttl \in 1..MaxTTL,
             Accept(c, k, i, ttl)
      PROVE  WorkAccounted'
  BY <1>1, AcceptAccounted
<1>2. CASE UNCHANGED <<work, queue, running>> /\ (phase = "closed" => phase' = "closed")
  BY <1>2 DEF WorkAccounted, Accepted, Queued
<1>3. CASE EndClose
  BY <1>3 DEF EndClose, WorkAccounted
<1>4. Next => \/ \E c \in Calls, k \in Keys, i \in Inputs, ttl \in 1..MaxTTL : Accept(c, k, i, ttl)
              \/ UNCHANGED <<work, queue, running>> /\ (phase = "closed" => phase' = "closed")
              \/ StartJob \/ DropExpiredJob \/ EndClose \/ CancelWorker
              \/ \E outcome \in Results \cup {"failed"} : FinishJob(outcome)
  BY DEF Next, Expire, Abandon, BeginClose, Tick
<1> QED BY <1>1, <1>2, <1>3, <1>4, WorkerAccounted, EndAccounted DEF vars

-----------------------------------------------------------------------------
(* The bound: only Enqueue adds a job, and only when there is room.        *)

FiniteWork == IsFiniteSet(Accepted)

LEMMA AcceptedGrows ==
  ASSUME TypeOK, [Next]_vars
  PROVE  \/ Accepted' \subseteq Accepted
         \/ /\ HasRoom /\ phase' = phase
            /\ \E k \in Keys : Accepted' \subseteq Accepted \cup {k}
<1>1. ASSUME NEW c \in Calls, NEW k \in Keys, NEW i \in Inputs, NEW ttl \in 1..MaxTTL,
             Accept(c, k, i, ttl), Enqueue(c, k, i, ttl)
      PROVE  HasRoom /\ phase' = phase /\ (Accepted' \subseteq Accepted \cup {k})
  BY <1>1 DEF Accept, Enqueue, Accepted, TypeOK
<1>2. CASE UNCHANGED work \/ \E k \in Keys : Forget(k)
  BY <1>2 DEF Accepted, Forget, TypeOK
<1>3. CASE EndClose
  BY <1>3 DEF EndClose, Accepted
<1>4. [Next]_vars =>
         \/ UNCHANGED work \/ (\E k \in Keys : Forget(k)) \/ EndClose
         \/ \E c \in Calls, k \in Keys, i \in Inputs, ttl \in 1..MaxTTL :
               Accept(c, k, i, ttl) /\ Enqueue(c, k, i, ttl)
  <2>1. ASSUME NEW c \in Calls, NEW k \in Keys, NEW i \in Inputs, NEW ttl \in 1..MaxTTL,
               Accept(c, k, i, ttl)
        PROVE  UNCHANGED work \/ Enqueue(c, k, i, ttl)
    BY <2>1 DEF Accept, Join, Replay, Refuse
  <2>2. CASE DropExpiredJob
    <3>1. Head(queue) \in Keys
      BY <2>2 DEF DropExpiredJob, TypeOK
    <3> QED BY <2>2, <3>1 DEF DropExpiredJob
  <2>3. CASE CancelWorker \/ \E outcome \in Results \cup {"failed"} : FinishJob(outcome)
    BY <2>3 DEF CancelWorker, FinishJob, TypeOK
  <2> QED BY <2>1, <2>2, <2>3 DEF Next, vars, Expire, Abandon, StartJob, BeginClose, Tick
<1> QED BY <1>1, <1>2, <1>3, <1>4

LEMMA NextBounded ==
  ASSUME TypeOK, FiniteWork, BoundedWork, [Next]_vars
  PROVE  FiniteWork' /\ BoundedWork'
<1>1. phase' # "closed" => phase # "closed"
  BY DEF TypeOK, Next, vars, Accept, Expire, Abandon, StartJob, DropExpiredJob, FinishJob,
         BeginClose, CancelWorker, EndClose, Tick
<1>2. CASE Accepted' \subseteq Accepted
  <2>1. IsFiniteSet(Accepted') /\ Cardinality(Accepted') <= Cardinality(Accepted)
    BY <1>2, FS_Subset DEF FiniteWork
  <2>2. Cardinality(Accepted') \in Nat /\ Cardinality(Accepted) \in Nat
    BY <2>1, FS_CardinalityType DEF FiniteWork
  <2> QED BY <1>1, <2>1, <2>2, LimitsAssumption DEF FiniteWork, BoundedWork
<1>3. ASSUME NEW k \in Keys, HasRoom, Accepted' \subseteq Accepted \cup {k}
      PROVE  FiniteWork' /\ BoundedWork'
  <2>0. /\ IsFiniteSet(Accepted \cup {k})
        /\ Cardinality(Accepted \cup {k}) <= Cardinality(Accepted) + 1
    BY FS_AddElement, FS_CardinalityType DEF FiniteWork
  <2>1. IsFiniteSet(Accepted') /\ Cardinality(Accepted') <= Cardinality(Accepted) + 1
    BY <1>3, <2>0, FS_Subset, FS_CardinalityType DEF FiniteWork
  <2>2. Cardinality(Accepted') \in Nat /\ Cardinality(Accepted) \in Nat
    BY <2>1, FS_CardinalityType DEF FiniteWork
  <2>3. Cardinality(Accepted) < QueueLimit
    BY <1>3 DEF HasRoom
  <2> QED BY <2>1, <2>2, <2>3, LimitsAssumption DEF FiniteWork, BoundedWork
<1> QED BY <1>2, <1>3, AcceptedGrows

-----------------------------------------------------------------------------
(* Waiters and their results.                                              *)

LEMMA AcceptResults ==
  ASSUME TypeOK, NoLostWaiter, OwnResult, NEW c \in Calls, NEW k \in Keys, NEW i \in Inputs,
         NEW ttl \in 1..MaxTTL, Accept(c, k, i, ttl)
  PROVE  NoLostWaiter' /\ OwnResult'
<1> USE DEF Results
<1>1. \A x \in Calls : req'[x] = IF x = c THEN [key |-> k, input |-> i, until |-> now + ttl] ELSE req[x]
  BY DEF Accept, TypeOK
<1>2. ASSUME NEW s, NEW j, Answer(c, s, j)
      PROVE  \A x \in Calls : /\ status'[x] = IF x = c THEN s ELSE status[x]
                             /\ got'[x] = IF x = c THEN j ELSE got[x]
  BY <1>2 DEF Answer, TypeOK
<1>3. CASE Join(c, k, i)
  BY <1>1, <1>2, <1>3 DEF Join, NoLostWaiter, OwnResult, Accepted
<1>4. CASE Replay(c, k, i)
  <2>1. PICK n \in Cached(cache', k) :
          IF cache'[n].input = i THEN Answer(c, cache'[n].result, cache'[n].input)
                                 ELSE Answer(c, "mismatch", NoJob)
    BY <1>4 DEF Replay
  <2>2. cache'[n].result \in Results
    <3>1. cache' \in Seq(Entries) /\ n \in 1..Len(cache')
      BY PopExpiredType DEF Accept, Cached
    <3>2. cache'[n] \in Entries
      BY <3>1
    <3> QED BY <3>2 DEF Entries
  <2>3. \/ Answer(c, cache'[n].result, i)
        \/ Answer(c, "mismatch", NoJob)
    BY <2>1
  <2>4. CASE Answer(c, cache'[n].result, i)
    BY <1>1, <1>2, <1>4, <2>2, <2>4 DEF Replay, NoLostWaiter, OwnResult, Accepted
  <2>5. CASE Answer(c, "mismatch", NoJob)
    BY <1>1, <1>2, <1>4, <2>5 DEF Replay, NoLostWaiter, OwnResult, Accepted
  <2> QED BY <2>3, <2>4, <2>5
<1>5. CASE Refuse(c, k)
  BY <1>1, <1>2, <1>5 DEF Refuse, NoLostWaiter, OwnResult, Accepted
<1>6. CASE Enqueue(c, k, i, ttl)
  <2>1. [input |-> i, deadline |-> now + ttl] # NoJob
    BY KeysAssumption, LimitsAssumption DEF Jobs, TypeOK
  <2>2. \A x \in Keys : work'[x] = IF x = k THEN [input |-> i, deadline |-> now + ttl] ELSE work[x]
    BY <1>6 DEF Enqueue, TypeOK
  <2>3. work[k] = NoJob /\ Answer(c, "waiting", NoJob)
    BY <1>6 DEF Enqueue
  <2> QED BY <1>1, <1>2, <2>1, <2>2, <2>3 DEF NoLostWaiter, OwnResult, Accepted
<1> QED BY <1>3, <1>4, <1>5, <1>6 DEF Accept

\* Settling a job answers exactly those who wait for it.
LEMMA SettleResults ==
  ASSUME TypeOK, NoLostWaiter, OwnResult, NEW k \in Keys, NEW s \in Results \cup Failures,
         Settle(k, s), Forget(k), req' = req
  PROVE  NoLostWaiter' /\ OwnResult'
<1>1. \A c \in Calls : /\ status'[c] = IF status[c] = "waiting" /\ req[c].key = k THEN s ELSE status[c]
                      /\ got'[c] = IF status[c] = "waiting" /\ req[c].key = k /\ s \in Results
                                   THEN work[k].input ELSE got[c]
  BY DEF Settle, Waiting
<1>2. s # "waiting"
  BY DEF Results, Failures
<1>3. \A x \in Keys : x # k => work'[x] = work[x]
  BY DEF Forget, TypeOK
<1> QED BY <1>1, <1>2, <1>3 DEF NoLostWaiter, OwnResult, Accepted

LEMMA NextResults ==
  ASSUME TypeOK, WorkAccounted, WorkerDown, NoLostWaiter, OwnResult, [Next]_vars
  PROVE  NoLostWaiter' /\ OwnResult'
<1> USE DEF Results, Failures
<1>1. ASSUME NEW c \in Calls, NEW k \in Keys, NEW i \in Inputs, NEW ttl \in 1..MaxTTL,
             Accept(c, k, i, ttl)
      PROVE  NoLostWaiter' /\ OwnResult'
  BY <1>1, AcceptResults
<1>2. ASSUME NEW c \in Calls, Expire(c) \/ Abandon(c)
      PROVE  NoLostWaiter' /\ OwnResult'
  BY <1>2 DEF Expire, Abandon, NoLostWaiter, OwnResult, Accepted, TypeOK
<1>3. CASE UNCHANGED <<work, req, status, got>>
  BY <1>3 DEF NoLostWaiter, OwnResult, Accepted
<1>4. CASE DropExpiredJob
  <2>1. Head(queue) \in Keys
    BY <1>4 DEF DropExpiredJob, TypeOK
  <2> QED BY <1>4, <2>1, SettleResults DEF DropExpiredJob
<1>5. ASSUME NEW outcome \in Results \cup {"failed"}, FinishJob(outcome)
      PROVE  NoLostWaiter' /\ OwnResult'
  <2>1. running \in Keys
    BY <1>5 DEF FinishJob, TypeOK
  <2> QED BY <1>5, <2>1, SettleResults DEF FinishJob
<1>6. CASE CancelWorker
  <2>1. CASE running = NoJob
    BY <1>3, <1>6, <2>1 DEF CancelWorker
  <2>2. CASE running # NoJob
    BY <1>6, <2>2, SettleResults DEF CancelWorker, TypeOK
  <2> QED BY <2>1, <2>2
<1>7. CASE EndClose
  BY <1>7 DEF EndClose, NoLostWaiter, OwnResult
<1> QED BY <1>1, <1>2, <1>3, <1>4, <1>5, <1>6, <1>7 DEF Next, vars, StartJob, BeginClose, Tick

-----------------------------------------------------------------------------
(* The cache never holds a job that is accepted: with the deadline read at *)
(* the head of the queue, no job is run again while it is remembered.      *)

CachedIsDone == \A n \in 1..Len(cache) : work[cache[n].key] = NoJob

LEMMA RememberEntries ==
  ASSUME TypeOK, NEW e \in Entries, Remember(e)
  PROVE  \A n \in 1..Len(cache') : \/ cache'[n] = e
                                  \/ \E m \in 1..Len(cache) : cache'[n] = cache[m]
<1> DEFINE put == IF Cached(cache, e.key) = {}
                  THEN Append(cache, e)
                  ELSE [n \in 1..Len(cache) |-> IF n \in Cached(cache, e.key) THEN e ELSE cache[n]]
           from(x) == x = e \/ \E m \in 1..Len(cache) : x = cache[m]
<1>0. Len(cache) \in Nat /\ \A n \in 1..Len(cache) : cache[n] \in Entries
  BY DEF TypeOK
<1>1. put \in Seq(Entries) /\ \A n \in 1..Len(put) : from(put[n])
  <2>1. CASE Cached(cache, e.key) = {}
    <3>1. put = Append(cache, e)
      BY <2>1
    <3>2. cache \in Seq(Entries)
      BY DEF TypeOK
    <3>3. put \in Seq(Entries) /\ Len(put) = Len(cache) + 1
          /\ \A n \in 1..Len(put) : put[n] = IF n <= Len(cache) THEN cache[n] ELSE e
      BY <3>1, <3>2
    <3> HIDE DEF put
    <3> QED BY <1>0, <3>3
  <2>2. CASE Cached(cache, e.key) # {}
    <3>1. put = [n \in 1..Len(cache) |-> IF n \in Cached(cache, e.key) THEN e ELSE cache[n]]
      BY <2>2
    <3>2. put \in [1..Len(cache) -> Entries]
      BY <1>0, <3>1
    <3>3. Len(put) = Len(cache) /\ put \in Seq(Entries)
      BY <1>0, <3>2
    <3> QED BY <1>0, <3>1, <3>3
  <2> QED BY <2>1, <2>2
<1>2. cache' \in {cache, put} \/ (put # <<>> /\ cache' = Tail(put))
  BY <1>1, LimitsAssumption DEF Remember
<1>3. CASE put # <<>> /\ cache' = Tail(put)
  <2> HIDE DEF put
  <2>1. \A n \in 1..Len(cache') : cache'[n] = put[n + 1] /\ n + 1 \in 1..Len(put)
    BY <1>1, <1>3
  <2>2. \A n \in 1..Len(cache') : from(cache'[n])
    BY <1>1, <2>1
  <2> QED BY <2>2
<1>4. CASE cache' \in {cache, put}
  BY <1>1, <1>4
<1> HIDE DEF put
<1> QED BY <1>2, <1>3, <1>4

LEMMA NextCachedIsDone ==
  ASSUME TypeOK, WorkAccounted, WorkerDown, CachedIsDone, [Next]_vars
  PROVE  CachedIsDone'
<1>0. Len(cache) \in Nat /\ \A n \in 1..Len(cache) : cache[n] \in Entries
  BY DEF TypeOK
<1>1. ASSUME NEW c \in Calls, NEW k \in Keys, NEW i \in Inputs, NEW ttl \in 1..MaxTTL,
             Accept(c, k, i, ttl)
      PROVE  CachedIsDone'
  <2>1. PICK d \in 0..Len(cache) : cache' = SubSeq(cache, d + 1, Len(cache))
    BY <1>1 DEF Accept, PopExpired
  <2>2. \A n \in 1..Len(cache') : n + d \in 1..Len(cache) /\ cache'[n] = cache[n + d]
    BY <1>0, <2>1 DEF TypeOK
  <2>3. CASE UNCHANGED work
    BY <2>2, <2>3 DEF CachedIsDone
  <2>4. CASE Enqueue(c, k, i, ttl)
    <3>1. \A n \in 1..Len(cache') : cache'[n].key # k
      BY <2>4 DEF Enqueue, Cached
    <3>2. \A x \in Keys : x # k => work'[x] = work[x]
      BY <2>4 DEF Enqueue, TypeOK
    <3>3. \A n \in 1..Len(cache') : cache'[n].key \in Keys
      BY <1>0, <2>2 DEF Entries
    <3> QED BY <2>2, <3>1, <3>2, <3>3 DEF CachedIsDone
  <2> QED BY <1>1, <2>3, <2>4 DEF Accept, Join, Replay, Refuse
<1>2. ASSUME NEW k \in Keys, Forget(k), UNCHANGED cache
      PROVE  CachedIsDone'
  BY <1>0, <1>2 DEF CachedIsDone, Forget, TypeOK, Entries
<1>3. ASSUME NEW outcome \in Results \cup {"failed"}, FinishJob(outcome)
      PROVE  CachedIsDone'
  <2>1. running \in Keys /\ work[running] \in Jobs /\ Forget(running)
    BY <1>3 DEF FinishJob, TypeOK, WorkAccounted, WorkerDown, Accepted
  <2> DEFINE s == IF work[running].deadline <= now THEN "failed" ELSE outcome
             e == [key |-> running, expiry |-> now + CacheTTL,
                   input |-> work[running].input, result |-> s]
  <2>2. CASE UNCHANGED cache
    BY <1>2, <2>1, <2>2
  <2>3. CASE s # "failed" /\ Remember(e)
    <3>1. e \in Entries
      BY <2>1, <2>3, LimitsAssumption DEF Entries, Jobs, TypeOK
    <3>2. \A n \in 1..Len(cache') : \/ cache'[n].key = running
                                   \/ \E m \in 1..Len(cache) : cache'[n] = cache[m]
      BY <2>3, <3>1, RememberEntries
    <3>3. \A x \in Keys : work'[x] = IF x = running THEN NoJob ELSE work[x]
      BY <2>1 DEF Forget, TypeOK
    <3> QED BY <1>0, <2>1, <3>2, <3>3 DEF CachedIsDone, Entries
  <2> QED BY <1>3, <2>2, <2>3 DEF FinishJob
<1>4. CASE UNCHANGED <<work, cache>>
  BY <1>4 DEF CachedIsDone
<1>5. CASE DropExpiredJob
  <2>1. Head(queue) \in Keys
    BY <1>5 DEF DropExpiredJob, TypeOK
  <2> QED BY <1>2, <1>5, <2>1 DEF DropExpiredJob
<1>6. CASE CancelWorker
  <2>1. CASE running = NoJob
    BY <1>4, <1>6, <2>1 DEF CancelWorker
  <2>2. CASE running # NoJob
    BY <1>2, <1>6, <2>2 DEF CancelWorker, TypeOK
  <2> QED BY <2>1, <2>2
<1>7. CASE EndClose
  BY <1>7 DEF EndClose, CachedIsDone
<1> QED BY <1>1, <1>3, <1>4, <1>5, <1>6, <1>7
        DEF Next, vars, Expire, Abandon, StartJob, BeginClose, Tick

-----------------------------------------------------------------------------
(* The cache in time.  Entries are appended with the same time to live, so *)
(* they stay in the order of their expiry: popping expired heads leaves    *)
(* only fresh entries.                                                     *)

Done == TypeOK /\ WorkAccounted /\ WorkerDown /\ CachedIsDone

CacheOrder ==
  /\ Len(cache) <= CacheEntries
  /\ \A m, n \in 1..Len(cache) : m <= n => cache[m].expiry <= cache[n].expiry
  /\ \A n \in 1..Len(cache) : cache[n].expiry <= now + CacheTTL

LEMMA CacheTypes ==
  ASSUME TypeOK
  PROVE  Len(cache) \in Nat /\ now \in Nat /\ \A n \in 1..Len(cache) : cache[n].expiry \in Nat
<1>1. \A n \in 1..Len(cache) : cache[n] \in Entries
  BY DEF TypeOK
<1> QED BY <1>1 DEF TypeOK, Entries

\* What _accept leaves: the entries from the first fresh one on.
LEMMA PopShape ==
  ASSUME TypeOK, CacheOrder, PopExpired
  PROVE  \E d \in 0..Len(cache) :
           /\ Len(cache') = Len(cache) - d
           /\ \A n \in 1..Len(cache') : cache'[n] = cache[n + d] /\ cache'[n].expiry > now
           /\ \A n \in 1..d : cache[n].expiry <= now
<1>0. Len(cache) \in Nat /\ now \in Nat /\ \A n \in 1..Len(cache) : cache[n].expiry \in Nat
  BY CacheTypes
<1>1. PICK d \in 0..Len(cache) : /\ \A j \in 1..d : cache[j].expiry <= now
                                 /\ d < Len(cache) => cache[d + 1].expiry > now
                                 /\ cache' = SubSeq(cache, d + 1, Len(cache))
  BY DEF PopExpired
<1>2. Len(cache') = Len(cache) - d /\ \A n \in 1..Len(cache') : cache'[n] = cache[n + d]
  BY <1>0, <1>1 DEF TypeOK
<1>3. ASSUME NEW n \in 1..Len(cache') PROVE cache'[n].expiry > now
  <2>1. d + 1 \in 1..Len(cache) /\ n + d \in 1..Len(cache) /\ d + 1 <= n + d
    BY <1>0, <1>2
  <2>2. cache[d + 1].expiry <= cache[n + d].expiry /\ cache[d + 1].expiry > now
    BY <1>1, <2>1 DEF CacheOrder
  <2> QED BY <1>0, <1>2, <2>1, <2>2
<1> QED BY <1>1, <1>2, <1>3

\* What _worker leaves: a finished job was not cached, so its entry goes to the
\* new end, and the oldest makes room for it in a full cache.
LEMMA FinishShape ==
  ASSUME Done, CacheOrder, NEW outcome \in Results \cup {"failed"}, FinishJob(outcome),
         cache' # cache
  PROVE  \E e \in Entries, d \in {0, 1} :
           /\ e.expiry = now + CacheTTL
           /\ d = 1 => Len(cache) = CacheEntries
           /\ Len(cache') = Len(cache) + 1 - d /\ Len(cache') <= CacheEntries
           /\ \A n \in 1..Len(cache') : cache'[n] = IF n + d <= Len(cache) THEN cache[n + d] ELSE e
<1> USE DEF Done
<1>0. Len(cache) \in Nat /\ CacheEntries \in Nat /\ Len(cache) <= CacheEntries
  BY LimitsAssumption DEF TypeOK, CacheOrder
<1>1. running \in Keys /\ work[running] \in Jobs /\ work[running] # NoJob
  BY DEF FinishJob, TypeOK, WorkAccounted, WorkerDown, Accepted
<1> DEFINE s == IF work[running].deadline <= now THEN "failed" ELSE outcome
           e == [key |-> running, expiry |-> now + CacheTTL,
                 input |-> work[running].input, result |-> s]
<1>2. s # "failed" /\ Remember(e)
  BY DEF FinishJob
<1>3. e \in Entries /\ e.expiry = now + CacheTTL /\ e.key = running
  BY <1>1, <1>2, LimitsAssumption DEF Entries, Jobs, TypeOK
<1>4. Cached(cache, running) = {}
  BY <1>1 DEF Cached, CachedIsDone
<1> HIDE DEF e
<1> DEFINE put == Append(cache, e)
<1>5. /\ put \in Seq(Entries) /\ Len(put) = Len(cache) + 1
      /\ \A n \in 1..Len(put) : put[n] = IF n <= Len(cache) THEN cache[n] ELSE e
  BY <1>3 DEF TypeOK
<1>6. CacheEntries # 0 /\ cache' = IF Len(put) > CacheEntries THEN Tail(put) ELSE put
  BY <1>2, <1>3, <1>4 DEF Remember
<1>7. CASE Len(put) > CacheEntries
  <2>1. Len(cache) = CacheEntries /\ put # <<>> /\ cache' = Tail(put)
    BY <1>0, <1>5, <1>6, <1>7
  <2>2. Len(cache') = Len(put) - 1 /\ \A n \in 1..Len(cache') : cache'[n] = put[n + 1]
    <3>1. ASSUME NEW q \in Seq(Entries), q # <<>>
          PROVE  Len(Tail(q)) = Len(q) - 1 /\ \A n \in 1..Len(Tail(q)) : Tail(q)[n] = q[n + 1]
      BY <3>1
    <3> HIDE DEF put
    <3>2. put \in Seq(Entries) /\ put # <<>> /\ cache' = Tail(put)
      BY <1>5, <2>1
    <3> QED BY <3>1, <3>2
  <2>3. \A n \in 1..Len(cache') : cache'[n] = IF n + 1 <= Len(cache) THEN cache[n + 1] ELSE e
    BY <1>0, <1>5, <2>1, <2>2
  <2>4. Len(cache') = Len(cache) + 1 - 1 /\ Len(cache') <= CacheEntries
    BY <1>0, <1>5, <2>1, <2>2
  <2> HIDE DEF put
  <2>5. /\ Len(cache') = Len(cache) + 1 - 1 /\ Len(cache') <= CacheEntries
        /\ \A n \in 1..Len(cache') : cache'[n] = IF n + 1 <= Len(cache) THEN cache[n + 1] ELSE e
    BY <2>3, <2>4
  <2> QED BY <1>3, <2>1, <2>5
<1>8. CASE ~(Len(put) > CacheEntries)
  BY <1>0, <1>3, <1>5, <1>6, <1>8
<1> QED BY <1>7, <1>8

LEMMA NextOrdered ==
  ASSUME Done, CacheOrder, [Next]_vars
  PROVE  CacheOrder'
<1> USE DEF Done
<1>0. /\ Len(cache) \in Nat /\ now \in Nat /\ CacheTTL \in Nat /\ CacheEntries \in Nat
      /\ \A n \in 1..Len(cache) : cache[n].expiry \in Nat
  BY CacheTypes, LimitsAssumption
<1>1. CASE UNCHANGED cache /\ now' \in {now, now + 1}
  BY <1>0, <1>1 DEF CacheOrder
<1>2. CASE PopExpired /\ UNCHANGED now
  <2>1. PICK d \in 0..Len(cache) :
           /\ Len(cache') = Len(cache) - d
           /\ \A n \in 1..Len(cache') : cache'[n] = cache[n + d]
    BY <1>2, PopShape
  <2>2. \A n \in 1..Len(cache') : n + d \in 1..Len(cache)
    BY <1>0, <2>1
  <2>3. ASSUME NEW m \in 1..Len(cache'), NEW n \in 1..Len(cache'), m <= n
        PROVE  cache'[m].expiry <= cache'[n].expiry
    <3>1. m + d <= n + d
      BY <1>0, <2>3
    <3> QED BY <2>1, <2>2, <3>1 DEF CacheOrder
  <2>4. \A n \in 1..Len(cache') : cache'[n].expiry <= now + CacheTTL
    BY <2>1, <2>2 DEF CacheOrder
  <2>5. Len(cache') <= CacheEntries
    BY <1>0, <2>1 DEF CacheOrder
  <2>6. now' = now
    BY <1>2
  <2> QED BY <2>3, <2>4, <2>5, <2>6 DEF CacheOrder
<1>3. ASSUME NEW outcome \in Results \cup {"failed"}, FinishJob(outcome), cache' # cache
      PROVE  CacheOrder'
  <2>1. PICK e \in Entries, d \in {0, 1} :
           /\ e.expiry = now + CacheTTL
           /\ Len(cache') = Len(cache) + 1 - d /\ Len(cache') <= CacheEntries
           /\ \A n \in 1..Len(cache') : cache'[n] = IF n + d <= Len(cache) THEN cache[n + d] ELSE e
    BY <1>3, FinishShape
  <2>2. now' = now
    BY <1>3 DEF FinishJob
  <2>3. ASSUME NEW n \in 1..Len(cache') PROVE cache'[n].expiry <= now + CacheTTL
    <3>1. CASE n + d <= Len(cache)
      BY <1>0, <2>1, <3>1 DEF CacheOrder
    <3>2. CASE ~(n + d <= Len(cache))
      BY <1>0, <2>1, <3>2
    <3> QED BY <3>1, <3>2
  <2>4. ASSUME NEW m \in 1..Len(cache'), NEW n \in 1..Len(cache'), m <= n
        PROVE  cache'[m].expiry <= cache'[n].expiry
    <3>1. CASE n + d <= Len(cache)
      <4>1. /\ m + d \in 1..Len(cache) /\ n + d \in 1..Len(cache) /\ m + d <= n + d
            /\ cache'[m] = cache[m + d] /\ cache'[n] = cache[n + d]
        BY <1>0, <2>1, <2>4, <3>1
      <4> QED BY <4>1 DEF CacheOrder
    <3>2. CASE ~(n + d <= Len(cache))
      <4>1. cache'[n].expiry = now + CacheTTL
        BY <1>0, <2>1, <3>2
      <4> QED BY <2>3, <4>1
    <3> QED BY <3>1, <3>2
  <2> QED BY <1>0, <2>1, <2>2, <2>3, <2>4 DEF CacheOrder
<1>4. CASE EndClose
  BY <1>4, LimitsAssumption DEF EndClose, CacheOrder
<1>5. [Next]_vars =>
        \/ UNCHANGED cache /\ now' \in {now, now + 1}
        \/ PopExpired /\ UNCHANGED now
        \/ \E outcome \in Results \cup {"failed"} : FinishJob(outcome) /\ cache' # cache
        \/ EndClose
  BY DEF Next, vars, Accept, Expire, Abandon, StartJob, DropExpiredJob, FinishJob, BeginClose,
         CancelWorker, Tick
<1> QED BY <1>1, <1>2, <1>3, <1>4, <1>5

-----------------------------------------------------------------------------
(* The inductive invariant and the theorems.                               *)

IInv ==
  /\ TypeOK /\ WorkerDown
  /\ WorkAccounted
  /\ FiniteWork /\ BoundedWork
  /\ NoLostWaiter /\ OwnResult
  /\ CachedIsDone /\ CacheOrder

LEMMA InitInv == Init => IInv
<1> SUFFICES ASSUME Init PROVE IInv
  OBVIOUS
<1>1. Accepted = {} /\ Queued = {}
  BY DEF Init, Accepted, Queued
<1>2. FiniteWork /\ BoundedWork
  BY <1>1, FS_EmptySet, LimitsAssumption DEF FiniteWork, BoundedWork
<1>3. CacheOrder
  BY LimitsAssumption DEF Init, CacheOrder
<1> QED BY <1>1, <1>2, <1>3, InitType
        DEF Init, IInv, WorkerDown, WorkAccounted, NoLostWaiter, OwnResult, CachedIsDone, Results

LEMMA NextInv == IInv /\ [Next]_vars => IInv'
BY NextType, NextDown, NextAccounted, NextBounded, NextResults, NextCachedIsDone, NextOrdered DEF IInv, Done

\* Every reachable state satisfies the inductive invariant.
THEOREM Inductive == Spec => []IInv
BY InitInv, NextInv, PTL DEF Spec

\* The state keeps its types, for any number of calls, jobs and any limits.
THEOREM TypeCorrect == Spec => []TypeOK
<1>1. IInv => TypeOK
  BY DEF IInv
<1> QED BY <1>1, Inductive, PTL

\* _work is exactly the queue and the running job, and has at most
\* queue_limit jobs: put_nowait in _accept cannot raise QueueFull.
THEOREM WorkIsBounded == Spec => [](WorkAccounted /\ BoundedWork)
<1>1. IInv => WorkAccounted /\ BoundedWork
  BY DEF IInv
<1> QED BY <1>1, Inductive, PTL

\* Nobody waits for a job the worker has let go of.
THEOREM WaitersKept == Spec => []NoLostWaiter
<1>1. IInv => NoLostWaiter
  BY DEF IInv
<1> QED BY <1>1, Inductive, PTL

\* Shared, cached or computed, a result belongs to the payload of its call.
THEOREM ResultsAreOwn == Spec => []OwnResult
<1>1. IInv => OwnResult
  BY DEF IInv
<1> QED BY <1>1, Inductive, PTL

\* A job whose result is remembered is not run again, nor is an expired one.
THEOREM RemembersJobs == Spec => NoRerun
<1>1. ASSUME IInv, [Next]_vars, running' # running, running' # NoJob
      PROVE  /\ \A n \in 1..Len(cache) : cache[n].key # running'
             /\ work[running'].deadline > now
  <2>1. StartJob
    BY <1>1 DEF Next, vars, Accept, Expire, Abandon, DropExpiredJob, FinishJob, BeginClose,
                CancelWorker, EndClose, Tick
  <2>2. running' \in Queued /\ phase # "closed"
    BY <1>1, <2>1 DEF StartJob, Queued, IInv, TypeOK, WorkerDown
  <2>3. work[running'] # NoJob
    BY <1>1, <2>2 DEF IInv, WorkAccounted, Accepted
  <2> QED BY <1>1, <2>1, <2>3 DEF IInv, CachedIsDone, StartJob
<1> QED BY <1>1, Inductive, PTL DEF NoRerun, Spec

\* An answer without waiting comes from an entry that has not expired, and a
\* remembered result goes only when it has expired, as the oldest of a full
\* cache, or with close (_accept's popping loop, _worker's eviction).
THEOREM CacheIsTimely == Spec => CacheKeepsTime
<1>1. ASSUME IInv, [Next]_vars, NEW c \in Calls, status[c] = "unused", status'[c] \in Results
      PROVE  \E n \in 1..Len(cache) : cache[n].key = req'[c].key /\ cache[n].expiry > now
  <2>1. ASSUME NEW b \in Calls, NEW k \in Keys, NEW i \in Inputs, NEW ttl \in 1..MaxTTL, Accept(b, k, i, ttl)
        PROVE  \E n \in 1..Len(cache) : cache[n].key = req'[c].key /\ cache[n].expiry > now
    <3>1. \A s, j : Answer(b, s, j) => \A x \in Calls : status'[x] = IF x = b THEN s ELSE status[x]
      BY <1>1 DEF Answer, IInv, TypeOK
    <3>2. b = c /\ Replay(b, k, i)
      BY <1>1, <2>1, <3>1 DEF Accept, Join, Replay, Refuse, Enqueue, Results
    <3>3. req'[c].key = k
      BY <1>1, <2>1, <3>2 DEF Accept, IInv, TypeOK
    <3>4. PICK n \in 1..Len(cache') : cache'[n].key = k
      BY <3>2 DEF Replay, Cached
    <3>5. PICK d \in 0..Len(cache) :
            /\ Len(cache') = Len(cache) - d
            /\ \A m \in 1..Len(cache') : cache'[m] = cache[m + d] /\ cache'[m].expiry > now
      BY <1>1, <2>1, PopShape DEF Accept, IInv
    <3>6. n + d \in 1..Len(cache)
      BY <1>1, <3>5 DEF IInv, TypeOK
    <3> QED BY <3>3, <3>4, <3>5, <3>6
  <2>2. ASSUME UNCHANGED status \/ (\E x : status' = [status EXCEPT ![x] = "expired"])
                 \/ (\E x : status' = [status EXCEPT ![x] = "abandoned"])
        PROVE  FALSE
    BY <1>1, <2>2 DEF IInv, TypeOK, Results
  <2>3. ASSUME NEW k, NEW s, Settle(k, s) PROVE FALSE
    BY <1>1, <2>3 DEF Settle, Waiting, Results
  <2>4. CASE EndClose
    BY <1>1, <2>4 DEF EndClose, Results
  <2> QED BY <1>1, <2>1, <2>2, <2>3, <2>4
          DEF Next, vars, Expire, Abandon, StartJob, DropExpiredJob, FinishJob, BeginClose, CancelWorker, Tick
<1>2. ASSUME IInv, [Next]_vars, NEW n \in 1..Len(cache)
      PROVE  \/ \E m \in 1..Len(cache') : cache'[m] = cache[n]
             \/ cache[n].expiry <= now
             \/ n = 1 /\ Len(cache) = CacheEntries
             \/ phase' = "closed"
  <2>0. Len(cache) \in Nat
    BY <1>2 DEF IInv, TypeOK
  <2>1. CASE PopExpired
    <3>1. PICK d \in 0..Len(cache) :
            /\ Len(cache') = Len(cache) - d
            /\ \A m \in 1..Len(cache') : cache'[m] = cache[m + d]
            /\ \A m \in 1..d : cache[m].expiry <= now
      BY <1>2, <2>1, PopShape DEF IInv
    <3>2. CASE n > d
      <4>1. n - d \in 1..Len(cache') /\ (n - d) + d = n
        BY <2>0, <3>1, <3>2
      <4> QED BY <3>1, <4>1
    <3>3. CASE ~(n > d)
      BY <2>0, <3>1, <3>3
    <3> QED BY <3>2, <3>3
  <2>2. ASSUME NEW outcome \in Results \cup {"failed"}, FinishJob(outcome), cache' # cache
        PROVE  \/ \E m \in 1..Len(cache') : cache'[m] = cache[n]
               \/ n = 1 /\ Len(cache) = CacheEntries
    <3>1. PICK e \in Entries, d \in {0, 1} :
            /\ d = 1 => Len(cache) = CacheEntries
            /\ Len(cache') = Len(cache) + 1 - d
            /\ \A m \in 1..Len(cache') : cache'[m] = IF m + d <= Len(cache) THEN cache[m + d] ELSE e
      BY <1>2, <2>2, FinishShape DEF IInv, Done
    <3>2. CASE n > d
      <4>1. n - d \in 1..Len(cache') /\ (n - d) + d = n
        BY <2>0, <3>1, <3>2
      <4> QED BY <2>0, <3>1, <4>1
    <3>3. CASE ~(n > d)
      BY <2>0, <3>1, <3>3
    <3> QED BY <3>2, <3>3
  <2>3. CASE UNCHANGED cache
    BY <2>3
  <2>4. CASE EndClose
    BY <2>4 DEF EndClose
  <2> QED BY <1>2, <2>1, <2>2, <2>3, <2>4
          DEF Next, vars, Accept, Expire, Abandon, StartJob, DropExpiredJob, FinishJob, BeginClose, CancelWorker, Tick
<1>3. IInv /\ [Next]_vars =>
        [/\ \A c \in Calls : status[c] = "unused" /\ status'[c] \in Results =>
              \E n \in 1..Len(cache) : cache[n].key = req'[c].key /\ cache[n].expiry > now
         /\ \A n \in 1..Len(cache) :
              \/ \E m \in 1..Len(cache') : cache'[m] = cache[n]
              \/ cache[n].expiry <= now
              \/ n = 1 /\ Len(cache) = CacheEntries
              \/ phase' = "closed"]_vars
  BY <1>1, <1>2
<1> QED BY <1>3, Inductive, PTL DEF CacheKeepsTime, Spec
=============================================================================
