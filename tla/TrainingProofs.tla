-------------------------- MODULE TrainingProofs --------------------------
(***************************************************************************)
(* TLAPS proofs about a training, for every value of the constants: the    *)
(* manager whose jobs trainings are (JobManager), the run that makes the   *)
(* brain files and the hall of fame (Training), the generations it shares  *)
(* out among processes, and what a brain is scored on: the survey (Recon)  *)
(* and the engagement (Clash).                                             *)
(***************************************************************************)
EXTENDS JobManager, Recon, Clash, QuestionsProofs

-----------------------------------------------------------------------------
(* The manager: an inductive invariant.                                    *)
\* The jobs whose threads hold a slot.
Active == {j \in Jobs : thread[j] \notin {"none", "freed", "ended"}}

\* A job waits in the queue once, and while it waits nobody has finished it.
QueueOnce ==
  /\ \A m, n \in 1..Len(queue) : queue[m] = queue[n] => m = n
  /\ \A j \in Jobs :
       Queued(j) => /\ thread[j] = "none" /\ state[j] = "queued"
                    /\ poster[j] \notin {"idle", "refused"}
                    /\ caller[j] \notin {"removed", "finished"}

\* Where a job's thread is says what its state and its process are.
ThreadExact ==
  \A j \in Jobs :
    /\ thread[j] = "none" => proc[j] = "none" /\ state[j] \in {"none", "queued", "cancelled"}
    /\ thread[j] = "started" => proc[j] = "none" /\ state[j] = "queued"
    /\ thread[j] = "begun" => proc[j] = "none" /\ state[j] = "running"
    /\ thread[j] = "watching" => state[j] = "running"
    /\ thread[j] \in {"finished", "told", "freed", "ended"} => proc[j] # "running" /\ state[j] \in Final

\* A job that is not posted has nothing, and only a job taken off the queue is
\* finished by its caller.
CallerExact ==
  \A j \in Jobs :
    /\ poster[j] \in {"idle", "refused"} <=> state[j] = "none"
    /\ state[j] = "none" => thread[j] = "none" /\ caller[j] = "idle"
    /\ caller[j] = "removed" => thread[j] = "none" /\ state[j] = "queued"
    /\ caller[j] = "finished" => thread[j] = "none" /\ state[j] = "cancelled"
    /\ thread[j] = "none" /\ state[j] = "cancelled" => caller[j] \in {"finished", "returned"}

\* on_done has been told by the job's thread or, without one, by its caller.
ToldExact ==
  \A j \in Jobs :
    told[j] = IF \/ thread[j] \in {"told", "freed", "ended"}
                 \/ thread[j] = "none" /\ state[j] = "cancelled" /\ caller[j] = "returned"
              THEN 1 ELSE 0

IInv == TypeOK /\ SlotsExact /\ QueueOnce /\ ThreadExact /\ CallerExact /\ ToldExact
-----------------------------------------------------------------------------
(* The queue.                                                              *)

\* The jobs that _pump starts, and those that it leaves in the queue.
Begun == {queue[i] : i \in 1..Pumped(queue, Room)}
Rest == SubSeq(queue, Pumped(queue, Room) + 1, Len(queue))

\* _pump starts as many jobs as it counts, each of them queued until then and
\* gone from the queue afterwards, and never more than there is room for.
LEMMA PumpQueue ==
  ASSUME TypeOK, QueueOnce, running <= MaxParallel
  PROVE  /\ Pumped(queue, Room) \in Nat /\ running + Pumped(queue, Room) <= MaxParallel
         /\ Begun \subseteq Jobs /\ IsFiniteSet(Begun) /\ Cardinality(Begun) = Pumped(queue, Room)
         /\ Rest \in Seq(Jobs)
         /\ \A m, n \in 1..Len(Rest) : Rest[m] = Rest[n] => m = n
         /\ \A k \in Begun : Queued(k)
         /\ \A k \in ToSet(Rest) : Queued(k) /\ k \notin Begun
<1> DEFINE N == Pumped(queue, Room)
<1>1. /\ Len(queue) \in Nat /\ DOMAIN queue = 1..Len(queue)
      /\ \A i \in 1..Len(queue) : queue[i] \in Jobs
  BY LenProperties, ElementOfSeq DEF TypeOK
<1>2. N \in 0..Len(queue) /\ running + N <= MaxParallel
  BY <1>1, JobManagerAssumption DEF Pumped, Room, TypeOK
<1> HIDE DEF N
<1>3. /\ Rest \in Seq(Jobs) /\ Len(Rest) = Len(queue) - N
      /\ \A i \in 1..Len(Rest) : Rest[i] = queue[N + i]
  <2> DEFINE L == Len(queue)
  <2>1. L \in Nat /\ N \in 0..L /\ N + 1 \in Int /\ (\A i \in (N + 1)..L : queue[i] \in Jobs)
    BY <1>1, <1>2
  <2> HIDE DEF L
  <2>2. /\ SubSeq(queue, N + 1, L) \in Seq(Jobs)
        /\ Len(SubSeq(queue, N + 1, L)) = IF N + 1 <= L THEN L - (N + 1) + 1 ELSE 0
        /\ \A i \in 1..(L - (N + 1) + 1) : SubSeq(queue, N + 1, L)[i] = queue[N + 1 + i - 1]
    BY <2>1, SubSeqProperties, SMT
  <2>3. Rest = SubSeq(queue, N + 1, L)
    BY DEF Rest, N, L
  <2>4. Len(Rest) = L - N /\ L - (N + 1) + 1 = L - N
    BY <2>1, <2>2, <2>3
  <2>5. \A i \in 1..Len(Rest) : N + 1 + i - 1 = N + i
    BY <2>1, <2>4
  <2> QED BY <2>2, <2>3, <2>4, <2>5 DEF L
<1>4. Begun = {queue[i] : i \in 1..N}
  BY DEF Begun, N
<1>5. IsFiniteSet(Begun) /\ Cardinality(Begun) = N
  <2> DEFINE f == [i \in 1..N |-> queue[i]]
  <2>1. f \in Bijection(1..N, Begun)
    <3>1. f \in [1..N -> Begun] /\ \A k \in Begun : \E i \in 1..N : f[i] = k
      BY <1>4
    <3>2. \A m, n \in 1..N : f[m] = f[n] => m = n
      BY <1>1, <1>2 DEF QueueOnce
    <3> QED BY <3>1, <3>2, Fun_IsBij
  <2>2. ExistsBijection(1..N, Begun)
    BY <2>1 DEF ExistsBijection
  <2>3. IsFiniteSet(1..N) /\ Cardinality(1..N) = N
    BY <1>2, FS_Interval
  <2> QED BY <2>2, <2>3, FS_Bijection
<1>6. \A k \in Begun : Queued(k)
  BY <1>1, <1>2, <1>4 DEF Queued, ToSet
<1>7. Begun \subseteq Jobs
  BY <1>1, <1>2, <1>4
<1>8. ASSUME NEW m \in 1..Len(Rest), NEW n \in 1..Len(Rest), Rest[m] = Rest[n]
      PROVE  m = n
  <2>1. N + m \in 1..Len(queue) /\ N + n \in 1..Len(queue)
    BY <1>1, <1>2, <1>3
  <2>2. N + m = N + n
    BY <1>3, <1>8, <2>1 DEF QueueOnce
  <2> QED BY <1>2, <2>2
<1>9. ASSUME NEW k \in ToSet(Rest)
      PROVE  Queued(k) /\ k \notin Begun
  <2>1. PICK m \in 1..Len(Rest) : Rest[m] = k
    BY <1>3, LenProperties DEF ToSet
  <2>2. N + m \in 1..Len(queue) /\ queue[N + m] = k
    BY <1>1, <1>2, <1>3, <2>1
  <2>3. \A i \in 1..N : queue[i] # k
    BY <1>1, <1>2, <2>2 DEF QueueOnce
  <2> QED BY <1>1, <1>4, <2>2, <2>3 DEF Queued, ToSet
<1> QED BY <1>2, <1>3, <1>5, <1>6, <1>7, <1>8, <1>9 DEF N

\* submit puts a job in the queue that was not in it.
LEMMA AppendQueue ==
  ASSUME TypeOK, QueueOnce, NEW j \in Jobs, ~Queued(j), queue' = Append(queue, j)
  PROVE  /\ queue' \in Seq(Jobs)
         /\ \A m, n \in 1..Len(queue') : queue'[m] = queue'[n] => m = n
         /\ \A k \in ToSet(queue') : k = j \/ Queued(k)
<1>1. /\ Len(queue) \in Nat /\ DOMAIN queue = 1..Len(queue)
      /\ queue' \in Seq(Jobs) /\ Len(queue') = Len(queue) + 1 /\ DOMAIN queue' = 1..Len(queue')
  BY LenProperties DEF TypeOK
<1>2. \A i \in 1..Len(queue') : queue'[i] = IF i <= Len(queue) THEN queue[i] ELSE j
  BY <1>1 DEF TypeOK
<1>3. \A i \in 1..Len(queue) : queue[i] # j
  BY <1>1 DEF Queued, ToSet
<1>4. \A m, n \in 1..Len(queue') : queue'[m] = queue'[n] => m = n
  BY <1>1, <1>2, <1>3 DEF QueueOnce
<1>5. \A k \in ToSet(queue') : k = j \/ Queued(k)
  BY <1>1, <1>2 DEF Queued, ToSet
<1> QED BY <1>1, <1>4, <1>5

\* What RemoveAt leaves: the entries before i, then those after it.
LEMMA RemoveAtProperties ==
  ASSUME NEW S, NEW q \in Seq(S), NEW i \in 1..Len(q)
  PROVE  /\ RemoveAt(q, i) \in Seq(S) /\ Len(RemoveAt(q, i)) = Len(q) - 1
         /\ \A n \in 1..Len(q) - 1 : RemoveAt(q, i)[n] = q[IF n < i THEN n ELSE n + 1]
<1> DEFINE L == Len(q)
           s == SubSeq(q, 1, i - 1)
           t == SubSeq(q, i + 1, L)
<1>1. L \in Nat /\ i \in 1..L /\ \A n \in 1..L : q[n] \in S
  BY LenProperties, ElementOfSeq
<1> HIDE DEF L
<1>2. /\ i - 1 \in Int /\ i + 1 \in Int /\ L \in Int
      /\ (\A n \in 1..(i - 1) : q[n] \in S) /\ (\A n \in (i + 1)..L : q[n] \in S)
  BY <1>1
<1>3. s \in Seq(S) /\ Len(s) = i - 1 /\ \A n \in 1..(i - 1) : s[n] = q[n]
  <2>1. /\ s \in Seq(S) /\ Len(s) = IF 1 <= i - 1 THEN i - 1 - 1 + 1 ELSE 0
        /\ \A n \in 1..(i - 1 - 1 + 1) : s[n] = q[1 + n - 1]
    BY <1>2, SubSeqProperties, SMT
  <2> QED BY <1>1, <2>1
<1>4. t \in Seq(S) /\ Len(t) = L - i /\ \A n \in 1..(L - i) : t[n] = q[n + i]
  <2>1. /\ t \in Seq(S) /\ Len(t) = IF i + 1 <= L THEN L - (i + 1) + 1 ELSE 0
        /\ \A n \in 1..(L - (i + 1) + 1) : t[n] = q[i + 1 + n - 1]
    BY <1>2, SubSeqProperties, SMT
  <2>2. L - (i + 1) + 1 = L - i /\ \A n \in 1..(L - i) : i + 1 + n - 1 = n + i
    BY <1>1
  <2> QED BY <1>1, <2>1, <2>2
<1> HIDE DEF s, t
<1>5. /\ s \o t \in Seq(S) /\ Len(s \o t) = Len(s) + Len(t)
      /\ \A n \in 1..Len(s) + Len(t) : (s \o t)[n] = IF n <= Len(s) THEN s[n] ELSE t[n - Len(s)]
  <2>1. s \in Seq(S) /\ t \in Seq(S)
    BY <1>3, <1>4
  <2> QED BY <2>1, ConcatProperties
<1>6. RemoveAt(q, i) = s \o t
  BY DEF RemoveAt, s, t, L
<1>7. Len(s) + Len(t) = L - 1
  BY <1>1, <1>3, <1>4
<1>8. ASSUME NEW n \in 1..L - 1
      PROVE  (s \o t)[n] = q[IF n < i THEN n ELSE n + 1]
  <2>1. CASE n < i
    BY <1>1, <1>3, <1>5, <1>7, <2>1
  <2>2. CASE ~(n < i)
    <3>1. n - (i - 1) \in 1..(L - i) /\ n - (i - 1) + i = n + 1
      BY <1>1, <2>2
    <3>2. (s \o t)[n] = t[n - (i - 1)]
      BY <1>1, <1>3, <1>5, <1>7, <2>2
    <3> QED BY <1>4, <2>2, <3>1, <3>2
  <2> QED BY <2>1, <2>2
<1> QED BY <1>5, <1>6, <1>7, <1>8 DEF L

\* cancel takes the one entry of a job off the queue, and no other.
LEMMA RemoveQueue ==
  ASSUME TypeOK, QueueOnce, NEW i \in 1..Len(queue), queue' = RemoveAt(queue, i)
  PROVE  /\ queue' \in Seq(Jobs)
         /\ \A m, n \in 1..Len(queue') : queue'[m] = queue'[n] => m = n
         /\ \A k \in ToSet(queue') : Queued(k) /\ k # queue[i]
<1> DEFINE at(n) == IF n < i THEN n ELSE n + 1
<1>1. Len(queue) \in Nat /\ DOMAIN queue = 1..Len(queue)
  BY LenProperties DEF TypeOK
<1>2. queue' \in Seq(Jobs) /\ Len(queue') = Len(queue) - 1 /\ DOMAIN queue' = 1..Len(queue')
  BY RemoveAtProperties, LenProperties DEF TypeOK
<1>3. ASSUME NEW n \in 1..Len(queue')
      PROVE  at(n) \in 1..Len(queue) /\ at(n) # i /\ queue'[n] = queue[at(n)]
  <2>1. \A k \in 1..Len(queue) - 1 : RemoveAt(queue, i)[k] = queue[IF k < i THEN k ELSE k + 1]
    <3>1. queue \in Seq(Jobs)
      BY DEF TypeOK
    <3> QED BY <3>1, RemoveAtProperties, Zenon
  <2>2. n \in 1..Len(queue) - 1
    BY <1>2
  <2>3. at(n) \in 1..Len(queue) /\ at(n) # i
    BY <1>1, <2>2
  <2> QED BY <2>1, <2>2, <2>3
<1>4. ASSUME NEW m \in 1..Len(queue'), NEW n \in 1..Len(queue'), queue'[m] = queue'[n]
      PROVE  m = n
  <2>1. at(m) = at(n)
    BY <1>3, <1>4 DEF QueueOnce
  <2> QED BY <1>1, <1>2, <2>1
<1>5. ASSUME NEW k \in ToSet(queue')
      PROVE  Queued(k) /\ k # queue[i]
  <2>1. PICK n \in 1..Len(queue') : queue'[n] = k
    BY <1>2, <1>5 DEF ToSet
  <2>2. at(n) \in 1..Len(queue) /\ at(n) # i /\ k = queue[at(n)]
    BY <1>3, <2>1
  <2> HIDE DEF at
  <2> QED BY <1>1, <2>2 DEF Queued, ToSet, QueueOnce
<1> QED BY <1>2, <1>4, <1>5

-----------------------------------------------------------------------------
(* Every step keeps the invariant.  The posters first.                     *)

LEMMA InitInv == Init => IInv
<1> SUFFICES ASSUME Init PROVE IInv
  OBVIOUS
<1>1. TypeOK
  BY EmptySeq DEF Init, TypeOK
<1>2. SlotsExact
  <2>1. {j \in Jobs : thread[j] \notin {"none", "freed", "ended"}} = {}
    BY DEF Init
  <2>2. Cardinality({j \in Jobs : thread[j] \notin {"none", "freed", "ended"}}) = 0
    BY <2>1, FS_EmptySet
  <2>3. running = 0
    BY DEF Init
  <2> QED BY <2>2, <2>3, JobManagerAssumption DEF SlotsExact
<1>3. QueueOnce
  <2>1. Len(queue) = 0 /\ ToSet(queue) = {}
    BY DEF Init, ToSet
  <2> QED BY <2>1 DEF QueueOnce, Queued
<1>4. ThreadExact /\ CallerExact /\ ToldExact
  BY DEF Init, ThreadExact, CallerExact, ToldExact
<1> QED BY <1>1, <1>2, <1>3, <1>4 DEF IInv

\* The slots are exact as long as the same threads hold them.
LEMMA SlotsStay ==
  ASSUME SlotsExact, running' = running, Active' = Active
  PROVE  SlotsExact'
BY DEF SlotsExact, Active

\* The queue is in order as long as it and what it says of its jobs stay.
LEMMA QueueStay ==
  ASSUME QueueOnce, queue' = queue,
         \A k \in Jobs : Queued(k) =>
           /\ thread'[k] = thread[k] /\ state'[k] = state[k]
           /\ poster'[k] = poster[k] \/ poster'[k] \notin {"idle", "refused"}
           /\ caller'[k] = caller[k] \/ caller'[k] \notin {"removed", "finished"}
  PROVE  QueueOnce'
BY DEF QueueOnce, Queued

LEMMA SubmitInv ==
  ASSUME IInv, NEW j \in Jobs, Submit(j)
  PROVE  IInv'
<1>1. poster[j] = "idle" /\ ~Queued(j)
  BY DEF Submit, Moves, IInv, QueueOnce
<1>2. SlotsExact'
  BY SlotsStay DEF IInv, Submit, Active
<1>3. CASE closed
  <2>1. TypeOK'
    BY <1>3 DEF IInv, TypeOK, Submit, Moves, worker
  <2>2. QueueOnce'
    BY <1>1, <1>3, QueueStay DEF IInv, TypeOK, Submit, Moves, worker
  <2>3. ThreadExact' /\ CallerExact' /\ ToldExact'
    BY <1>3 DEF IInv, TypeOK, Submit, Moves, worker, ThreadExact, CallerExact, ToldExact
  <2> QED BY <1>2, <2>1, <2>2, <2>3 DEF IInv
<1>4. CASE ~closed
  <2>1. queue' = Append(queue, j)
    BY <1>4 DEF Submit
  <2>2. /\ queue' \in Seq(Jobs)
        /\ \A m, n \in 1..Len(queue') : queue'[m] = queue'[n] => m = n
        /\ \A k \in ToSet(queue') : k = j \/ Queued(k)
    BY <1>1, <2>1, AppendQueue DEF IInv
  <2>3. TypeOK'
    BY <1>4, <2>2 DEF IInv, TypeOK, Submit, Moves, worker
  <2>4. state[j] = "none" /\ thread[j] = "none" /\ caller[j] = "idle"
    BY <1>1 DEF IInv, CallerExact
  <2>5. QueueOnce'
    <3>1. ASSUME NEW k \in Jobs, Queued(k)'
          PROVE  k = j \/ Queued(k)
      BY <2>2, <3>1 DEF Queued
    <3>2. poster'[j] = "submitted" /\ state'[j] = "queued"
      BY <1>4 DEF Submit, Moves, IInv, TypeOK
    <3>3. \A k \in Jobs : /\ thread'[k] = thread[k] /\ caller'[k] = caller[k]
                          /\ k # j => state'[k] = state[k] /\ poster'[k] = poster[k]
      BY <1>4 DEF Submit, Moves, IInv, TypeOK
    <3> QED BY <2>2, <2>4, <3>1, <3>2, <3>3 DEF IInv, QueueOnce
  <2>6. ThreadExact' /\ CallerExact' /\ ToldExact'
    BY <1>4, <2>4 DEF IInv, TypeOK, Submit, Moves, worker, ThreadExact, CallerExact, ToldExact
  <2> QED BY <1>2, <2>3, <2>5, <2>6 DEF IInv
<1> QED BY <1>3, <1>4

\* _pump, whether the handler or a thread that ends calls it.
LEMMA PumpInv ==
  ASSUME IInv, queue' = Rest, running' = running + Pumped(queue, Room),
         UNCHANGED <<caller, closed, job, worker, told>>,
         TypeOK',
         \A k \in Jobs : IF k \in Begun THEN thread'[k] = "started"
                         ELSE thread'[k] = thread[k] \/ (thread[k] = "freed" /\ thread'[k] = "ended"),
         \A k \in Jobs : poster'[k] = poster[k] \/ (poster[k] = "submitted" /\ poster'[k] = "pumped")
  PROVE  IInv'
<1>1. /\ Pumped(queue, Room) \in Nat /\ running + Pumped(queue, Room) <= MaxParallel
      /\ Begun \subseteq Jobs /\ IsFiniteSet(Begun) /\ Cardinality(Begun) = Pumped(queue, Room)
      /\ \A m, n \in 1..Len(Rest) : Rest[m] = Rest[n] => m = n
      /\ \A k \in Begun : Queued(k)
      /\ \A k \in ToSet(Rest) : Queued(k) /\ k \notin Begun
  BY PumpQueue DEF IInv, SlotsExact
<1>2. \A k \in Begun : thread[k] = "none" /\ state[k] = "queued" /\ caller[k] \notin {"removed", "finished"}
  BY <1>1 DEF IInv, QueueOnce
<1>3. SlotsExact'
  <2>1. Active' = Active \cup Begun /\ Active \cap Begun = {}
    BY <1>1, <1>2 DEF Active
  <2>2. IsFiniteSet(Active)
    BY FS_Subset, JobManagerAssumption DEF Active
  <2>3. Cardinality(Active') = Cardinality(Active) + Cardinality(Begun)
    <3>1. Cardinality(Active \cup Begun) = Cardinality(Active) + Cardinality(Begun) - Cardinality({})
      BY <1>1, <2>1, <2>2, FS_Union
    <3>2. Cardinality(Active) \in Nat /\ Cardinality({}) = 0
      BY <2>2, FS_EmptySet, FS_CardinalityType
    <3> QED BY <1>1, <2>1, <3>1, <3>2
  <2> QED BY <1>1, <2>3 DEF IInv, SlotsExact, Active
<1>4. QueueOnce'
  <2>1. ASSUME NEW k \in Jobs, Queued(k)'
        PROVE  Queued(k) /\ k \notin Begun
    BY <1>1, <2>1 DEF Queued
  <2> QED BY <1>1, <2>1 DEF IInv, QueueOnce, job
<1>5. ThreadExact' /\ ToldExact'
  <2>1. UNCHANGED <<state, proc, caller, told>>
    BY DEF job, worker
  <2>2. ThreadExact'
    BY <1>2, <2>1 DEF IInv, ThreadExact
  <2>3. ToldExact'
    BY <1>2, <2>1 DEF IInv, ToldExact
  <2> QED BY <2>2, <2>3
<1>6. CallerExact'
  <2>1. \A k \in Jobs : poster'[k] \in {"idle", "refused"} <=> poster[k] \in {"idle", "refused"}
    OBVIOUS
  <2>2. \A k \in Jobs : k \in Begun => state[k] = "queued" /\ caller[k] \notin {"removed", "finished"}
    BY <1>2
  <2> QED BY <2>1, <2>2 DEF IInv, CallerExact, job
<1> QED BY <1>3, <1>4, <1>5, <1>6 DEF IInv

LEMMA SubmitPumpInv ==
  ASSUME IInv, NEW j \in Jobs, SubmitPump(j)
  PROVE  IInv'
<1>1. queue' = Rest /\ running' = running + Pumped(queue, Room)
  BY DEF SubmitPump, Pump, Rest
<1>2. thread' = [k \in Jobs |-> IF k \in Begun THEN "started" ELSE thread[k]]
  BY DEF SubmitPump, Pump, Begun
<1>3. TypeOK'
  <2>1. Rest \in Seq(Jobs) /\ Pumped(queue, Room) \in Nat
    BY PumpQueue DEF IInv, SlotsExact
  <2> QED BY <1>1, <1>2, <2>1 DEF IInv, TypeOK, SubmitPump, Moves, job, worker
<1>4. \A k \in Jobs : poster'[k] = poster[k] \/ (poster[k] = "submitted" /\ poster'[k] = "pumped")
  BY DEF SubmitPump, Moves, IInv, TypeOK
<1>5. UNCHANGED <<caller, closed, job, worker, told>>
  BY DEF SubmitPump
<1> QED BY <1>1, <1>2, <1>3, <1>4, <1>5, PumpInv

LEMMA WriteStatusInv ==
  ASSUME IInv, NEW j \in Jobs, WriteStatus(j)
  PROVE  IInv'
<1> USE DEF IInv, WriteStatus, Moves, manager, job
<1>1. TypeOK'
  BY DEF TypeOK
<1>2. SlotsExact' /\ QueueOnce'
  BY SlotsStay, QueueStay DEF TypeOK, Active
<1>3. ThreadExact' /\ CallerExact' /\ ToldExact'
  BY DEF TypeOK, ThreadExact, CallerExact, ToldExact
<1> QED BY <1>1, <1>2, <1>3

-----------------------------------------------------------------------------
(* The callers of stop and cancel.                                         *)

LEMMA WithdrawnInv ==
  ASSUME IInv, NEW j \in Jobs, Stop(j) \/ Cancel(j) \/ Flag(j)
  PROVE  IInv'
<1> USE DEF IInv, Stop, Cancel, Flag, Moves, manager, job, worker
<1>1. TypeOK'
  BY DEF TypeOK
<1>2. caller[j] \in {"idle", "cancelling"} /\ caller'[j] \in {"cancelling", "flagged", "returned"}
  BY DEF TypeOK
<1>3. \A k \in Jobs : k # j => caller'[k] = caller[k]
  BY DEF TypeOK
<1>4. UNCHANGED <<queue, running, thread, state, poster, proc, told>>
  OBVIOUS
<1>5. SlotsExact'
  BY <1>4, SlotsStay DEF Active
<1>6. QueueOnce'
  BY <1>2, <1>3, <1>4, QueueStay DEF TypeOK
<1>7. state[j] # "none"
  BY DEF CallerExact
<1>8. ~(thread[j] = "none" /\ state[j] = "cancelled")
  BY <1>2 DEF CallerExact
<1>9. ThreadExact' /\ CallerExact' /\ ToldExact'
  BY <1>2, <1>3, <1>4, <1>7, <1>8 DEF ThreadExact, CallerExact, ToldExact
<1> QED BY <1>1, <1>5, <1>6, <1>9

LEMMA CancelQueuedInv ==
  ASSUME IInv, NEW j \in Jobs, CancelQueued(j)
  PROVE  IInv'
<1> USE DEF IInv, CancelQueued, Moves, job, worker
<1>1. PICK i \in 1..Len(queue) : queue[i] = j /\ queue' = RemoveAt(queue, i)
  BY LenProperties DEF TypeOK
<1>2. /\ queue' \in Seq(Jobs)
      /\ \A m, n \in 1..Len(queue') : queue'[m] = queue'[n] => m = n
      /\ \A k \in ToSet(queue') : Queued(k) /\ k # j
  BY <1>1, RemoveQueue
<1>3. thread[j] = "none" /\ state[j] = "queued"
  BY DEF QueueOnce
<1>4. TypeOK'
  BY <1>2 DEF TypeOK
<1>5. SlotsExact'
  BY SlotsStay DEF Active
<1>6. QueueOnce'
  <2>1. \A k \in Jobs : k # j => caller'[k] = caller[k]
    BY DEF TypeOK
  <2>2. \A k \in Jobs : Queued(k)' => Queued(k) /\ k # j
    BY <1>2 DEF Queued
  <2> QED BY <1>2, <2>1, <2>2 DEF QueueOnce
<1>7. ThreadExact' /\ CallerExact' /\ ToldExact'
  BY <1>3 DEF TypeOK, ThreadExact, CallerExact, ToldExact
<1> QED BY <1>4, <1>5, <1>6, <1>7

LEMMA CancelStartedInv ==
  ASSUME IInv, NEW j \in Jobs, CancelStarted(j)
  PROVE  IInv'
<1> USE DEF IInv, CancelStarted, Moves, manager, job
<1>1. TypeOK'
  BY DEF TypeOK, Exited
<1>2. SlotsExact' /\ QueueOnce'
  BY SlotsStay, QueueStay DEF TypeOK, Active
<1>3. ~(thread[j] = "none" /\ state[j] = "cancelled") /\ caller[j] = "flagged" /\ caller'[j] = "returned"
  BY DEF CallerExact, TypeOK
<1>4. ThreadExact' /\ CallerExact' /\ ToldExact'
  BY <1>3 DEF TypeOK, ThreadExact, CallerExact, ToldExact
<1> QED BY <1>1, <1>2, <1>4

LEMMA CancelFinishInv ==
  ASSUME IInv, NEW j \in Jobs, CancelFinish(j)
  PROVE  IInv'
<1> USE DEF IInv, CancelFinish, Moves, manager, worker
<1>1. TypeOK'
  BY DEF TypeOK, Final
<1>2. thread[j] = "none" /\ state[j] = "queued" /\ ~Queued(j) /\ told[j] = 0 /\ proc[j] = "none"
  BY DEF CallerExact, QueueOnce, ToldExact, ThreadExact
<1>3. SlotsExact' /\ QueueOnce'
  BY <1>2, SlotsStay, QueueStay DEF TypeOK, Active
<1>4. ThreadExact' /\ CallerExact' /\ ToldExact'
  BY <1>2 DEF TypeOK, ThreadExact, CallerExact, ToldExact, Final
<1> QED BY <1>1, <1>3, <1>4

LEMMA CancelTellInv ==
  ASSUME IInv, NEW j \in Jobs, CancelTell(j)
  PROVE  IInv'
<1> USE DEF IInv, CancelTell, OnDone, Moves, manager, job
<1>1. TypeOK'
  BY DEF TypeOK, Final
<1>2. thread[j] = "none" /\ state[j] = "cancelled" /\ told[j] = 0 /\ ~Queued(j)
  BY DEF CallerExact, QueueOnce, ToldExact
<1>3. SlotsExact' /\ QueueOnce'
  BY <1>2, SlotsStay, QueueStay DEF TypeOK, Active
<1>4. ThreadExact' /\ CallerExact' /\ ToldExact'
  BY <1>2 DEF TypeOK, ThreadExact, CallerExact, ToldExact
<1> QED BY <1>1, <1>3, <1>4

-----------------------------------------------------------------------------
(* The job's thread, its worker and the main thread.                       *)

\* The steps of a thread that keeps its slot.
LEMMA RunInv ==
  ASSUME IInv, NEW j \in Jobs, Begin(j) \/ Spawn(j) \/ SpawnFails(j) \/ Finish(j)
  PROVE  IInv'
<1> USE DEF IInv, Moves, manager, job, worker
<1>1. TypeOK'
  BY DEF Begin, Spawn, SpawnFails, Finish, TypeOK, Final
<1>2. /\ thread[j] \in {"started", "begun", "watching"}
      /\ thread'[j] \in {"begun", "watching", "finished"}
      /\ \A k \in Jobs : k # j => thread'[k] = thread[k] /\ state'[k] = state[k] /\ proc'[k] = proc[k]
      /\ UNCHANGED <<queue, running, poster, caller, told>>
  BY DEF Begin, Spawn, SpawnFails, Finish, TypeOK
<1>3. state[j] \in {"queued", "running"} /\ state'[j] \in {"running"} \cup Final
  BY DEF Begin, Spawn, SpawnFails, Finish, TypeOK, Final, ThreadExact
<1>4. ~Queued(j) /\ caller[j] \notin {"removed", "finished"}
  BY <1>2 DEF QueueOnce, CallerExact
<1>5. SlotsExact'
  <2>1. Active' = Active
    BY <1>2 DEF Active
  <2> QED BY <1>2, <2>1, SlotsStay
<1>6. QueueOnce'
  BY <1>2, <1>4, QueueStay
<1>7. ThreadExact'
  BY DEF Begin, Spawn, SpawnFails, Finish, TypeOK, ThreadExact, Final, Exited
<1>8. CallerExact'
  BY <1>2, <1>3, <1>4 DEF CallerExact, Final
<1>9. ToldExact'
  BY <1>2 DEF ToldExact
<1> QED BY <1>1, <1>5, <1>6, <1>7, <1>8, <1>9

LEMMA TellInv ==
  ASSUME IInv, NEW j \in Jobs, Tell(j)
  PROVE  IInv'
<1> USE DEF IInv, Tell, OnDone, Moves, manager, job
<1>1. TypeOK'
  BY DEF TypeOK, Final
<1>2. ~Queued(j)
  BY DEF QueueOnce
<1>3. SlotsExact' /\ QueueOnce'
  BY <1>2, SlotsStay, QueueStay DEF TypeOK, Active
<1>4. ThreadExact' /\ CallerExact' /\ ToldExact'
  BY DEF TypeOK, ThreadExact, CallerExact, ToldExact
<1> QED BY <1>1, <1>3, <1>4

\* A thread that gives its slot back is one of those counted.
LEMMA FreeInv ==
  ASSUME IInv, NEW j \in Jobs, Free(j)
  PROVE  IInv'
<1> USE DEF IInv, Free, Moves, worker
<1>1. thread[j] = "told" /\ thread' = [thread EXCEPT ![j] = "freed"]
  OBVIOUS
<1>2. IsFiniteSet(Active) /\ j \in Active /\ Active' = Active \ {j}
  BY <1>1, FS_Subset, JobManagerAssumption DEF TypeOK, Active
<1>3. Cardinality(Active) \in Nat /\ Cardinality(Active') = Cardinality(Active) - 1 /\ Active # {}
  BY <1>2, FS_RemoveElement, FS_CardinalityType
<1>4. Cardinality(Active) # 0
  BY <1>2, <1>3, FS_EmptySet
<1>5. SlotsExact'
  BY <1>3, <1>4, JobManagerAssumption DEF SlotsExact, Active
<1>6. TypeOK'
  BY <1>3, <1>4 DEF TypeOK, SlotsExact, Active
<1>7. QueueOnce'
  <2>1. ~Queued(j)
    BY <1>1 DEF QueueOnce
  <2> QED BY <2>1, QueueStay DEF TypeOK
<1>8. ThreadExact' /\ CallerExact' /\ ToldExact'
  BY DEF TypeOK, ThreadExact, CallerExact, ToldExact
<1> QED BY <1>5, <1>6, <1>7, <1>8

LEMMA PumpNextInv ==
  ASSUME IInv, NEW j \in Jobs, PumpNext(j)
  PROVE  IInv'
<1>1. queue' = Rest /\ running' = running + Pumped(queue, Room) /\ thread[j] = "freed"
  BY DEF PumpNext, Rest
<1>2. thread' = [k \in Jobs |-> IF k = j THEN "ended"
                                ELSE IF k \in Begun THEN "started" ELSE thread[k]]
  BY DEF PumpNext, Begun
<1>3. Rest \in Seq(Jobs) /\ Pumped(queue, Room) \in Nat /\ \A k \in Begun : Queued(k)
  BY PumpQueue DEF IInv, SlotsExact
<1>4. j \notin Begun
  BY <1>1, <1>3 DEF IInv, QueueOnce
<1>5. TypeOK'
  <2>1. UNCHANGED <<poster, caller, main, closed, state, flagged, asked, proc, file, told>>
    BY DEF PumpNext, job, worker
  <2>2. thread' \in [Jobs -> {"none", "started", "begun", "watching", "finished", "told", "freed", "ended"}]
    BY <1>2 DEF IInv, TypeOK
  <2> QED BY <1>1, <1>3, <2>1, <2>2 DEF IInv, TypeOK
<1>6. \A k \in Jobs : IF k \in Begun THEN thread'[k] = "started"
                      ELSE thread'[k] = thread[k] \/ (thread[k] = "freed" /\ thread'[k] = "ended")
  BY <1>1, <1>2, <1>4
<1>7. UNCHANGED <<poster, caller, closed, job, worker, told>>
  BY DEF PumpNext
<1> QED BY <1>1, <1>5, <1>6, <1>7, PumpInv

LEMMA WorkInv ==
  ASSUME IInv, NEW j \in Jobs, Work(j)
  PROVE  IInv'
<1> USE DEF IInv, Work, WorkerRuns, WorkerSucceeds, WorkerFails, Timeout, manager, job
<1>1. TypeOK'
  <2>1. proc' \in [Jobs -> {"none", "running"} \cup Exited]
    BY DEF TypeOK, Exited
  <2>2. file' \in [Jobs -> {"none", "queued", "running", "stopped"} \cup Final]
    BY DEF TypeOK, Final
  <2> QED BY <2>1, <2>2 DEF TypeOK
<1>2. proc[j] = "running" /\ \A k \in Jobs : k # j => proc'[k] = proc[k]
  BY DEF TypeOK
<1>3. UNCHANGED <<poster, caller, thread, queue, running, state, told>>
  OBVIOUS
<1>4. SlotsExact' /\ QueueOnce'
  BY <1>3, SlotsStay, QueueStay DEF Active
<1>5. thread[j] = "watching"
  BY <1>2 DEF ThreadExact, TypeOK
<1>6. ThreadExact' /\ CallerExact' /\ ToldExact'
  BY <1>2, <1>3, <1>5 DEF ThreadExact, CallerExact, ToldExact
<1> QED BY <1>1, <1>4, <1>6

LEMMA MainInv ==
  ASSUME IInv, Close \/ KillAll \/ Exit
  PROVE  IInv'
<1> USE DEF IInv, Close, KillAll, Exit, manager, job, worker
<1>1. TypeOK'
  BY EmptySeq DEF TypeOK, Exited
<1>2. SlotsExact'
  BY SlotsStay DEF Active
<1>3. QueueOnce'
  <2>1. CASE queue' = queue
    BY <2>1, QueueStay
  <2>2. CASE queue' = <<>>
    <3>1. Len(queue') = 0 /\ ToSet(queue') = {}
      BY <2>2 DEF ToSet
    <3> QED BY <3>1 DEF QueueOnce, Queued
  <2> QED BY <2>1, <2>2
<1>4. ThreadExact' /\ CallerExact' /\ ToldExact'
  BY DEF TypeOK, ThreadExact, CallerExact, ToldExact
<1> QED BY <1>1, <1>2, <1>3, <1>4

\* Every step keeps the invariant.
LEMMA NextInv ==
  ASSUME IInv, [Next]_vars
  PROVE  IInv'
<1>1. ASSUME NEW j \in Jobs, Post(j)
      PROVE  IInv'
  BY <1>1, SubmitInv, SubmitPumpInv, WriteStatusInv DEF Post
<1>2. ASSUME NEW j \in Jobs, Stop(j) \/ Cancel(j) \/ Withdraw(j)
      PROVE  IInv'
  BY <1>2, WithdrawnInv, CancelQueuedInv, CancelStartedInv, CancelFinishInv, CancelTellInv DEF Withdraw
<1>3. ASSUME NEW j \in Jobs, Run(j)
      PROVE  IInv'
  BY <1>3, RunInv, TellInv, FreeInv, PumpNextInv DEF Run
<1>4. ASSUME NEW j \in Jobs, Work(j)
      PROVE  IInv'
  BY <1>4, WorkInv
<1>5. CASE Close \/ KillAll \/ Exit
  BY <1>5, MainInv
<1>6. CASE UNCHANGED vars
  <2> USE DEF vars, manager, job, worker, IInv
  <2>1. SlotsExact' /\ QueueOnce'
    BY <1>6, SlotsStay, QueueStay DEF Active
  <2> QED BY <1>6, <2>1 DEF TypeOK, ThreadExact, CallerExact, ToldExact
<1> QED BY <1>1, <1>2, <1>3, <1>4, <1>5, <1>6 DEF Next

-----------------------------------------------------------------------------
(* The theorems.                                                           *)

\* The inductive invariant holds in every reachable state.
THEOREM Invariance == Spec => []IInv
<1>1. Init => IInv
  BY InitInv
<1>2. IInv /\ [Next]_vars => IInv'
  BY NextInv
<1> QED BY <1>1, <1>2, PTL DEF Spec

\* The invariant says that the slots are counted and every job is finished once.
LEMMA Accounted == IInv => JobsAccounted
<1> SUFFICES ASSUME IInv PROVE JobsAccounted
  OBVIOUS
<1>1. FinishedOnce
  BY DEF IInv, FinishedOnce, ToldExact, CallerExact, QueueOnce, ThreadExact, Final
<1> QED BY <1>1 DEF IInv, JobsAccounted

\* Whatever posts, cancels, failures and the shutdown do to each other, _running
\* counts the threads that hold a slot, never more than max_parallel, and every
\* job is finished, and on_done told, at most once (_pump, cancel, _run, _finish).
THEOREM JobsAreAccounted == Spec => []JobsAccounted
BY Invariance, Accounted, PTL

\* A job that was cancelled stays so: no thread starts a worker for it and
\* nothing finishes it again (cancel, _run).
THEOREM CancelledStays == Spec => NoLateStart
<1> DEFINE Step == \A j \in Jobs : state[j] = "cancelled" => proc'[j] = proc[j] /\ state'[j] = state[j]
<1>1. ASSUME IInv, [Next]_vars
      PROVE  Step \/ UNCHANGED vars
  <2> SUFFICES ASSUME Next, NEW j \in Jobs, state[j] = "cancelled"
               PROVE  proc'[j] = proc[j] /\ state'[j] = state[j]
    BY <1>1 DEF vars, job, worker
  <2> USE DEF IInv, Moves, manager, job, worker
  <2>1. /\ proc[j] # "running" /\ thread[j] \notin {"started", "begun", "watching"}
        /\ poster[j] # "idle" /\ caller[j] # "removed"
    BY <1>1 DEF ThreadExact, CallerExact, TypeOK
  <2>2. ASSUME NEW k \in Jobs, Post(k) \/ Stop(k) \/ Cancel(k) \/ Withdraw(k)
        PROVE  proc'[j] = proc[j] /\ state'[j] = state[j]
    BY <1>1, <2>1, <2>2 DEF TypeOK, Post, Submit, SubmitPump, WriteStatus, Stop, Cancel, Withdraw,
          Flag, CancelQueued, CancelStarted, CancelFinish, CancelTell, OnDone
  <2>3. ASSUME NEW k \in Jobs, Run(k)
        PROVE  proc'[j] = proc[j] /\ state'[j] = state[j]
    BY <1>1, <2>1, <2>3 DEF TypeOK, Run, Begin, Spawn, SpawnFails, Finish, Tell, OnDone, Free, PumpNext
  <2>4. ASSUME NEW k \in Jobs, Work(k)
        PROVE  proc'[j] = proc[j] /\ state'[j] = state[j]
    BY <1>1, <2>1, <2>4 DEF TypeOK, Work, WorkerRuns, WorkerSucceeds, WorkerFails, Timeout
  <2>5. CASE Close \/ KillAll \/ Exit
    BY <1>1, <2>1, <2>5 DEF TypeOK, Close, KillAll, Exit
  <2> QED BY <2>2, <2>3, <2>4, <2>5 DEF Next
<1>2. IInv /\ [Next]_vars => [Step]_vars
  BY <1>1
<1> QED BY <1>2, Invariance, PTL DEF Spec, NoLateStart

-----------------------------------------------------------------------------
(* The hall of fame of a role.                                             *)

\* A hall of fame that has seen the snapshots snaps: the latest of them in order
\* in r, and in a some of the others, each once, all of them while there is room.
FameOf(snaps, r, a) ==
  /\ r \in Seq(Nat) /\ a \in Seq(Nat)
  /\ Len(r) <= HofRecent /\ Range(r) \subseteq snaps
  /\ \A i, j \in 1..Len(r) : i < j => r[i] < r[j]
  /\ Len(r) < HofRecent => Range(r) = snaps
  /\ \A g \in snaps \ Range(r) : \A i \in 1..Len(r) : g < r[i]
  /\ Len(a) <= HofArchive /\ Range(a) \subseteq snaps \ Range(r)
  /\ \A i, j \in 1..Len(a) : a[i] = a[j] => i = j
  /\ Len(a) < HofArchive => Range(a) = snaps \ Range(r)

LEMMA AppendRange ==
  ASSUME NEW s \in Seq(Nat), NEW x \in Nat
  PROVE  Range(Append(s, x)) = Range(s) \cup {x}
<1>1. /\ Append(s, x) \in Seq(Nat) /\ Len(Append(s, x)) = Len(s) + 1 /\ Len(s) \in Nat
      /\ \A i \in 1..Len(s) : Append(s, x)[i] = s[i]
      /\ Append(s, x)[Len(s) + 1] = x
  BY AppendProperties, LenProperties
<1>2. /\ Range(s) = {s[i] : i \in 1..Len(s)}
      /\ Range(Append(s, x)) = {Append(s, x)[i] : i \in 1..(Len(s) + 1)}
  BY <1>1, RangeEquality
<1>3. 1..(Len(s) + 1) = 1..Len(s) \cup {Len(s) + 1}
  BY <1>1
<1> QED BY <1>1, <1>2, <1>3

\* A snapshot that still finds room among the latest.
LEMMA FameGrows ==
  ASSUME NEW snaps \in SUBSET Nat, NEW r, NEW a, FameOf(snaps, r, a),
         NEW n \in Nat, \A g \in snaps : g < n, Len(r) < HofRecent
  PROVE  FameOf(snaps \cup {n}, Append(r, n), a)
<1> DEFINE q == Append(r, n)
<1>1. /\ q \in Seq(Nat) /\ Len(q) = Len(r) + 1 /\ Len(r) \in Nat
      /\ \A i \in 1..Len(r) : q[i] = r[i]
      /\ q[Len(r) + 1] = n
      /\ r \in Seq(Nat) /\ a \in Seq(Nat)
  BY AppendProperties DEF FameOf
<1>2. Range(r) = {r[i] : i \in 1..Len(r)} /\ Range(q) = {q[i] : i \in 1..Len(q)}
  BY <1>1, RangeEquality
<1> HIDE DEF q
<1>3. Range(q) = Range(r) \cup {n}
  BY <1>1, AppendRange DEF q
<1>4. Range(r) = snaps /\ HofRecent \in Nat
  BY TrainingAssumption DEF FameOf
<1>5. \A i, j \in 1..Len(q) : i < j => q[i] < q[j]
  <2> SUFFICES ASSUME NEW i \in 1..Len(q), NEW j \in 1..Len(q), i < j PROVE q[i] < q[j]
    OBVIOUS
  <2>1. i \in 1..Len(r) /\ q[i] = r[i]
    <3>1. Len(q) = Len(r) + 1 /\ Len(r) \in Nat
      BY <1>1
    <3>2. i \in 1..Len(r)
      BY <3>1
    <3> QED BY <3>2, <1>1
  <2>2. CASE j = Len(q)
    <3>1. r[i] \in snaps
      BY <2>1, <1>2, <1>4
    <3> QED BY <2>1, <2>2, <3>1, <1>1
  <2>3. CASE j # Len(q)
    <3>1. j \in 1..Len(r) /\ q[j] = r[j]
      <4>1. Len(q) = Len(r) + 1 /\ Len(r) \in Nat
        BY <1>1
      <4>2. j \in 1..Len(r)
        BY <2>3, <4>1
      <4> QED BY <4>2, <1>1
    <3>2. \A k, l \in 1..Len(r) : k < l => r[k] < r[l]
      BY DEF FameOf
    <3> QED BY <2>1, <3>1, <3>2
  <2> QED BY <2>2, <2>3
<1>6. Len(q) <= HofRecent
  BY <1>1, <1>4
<1>7. Range(a) = {} /\ (snaps \cup {n}) \ Range(q) = {} /\ snaps \ Range(r) = {}
  BY <1>3, <1>4 DEF FameOf
<1> QED BY <1>1, <1>3, <1>4, <1>5, <1>6, <1>7 DEF FameOf, q

\* What the archive may become.
ArchivedFrom(a, old) ==
  IF Len(a) < HofArchive THEN {Append(a, old)}
  ELSE {a} \cup {[a EXCEPT ![j] = old] : j \in 1..HofArchive}

\* A snapshot that drives the oldest of the latest into the archive, or away.
LEMMA FameTurns ==
  ASSUME NEW snaps \in SUBSET Nat, NEW r, NEW a, FameOf(snaps, r, a),
         NEW n \in Nat, \A g \in snaps : g < n, ~(Len(r) < HofRecent),
         NEW b \in ArchivedFrom(a, Head(r))
  PROVE  FameOf(snaps \cup {n}, Append(Tail(r), n), b)
<1> DEFINE q == Append(Tail(r), n)
           old == r[1]
<1>1. /\ r \in Seq(Nat) /\ a \in Seq(Nat) /\ Len(r) = HofRecent /\ Len(r) \in Nat \ {0}
      /\ HofArchive \in Nat \ {0} /\ Len(a) \in Nat
  BY TrainingAssumption, LenProperties DEF FameOf
<1>2. r # <<>> /\ Head(r) = old /\ old \in Nat
  BY <1>1, ElementOfSeq
<1>3. /\ Tail(r) \in Seq(Nat) /\ Len(Tail(r)) = Len(r) - 1
      /\ \A i \in 1..(Len(r) - 1) : Tail(r)[i] = r[i + 1]
  BY <1>1, <1>2, HeadTailProperties
<1>4. /\ q \in Seq(Nat) /\ Len(q) = Len(r)
      /\ \A i \in 1..(Len(r) - 1) : q[i] = r[i + 1]
      /\ q[Len(r)] = n
  BY <1>1, <1>3, AppendProperties
<1>5. /\ Range(r) = {r[i] : i \in 1..Len(r)} /\ Range(q) = {q[i] : i \in 1..Len(q)}
      /\ Range(a) = {a[i] : i \in 1..Len(a)}
  BY <1>1, <1>4, RangeEquality
<1> HIDE DEF q
<1>6. /\ \A i \in 1..Len(r) : r[i] \in snaps /\ r[i] < n
      /\ \A i \in 2..Len(r) : old < r[i]
      /\ \A i, j \in 1..Len(r) : i < j => r[i] < r[j]
      /\ \A g \in snaps \ Range(r) : \A i \in 1..Len(r) : g < r[i]
  BY <1>1, <1>5 DEF FameOf
<1>7. Range(q) = (Range(r) \ {old}) \cup {n} /\ n \notin snaps
  <2>1. ASSUME NEW x \in Range(q) PROVE x \in (Range(r) \ {old}) \cup {n}
    <3>1. PICK i \in 1..Len(r) : x = q[i]
      BY <1>5, <1>4
    <3>2. CASE i = Len(r)
      BY <3>1, <3>2, <1>4
    <3>3. CASE i # Len(r)
      <4>1. x = r[i + 1] /\ i + 1 \in 2..Len(r) /\ i + 1 \in 1..Len(r)
        BY <3>1, <3>3, <1>4
      <4> QED BY <4>1, <1>5, <1>6, <1>2
    <3> QED BY <3>2, <3>3
  <2>2. ASSUME NEW x \in Range(r), x # old PROVE x \in Range(q)
    <3>1. PICK i \in 1..Len(r) : x = r[i]
      BY <1>5
    <3>2. i - 1 \in 1..(Len(r) - 1) /\ (i - 1) + 1 = i
      BY <3>1, <2>2, <1>1
    <3>3. q[i - 1] = x /\ i - 1 \in 1..Len(q)
      BY <3>1, <3>2, <1>4
    <3> QED BY <3>3, <1>5
  <2>3. n \in Range(q)
    BY <1>1, <1>4, <1>5
  <2>4. n \notin snaps
    OBVIOUS
  <2> QED BY <2>1, <2>2, <2>3, <2>4
<1>8. /\ old \in snaps /\ old \in Range(r) /\ old \notin Range(a) /\ Range(r) \subseteq snaps
      /\ (snaps \cup {n}) \ Range(q) = (snaps \ Range(r)) \cup {old}
  <2>1. 1 \in 1..Len(r)
    BY <1>1
  <2>2. old \in snaps /\ old \in Range(r) /\ old < n
    BY <2>1, <1>5, <1>6
  <2>3. Range(a) \subseteq snaps \ Range(r) /\ Range(r) \subseteq snaps
    BY DEF FameOf
  <2> QED BY <2>2, <2>3, <1>7
<1>9. \A i, j \in 1..Len(q) : i < j => q[i] < q[j]
  <2> SUFFICES ASSUME NEW i \in 1..Len(q), NEW j \in 1..Len(q), i < j PROVE q[i] < q[j]
    OBVIOUS
  <2>0. Len(q) = Len(r) /\ Len(r) \in Nat
    BY <1>1, <1>4
  <2>1. q[i] = r[i + 1] /\ i + 1 \in 1..Len(r)
    <3>1. i \in 1..(Len(r) - 1) /\ i + 1 \in 1..Len(r)
      BY <2>0
    <3> QED BY <3>1, <1>4
  <2>2. CASE j = Len(r)
    BY <2>1, <2>2, <1>4, <1>6
  <2>3. CASE j # Len(r)
    <3>1. q[j] = r[j + 1] /\ j + 1 \in 1..Len(r) /\ i + 1 < j + 1
      <4>1. j \in 1..(Len(r) - 1) /\ j + 1 \in 1..Len(r) /\ i + 1 < j + 1
        BY <2>0, <2>3
      <4> QED BY <4>1, <1>4
    <3> QED BY <2>1, <3>1, <1>6
  <2> QED BY <2>2, <2>3
<1>10. \A g \in (snaps \cup {n}) \ Range(q) : \A i \in 1..Len(q) : g < q[i]
  <2> SUFFICES ASSUME NEW g \in (snaps \ Range(r)) \cup {old}, NEW i \in 1..Len(q) PROVE g < q[i]
    BY <1>8
  <2>1. g <= old /\ g \in Nat /\ g < n
    BY <1>1, <1>2, <1>6, <1>8
  <2>2. CASE i = Len(r)
    BY <2>1, <2>2, <1>4
  <2>3. CASE i # Len(r)
    <3>1. q[i] = r[i + 1] /\ i + 1 \in 2..Len(r) /\ i + 1 \in 1..Len(r)
      <4>1. Len(q) = Len(r) /\ Len(r) \in Nat
        BY <1>1, <1>4
      <4>2. i \in 1..(Len(r) - 1) /\ i + 1 \in 2..Len(r) /\ i + 1 \in 1..Len(r)
        BY <2>3, <4>1
      <4> QED BY <4>2, <1>4
    <3>2. old < r[i + 1] /\ r[i + 1] \in Nat
      BY <3>1, <1>1, <1>6, ElementOfSeq
    <3> QED BY <3>1, <3>2, <2>1, <1>2
  <2> QED BY <2>2, <2>3
<1>11. /\ b \in Seq(Nat) /\ Len(b) <= HofArchive /\ Range(b) \subseteq (snaps \ Range(r)) \cup {old}
       /\ \A i, j \in 1..Len(b) : b[i] = b[j] => i = j
       /\ Len(b) < HofArchive => Range(b) = (snaps \ Range(r)) \cup {old}
  <2>1. /\ Len(a) <= HofArchive /\ Range(a) \subseteq snaps \ Range(r)
        /\ \A i, j \in 1..Len(a) : a[i] = a[j] => i = j
        /\ Len(a) < HofArchive => Range(a) = snaps \ Range(r)
    BY DEF FameOf
  <2>2. CASE Len(a) < HofArchive
    <3>1. b = Append(a, old)
      BY <2>2, <1>2 DEF ArchivedFrom
    <3>2. /\ b \in Seq(Nat) /\ Len(b) = Len(a) + 1
          /\ \A i \in 1..Len(a) : b[i] = a[i]
          /\ b[Len(a) + 1] = old
      BY <3>1, <1>1, <1>2, AppendProperties
    <3>3. Range(b) = {b[i] : i \in 1..Len(b)}
      BY <3>2, RangeEquality
    <3>4. Range(b) = Range(a) \cup {old}
      BY <3>1, <1>1, <1>2, AppendRange
    <3>5. ASSUME NEW i \in 1..Len(b), NEW j \in 1..Len(b), b[i] = b[j] PROVE i = j
      <4>1. \A k \in 1..Len(a) : b[k] # old /\ b[k] = a[k]
        BY <3>2, <1>5, <1>8
      <4>2. \A k \in 1..Len(b) : k = Len(a) + 1 \/ k \in 1..Len(a)
        BY <3>2, <1>1
      <4>3. CASE i = Len(a) + 1 /\ j = Len(a) + 1
        BY <4>3
      <4>4. CASE i \in 1..Len(a) /\ j \in 1..Len(a)
        BY <4>4, <4>1, <3>5, <2>1
      <4>5. CASE i \in 1..Len(a) /\ j = Len(a) + 1
        BY <4>5, <4>1, <3>5, <3>2
      <4>6. CASE j \in 1..Len(a) /\ i = Len(a) + 1
        BY <4>6, <4>1, <3>5, <3>2
      <4> QED BY <4>2, <4>3, <4>4, <4>5, <4>6
    <3> QED BY <3>2, <3>4, <3>5, <2>1, <2>2, <1>1
  <2>3. CASE ~(Len(a) < HofArchive) /\ b = a
    BY <2>1, <2>3, <1>1
  <2>4. CASE ~(Len(a) < HofArchive) /\ b # a
    <3>1. PICK k \in 1..HofArchive : b = [a EXCEPT ![k] = old]
      BY <2>4, <1>2 DEF ArchivedFrom
    <3>2. k \in 1..Len(a) /\ Len(a) = HofArchive
      BY <2>1, <2>4, <1>1
    <3>3. /\ b \in Seq(Nat) /\ Len(b) = Len(a)
          /\ \A i \in 1..Len(a) : b[i] = IF i = k THEN old ELSE a[i]
      BY <3>1, <3>2, <1>1, <1>2, ExceptSeq
    <3>4. Range(b) = {b[i] : i \in 1..Len(b)}
      BY <3>3, RangeEquality
    <3>5. Range(b) \subseteq Range(a) \cup {old}
      BY <3>3, <3>4, <1>5
    <3>6. ASSUME NEW i \in 1..Len(b), NEW j \in 1..Len(b), b[i] = b[j] PROVE i = j
      BY <3>3, <3>6, <2>1, <1>5, <1>8
    <3> QED BY <3>2, <3>3, <3>5, <3>6, <2>1, <1>1
  <2> QED BY <2>2, <2>3, <2>4
<1> QED BY <1>1, <1>4, <1>7, <1>8, <1>9, <1>10, <1>11 DEF FameOf, q

\* What FameOf says is what the hall of fame should be.
LEMMA FameIsExact ==
  ASSUME NEW top \in Nat, NEW snaps \in SUBSET (1..top), NEW r, NEW a, FameOf(snaps, r, a)
  PROVE  LET latest == {g \in snaps : Cardinality({h \in snaps : h > g}) < HofRecent}
         IN  /\ Range(r) = latest
             /\ \A i, j \in DOMAIN r : i < j => r[i] < r[j]
             /\ Range(a) \subseteq snaps \ latest
             /\ Cardinality(Range(a)) = Len(a)
             /\ Len(a) = Min({HofArchive, Cardinality(snaps \ latest)})
<1> DEFINE Above(g) == {h \in snaps : h > g}
           latest == {g \in snaps : Cardinality(Above(g)) < HofRecent}
<1>1. /\ r \in Seq(Nat) /\ a \in Seq(Nat) /\ Len(r) \in Nat /\ Len(a) \in Nat
      /\ HofRecent \in Nat \ {0} /\ HofArchive \in Nat \ {0}
      /\ DOMAIN r = 1..Len(r) /\ DOMAIN a = 1..Len(a)
      /\ Range(r) = {r[i] : i \in 1..Len(r)} /\ Range(a) = {a[i] : i \in 1..Len(a)}
  BY TrainingAssumption, LenProperties, RangeEquality DEF FameOf
<1>2. /\ Len(r) <= HofRecent /\ Range(r) \subseteq snaps
      /\ \A i, j \in 1..Len(r) : i < j => r[i] < r[j]
      /\ Len(r) < HofRecent => Range(r) = snaps
      /\ \A g \in snaps \ Range(r) : \A i \in 1..Len(r) : g < r[i]
      /\ Len(a) <= HofArchive /\ Range(a) \subseteq snaps \ Range(r)
      /\ \A i, j \in 1..Len(a) : a[i] = a[j] => i = j
      /\ Len(a) < HofArchive => Range(a) = snaps \ Range(r)
  BY DEF FameOf
<1>3. IsFiniteSet(snaps) /\ snaps \subseteq Nat
  <2>1. IsFiniteSet(1..top)
    BY FS_Interval
  <2>2. snaps \subseteq Nat
    OBVIOUS
  <2> QED BY <2>1, <2>2, FS_Subset
<1> HIDE DEF latest, Above
<1>4. Cardinality(Range(r)) = Len(r) /\ Cardinality(Range(a)) = Len(a)
  <2>1. r \in Bijection(1..Len(r), Range(r))
    <3>1. \A i, j \in 1..Len(r) : r[i] = r[j] => i = j
      <4>1. \A i \in 1..Len(r) : r[i] \in Nat
        BY <1>1, ElementOfSeq
      <4> QED BY <4>1, <1>2
    <3> QED BY <3>1, <1>1, LenProperties DEF Bijection, Injection, Surjection, IsInjective
  <2>2. a \in Bijection(1..Len(a), Range(a))
    BY <1>1, <1>2, LenProperties DEF Bijection, Injection, Surjection, IsInjective
  <2>3. \A n \in Nat : IsFiniteSet(1..n) /\ Cardinality(1..n) = n
    BY FS_Interval
  <2> QED BY <1>1, <2>1, <2>2, <2>3, FS_Bijection DEF ExistsBijection
<1>5. \A g \in snaps : Above(g) \subseteq snaps /\ IsFiniteSet(Above(g)) /\ Cardinality(Above(g)) \in Nat
  <2>1. \A g \in snaps : Above(g) \subseteq snaps
    BY DEF Above
  <2> QED BY <2>1, <1>3, FS_Subset, FS_CardinalityType
\* Above one of the latest there are fewer than HofRecent.
<1>6. ASSUME NEW g \in Range(r) PROVE g \in latest
  <2>1. Above(g) \subseteq Range(r) \ {g}
    <3>1. g \in Nat /\ snaps \subseteq Nat
      BY <1>2, <1>3
    <3>2. \A h \in Above(g) : h \in snaps /\ h > g /\ h # g
      BY <3>1 DEF Above
    <3>3. ASSUME NEW h \in snaps, h > g PROVE h \in Range(r)
      <4>1. PICK i \in 1..Len(r) : g = r[i]
        BY <1>1
      <4> QED BY <4>1, <3>1, <3>3, <1>2
    <3> QED BY <3>2, <3>3
  <2>2. IsFiniteSet(Range(r)) /\ Cardinality(Range(r) \ {g}) = Len(r) - 1 /\ IsFiniteSet(Range(r) \ {g})
    BY <1>2, <1>3, <1>4, FS_Subset, FS_RemoveElement
  <2>3. Cardinality(Above(g)) <= Len(r) - 1
    BY <2>1, <2>2, FS_Subset
  <2>4. g \in snaps
    BY <1>2
  <2>5. Cardinality(Above(g)) < HofRecent
    BY <2>3, <2>4, <1>1, <1>2, <1>5
  <2> QED BY <2>4, <2>5 DEF latest
\* Above any other there are all of the latest.
<1>7. ASSUME NEW g \in snaps \ Range(r) PROVE g \notin latest
  <2>1. Len(r) = HofRecent
    <3>1. ~(Len(r) < HofRecent) /\ Len(r) <= HofRecent
      BY <1>2, <1>7
    <3>2. Len(r) \in Nat /\ HofRecent \in Nat
      BY <1>1
    <3> QED BY <3>1, <3>2
  <2>2. Range(r) \subseteq Above(g)
    <3> SUFFICES ASSUME NEW i \in 1..Len(r) PROVE r[i] \in snaps /\ r[i] > g
      BY <1>1 DEF Above
    <3>1. r[i] \in snaps /\ g < r[i] /\ r[i] \in Nat /\ g \in Nat
      BY <1>1, <1>2, <1>3
    <3> QED BY <3>1
  <2>3. Len(r) <= Cardinality(Above(g))
    BY <2>2, <1>4, <1>5, FS_Subset
  <2>4. ~(Cardinality(Above(g)) < HofRecent)
    BY <2>1, <2>3, <1>1, <1>5
  <2> QED BY <2>4 DEF latest
<1>8. Range(r) = latest
  BY <1>2, <1>6, <1>7 DEF latest
<1>9. Len(a) = Min({HofArchive, Cardinality(snaps \ latest)})
  <2> DEFINE others == snaps \ latest
             both == {HofArchive, Cardinality(others)}
  <2>1. others = snaps \ Range(r) /\ IsFiniteSet(others) /\ Cardinality(others) \in Nat
    BY <1>3, <1>8, FS_Subset, FS_CardinalityType
  <2> HIDE DEF others
  <2>2. Len(a) <= Cardinality(others)
    BY <1>2, <1>4, <2>1, FS_Subset
  <2>3. Len(a) \in both
    <3>1. CASE Len(a) < HofArchive
      <4>1. Range(a) = others
        BY <3>1, <1>2, <2>1
      <4> QED BY <4>1, <1>4
    <3>2. CASE ~(Len(a) < HofArchive)
      <4>1. Len(a) <= HofArchive
        BY <1>2
      <4>2. Len(a) \in Nat /\ HofArchive \in Nat
        BY <1>1
      <4>3. Len(a) = HofArchive
        BY <3>2, <4>1, <4>2
      <4> QED BY <4>3
    <3> QED BY <3>1, <3>2
  <2>4. \A y \in both : Len(a) <= y
    BY <1>2, <2>2
  <2>5. \A x, y \in both : x \in Nat /\ y \in Nat
    BY <1>1, <2>1
  <2>6. \A x \in both : (\A y \in both : x <= y) => x = Len(a)
    BY <2>3, <2>4, <2>5
  <2> QED BY <2>3, <2>4, <2>6 DEF Min, others
<1>10. Range(a) \subseteq snaps \ latest
  BY <1>2, <1>8
<1> QED BY <1>1, <1>2, <1>4, <1>8, <1>9, <1>10 DEF latest, Above

-----------------------------------------------------------------------------
(* The run.                                                                *)

Learning == {{"recon"}, {"defender"}, {"defender", "attacker"}}
SkillRows == [Roles -> Nat]
Saves == [file : Roles \X Which, theta : Nat]

RunTypes ==
  /\ learners \in Learning /\ pc \in {"idle", "playing", "saving"} \cup Over
  /\ gen \in Nat /\ written \in Nat
  /\ theta \in [Roles -> Nat]
  /\ recent \in [Roles -> Seq(Nat)] /\ archive \in [Roles -> Seq(Nat)]
  /\ best \in [Roles -> [skill : Nat, gen : Nat]]
  /\ todo \in Seq(Saves) /\ rows \in Seq(SkillRows)
  /\ files \in [Roles \X Which -> [state : {"none", "torn", "whole"}, theta : Nat]]

\* Every finished generation made a row and a step of every learner.
Counted ==
  /\ \A s \in learners : theta[s] = Len(rows)
  /\ pc \in {"idle", "saving", "done", "stopped"} => gen = Len(rows)
  /\ pc = "playing" => gen = Len(rows) + 1
  /\ written <= Len(rows)
  /\ pc \in {"done", "stopped"} => written = Len(rows)
  /\ todo # <<>> => pc \in {"saving", "killed"} /\ written < Len(rows)

\* best is the last of the generations with the highest skill.
Scored(s) == {g \in 1..Len(rows) : rows[g][s] # None}
BestIsHighest ==
  \A s \in learners :
    /\ Scored(s) = {} => best[s].skill = 0
    /\ Scored(s) # {} => best[s].gen \in Scored(s) /\ rows[best[s].gen][s] = best[s].skill
    /\ \A g \in Scored(s) : rows[g][s] <= best[s].skill
    /\ \A g \in Scored(s) : rows[g][s] = best[s].skill => g <= best[s].gen

\* What a brain file should hold; whether it is still to be written.
Right(f) == IF f[2] = "latest" THEN Len(rows) ELSE best[f[1]].gen - 1
Waits(f) == \E i \in 1..Len(todo) : todo[i].file = f

\* What is to be written is right and written once; the rest is on disk, but for
\* the one file that is being written.
Saved ==
  /\ \A i \in 1..Len(todo) : todo[i].file[1] \in learners /\ todo[i].theta = Right(todo[i].file)
  /\ \A i, j \in 1..Len(todo) : todo[i].file = todo[j].file => i = j
  /\ \A f \in Roles \X Which : files[f] = Torn => todo # <<>> /\ f = todo[1].file
  /\ \A s \in learners :
       /\ rows # <<>> => Waits(<<s, "latest">>) \/ files[<<s, "latest">>] = Whole(Len(rows))
       /\ Scored(s) # {} => Waits(<<s, "best">>) \/ files[<<s, "best">>] = Whole(best[s].gen - 1)
       /\ Len(rows) >= 2 => files[<<s, "latest">>] \in {Torn, Whole(Len(rows) - 1), Whole(Len(rows))}

Snaps(s) == {g \in 1..theta[s] : g % HofEvery = 0}
Famous == \A s \in learners \ {"recon"} : FameOf(Snaps(s), recent[s], archive[s])

TrainInv == RunTypes /\ Counted /\ BestIsHighest /\ Saved /\ Famous

LEMMA Torns ==
  /\ \A n : Whole(n) # Torn /\ Whole(n) # NoFile
  /\ Torn # NoFile
  /\ \A m, n : Whole(m) = Whole(n) => m = n
  BY DEF Whole, Torn, NoFile

LEMMA RunStart == TrainInit => TrainInv
<1> SUFFICES ASSUME TrainInit PROVE TrainInv
  OBVIOUS
<1>1. RunTypes
  <2>1. <<>> \in Seq(Nat) /\ <<>> \in Seq(Saves) /\ <<>> \in Seq(SkillRows)
    OBVIOUS
  <2>2. recent \in [Roles -> Seq(Nat)] /\ archive \in [Roles -> Seq(Nat)]
    BY <2>1 DEF TrainInit
  <2> QED BY <2>1, <2>2 DEF TrainInit, RunTypes, Learning, NoFile
<1>2. rows = <<>> /\ todo = <<>> /\ Len(rows) = 0 /\ Len(todo) = 0 /\ 1..0 = {}
  BY DEF TrainInit
<1>3. learners \subseteq Roles
  BY DEF TrainInit, Roles
<1>4. Counted
  BY <1>2, <1>3 DEF TrainInit, Counted
<1>5. BestIsHighest /\ Saved
  BY <1>2, <1>3, Torns DEF TrainInit, BestIsHighest, Saved, Scored, Waits
<1>6. Famous
  <2> SUFFICES ASSUME NEW s \in learners PROVE FameOf(Snaps(s), <<>>, <<>>)
    BY <1>3 DEF Famous, TrainInit
  <2>1. Snaps(s) = {}
    BY <1>3 DEF TrainInit, Snaps
  <2>2. Range(<<>>) = {} /\ Len(<<>>) = 0 /\ <<>> \in Seq(Nat)
    BY DEF Range
  <2> QED BY <2>1, <2>2, TrainingAssumption DEF FameOf
<1> QED BY <1>1, <1>4, <1>5, <1>6 DEF TrainInv

\* Steps that only move the process on.
LEMMA PassKeeps ==
  ASSUME TrainInv, AskStop \/ BeginGeneration \/ PoolBreaks \/ AddRow \/ FinishRun \/ Kill
  PROVE  TrainInv'
<1>1. UNCHANGED <<learners, theta, recent, archive, retired, best, todo, files, rows>>
  BY DEF AskStop, BeginGeneration, PoolBreaks, AddRow, FinishRun, Kill
<1>2. Len(rows) \in Nat /\ RunTypes /\ Counted
  BY LenProperties DEF TrainInv, RunTypes
<1>3. BestIsHighest' /\ Saved' /\ Famous'
  BY <1>1 DEF TrainInv, BestIsHighest, Saved, Famous, Scored, Right, Waits, Snaps
<1>4. RunTypes' /\ Counted'
  <2>1. gen' \in Nat /\ written' \in Nat /\ pc' \in {"idle", "playing", "saving"} \cup Over
    BY <1>2 DEF AskStop, BeginGeneration, PoolBreaks, AddRow, FinishRun, Kill, RunTypes, Over
  <2>2. RunTypes'
    BY <2>1, <1>1, <1>2 DEF RunTypes
  <2>3. \A s \in learners' : theta'[s] = Len(rows')
    BY <1>1, <1>2 DEF Counted
  <2>4. CASE AskStop
    BY <2>2, <2>4, <1>1, <1>2 DEF AskStop, Counted
  <2>5. CASE BeginGeneration
    BY <2>2, <2>5, <1>1, <1>2 DEF BeginGeneration, Counted
  <2>6. CASE PoolBreaks
    BY <2>2, <2>6, <1>1, <1>2 DEF PoolBreaks, Counted
  <2>7. CASE AddRow
    BY <2>2, <2>7, <1>1, <1>2 DEF AddRow, Counted
  <2>8. CASE FinishRun
    BY <2>2, <2>8, <1>1, <1>2 DEF FinishRun, Counted
  <2>9. CASE Kill
    BY <2>2, <2>9, <1>1, <1>2 DEF Kill, Counted, Over
  <2> QED BY <2>4, <2>5, <2>6, <2>7, <2>8, <2>9
<1> QED BY <1>3, <1>4 DEF TrainInv

\* NeuralBrain.save empties the file before it writes it.
LEMMA OpenKeepsFiles ==
  ASSUME TrainInv, OpenFile
  PROVE  TrainInv'
<1> DEFINE f == Head(todo).file
<1>1. /\ UNCHANGED <<learners, pc, gen, theta, recent, archive, retired, best, todo, rows, written>>
      /\ todo # <<>> /\ files' = [files EXCEPT ![f] = Torn]
  BY DEF OpenFile
<1>2. f \in Roles \X Which /\ f = todo[1].file /\ 1 \in 1..Len(todo)
  <2>1. todo \in Seq(Saves)
    BY DEF TrainInv, RunTypes
  <2>2. 1 \in 1..Len(todo) /\ Head(todo) = todo[1] /\ todo[1] \in Saves
    BY <1>1, <2>1, ElementOfSeq
  <2> QED BY <2>2 DEF Saves
<1> HIDE DEF f
<1>3. RunTypes'
  <2>1. files' \in [Roles \X Which -> [state : {"none", "torn", "whole"}, theta : Nat]]
    BY <1>1, <1>2 DEF TrainInv, RunTypes, Torn
  <2> QED BY <2>1, <1>1 DEF TrainInv, RunTypes
<1>4. Counted' /\ BestIsHighest' /\ Famous'
  BY <1>1 DEF TrainInv, Counted, BestIsHighest, Famous, Scored, Snaps
<1>5. Saved'
  <2>1. \A h \in Roles \X Which : files'[h] = IF h = f THEN Torn ELSE files[h]
    BY <1>1, <1>2 DEF TrainInv, RunTypes
  <2>2. \A h : Waits(h)' <=> Waits(h)
    BY <1>1 DEF Waits
  <2>3. Waits(f)
    BY <1>2 DEF Waits
  <2>4. \A s \in learners : <<s, "latest">> \in Roles \X Which /\ <<s, "best">> \in Roles \X Which
    BY DEF TrainInv, RunTypes, Learning, Roles, Which
  <2>5. (\A i \in 1..Len(todo) : todo[i].file[1] \in learners /\ todo[i].theta = Right(todo[i].file))'
    BY <1>1 DEF TrainInv, Saved, Right
  <2>6. \A h \in Roles \X Which : files'[h] = Torn => todo' # <<>> /\ h = todo'[1].file
    BY <1>1, <1>2, <2>1 DEF TrainInv, Saved
  <2>7. \A s \in learners : (Scored(s)' = Scored(s)) /\ best'[s] = best[s]
    BY <1>1 DEF Scored
  <2>8. ASSUME NEW s \in learners'
        PROVE  /\ rows' # <<>> => Waits(<<s, "latest">>)' \/ files'[<<s, "latest">>] = Whole(Len(rows'))
               /\ Scored(s)' # {} => Waits(<<s, "best">>)' \/ files'[<<s, "best">>] = Whole(best'[s].gen - 1)
               /\ Len(rows') >= 2 => files'[<<s, "latest">>] \in {Torn, Whole(Len(rows') - 1), Whole(Len(rows'))}
    BY <2>1, <2>2, <2>3, <2>4, <2>7, <1>1 DEF TrainInv, Saved
  <2>9. \A i, j \in 1..Len(todo') : todo'[i].file = todo'[j].file => i = j
    BY <1>1 DEF TrainInv, Saved
  <2> QED BY <2>5, <2>6, <2>8, <2>9 DEF Saved
<1> QED BY <1>3, <1>4, <1>5 DEF TrainInv

LEMMA WriteKeepsFiles ==
  ASSUME TrainInv, WriteFile
  PROVE  TrainInv'
<1> DEFINE f == Head(todo).file
           n == Head(todo).theta
<1>1. /\ UNCHANGED <<learners, pc, gen, theta, recent, archive, retired, best, rows, written>>
      /\ todo # <<>> /\ files' = [files EXCEPT ![f] = Whole(n)] /\ todo' = Tail(todo)
  BY DEF WriteFile
<1>2. /\ f \in Roles \X Which /\ f = todo[1].file /\ n = todo[1].theta /\ n \in Nat
      /\ todo \in Seq(Saves) /\ Len(todo) \in Nat /\ 1 \in 1..Len(todo)
  <2>1. todo \in Seq(Saves)
    BY DEF TrainInv, RunTypes
  <2>2. 1 \in 1..Len(todo) /\ Head(todo) = todo[1] /\ todo[1] \in Saves
    BY <1>1, <2>1, ElementOfSeq
  <2> QED BY <2>1, <2>2 DEF Saves
<1>3. /\ todo' \in Seq(Saves) /\ Len(todo') = Len(todo) - 1
      /\ \A i \in 1..Len(todo') : todo'[i] = todo[i + 1] /\ i + 1 \in 1..Len(todo)
  BY <1>1, <1>2, HeadTailProperties
<1> HIDE DEF f, n
<1>4. RunTypes'
  <2>1. Whole(n) \in [state : {"none", "torn", "whole"}, theta : Nat]
    BY <1>2 DEF Whole
  <2>2. files' \in [Roles \X Which -> [state : {"none", "torn", "whole"}, theta : Nat]]
    BY <1>1, <1>2, <2>1 DEF TrainInv, RunTypes
  <2> QED BY <2>2, <1>1, <1>3 DEF TrainInv, RunTypes
<1>5. Counted' /\ BestIsHighest' /\ Famous'
  BY <1>1 DEF TrainInv, Counted, BestIsHighest, Famous, Scored, Snaps
<1>6. Saved'
  <2>1. \A h \in Roles \X Which : files'[h] = IF h = f THEN Whole(n) ELSE files[h]
    BY <1>1, <1>2 DEF TrainInv, RunTypes
  <2>2. \A i \in 1..Len(todo') : todo'[i].file # f
    <3> SUFFICES ASSUME NEW i \in 1..Len(todo'), todo'[i].file = f PROVE FALSE
      OBVIOUS
    <3>1. todo[i + 1].file = todo[1].file /\ i + 1 \in 1..Len(todo) /\ 1 \in 1..Len(todo)
      BY <1>2, <1>3
    <3>2. i + 1 = 1
      BY <3>1 DEF TrainInv, Saved
    <3> QED BY <3>2
  <2>3. ASSUME NEW h PROVE Waits(h) => h = f \/ Waits(h)'
    <3> SUFFICES ASSUME NEW i \in 1..Len(todo), todo[i].file = h, h # f
                 PROVE  \E j \in 1..Len(todo') : todo'[j].file = h
      BY DEF Waits
    <3>1. i - 1 \in 1..Len(todo') /\ (i - 1) + 1 = i
      BY <1>2, <1>3
    <3> QED BY <3>1, <1>3
  <2>4. \A s \in learners : <<s, "latest">> \in Roles \X Which /\ <<s, "best">> \in Roles \X Which
    BY DEF TrainInv, RunTypes, Learning, Roles, Which
  <2>5. (\A i \in 1..Len(todo) : todo[i].file[1] \in learners /\ todo[i].theta = Right(todo[i].file))'
    BY <1>1, <1>3 DEF TrainInv, Saved, Right
  <2>6. \A h \in Roles \X Which : files'[h] # Torn
    BY <1>2, <2>1, Torns DEF TrainInv, Saved
  <2>7. ASSUME NEW i \in 1..Len(todo'), NEW j \in 1..Len(todo'), todo'[i].file = todo'[j].file PROVE i = j
    <3>1. i + 1 = j + 1
      BY <2>7, <1>3 DEF TrainInv, Saved
    <3> QED BY <3>1
  <2>8. n = Right(f)
    BY <1>2 DEF TrainInv, Saved
  <2>9. ASSUME NEW s \in learners'
        PROVE  /\ rows' # <<>> => Waits(<<s, "latest">>)' \/ files'[<<s, "latest">>] = Whole(Len(rows'))
               /\ Scored(s)' # {} => Waits(<<s, "best">>)' \/ files'[<<s, "best">>] = Whole(best'[s].gen - 1)
               /\ Len(rows') >= 2 => files'[<<s, "latest">>] \in {Torn, Whole(Len(rows') - 1), Whole(Len(rows'))}
    <3>1. /\ rows # <<>> => Waits(<<s, "latest">>) \/ files[<<s, "latest">>] = Whole(Len(rows))
          /\ Scored(s) # {} => Waits(<<s, "best">>) \/ files[<<s, "best">>] = Whole(best[s].gen - 1)
          /\ Len(rows) >= 2 => files[<<s, "latest">>] \in {Torn, Whole(Len(rows) - 1), Whole(Len(rows))}
      BY <1>1 DEF TrainInv, Saved
    <3>2. f = <<s, "latest">> => n = Len(rows)
      BY <2>8 DEF Right
    <3>3. f = <<s, "best">> => n = best[s].gen - 1
      BY <2>8 DEF Right
    <3>4. Scored(s)' = Scored(s)
      BY <1>1 DEF Scored
    <3>5. s \in learners
      BY <1>1
    <3> QED BY <3>1, <3>2, <3>3, <3>4, <3>5, <2>1, <2>3, <2>4, <1>1
  <2> QED BY <2>5, <2>6, <2>7, <2>9 DEF Saved
<1> QED BY <1>4, <1>5, <1>6 DEF TrainInv

-----------------------------------------------------------------------------
(* A generation is over.                                                   *)

\* The saves of a list, each of a learner and right, are those of the files F,
\* each once.
SavesOf(list, skill, F) ==
  /\ list \in Seq(Saves)
  /\ \A i \in 1..Len(list) :
       /\ list[i].file \in F /\ list[i].file[1] \in learners
       /\ list[i].file[2] = "latest" => list[i].theta = theta[list[i].file[1]] + 1
       /\ list[i].file[2] = "best" => Beats(list[i].file[1], skill) /\ list[i].theta = theta[list[i].file[1]]
  /\ \A i, j \in 1..Len(list) : list[i].file = list[j].file => i = j
  /\ \A f \in F : \E i \in 1..Len(list) : list[i].file = f

BestFiles(s, skill) == IF s \in learners /\ Beats(s, skill) THEN {<<s, "best">>} ELSE {}
LatestFiles(s) == IF s \in learners THEN {<<s, "latest">>} ELSE {}

LEMMA SavesJoin ==
  ASSUME NEW skill, NEW F, NEW G, F \cap G = {},
         NEW p, NEW q, SavesOf(p, skill, F), SavesOf(q, skill, G)
  PROVE  SavesOf(p \o q, skill, F \cup G)
<1> DEFINE m == p \o q
<1>1. /\ m \in Seq(Saves) /\ Len(m) = Len(p) + Len(q) /\ Len(p) \in Nat /\ Len(q) \in Nat
      /\ \A i \in 1..Len(p) : m[i] = p[i] /\ i \in 1..Len(m)
      /\ \A i \in 1..Len(q) : m[i + Len(p)] = q[i] /\ i + Len(p) \in 1..Len(m)
      /\ \A i \in 1..Len(m) : i \in 1..Len(p) \/ (i - Len(p) \in 1..Len(q) /\ m[i] = q[i - Len(p)])
  <2>1. p \in Seq(Saves) /\ q \in Seq(Saves)
    BY DEF SavesOf
  <2>2. /\ m \in Seq(Saves) /\ Len(m) = Len(p) + Len(q) /\ Len(p) \in Nat /\ Len(q) \in Nat
        /\ \A i \in 1..(Len(p) + Len(q)) : m[i] = IF i <= Len(p) THEN p[i] ELSE q[i - Len(p)]
    BY <2>1, ConcatProperties, LenProperties
  <2> HIDE DEF m
  <2> QED BY <2>2
<1> HIDE DEF m
\* A place in the joined list is one in p or one in q.
<1>2. ASSUME NEW i \in 1..Len(m)
      PROVE  \/ i \in 1..Len(p) /\ m[i] = p[i] /\ p[i].file \in F
             \/ i - Len(p) \in 1..Len(q) /\ m[i] = q[i - Len(p)] /\ q[i - Len(p)].file \in G
  <2>1. \A k \in 1..Len(p) : p[k].file \in F
    BY DEF SavesOf
  <2>2. \A k \in 1..Len(q) : q[k].file \in G
    BY DEF SavesOf
  <2> QED BY <1>1, <2>1, <2>2
<1>3. ASSUME NEW i \in 1..Len(m)
      PROVE  /\ m[i].file \in F \cup G /\ m[i].file[1] \in learners
             /\ m[i].file[2] = "latest" => m[i].theta = theta[m[i].file[1]] + 1
             /\ m[i].file[2] = "best" => Beats(m[i].file[1], skill) /\ m[i].theta = theta[m[i].file[1]]
  <2>1. CASE i \in 1..Len(p) /\ m[i] = p[i] /\ p[i].file \in F
    <3>1. /\ p[i].file[1] \in learners
          /\ p[i].file[2] = "latest" => p[i].theta = theta[p[i].file[1]] + 1
          /\ p[i].file[2] = "best" => Beats(p[i].file[1], skill) /\ p[i].theta = theta[p[i].file[1]]
      BY <2>1 DEF SavesOf
    <3> QED BY <3>1, <2>1
  <2>2. ASSUME NEW k \in 1..Len(q), m[i] = q[k], q[k].file \in G
        PROVE  /\ m[i].file \in F \cup G /\ m[i].file[1] \in learners
               /\ m[i].file[2] = "latest" => m[i].theta = theta[m[i].file[1]] + 1
               /\ m[i].file[2] = "best" => Beats(m[i].file[1], skill) /\ m[i].theta = theta[m[i].file[1]]
    <3>1. /\ q[k].file[1] \in learners
          /\ q[k].file[2] = "latest" => q[k].theta = theta[q[k].file[1]] + 1
          /\ q[k].file[2] = "best" => Beats(q[k].file[1], skill) /\ q[k].theta = theta[q[k].file[1]]
      BY DEF SavesOf
    <3> QED BY <3>1, <2>2
  <2> QED BY <1>2, <2>1, <2>2
<1>4. ASSUME NEW i \in 1..Len(m), NEW j \in 1..Len(m), m[i].file = m[j].file PROVE i = j
  <2>1. CASE i \in 1..Len(p) /\ m[i] = p[i] /\ j \in 1..Len(p) /\ m[j] = p[j]
    <3>1. \A k, l \in 1..Len(p) : p[k].file = p[l].file => k = l
      BY DEF SavesOf
    <3> QED BY <3>1, <2>1, <1>4
  <2>2. CASE m[i].file \in F /\ m[j].file \in G
    BY <2>2, <1>4
  <2>3. CASE m[i].file \in G /\ m[j].file \in F
    BY <2>3, <1>4
  <2>4. CASE /\ i - Len(p) \in 1..Len(q) /\ m[i] = q[i - Len(p)]
             /\ j - Len(p) \in 1..Len(q) /\ m[j] = q[j - Len(p)]
    <3>1. \A k, l \in 1..Len(q) : q[k].file = q[l].file => k = l
      BY DEF SavesOf
    <3>2. i - Len(p) = j - Len(p)
      BY <3>1, <2>4, <1>4
    <3>3. i \in Int /\ j \in Int /\ Len(p) \in Int
      BY <1>1
    <3> QED BY <3>2, <3>3
  <2>5. \/ i \in 1..Len(p) /\ m[i] = p[i] /\ m[i].file \in F
        \/ i - Len(p) \in 1..Len(q) /\ m[i] = q[i - Len(p)] /\ m[i].file \in G
    BY <1>2
  <2>6. \/ j \in 1..Len(p) /\ m[j] = p[j] /\ m[j].file \in F
        \/ j - Len(p) \in 1..Len(q) /\ m[j] = q[j - Len(p)] /\ m[j].file \in G
    BY <1>2
  <2> QED BY <2>1, <2>2, <2>3, <2>4, <2>5, <2>6
<1>5. ASSUME NEW f \in F \cup G PROVE \E i \in 1..Len(m) : m[i].file = f
  <2>1. CASE f \in F
    <3>1. PICK i \in 1..Len(p) : p[i].file = f
      BY <2>1 DEF SavesOf
    <3>2. m[i] = p[i] /\ i \in 1..Len(m)
      BY <1>1
    <3> QED BY <3>1, <3>2
  <2>2. CASE f \in G
    <3>1. PICK i \in 1..Len(q) : q[i].file = f
      BY <2>2 DEF SavesOf
    <3>2. m[i + Len(p)] = q[i] /\ i + Len(p) \in 1..Len(m)
      BY <1>1
    <3> QED BY <3>1, <3>2
  <2> QED BY <2>1, <2>2
<1>6. m \in Seq(Saves)
  BY <1>1
<1>7. SavesOf(m, skill, F \cup G)
  BY <1>3, <1>4, <1>5, <1>6 DEF SavesOf
<1> QED BY <1>7 DEF m

LEMMA SaveLists ==
  ASSUME TrainInv, NEW s \in Roles, NEW skill
  PROVE  /\ SavesOf(SaveBest(s, skill), skill, BestFiles(s, skill))
         /\ SavesOf(SaveLatest(s), skill, LatestFiles(s))
<1>1. theta[s] \in Nat /\ <<s, "best">> \in Roles \X Which /\ <<s, "latest">> \in Roles \X Which
  BY DEF TrainInv, RunTypes, Which
<1>2. SavesOf(<<>>, skill, {})
  BY DEF SavesOf
<1>3. ASSUME NEW x \in Saves, NEW f, x.file = f, f[1] \in learners,
             f[2] = "latest" => x.theta = theta[f[1]] + 1,
             f[2] = "best" => Beats(f[1], skill) /\ x.theta = theta[f[1]]
      PROVE  SavesOf(<<x>>, skill, {f})
  <2>1. <<x>> \in Seq(Saves) /\ Len(<<x>>) = 1 /\ <<x>>[1] = x /\ 1..1 = {1}
    OBVIOUS
  <2> QED BY <2>1, <1>3 DEF SavesOf
<1>4. SavesOf(SaveBest(s, skill), skill, BestFiles(s, skill))
  <2>1. CASE s \in learners /\ Beats(s, skill)
    <3> DEFINE x == [file |-> <<s, "best">>, theta |-> theta[s]]
    <3>1. x \in Saves /\ x.file = <<s, "best">> /\ x.theta = theta[s]
      BY <1>1 DEF Saves
    <3>2. SaveBest(s, skill) = <<x>> /\ BestFiles(s, skill) = {<<s, "best">>}
      BY <2>1 DEF SaveBest, BestFiles
    <3> HIDE DEF x
    <3> QED BY <3>1, <3>2, <2>1, <1>3
  <2>2. CASE ~(s \in learners /\ Beats(s, skill))
    BY <2>2, <1>2 DEF SaveBest, BestFiles
  <2> QED BY <2>1, <2>2
<1>5. SavesOf(SaveLatest(s), skill, LatestFiles(s))
  <2>1. CASE s \in learners
    <3> DEFINE x == [file |-> <<s, "latest">>, theta |-> theta[s] + 1]
    <3>1. x \in Saves /\ x.file = <<s, "latest">> /\ x.theta = theta[s] + 1
      BY <1>1 DEF Saves
    <3>2. SaveLatest(s) = <<x>> /\ LatestFiles(s) = {<<s, "latest">>}
      BY <2>1 DEF SaveLatest, LatestFiles
    <3> HIDE DEF x
    <3> QED BY <3>1, <3>2, <2>1, <1>3
  <2>2. CASE s \notin learners
    BY <2>2, <1>2 DEF SaveLatest, LatestFiles
  <2> QED BY <2>1, <2>2
<1> QED BY <1>4, <1>5

\* The hall of fame with the snapshot of one more generation.
LEMMA SnapshotKeeps ==
  ASSUME TrainInv, NEW s \in {"defender", "attacker"}, gen \in Nat, NEW d \in Snapshot(s, theta[s] + 1)
  PROVE  /\ d.recent \in Seq(Nat) /\ d.archive \in Seq(Nat)
         /\ s \in learners /\ gen = theta[s] + 1 =>
               FameOf({g \in 1..(theta[s] + 1) : g % HofEvery = 0}, d.recent, d.archive)
<1> DEFINE n == theta[s] + 1
           after == {g \in 1..n : g % HofEvery = 0}
<1>1. /\ theta[s] \in Nat /\ s # "recon"
      /\ recent[s] \in Seq(Nat) /\ archive[s] \in Seq(Nat)
  BY DEF TrainInv, RunTypes, Roles
<1>2. CASE s \notin learners
  <2>1. d.recent = recent[s] /\ d.archive = archive[s]
    BY <1>2 DEF Snapshot
  <2> QED BY <2>1, <1>1, <1>2
<1>3. CASE s \in learners
  <2>1. FameOf(Snaps(s), recent[s], archive[s])
    BY <1>1, <1>3 DEF TrainInv, Famous
  <2>2. 1..n = 1..theta[s] \cup {n} /\ n \in Nat
    BY <1>1
  <2>3. CASE gen % HofEvery # 0
    <3>1. d.recent = recent[s] /\ d.archive = archive[s]
      BY <2>3 DEF Snapshot
    <3>2. gen = n => after = Snaps(s)
      BY <2>2, <2>3 DEF Snaps
    <3> QED BY <3>1, <3>2, <2>1, <1>1
  <2>4. CASE gen % HofEvery = 0
    <3>1. gen = n => after = Snaps(s) \cup {n}
      BY <2>2, <2>4 DEF Snaps
    <3>2. Snaps(s) \in SUBSET Nat /\ \A g \in Snaps(s) : g < n
      BY <1>1 DEF Snaps
    <3>3. FameOf(Snaps(s) \cup {n}, d.recent, d.archive)
      <4>1. CASE Len(recent[s]) < HofRecent
        <5>1. d.recent = Append(recent[s], n) /\ d.archive = archive[s]
          BY <4>1, <2>4, <1>1, <1>3 DEF Snapshot
        <5> QED BY <5>1, <4>1, <3>2, <2>1, <2>2, FameGrows
      <4>2. CASE ~(Len(recent[s]) < HofRecent)
        <5>1. /\ d.recent = Append(Tail(recent[s]), n)
              /\ d.archive \in ArchivedFrom(archive[s], Head(recent[s]))
          <6>1. PICK arch \in Archived(s, Head(recent[s])) :
                   d = [recent |-> Append(Tail(recent[s]), n), archive |-> arch,
                        retired |-> retired[s] + 1]
            BY <4>2, <2>4, <1>1, <1>3 DEF Snapshot
          <6>2. Archived(s, Head(recent[s])) = ArchivedFrom(archive[s], Head(recent[s]))
            BY DEF Archived, ArchivedFrom
          <6> QED BY <6>1, <6>2
        <5>2. n \in Nat
          BY <2>2
        <5> HIDE DEF n
        <5>3. FameOf(Snaps(s) \cup {n}, Append(Tail(recent[s]), n), d.archive)
          BY <5>1, <5>2, <4>2, <3>2, <2>1, FameTurns
        <5> QED BY <5>1, <5>3
      <4> QED BY <4>1, <4>2
    <3> QED BY <3>1, <3>3 DEF FameOf
  <2> QED BY <2>3, <2>4
<1> QED BY <1>2, <1>3

\* The files of a generation that ends with these skills.
Owed(skill) == {<<s, "latest">> : s \in learners} \cup {<<s, "best">> : s \in {r \in learners : Beats(r, skill)}}

LEMMA LearnKeeps ==
  ASSUME TrainInv, pc = "playing", NEW skill \in SkillsOf, NEW saves,
         SavesOf(saves, skill, Owed(skill)), LearnFrom(saves, skill),
         recent' \in [Roles -> Seq(Nat)], archive' \in [Roles -> Seq(Nat)],
         \A s \in learners \ {"recon"} :
            FameOf({g \in 1..(theta[s] + 1) : g % HofEvery = 0}, recent'[s], archive'[s])
  PROVE  TrainInv'
<1> DEFINE L == Len(rows)
<1>1. /\ UNCHANGED <<learners, gen, stop, files, written>>
      /\ todo' = saves /\ rows' = Append(rows, skill) /\ pc' = "saving"
      /\ theta' = [s \in Roles |-> IF s \in learners THEN theta[s] + 1 ELSE theta[s]]
      /\ best' = [s \in Roles |-> IF s \in learners /\ Beats(s, skill)
                                  THEN [skill |-> skill[s], gen |-> gen] ELSE best[s]]
  BY DEF LearnFrom
<1>2. /\ RunTypes /\ Counted /\ rows \in Seq(SkillRows) /\ L \in Nat
      /\ skill \in SkillRows /\ \A s \in Roles : skill[s] \in Nat
      /\ learners \subseteq Roles
  <2>1. RunTypes /\ Counted
    BY DEF TrainInv
  <2>2. rows \in Seq(SkillRows) /\ learners \subseteq Roles
    BY <2>1 DEF RunTypes, Learning, Roles
  <2>3. skill \in [Roles -> Nat]
    <3>1. skill \in [Roles -> Skills \cup {None}]
      BY DEF SkillsOf
    <3>2. Skills \cup {None} \subseteq Nat
      BY TrainingAssumption DEF None
    <3> QED BY <3>1, <3>2
  <2>4. skill \in SkillRows /\ \A s \in Roles : skill[s] \in Nat
    BY <2>3 DEF SkillRows
  <2> QED BY <2>1, <2>2, <2>4, LenProperties
<1>3. /\ rows' \in Seq(SkillRows) /\ Len(rows') = L + 1 /\ rows'[L + 1] = skill
      /\ \A g \in 1..L : rows'[g] = rows[g]
  BY <1>1, <1>2, AppendProperties
<1>4. /\ gen = L + 1 /\ todo = <<>> /\ Len(todo) = 0
      /\ \A s \in learners : theta[s] = L
  BY <1>2 DEF Counted
<1>5. \A g \in 1..L : \A s \in Roles : rows[g][s] \in Nat
  <2>1. \A g \in 1..L : rows[g] \in SkillRows
    BY <1>2, ElementOfSeq
  <2> QED BY <2>1 DEF SkillRows
<1>6. 1..(L + 1) = 1..L \cup {L + 1}
  BY <1>2
<1> HIDE DEF L
<1>7. RunTypes'
  <2>1. theta' \in [Roles -> Nat]
    BY <1>1, <1>2 DEF RunTypes
  <2>2. best' \in [Roles -> [skill : Nat, gen : Nat]]
    BY <1>1, <1>2 DEF RunTypes
  <2>3. todo' \in Seq(Saves)
    BY <1>1 DEF SavesOf
  <2> QED BY <2>1, <2>2, <2>3, <1>1, <1>2, <1>3 DEF RunTypes
<1>8. Counted'
  <2>1. \A s \in learners' : theta'[s] = Len(rows')
    BY <1>1, <1>2, <1>3, <1>4
  <2>2. gen' = Len(rows') /\ written' < Len(rows') /\ written' <= Len(rows')
    <3>1. written <= L /\ written \in Nat
      BY <1>2 DEF Counted, RunTypes, L
    <3> QED BY <3>1, <1>1, <1>2, <1>3, <1>4
  <2> QED BY <2>1, <2>2, <1>1 DEF Counted
\* The generation is the best so far, or the best stays what it was.
<1>nats. \A s \in learners : s \in Roles /\ skill[s] \in Nat /\ best[s].skill \in Nat /\ best[s].gen \in Nat
  BY <1>2 DEF RunTypes
<1>first. ASSUME NEW s \in learners, Beats(s, skill)
          PROVE  /\ best'[s].skill = skill[s] /\ best'[s].gen = L + 1
                 /\ skill[s] # None /\ best[s].skill <= skill[s]
  <2>1. best'[s] = [skill |-> skill[s], gen |-> L + 1]
    BY <1>first, <1>nats, <1>1, <1>4
  <2>2. skill[s] # None /\ skill[s] >= best[s].skill
    BY <1>first DEF Beats
  <2> QED BY <2>1, <2>2, <1>nats
<1>second. ASSUME NEW s \in learners, ~Beats(s, skill)
           PROVE  best'[s] = best[s] /\ (skill[s] # None => skill[s] < best[s].skill)
  <2>1. best'[s] = best[s]
    BY <1>second, <1>nats, <1>1
  <2>2. skill[s] # None => ~(skill[s] >= best[s].skill)
    BY <1>second DEF Beats
  <2>3. skill[s] \in Nat /\ best[s].skill \in Nat
    BY <1>nats
  <2> QED BY <2>1, <2>2, <2>3
<1>9. ASSUME NEW s \in learners
      PROVE  /\ Scored(s)' = IF skill[s] # None THEN Scored(s) \cup {L + 1} ELSE Scored(s)
             /\ \A g \in Scored(s) : rows'[g][s] = rows[g][s] /\ rows[g][s] \in Nat /\ g \in 1..L
  <2>1. \A g \in Scored(s) : rows'[g][s] = rows[g][s] /\ rows[g][s] \in Nat /\ g \in 1..L
    BY <1>nats, <1>3, <1>5 DEF Scored, L
  <2>2. Scored(s)' = {g \in 1..(L + 1) : rows'[g][s] # None}
    BY <1>3 DEF Scored
  <2>3. Scored(s) = {g \in 1..L : rows[g][s] # None}
    BY DEF Scored, L
  <2>4. \A g \in 1..L : rows'[g][s] = rows[g][s]
    BY <1>3
  <2> QED BY <2>1, <2>2, <2>3, <2>4, <1>3, <1>6
<1>10. ASSUME NEW s \in learners
       PROVE  /\ Scored(s) = {} => best[s].skill = 0
              /\ Scored(s) # {} => best[s].gen \in Scored(s) /\ rows[best[s].gen][s] = best[s].skill
              /\ \A g \in Scored(s) : rows[g][s] <= best[s].skill
              /\ \A g \in Scored(s) : rows[g][s] = best[s].skill => g <= best[s].gen
  BY DEF TrainInv, BestIsHighest
<1>11. ASSUME NEW s \in learners, ~Beats(s, skill)
       PROVE  /\ skill[s] # None => skill[s] < best[s].skill
              /\ Scored(s)' # {} => Scored(s) # {}
  <2>1. skill[s] # None => skill[s] < best[s].skill
    BY <1>11, <1>second
  <2>2. CASE skill[s] # None
    <3>1. best[s].skill # 0
      BY <2>1, <2>2, <1>nats
    <3> QED BY <3>1, <2>1, <1>10
  <2>3. CASE skill[s] = None
    BY <2>1, <2>3, <1>9
  <2> QED BY <2>2, <2>3
<1>12. BestIsHighest'
  <2> SUFFICES ASSUME NEW s \in learners
               PROVE  /\ Scored(s)' = {} => best'[s].skill = 0
                      /\ Scored(s)' # {} => best'[s].gen \in Scored(s)' /\ rows'[best'[s].gen][s] = best'[s].skill
                      /\ \A g \in Scored(s)' : rows'[g][s] <= best'[s].skill
                      /\ \A g \in Scored(s)' : rows'[g][s] = best'[s].skill => g <= best'[s].gen
    BY <1>1 DEF BestIsHighest
  <2>1. CASE Beats(s, skill)
    <3>1. /\ best'[s].skill = skill[s] /\ best'[s].gen = L + 1
          /\ Scored(s)' = Scored(s) \cup {L + 1} /\ rows'[L + 1][s] = skill[s]
      BY <2>1, <1>3, <1>first, <1>9
    <3>2. \A g \in Scored(s) : rows'[g][s] <= skill[s] /\ g <= L + 1
      <4>1. best[s].skill <= skill[s]
        BY <2>1, <1>first
      <4> SUFFICES ASSUME NEW g \in Scored(s) PROVE rows'[g][s] <= skill[s] /\ g <= L + 1
        OBVIOUS
      <4>2. rows'[g][s] = rows[g][s] /\ rows[g][s] \in Nat /\ g \in 1..L /\ rows[g][s] <= best[s].skill
        BY <1>9, <1>10
      <4>3. skill[s] \in Nat /\ best[s].skill \in Nat
        BY <1>nats
      <4>4. rows'[g][s] <= skill[s]
        BY <4>1, <4>2, <4>3
      <4>5. g <= L + 1
        BY <4>2, <1>2
      <4> QED BY <4>4, <4>5
    <3>3. skill[s] <= skill[s] /\ L + 1 <= L + 1
      BY <1>2, <1>nats
    <3> QED BY <3>1, <3>2, <3>3
  <2>2. CASE ~Beats(s, skill)
    <3>1. best'[s] = best[s] /\ \A g \in Scored(s) : rows'[g][s] = rows[g][s]
      BY <2>2, <1>second, <1>9
    <3>2. CASE skill[s] = None
      <4>1. Scored(s)' = Scored(s)
        BY <3>2, <1>9
      <4> QED BY <4>1, <3>1, <1>10
    <3>3. CASE skill[s] # None
      <4>1. /\ Scored(s)' = Scored(s) \cup {L + 1} /\ rows'[L + 1][s] = skill[s]
            /\ skill[s] < best[s].skill /\ Scored(s) # {}
        <5>1. Scored(s)' = Scored(s) \cup {L + 1}
          BY <3>3, <1>9
        <5>2. Scored(s) # {}
          BY <5>1, <2>2, <1>11
        <5> QED BY <5>1, <5>2, <3>3, <2>2, <1>3, <1>11
      <4>2. skill[s] <= best[s].skill /\ skill[s] # best[s].skill
        BY <4>1, <1>nats
      <4> QED BY <4>1, <4>2, <3>1, <1>10
    <3> QED BY <3>2, <3>3
  <2> QED BY <2>1, <2>2
<1>13. Saved'
  <2>1. /\ \A i \in 1..Len(saves) :
             /\ saves[i].file \in Owed(skill) /\ saves[i].file[1] \in learners
             /\ saves[i].file[2] = "latest" => saves[i].theta = theta[saves[i].file[1]] + 1
             /\ saves[i].file[2] = "best" =>
                   Beats(saves[i].file[1], skill) /\ saves[i].theta = theta[saves[i].file[1]]
        /\ \A i, j \in 1..Len(saves) : saves[i].file = saves[j].file => i = j
        /\ \A f \in Owed(skill) : \E i \in 1..Len(saves) : saves[i].file = f
    BY DEF SavesOf
  <2>2. ASSUME NEW i \in 1..Len(saves)
        PROVE  saves[i].theta = IF saves[i].file[2] = "latest" THEN Len(rows')
                                ELSE best'[saves[i].file[1]].gen - 1
    <3>1. saves[i].file[1] \in learners /\ saves[i].file[2] \in {"latest", "best"}
      BY <2>1 DEF Owed
    <3>2. CASE saves[i].file[2] = "latest"
      <4>1. saves[i].theta = theta[saves[i].file[1]] + 1
        BY <3>2, <2>1
      <4>2. theta[saves[i].file[1]] = L /\ Len(rows') = L + 1
        BY <3>1, <1>3, <1>4
      <4> QED BY <3>2, <4>1, <4>2
    <3>3. CASE saves[i].file[2] = "best"
      <4>1. /\ Beats(saves[i].file[1], skill) /\ saves[i].theta = L
            /\ best'[saves[i].file[1]].gen = L + 1
        BY <3>1, <3>3, <2>1, <1>4, <1>first
      <4> QED BY <4>1, <3>3, <1>2
    <3> QED BY <3>1, <3>2, <3>3
  <2>3. \A f \in Roles \X Which : files'[f] # Torn
    BY <1>1, <1>4 DEF TrainInv, Saved
  <2>4. ASSUME NEW s \in learners
        PROVE  /\ Waits(<<s, "latest">>)'
               /\ Scored(s)' # {} => Waits(<<s, "best">>)' \/ files'[<<s, "best">>] = Whole(best'[s].gen - 1)
               /\ Len(rows') >= 2 => files'[<<s, "latest">>] = Whole(Len(rows') - 1)
    <3>1. \A f : ~Waits(f)
      BY <1>4 DEF Waits
    <3>2. Waits(<<s, "latest">>)'
      BY <2>1, <1>1 DEF Owed, Waits
    <3>3. ASSUME Beats(s, skill) PROVE Waits(<<s, "best">>)'
      <4>1. <<s, "best">> \in Owed(skill)
        BY <3>3 DEF Owed
      <4>2. PICK i \in 1..Len(saves) : saves[i].file = <<s, "best">>
        BY <4>1, <2>1
      <4> QED BY <4>2, <1>1 DEF Waits
    <3>4. ASSUME ~Beats(s, skill)
          PROVE  Scored(s)' # {} => files'[<<s, "best">>] = Whole(best'[s].gen - 1)
      <4>1. Scored(s)' # {} => files[<<s, "best">>] = Whole(best[s].gen - 1)
        BY <3>1, <3>4, <1>11 DEF TrainInv, Saved
      <4>2. best'[s] = best[s]
        BY <3>4, <1>second
      <4>3. files' = files
        BY <1>1
      <4> QED BY <4>1, <4>2, <4>3
    <3>5. Len(rows') >= 2 => files'[<<s, "latest">>] = Whole(Len(rows') - 1)
      <4> SUFFICES ASSUME Len(rows') >= 2 PROVE files[<<s, "latest">>] = Whole(L)
        BY <1>1, <1>2, <1>3
      <4>1. L >= 1
        BY <1>2, <1>3
      <4>2. rows # <<>>
        BY <4>1 DEF L
      <4> QED BY <4>2, <3>1 DEF TrainInv, Saved, L
    <3> QED BY <3>2, <3>3, <3>4, <3>5
  <2>5. (\A i \in 1..Len(todo) : todo[i].file[1] \in learners /\ todo[i].theta = Right(todo[i].file))'
    <3>1. \A i \in 1..Len(saves) : saves[i].file[1] \in learners
      BY <2>1
    <3>2. todo' = saves /\ learners' = learners
      BY <1>1
    <3> QED BY <3>1, <3>2, <2>2 DEF Right
  <2>6. \A i, j \in 1..Len(todo') : todo'[i].file = todo'[j].file => i = j
    BY <2>1, <1>1
  <2> QED BY <2>3, <2>4, <2>5, <2>6, <1>1 DEF Saved
<1>14. Famous'
  <2> SUFFICES ASSUME NEW s \in learners \ {"recon"} PROVE FameOf(Snaps(s)', recent'[s], archive'[s])
    BY <1>1 DEF Famous
  <2>1. theta'[s] = theta[s] + 1
    BY <1>1, <1>2
  <2>2. Snaps(s)' = {g \in 1..(theta[s] + 1) : g % HofEvery = 0}
    BY <2>1 DEF Snaps
  <2> QED BY <2>2
<1> QED BY <1>7, <1>8, <1>12, <1>13, <1>14 DEF TrainInv

LEMMA LearnsKeep ==
  ASSUME TrainInv, LearnClash \/ LearnRecon
  PROVE  TrainInv'
<1>1. /\ RunTypes /\ learners \in Learning /\ gen \in Nat
      /\ \A s \in learners : pc = "playing" => gen = theta[s] + 1
  BY DEF TrainInv, RunTypes, Counted
<1>2. \A skill : \A s \in Roles :
         /\ SavesOf(SaveBest(s, skill), skill, BestFiles(s, skill))
         /\ SavesOf(SaveLatest(s), skill, LatestFiles(s))
  BY SaveLists
<1>3. CASE LearnClash
  <2>1. PICK skill \in SkillsOf, d \in Snapshot("defender", theta["defender"] + 1),
             a \in Snapshot("attacker", theta["attacker"] + 1) :
          /\ LearnFrom(SaveBest("defender", skill) \o SaveBest("attacker", skill)
                           \o SaveLatest("defender") \o SaveLatest("attacker"), skill)
          /\ recent' = [recent EXCEPT !["defender"] = d.recent, !["attacker"] = a.recent]
          /\ archive' = [archive EXCEPT !["defender"] = d.archive, !["attacker"] = a.archive]
    BY <1>3 DEF LearnClash
  <2>2. pc = "playing" /\ learners \subseteq {"defender", "attacker"}
    BY <1>1, <1>3 DEF LearnClash, Learning
  <2> DEFINE bd == SaveBest("defender", skill)  ba == SaveBest("attacker", skill)
             ld == SaveLatest("defender")  la == SaveLatest("attacker")
             F1 == BestFiles("defender", skill)  F2 == BestFiles("attacker", skill)
             F3 == LatestFiles("defender")  F4 == LatestFiles("attacker")
  <2>3. /\ SavesOf(bd, skill, F1) /\ SavesOf(ba, skill, F2)
        /\ SavesOf(ld, skill, F3) /\ SavesOf(la, skill, F4)
    BY <1>2 DEF Roles
  <2>4. /\ F1 \cap F2 = {} /\ (F1 \cup F2) \cap F3 = {} /\ (F1 \cup F2 \cup F3) \cap F4 = {}
        /\ F1 \cup F2 \cup F3 \cup F4 = Owed(skill)
    BY <2>2 DEF BestFiles, LatestFiles, Owed
  <2> HIDE DEF bd, ba, ld, la, F1, F2, F3, F4
  <2>5. SavesOf(bd \o ba, skill, F1 \cup F2)
    BY <2>3, <2>4, SavesJoin
  <2>6. SavesOf((bd \o ba) \o ld, skill, F1 \cup F2 \cup F3)
    BY <2>3, <2>4, <2>5, SavesJoin
  <2>7. SavesOf(((bd \o ba) \o ld) \o la, skill, Owed(skill))
    <3>1. SavesOf(((bd \o ba) \o ld) \o la, skill, F1 \cup F2 \cup F3 \cup F4)
      BY <2>3, <2>4, <2>6, SavesJoin
    <3> QED BY <3>1, <2>4
  <2>8. LearnFrom(((bd \o ba) \o ld) \o la, skill)
    BY <2>1 DEF bd, ba, ld, la
  <2>9. /\ d.recent \in Seq(Nat) /\ d.archive \in Seq(Nat)
        /\ "defender" \in learners =>
              FameOf({g \in 1..(theta["defender"] + 1) : g % HofEvery = 0}, d.recent, d.archive)
    BY <1>1, <2>2, SnapshotKeeps
  <2>10. /\ a.recent \in Seq(Nat) /\ a.archive \in Seq(Nat)
         /\ "attacker" \in learners =>
               FameOf({g \in 1..(theta["attacker"] + 1) : g % HofEvery = 0}, a.recent, a.archive)
    BY <1>1, <2>2, SnapshotKeeps
  <2>11. /\ recent' \in [Roles -> Seq(Nat)] /\ archive' \in [Roles -> Seq(Nat)]
         /\ recent'["defender"] = d.recent /\ archive'["defender"] = d.archive
         /\ recent'["attacker"] = a.recent /\ archive'["attacker"] = a.archive
    <3>1. recent \in [Roles -> Seq(Nat)] /\ archive \in [Roles -> Seq(Nat)]
      BY <1>1 DEF RunTypes
    <3>2. "defender" \in Roles /\ "attacker" \in Roles
      BY DEF Roles
    <3> QED BY <2>1, <2>9, <2>10, <3>1, <3>2
  <2>12. ASSUME NEW s \in learners \ {"recon"}
         PROVE  FameOf({g \in 1..(theta[s] + 1) : g % HofEvery = 0}, recent'[s], archive'[s])
    <3>1. CASE s = "defender"
      BY <3>1, <2>9, <2>11, <2>12
    <3>2. CASE s = "attacker"
      BY <3>2, <2>10, <2>11, <2>12
    <3> QED BY <3>1, <3>2, <2>2
  <2> QED BY <2>2, <2>7, <2>8, <2>11, <2>12, LearnKeeps
<1>4. CASE LearnRecon
  <2>1. PICK skill \in SkillsOf : LearnFrom(SaveBest("recon", skill) \o SaveLatest("recon"), skill)
    BY <1>4 DEF LearnRecon
  <2>2. pc = "playing" /\ learners = {"recon"} /\ UNCHANGED <<recent, archive>>
    BY <1>1, <1>4 DEF LearnRecon, Learning
  <2> DEFINE p == SaveBest("recon", skill)  q == SaveLatest("recon")
             F == BestFiles("recon", skill)  G == LatestFiles("recon")
  <2>3. SavesOf(p, skill, F) /\ SavesOf(q, skill, G)
    BY <1>2 DEF Roles
  <2>4. F \cap G = {} /\ F \cup G = Owed(skill)
    BY <2>2 DEF BestFiles, LatestFiles, Owed
  <2> HIDE DEF p, q, F, G
  <2>5. SavesOf(p \o q, skill, Owed(skill))
    <3>1. SavesOf(p \o q, skill, F \cup G)
      BY <2>3, <2>4, SavesJoin
    <3> QED BY <3>1, <2>4
  <2>6. LearnFrom(p \o q, skill)
    BY <2>1 DEF p, q
  <2>7. recent' \in [Roles -> Seq(Nat)] /\ archive' \in [Roles -> Seq(Nat)]
    BY <1>1, <2>2 DEF RunTypes
  <2>8. \A s \in learners \ {"recon"} :
          FameOf({g \in 1..(theta[s] + 1) : g % HofEvery = 0}, recent'[s], archive'[s])
    BY <2>2
  <2> QED BY <2>2, <2>5, <2>6, <2>7, <2>8, LearnKeeps
<1> QED BY <1>3, <1>4

LEMMA RunKept ==
  TrainInv => TrainingKept
<1> SUFFICES ASSUME TrainInv PROVE TrainingKept
  OBVIOUS
<1>1. /\ RunTypes /\ Counted /\ BestIsHighest /\ Saved /\ Famous
      /\ learners \subseteq Roles /\ rows \in Seq(SkillRows) /\ Len(rows) \in Nat /\ DOMAIN rows = 1..Len(rows)
      /\ written \in Nat /\ written <= Len(rows)
  <2>1. RunTypes /\ Counted /\ BestIsHighest /\ Saved /\ Famous
    BY DEF TrainInv
  <2>2. learners \subseteq Roles /\ rows \in Seq(SkillRows) /\ written \in Nat
    BY <2>1 DEF RunTypes, Learning, Roles
  <2>3. written <= Len(rows)
    BY <2>1 DEF Counted
  <2> QED BY <2>1, <2>2, <2>3, LenProperties
<1>2. BestIsTheTested
  <2> SUFFICES ASSUME NEW s \in learners, pc \in {"idle", "done", "stopped"}
               PROVE  LET scored == {g \in DOMAIN rows : rows[g][s] # None}
                          top == {g \in scored : \A h \in scored : rows[g][s] >= rows[h][s]}
                      IN  /\ rows # <<>> => files[<<s, "latest">>] = Whole(Len(rows))
                          /\ scored # {} => files[<<s, "best">>] = Whole(Max(top) - 1)
    BY DEF BestIsTheTested
  <2> DEFINE scored == {g \in DOMAIN rows : rows[g][s] # None}
             top == {g \in scored : \A h \in scored : rows[g][s] >= rows[h][s]}
  <2>1. scored = Scored(s)
    BY <1>1 DEF Scored
  <2>2. \A f : ~Waits(f)
    <3>1. todo = <<>>
      BY <1>1 DEF Counted
    <3>2. Len(todo) = 0 /\ 1..0 = {}
      BY <3>1
    <3> QED BY <3>2 DEF Waits
  <2>3. /\ rows # <<>> => files[<<s, "latest">>] = Whole(Len(rows))
        /\ scored # {} => files[<<s, "best">>] = Whole(best[s].gen - 1)
    BY <1>1, <2>1, <2>2 DEF Saved
  <2>4. ASSUME scored # {} PROVE Max(top) = best[s].gen
    <3>1. /\ best[s].gen \in scored /\ rows[best[s].gen][s] = best[s].skill
          /\ \A g \in scored : rows[g][s] <= best[s].skill
          /\ \A g \in scored : rows[g][s] = best[s].skill => g <= best[s].gen
      BY <1>1, <2>1, <2>4 DEF BestIsHighest
    <3>2. /\ \A g \in scored : g \in Nat /\ rows[g][s] \in Nat
          /\ best[s].skill \in Nat /\ best[s].gen \in Nat
      <4>1. s \in Roles /\ best[s] \in [skill : Nat, gen : Nat]
        BY <1>1 DEF RunTypes
      <4>2. \A g \in 1..Len(rows) : rows[g] \in SkillRows
        BY <1>1, ElementOfSeq
      <4> QED BY <4>1, <4>2, <1>1 DEF SkillRows
    <3> HIDE DEF scored
    <3>3. best[s].gen \in top
      BY <3>1, <3>2
    <3>4. \A g \in top : g \in Nat /\ g <= best[s].gen
      <4> SUFFICES ASSUME NEW g \in top PROVE g \in Nat /\ g <= best[s].gen
        OBVIOUS
      <4>1. rows[g][s] >= best[s].skill /\ g \in scored
        BY <3>1
      <4>2. rows[g][s] = best[s].skill
        BY <4>1, <3>1, <3>2
      <4> QED BY <4>1, <4>2, <3>1, <3>2
    <3> HIDE DEF top
    <3>5. \A x \in top : (\A y \in top : x >= y) => x = best[s].gen
      BY <3>2, <3>3, <3>4
    <3>6. \A y \in top : best[s].gen >= y
      BY <3>2, <3>4
    <3> QED BY <3>3, <3>5, <3>6 DEF Max
  <2> QED BY <2>3, <2>4
<1>3. DiskIsConsistent
  <2>1. ASSUME NEW s \in learners, written > 0
        PROVE  \/ files[<<s, "latest">>] = Torn
               \/ files[<<s, "latest">>].state = "whole" /\ files[<<s, "latest">>].theta >= written
    <3>1. /\ rows # <<>> => Waits(<<s, "latest">>) \/ files[<<s, "latest">>] = Whole(Len(rows))
          /\ Len(rows) >= 2 => files[<<s, "latest">>] \in {Torn, Whole(Len(rows) - 1), Whole(Len(rows))}
      BY <1>1 DEF Saved
    <3>2. rows # <<>>
      BY <1>1, <2>1
    <3>3. CASE files[<<s, "latest">>] = Whole(Len(rows))
      BY <3>3, <1>1 DEF Whole
    <3>4. CASE Waits(<<s, "latest">>)
      <4>1. todo # <<>>
        BY <3>4 DEF Waits
      <4>2. written < Len(rows)
        BY <4>1, <1>1 DEF Counted
      <4>3. Len(rows) >= 2 /\ Len(rows) - 1 >= written
        BY <4>2, <2>1, <1>1
      <4>4. files[<<s, "latest">>] \in {Torn, Whole(Len(rows) - 1), Whole(Len(rows))}
        BY <4>3, <3>1
      <4>5. CASE files[<<s, "latest">>] = Whole(Len(rows) - 1)
        BY <4>3, <4>5 DEF Whole
      <4> QED BY <4>4, <4>5, <3>3
    <3> QED BY <3>1, <3>2, <3>3, <3>4
  <2>2. \A f, h \in DOMAIN files : (files[f] = Torn /\ files[h] = Torn) => f = h
    <3>1. DOMAIN files = Roles \X Which
      BY <1>1 DEF RunTypes
    <3>2. \A f \in Roles \X Which : files[f] = Torn => f = todo[1].file
      BY <1>1 DEF Saved
    <3> QED BY <3>1, <3>2
  <2>3. pc \in {"done", "stopped"} => written = Len(rows) /\ written = gen
    BY <1>1 DEF Counted
  <2> QED BY <2>1, <2>2, <2>3 DEF DiskIsConsistent
<1>4. HallOfFameExact
  <2> SUFFICES ASSUME NEW s \in learners \ {"recon"}
               PROVE  LET snaps == {g \in 1..theta[s] : g % HofEvery = 0}
                          latest == {g \in snaps : Cardinality({h \in snaps : h > g}) < HofRecent}
                      IN  /\ Range(recent[s]) = latest
                          /\ \A i, j \in DOMAIN recent[s] : i < j => recent[s][i] < recent[s][j]
                          /\ Range(archive[s]) \subseteq snaps \ latest
                          /\ Cardinality(Range(archive[s])) = Len(archive[s])
                          /\ Len(archive[s]) = Min({HofArchive, Cardinality(snaps \ latest)})
    BY DEF HallOfFameExact
  <2>1. FameOf(Snaps(s), recent[s], archive[s]) /\ Snaps(s) \in SUBSET (1..theta[s]) /\ theta[s] \in Nat
    BY <1>1 DEF Famous, Snaps, RunTypes
  <2> DEFINE snaps == Snaps(s)
             latest == {g \in snaps : Cardinality({h \in snaps : h > g}) < HofRecent}
  <2>2. /\ Range(recent[s]) = latest
        /\ \A i, j \in DOMAIN recent[s] : i < j => recent[s][i] < recent[s][j]
        /\ Range(archive[s]) \subseteq snaps \ latest
        /\ Cardinality(Range(archive[s])) = Len(archive[s])
        /\ Len(archive[s]) = Min({HofArchive, Cardinality(snaps \ latest)})
    <3> HIDE DEF snaps
    <3>1. FameOf(snaps, recent[s], archive[s]) /\ snaps \in SUBSET (1..theta[s]) /\ theta[s] \in Nat
      BY <2>1 DEF snaps
    <3> QED BY <3>1, FameIsExact
  <2>3. snaps = {g \in 1..theta[s] : g % HofEvery = 0}
    BY DEF Snaps
  <2> QED BY <2>2, <2>3
<1> QED BY <1>2, <1>3, <1>4 DEF TrainingKept

\* Whatever the run learns, and wherever it is stopped, killed or fails: between
\* generations the best file of a role has the weights of its highest skill as
\* they were tested, history on disk shows no generation whose brains are not, at
\* most the file being written is torn, and the hall of fame is the latest
\* snapshots and a sample of the older ones (train of arena/train.py).
THEOREM TrainingIsKept ==
  TrainInit /\ [][TrainNext]_trainVars => []TrainingKept
<1>1. TrainInit => TrainInv
  BY RunStart
<1>2. TrainInv /\ [TrainNext]_trainVars => TrainInv'
  <2> SUFFICES ASSUME TrainInv, [TrainNext]_trainVars PROVE TrainInv'
    OBVIOUS
  <2>1. CASE AskStop \/ BeginGeneration \/ PoolBreaks \/ AddRow \/ FinishRun \/ Kill
    BY <2>1, PassKeeps
  <2>2. CASE LearnClash \/ LearnRecon
    BY <2>2, LearnsKeep
  <2>3. CASE OpenFile
    BY <2>3, OpenKeepsFiles
  <2>4. CASE WriteFile
    BY <2>4, WriteKeepsFiles
  <2>5. CASE UNCHANGED trainVars
    BY <2>5 DEF trainVars, TrainInv, RunTypes, Counted, BestIsHighest, Saved, Famous, Scored, Right, Waits, Snaps
  <2> QED BY <2>1, <2>2, <2>3, <2>4, <2>5 DEF TrainNext
<1>3. TrainInv => TrainingKept
  BY RunKept
<1> QED BY <1>1, <1>2, <1>3, PTL

-----------------------------------------------------------------------------
(* The survey: the chain of the lead, by induction on the hops.            *)

-----------------------------------------------------------------------------
\* Whoever hears somebody of a set.
Hears(heard, set) == {i \in DroneIds : \E j \in set : <<i, j>> \in heard}

\* From i to the lead in n hops, or less.
Walk(heard, i, n, w) ==
  /\ w \in [0..n -> DroneIds] /\ w[0] = i /\ w[n] = 0
  /\ \A m \in 0..(n - 1) : w[m] = w[m + 1] \/ <<w[m], w[m + 1]>> \in heard

LEMMA Hops ==
  ASSUME NEW heard
  PROVE  \E reach : /\ Chain(heard) = reach[Drones - 1]
                    /\ reach[0] = {0}
                    /\ \A n \in Nat : reach[n + 1] = reach[n] \cup Hears(heard, reach[n])
<1> DEFINE Hop(r, n) == IF n = 0 THEN {0} ELSE r[n - 1] \cup Hears(heard, r[n - 1])
           IsReach(r) == r = [n \in Nat |-> Hop(r, n)]
           far == [n \in Nat |-> {i \in DroneIds : \E w : Walk(heard, i, n, w)}]
<1>1. far[0] = {0}
  <2>1. Walk(heard, 0, 0, [m \in 0..0 |-> 0])
    BY ReconAssumption DEF Walk, DroneIds
  <2>2. \A i, w : Walk(heard, i, 0, w) => i = 0
    BY DEF Walk
  <2> QED BY <2>1, <2>2, ReconAssumption DEF DroneIds
<1>2. ASSUME NEW n \in Nat PROVE far[n + 1] = far[n] \cup Hears(heard, far[n])
  <2>1. ASSUME NEW i \in DroneIds, NEW w, Walk(heard, i, n + 1, w)
        PROVE  i \in far[n] \cup Hears(heard, far[n])
    <3> DEFINE v == [m \in 0..n |-> w[m + 1]]
    <3>1. w[1] \in DroneIds /\ v \in [0..n -> DroneIds] /\ v[0] = w[1] /\ v[n] = 0
      BY <2>1 DEF Walk
    <3>2. \A m \in 0..(n - 1) : v[m] = v[m + 1] \/ <<v[m], v[m + 1]>> \in heard
      BY <2>1 DEF Walk
    <3>3. w[1] \in far[n]
      BY <3>1, <3>2 DEF Walk
    <3>4. i = w[1] \/ <<i, w[1]>> \in heard
      BY <2>1 DEF Walk
    <3> QED BY <3>3, <3>4 DEF Hears
  <2>2. ASSUME NEW i \in DroneIds, NEW j \in far[n], i = j \/ <<i, j>> \in heard
        PROVE  i \in far[n + 1]
    <3>1. PICK w : Walk(heard, j, n, w)
      OBVIOUS
    <3> DEFINE v == [m \in 0..(n + 1) |-> IF m = 0 THEN i ELSE w[m - 1]]
    <3>2. v \in [0..(n + 1) -> DroneIds] /\ v[0] = i /\ v[n + 1] = 0
      BY <3>1 DEF Walk
    <3>3. ASSUME NEW m \in 0..((n + 1) - 1) PROVE v[m] = v[m + 1] \/ <<v[m], v[m + 1]>> \in heard
      <4>1. CASE m = 0
        <5>1. 0 \in 0..(n + 1) /\ 1 \in 0..(n + 1) /\ w[0] = j
          BY <3>1 DEF Walk
        <5>2. v[0] = i /\ v[0 + 1] = j
          BY <5>1
        <5> QED BY <4>1, <5>2, <2>2
      <4>2. CASE m # 0
        <5>1. m - 1 \in 0..(n - 1) /\ (m - 1) + 1 = m
          BY <4>2
        <5>2. v[m] = w[m - 1] /\ v[m + 1] = w[m]
          BY <4>2
        <5> QED BY <5>1, <5>2, <3>1 DEF Walk
      <4> QED BY <4>1, <4>2
    <3>4. Walk(heard, i, n + 1, v)
      BY <3>2, <3>3 DEF Walk
    <3> QED BY <3>4
  <2>3. far[n + 1] \subseteq far[n] \cup Hears(heard, far[n])
    BY <2>1
  <2>4. far[n] \cup Hears(heard, far[n]) \subseteq far[n + 1]
    BY <2>2 DEF Hears
  <2> QED BY <2>3, <2>4
<1>3. IsReach(far)
  <2>1. ASSUME NEW n \in Nat PROVE far[n] = Hop(far, n)
    <3>1. CASE n = 0
      BY <3>1, <1>1
    <3>2. CASE n # 0
      <4>1. n - 1 \in Nat /\ (n - 1) + 1 = n
        BY <3>2
      <4> HIDE DEF far
      <4> QED BY <3>2, <4>1, <1>2
    <3> QED BY <3>1, <3>2
  <2>2. far = [n \in Nat |-> far[n]]
    OBVIOUS
  <2> HIDE DEF far
  <2> QED BY <2>1, <2>2
<1> DEFINE reach == CHOOSE r : IsReach(r)
<1>4. IsReach(reach)
  <2> HIDE DEF far, IsReach
  <2> QED BY <1>3
<1>5. Chain(heard) = reach[Drones - 1]
  BY DEF Chain, Hears
<1>6. reach[0] = {0}
  <2> HIDE DEF reach
  <2> QED BY <1>4
<1>7. \A n \in Nat : reach[n + 1] = reach[n] \cup Hears(heard, reach[n])
  <2> SUFFICES ASSUME NEW n \in Nat PROVE reach[n + 1] = reach[n] \cup Hears(heard, reach[n])
    OBVIOUS
  <2> HIDE DEF reach
  <2>1. n + 1 \in Nat /\ n + 1 # 0 /\ (n + 1) - 1 = n
    OBVIOUS
  <2>2. reach[n + 1] = Hop(reach, n + 1)
    BY <1>4, <2>1
  <2> QED BY <2>1, <2>2
<1> HIDE DEF reach
<1> QED BY <1>5, <1>6, <1>7

\* The radio chain of the lead is the smallest set that has the lead and
\* whoever hears one of its members, for any number of drones: as many hops as
\* there are friends are enough (_radio of arena/recon.py).
THEOREM ChainsAreExact == \A heard \in SUBSET Links : ChainExact(heard)
<1> SUFFICES ASSUME NEW heard \in SUBSET Links PROVE ChainExact(heard)
  OBVIOUS
<1> DEFINE Closed(set) == 0 \in set /\ \A p \in heard : p[2] \in set => p[1] \in set
<1>1. PICK reach : /\ Chain(heard) = reach[Drones - 1]
                   /\ reach[0] = {0}
                   /\ \A n \in Nat : reach[n + 1] = reach[n] \cup Hears(heard, reach[n])
  BY Hops
<1>2. Drones \in Nat \ {0}
  BY ReconAssumption
<1>3. \A p \in heard : p = <<p[1], p[2]>> /\ p[1] \in DroneIds
  BY DEF Links
\* The drones that n hops reach hear each other.
<1>4. ASSUME NEW s, Closed(s) PROVE \A n \in Nat : reach[n] \subseteq s
  <2> DEFINE S == {n \in Nat : reach[n] \subseteq s}
  <2>1. 0 \in S
    BY <1>1, <1>4
  <2>2. ASSUME NEW n \in Nat, n \in S PROVE n + 1 \in S
    <3>1. reach[n] \subseteq s /\ reach[n + 1] = reach[n] \cup Hears(heard, reach[n])
      BY <2>2, <1>1
    <3>2. ASSUME NEW i \in Hears(heard, reach[n]) PROVE i \in s
      <4>1. PICK j \in reach[n] : <<i, j>> \in heard
        BY DEF Hears
      <4> QED BY <4>1, <3>1, <1>4
    <3> QED BY <3>1, <3>2
  <2>3. Nat \subseteq S
    <3> HIDE DEF S
    <3> QED BY <2>1, <2>2, FromOneToNext
  <2> QED BY <2>3
\* Until nobody is left to join, every hop adds a drone.
<1>5. \A n \in Nat : reach[n] \subseteq DroneIds /\ IsFiniteSet(reach[n])
  <2>1. IsFiniteSet(DroneIds)
    BY <1>2, FS_Interval DEF DroneIds
  <2>2. Closed(DroneIds)
    BY <1>2, <1>3 DEF DroneIds
  <2> QED BY <2>1, <2>2, <1>4, FS_Subset
<1>6. \A n \in Nat : reach[n + 1] = reach[n] \/ Cardinality(reach[n + 1]) >= n + 2
  <2> DEFINE S == {n \in Nat : reach[n + 1] = reach[n] \/ Cardinality(reach[n + 1]) >= n + 2}
  <2>1. ASSUME NEW n \in Nat, reach[n + 1] # reach[n], Cardinality(reach[n]) >= n + 1
        PROVE  Cardinality(reach[n + 1]) >= n + 2
    <3>1. reach[n] \subseteq reach[n + 1]
      BY <1>1
    <3>2. IsFiniteSet(reach[n + 1]) /\ IsFiniteSet(reach[n])
      BY <1>5
    <3>3. Cardinality(reach[n]) < Cardinality(reach[n + 1])
      BY <3>1, <3>2, <2>1, FS_Subset, FS_CardinalityType
    <3>4. Cardinality(reach[n]) \in Nat /\ Cardinality(reach[n + 1]) \in Nat
      BY <3>2, FS_CardinalityType
    <3> QED BY <3>3, <3>4, <2>1
  <2>2. 0 \in S
    <3>1. Cardinality(reach[0]) = 1
      BY <1>1, FS_Singleton
    <3> QED BY <3>1, <2>1
  <2>3. ASSUME NEW n \in Nat, n \in S PROVE n + 1 \in S
    <3> SUFFICES ASSUME reach[(n + 1) + 1] # reach[n + 1]
                 PROVE  Cardinality(reach[(n + 1) + 1]) >= (n + 1) + 2
      OBVIOUS
    <3>1. reach[n + 1] # reach[n]
      <4>1. /\ reach[n + 1] = reach[n] \cup Hears(heard, reach[n])
            /\ reach[(n + 1) + 1] = reach[n + 1] \cup Hears(heard, reach[n + 1])
        <5>1. \A k \in Nat : reach[k + 1] = reach[k] \cup Hears(heard, reach[k])
          BY <1>1
        <5>2. n + 1 \in Nat
          OBVIOUS
        <5> QED BY <5>1, <5>2
      <4> QED BY <4>1
    <3>2. Cardinality(reach[n + 1]) >= (n + 1) + 1
      BY <2>3, <3>1
    <3> QED BY <3>2, <2>1
  <2>4. Nat \subseteq S
    <3> HIDE DEF S
    <3> QED BY <2>2, <2>3, FromOneToNext
  <2> QED BY <2>4
<1>7. reach[(Drones - 1) + 1] = reach[Drones - 1]
  <2>1. Cardinality(DroneIds) = Drones /\ IsFiniteSet(DroneIds)
    BY <1>2, FS_Interval DEF DroneIds
  <2>2. Drones - 1 \in Nat /\ (Drones - 1) + 1 \in Nat
    BY <1>2
  <2>3. Cardinality(reach[(Drones - 1) + 1]) <= Drones
    BY <1>5, <2>1, <2>2, FS_Subset
  <2>4. Cardinality(reach[(Drones - 1) + 1]) \in Nat
    BY <1>5, <2>2, FS_CardinalityType
  <2> QED BY <1>6, <2>2, <2>3, <2>4, <1>2
<1>8. Closed(Chain(heard))
  <2>1. 0 \in DroneIds /\ Drones - 1 \in Nat
    BY <1>2 DEF DroneIds
  <2>2. 0 \in reach[Drones - 1]
    <3> DEFINE S == {n \in Nat : 0 \in reach[n]}
    <3>1. 0 \in S
      BY <1>1
    <3>2. \A n \in Nat : n \in S => n + 1 \in S
      BY <1>1
    <3>3. Nat \subseteq S
      <4> HIDE DEF S
      <4> QED BY <3>1, <3>2, FromOneToNext
    <3> QED BY <3>3, <2>1
  <2>3. ASSUME NEW p \in heard, p[2] \in reach[Drones - 1] PROVE p[1] \in reach[Drones - 1]
    <3>1. p[1] \in Hears(heard, reach[Drones - 1])
      BY <1>3, <2>3 DEF Hears
    <3> QED BY <3>1, <2>1, <1>1, <1>7
  <2> QED BY <2>2, <2>3, <1>1
<1>9. \A s \in SUBSET DroneIds : Closed(s) => Chain(heard) \subseteq s
  BY <1>1, <1>2, <1>4
<1> QED BY <1>8, <1>9 DEF ChainExact

-----------------------------------------------------------------------------
SurveyTypes ==
  /\ linked \subseteq DroneIds /\ cam \subseteq DroneIds
  /\ finder \in [Targets -> DroneIds \cup {Missing}] /\ reported \subseteq Targets
  /\ foundT \in [Targets -> Int] /\ reportT \in [Targets -> Int]
  /\ tick \in Nat /\ ended \in BOOLEAN /\ covered \in BOOLEAN /\ endT \in Int

\* Nothing is dated after the present, nor after the end, nor before it is found.
Dated ==
  /\ \A k \in Targets : /\ foundT[k] <= tick /\ reportT[k] <= tick
                        /\ ended => foundT[k] <= endT /\ reportT[k] <= endT
                        /\ k \notin reported => reportT[k] = Missing
  /\ ended => endT <= tick

RInv == SurveyTypes /\ Dated /\ NoReportKept

LEMMA ChainInSwarm == \A chain \in Chains : chain \subseteq DroneIds
<1> SUFFICES ASSUME NEW heard \in SUBSET Links PROVE Chain(heard) \subseteq DroneIds
  BY DEF Chains
<1> DEFINE Closed(set) == 0 \in set /\ \A p \in heard : p[2] \in set => p[1] \in set
<1>1. Closed(DroneIds)
  BY ReconAssumption DEF Links, DroneIds
<1>2. \A s \in SUBSET DroneIds : Closed(s) => Chain(heard) \subseteq s
  BY ChainsAreExact DEF ChainExact
<1> QED BY <1>1, <1>2

LEMMA SurveyStart == ReconInit => RInv
<1> SUFFICES ASSUME ReconInit PROVE RInv
  OBVIOUS
<1>1. linked \subseteq DroneIds
  BY ChainInSwarm DEF ReconInit
<1>2. SurveyTypes /\ Dated
  <2>1. finder = [k \in Targets |-> -1] /\ foundT = finder /\ reportT = finder
    BY DEF ReconInit, Missing
  <2>2. SurveyTypes
    <3>1. finder \in [Targets -> DroneIds \cup {-1}] /\ foundT \in [Targets -> Int] /\ reportT \in [Targets -> Int]
      BY <2>1
    <3>2. cam = {} /\ covered = FALSE /\ reported = {} /\ tick = 0 /\ ended = FALSE /\ endT = -1
      BY DEF ReconInit, Missing
    <3>3. covered \in BOOLEAN /\ ended \in BOOLEAN
      BY <3>2
    <3>4. cam \subseteq DroneIds /\ reported \subseteq Targets /\ tick \in Nat /\ endT \in Int
      BY <3>2
    <3> QED BY <3>1, <3>3, <3>4, <1>1 DEF SurveyTypes, Missing
  <2>3. Dated
    BY <2>1 DEF ReconInit, Dated, Missing
  <2> QED BY <2>2, <2>3
<1>3. NoReportKept
  BY DEF ReconInit, NoReportKept, Found
<1> QED BY <1>2, <1>3 DEF RInv

LEMMA DecideKeeps == RInv /\ Decide => RInv'
  BY DEF RInv, Decide, SurveyTypes, Dated, NoReportKept, Found

LEMMA SurveyKeeps == RInv /\ Survey => RInv'
<1> SUFFICES ASSUME RInv, Survey PROVE RInv'
  OBVIOUS
<1> DEFINE New(sees) == {k \in Targets : sees[k] # Missing /\ Unfound(k)}
           Delivered(chain) == IF ended THEN {} ELSE Deliverable(finder', chain)
           ends == ~ended /\ (tick' = SurveyTime \/ (covered' /\ reported' = Targets))
<1>1. PICK chain \in Chains, sees \in [Targets -> Cameras \cup {Missing}], complete \in BOOLEAN :
        /\ linked' = chain
        /\ covered' = (covered \/ (complete /\ ~ended))
        /\ finder' = [k \in Targets |-> IF k \in New(sees) THEN sees[k] ELSE finder[k]]
        /\ foundT' = [k \in Targets |-> IF k \in New(sees) THEN tick' ELSE foundT[k]]
        /\ reported' = reported \cup Delivered(chain)
        /\ reportT' = [k \in Targets |-> IF k \in Delivered(chain) THEN tick' ELSE reportT[k]]
        /\ ended' = (ended \/ ends)
        /\ endT' = IF ends THEN tick' ELSE endT
  BY DEF Survey
<1> DEFINE new == New(sees)
           delivered == Delivered(chain)
<1>2. tick' = tick + 1 /\ cam' = cam /\ tick \in Nat /\ tick' \in Nat
  BY DEF Survey, RInv, SurveyTypes
<1>3. delivered \subseteq Targets /\ delivered \cap reported = {} /\ (ended => new = {} /\ delivered = {})
  BY <1>1 DEF Deliverable, Cameras, Missing
<1>4. \A k \in Targets : /\ k \in delivered => ~ended /\ finder'[k] # Missing /\ finder'[k] \in chain
                         /\ k \in new => sees[k] \in DroneIds /\ finder[k] = Missing
  BY <1>1 DEF Deliverable, Unfound, Cameras, RInv, SurveyTypes, Missing
<1>5. SurveyTypes'
  <2>1. linked' \subseteq DroneIds
    BY <1>1, ChainInSwarm
  <2>2. finder' \in [Targets -> DroneIds \cup {Missing}]
    BY <1>1, <1>4 DEF RInv, SurveyTypes
  <2>3. foundT' \in [Targets -> Int] /\ reportT' \in [Targets -> Int] /\ endT' \in Int
    BY <1>1, <1>2 DEF RInv, SurveyTypes
  <2>4. reported' \subseteq Targets /\ ended' \in BOOLEAN /\ covered' \in BOOLEAN
    BY <1>1, <1>3 DEF RInv, SurveyTypes
  <2> QED BY <2>1, <2>2, <2>3, <2>4, <1>2 DEF RInv, SurveyTypes
<1> HIDE DEF New, Delivered
<1>6. Dated'
  <2>1. ASSUME NEW k \in Targets
        PROVE  /\ foundT'[k] <= tick' /\ reportT'[k] <= tick'
               /\ ended' => foundT'[k] <= endT' /\ reportT'[k] <= endT'
               /\ k \notin reported' => reportT'[k] = Missing
    <3>1. /\ foundT'[k] = IF k \in new THEN tick' ELSE foundT[k]
          /\ reportT'[k] = IF k \in delivered THEN tick' ELSE reportT[k]
      BY <1>1
    <3>2. foundT[k] <= tick /\ reportT[k] <= tick /\ foundT[k] \in Int /\ reportT[k] \in Int
      BY DEF RInv, Dated, SurveyTypes
    <3>3. foundT'[k] <= tick' /\ reportT'[k] <= tick'
      BY <3>1, <3>2, <1>2
    <3>4. ended => foundT'[k] <= endT' /\ reportT'[k] <= endT'
      BY <3>1, <1>1, <1>3 DEF RInv, Dated
    <3>5. ~ended /\ ended' => foundT'[k] <= endT' /\ reportT'[k] <= endT'
      BY <3>3, <1>1
    <3>6. k \notin reported' => reportT'[k] = Missing
      BY <3>1, <1>1 DEF RInv, Dated
    <3> QED BY <3>3, <3>4, <3>5, <3>6
  <2>2. ended' => endT' <= tick'
    BY <1>1, <1>2 DEF RInv, Dated, SurveyTypes
  <2> QED BY <2>1, <2>2 DEF Dated
<1>7. NoReportKept'
  <2>1. reported' \subseteq Found'
    <3>1. ASSUME NEW k \in reported' PROVE k \in Targets /\ finder'[k] # Missing
      <4>1. CASE k \in delivered
        BY <4>1, <1>3, <1>4
      <4>2. CASE k \notin delivered
        <5>1. k \in Targets /\ finder[k] # Missing
          BY <4>2, <3>1, <1>1 DEF RInv, NoReportKept, Found
        <5> QED BY <5>1, <1>1, <1>4
      <4> QED BY <4>1, <4>2
    <3> QED BY <3>1 DEF Found
  <2>2. ASSUME NEW k \in reported' PROVE foundT'[k] <= reportT'[k]
    <3>1. CASE k \in delivered
      <4>1. reportT'[k] = tick' /\ k \in Targets
        BY <3>1, <1>1, <1>3
      <4> QED BY <4>1, <1>6 DEF Dated
    <3>2. CASE k \notin delivered
      <4>1. k \in reported /\ k \in Targets /\ finder[k] # Missing /\ foundT[k] <= reportT[k]
        BY <3>2, <2>2, <1>1 DEF RInv, NoReportKept, Found
      <4>2. k \notin new
        BY <4>1, <1>4
      <4> QED BY <4>1, <4>2, <3>2, <1>1
    <3> QED BY <3>1, <3>2
  <2>3. ASSUME ended'
        PROVE  /\ \A k \in Targets : foundT'[k] <= endT' /\ reportT'[k] <= endT'
               /\ endT' = SurveyTime \/ (covered' /\ reported' = Targets)
    <3>1. \A k \in Targets : foundT'[k] <= endT' /\ reportT'[k] <= endT'
      BY <2>3, <1>6 DEF Dated
    <3>2. CASE ended
      BY <3>1, <3>2, <1>1, <1>3 DEF RInv, NoReportKept
    <3>3. CASE ~ended
      BY <3>1, <3>3, <2>3, <1>1
    <3> QED BY <3>2, <3>3
  <2>4. ASSUME ~ended' \/ tick' = endT', NEW k \in Found' \ reported'
        PROVE  finder'[k] \notin linked'
    <3>1. ~ended
      BY <2>4, <1>1, <1>2 DEF RInv, Dated, SurveyTypes
    <3>2. k \in Targets /\ finder'[k] # Missing /\ k \notin reported /\ k \notin delivered
      BY <2>4, <1>1 DEF Found
    <3> QED BY <3>1, <3>2, <1>1 DEF Delivered, Deliverable
  <2> QED BY <2>1, <2>2, <2>3, <2>4 DEF NoReportKept
<1> QED BY <1>5, <1>6, <1>7 DEF RInv

\* Only what was found is reported, not before it was found nor after the end; a
\* report whose finder is in the lead's chain is never kept; an episode that ends
\* early has nothing left to survey or to report (_targets and step of recon.py).
THEOREM SurveysAreExact == ReconInit /\ [][ReconNext]_reconVars => []NoReportKept
<1>1. RInv /\ [ReconNext]_reconVars => RInv'
  <2>1. RInv /\ UNCHANGED reconVars => RInv'
    BY DEF reconVars, RInv, SurveyTypes, Dated, NoReportKept, Found
  <2> QED BY <2>1, DecideKeeps, SurveyKeeps DEF ReconNext
<1>2. RInv => NoReportKept
  BY DEF RInv
<1> QED BY SurveyStart, <1>1, <1>2, PTL

\* Both together: reports are exact over whatever radio there is.
THEOREM ReportsAreExact == ReconInit /\ [][ReconNext]_reconVars => []ReportsExact
<1>1. ChainsExact
  BY ChainsAreExact DEF ChainsExact
<1>2. NoReportKept => ReportsExact
  BY <1>1 DEF ReportsExact
<1> QED BY SurveysAreExact, <1>2, PTL

-----------------------------------------------------------------------------
(* An engagement.  The argument: an attacker that flies has no time of its *)
(* end, and one that does not ended after it was first seen; every shot    *)
(* that was fired took an attacker that flew; and a table holds, decision  *)
(* by decision, the age of the freshest report that reached it.            *)

ClashTypeOK ==
  /\ rules \in Rules /\ phase \in {"decide", "fly"} /\ done \in BOOLEAN
  /\ steps \in Nat /\ substep \in Nat
  /\ ammo \in [Team -> 0..rules.shots] /\ target \in [Team -> Foes \cup {Nobody}]
  /\ killed \subseteq Foes /\ breached \subseteq Foes
  /\ firstSeen \in [Foes -> Nat \cup {NoTime}] /\ endedAt \in [Foes -> Nat \cup {NoTime}]
  /\ tEnd \in Nat \cup {NoTime}
  /\ tracks \in [Pairs -> 0..Unknown] /\ reports \in [0..(rules.relay - 1) -> SUBSET Pairs]

Fates ==
  /\ killed \cap breached = {} /\ flying = Foes \ (killed \cup breached)
  /\ \A a \in flying : endedAt[a] = NoTime /\ firstSeen[a] <= Now
  /\ \A a \in Foes \ flying : /\ endedAt[a] \in Nat /\ endedAt[a] <= Now
                              /\ firstSeen[a] < endedAt[a]
                              /\ done => endedAt[a] <= tEnd

\* The place of an interceptor among those that are alive.
PlaceAmong(alive, d) == <<Cardinality({e \in alive : e <= d}) - 1, Cardinality(alive)>>

LineExact ==
  /\ guards = {d \in Team : ammo[d] > 0}
  /\ \A d \in guards : station[d] = PlaceAmong(guards, d)
  /\ \A d \in Team : rules.shots - ammo[d] <= Cardinality(killed)
  /\ Cardinality(killed) <= Cardinality(Fired)

ClashInv == ClashTypeOK /\ Fates /\ LineExact /\ SightingsExact

LEMMA RuleTypes ==
  ASSUME rules \in Rules
  PROVE  /\ rules.defenders \in Nat /\ rules.shots \in Nat /\ rules.shots # 0
         /\ rules.relay \in Nat /\ rules.relay # 0 /\ Unknown \in Nat
         /\ IsFiniteSet(Foes) /\ IsFiniteSet(Team) /\ Team \subseteq Nat
<1>1. /\ {rules.defenders, rules.shots, rules.relay, rules.every} \subseteq Nat \ {0}
      /\ Foes \subseteq Attackers /\ IsFiniteSet(Attackers)
  BY ClashAssumption DEF Foes
<1>2. IsFiniteSet(Foes)
  BY <1>1, FS_Subset
<1>3. rules.defenders \in Nat
  BY <1>1
<1>4. IsFiniteSet(Team)
  BY <1>3, FS_Interval DEF Team
<1> QED BY <1>1, <1>2, <1>4 DEF Team, Unknown

\* The least of a set of numbers.
LEMMA MinOf ==
  ASSUME NEW S, S \subseteq Nat, S # {}
  PROVE  Min(S) \in S /\ \A n \in S : Min(S) <= n
<1>1. \E n \in S : \A m \in S : n <= m
  BY Least
<1> QED BY <1>1 DEF Min

LEMMA MinIs ==
  ASSUME NEW S, S \subseteq Nat, NEW n \in S, \A m \in S : n <= m
  PROVE  Min(S) = n
<1>1. Min(S) \in S /\ \A m \in S : Min(S) <= m
  BY MinOf
<1> DEFINE k == Min(S)
<1>2. k \in Nat /\ n \in Nat /\ k <= n /\ n <= k
  BY <1>1
<1> HIDE DEF k
<1>3. k = n
  BY <1>2
<1> QED BY <1>3 DEF k

LEMMA NowType == ASSUME ClashTypeOK PROVE Now \in Nat /\ Substeps \in Nat
<1>1. steps \in Nat /\ substep \in Nat
  BY DEF ClashTypeOK
<1>2. Substeps \in Nat
  BY ClashAssumption
<1>3. steps * Substeps \in Nat
  BY <1>1, <1>2
<1> QED BY <1>1, <1>2, <1>3 DEF Now

LEMMA ClashStart == ClashInit => ClashInv
<1> SUFFICES ASSUME ClashInit PROVE ClashInv
  OBVIOUS
<1>0. /\ rules.defenders \in Nat /\ rules.shots \in Nat /\ rules.shots # 0
      /\ rules.relay \in Nat /\ rules.relay # 0 /\ Unknown \in Nat
      /\ IsFiniteSet(Foes) /\ IsFiniteSet(Team) /\ Team \subseteq Nat
  BY RuleTypes DEF ClashInit
<1>1. ClashTypeOK
  <2>1. done \in BOOLEAN
    BY DEF ClashInit
  <2>2. Unknown \in 0..Unknown
    BY <1>0
  <2>3. tracks \in [Pairs -> 0..Unknown] /\ reports \in [0..(rules.relay - 1) -> SUBSET Pairs]
    BY <2>2 DEF ClashInit
  <2> QED BY <1>0, <2>1, <2>3 DEF ClashInit, ClashTypeOK
<1>2. Fates
  <2>1. Now \in Nat
    BY <1>1, NowType
  <2> QED BY <2>1 DEF ClashInit, Fates, NoTime
<1>3. LineExact
  <2>1. guards = Team /\ \A d \in Team : ammo[d] = rules.shots
    BY DEF ClashInit
  <2>2. guards = {d \in Team : ammo[d] > 0}
    <3>1. rules.shots > 0
      BY <1>0
    <3>2. \A d \in Team : ammo[d] > 0
      BY <2>1, <3>1
    <3> QED BY <2>1, <3>2
  <2>3. \A d \in guards : station[d] = PlaceAmong(guards, d)
    BY <2>1 DEF ClashInit, Stations, PlaceAmong
  <2>4. Fired = {} /\ killed = {}
    <3>1. ASSUME NEW s \in Team \X (1..rules.shots) PROVE ~(s[2] > ammo[s[1]])
      <4>1. s[1] \in Team /\ s[2] \in 1..rules.shots
        OBVIOUS
      <4>2. ammo[s[1]] = rules.shots
        BY <2>1, <4>1
      <4> QED BY <1>0, <4>1, <4>2
    <3> QED BY <3>1 DEF Fired, ClashInit
  <2>5. Cardinality(Fired) = 0 /\ Cardinality(killed) = 0
    BY <2>4, FS_EmptySet
  <2> QED BY <1>0, <2>1, <2>2, <2>3, <2>5 DEF LineExact
<1>4. SightingsExact
  <2>1. \A p \in Pairs : {n \in DOMAIN reports : p \in reports[n]} = {}
    BY DEF ClashInit
  <2>2. Min({Unknown}) = Unknown
    BY <1>0, MinIs
  <2>3. guards \X flying \subseteq Pairs /\ \A p \in Pairs : tracks[p] = Unknown
    BY DEF ClashInit, Pairs
  <2>4. \A d \in guards : target[d] = Nobody
    BY DEF ClashInit
  <2>5. \A p \in guards \X flying : tracks[p] = Min({n \in DOMAIN reports : p \in reports[n]} \cup {Unknown})
    BY <2>1, <2>2, <2>3
  <2> QED BY <2>4, <2>5 DEF SightingsExact
<1> QED BY <1>1, <1>2, <1>3, <1>4 DEF ClashInv

-----------------------------------------------------------------------------
\* A decision.

\* Whom d gets reports from.
Sources(d, hear) == {e \in Team : e = d \/ <<d, e>> \in hear}

\* The ages of the reports of an attacker that have come through the mesh.
Ages(p) == {n \in DOMAIN reports : p \in reports[n]} \cup {Unknown}

\* A decision ages what it relays by one and keeps the freshest.
LEMMA RelayExact ==
  ASSUME ClashTypeOK, NEW seen \in SUBSET (guards \X flying), NEW hear \in SUBSET Hearable,
         guards \subseteq Team, flying \subseteq Foes,
         \A q \in guards \X flying : tracks[q] = Min(Ages(q)),
         reports' = Heard(seen, hear), rules' = rules,
         NEW p \in guards \X flying
  PROVE  RelayTracks(seen, hear)[p] = Min(Ages(p)')
<1>0. rules.relay \in Nat /\ rules.relay # 0 /\ Unknown = rules.relay /\ Unknown' = Unknown
  BY RuleTypes DEF ClashTypeOK, Unknown
<1> DEFINE d == p[1]
           a == p[2]
           broadcast == [q \in Pairs |-> IF q \in seen THEN 0 ELSE Aged(tracks[q])]
           heard == {broadcast[<<e, a>>] : e \in Sources(d, hear)}
<1>1. p \in Pairs /\ p = <<d, a>> /\ d \in guards /\ d \in Team /\ a \in flying /\ a \in Foes
  BY DEF Pairs
<1>2. RelayTracks(seen, hear)[p] = Min(heard)
  BY <1>1 DEF RelayTracks, Sources
<1>3. \A e \in Sources(d, hear) : e \in guards /\ <<e, a>> \in Pairs
  BY <1>1 DEF Sources, Hearable, Pairs
<1>4. ASSUME NEW e \in Sources(d, hear)
      PROVE  /\ broadcast[<<e, a>>] = IF <<e, a>> \in seen THEN 0 ELSE Aged(tracks[<<e, a>>])
             /\ tracks[<<e, a>>] \in Ages(<<e, a>>)
             /\ \A n \in Ages(<<e, a>>) : n \in 0..Unknown /\ tracks[<<e, a>>] <= n
  <2>1. <<e, a>> \in guards \X flying /\ <<e, a>> \in Pairs
    BY <1>1, <1>3
  <2>2. tracks[<<e, a>>] = Min(Ages(<<e, a>>))
    BY <2>1
  <2>3. Ages(<<e, a>>) \subseteq 0..Unknown /\ Ages(<<e, a>>) # {}
    BY <1>0 DEF Ages, ClashTypeOK
  <2>4. 0..Unknown \subseteq Nat
    BY <1>0
  <2>5. Min(Ages(<<e, a>>)) \in Ages(<<e, a>>) /\ \A n \in Ages(<<e, a>>) : Min(Ages(<<e, a>>)) <= n
    BY <2>3, <2>4, MinOf
  <2> QED BY <2>1, <2>2, <2>3, <2>5
<1>5. /\ DOMAIN reports' = 0..(rules.relay - 1)
      /\ p \in reports'[0] <=> \E e \in Sources(d, hear) : <<e, a>> \in seen
      /\ \A n \in 1..(rules.relay - 1) :
            p \in reports'[n] <=> \E e \in Sources(d, hear) : <<e, a>> \in reports[n - 1]
  <2>1. DOMAIN reports = 0..(rules.relay - 1)
    BY DEF ClashTypeOK
  <2>2. ASSUME NEW set, set \subseteq Pairs
        PROVE  p \in (set \cup Shared(set, hear)) \cap (guards \X flying)
                  <=> \E e \in Sources(d, hear) : <<e, a>> \in set
    BY <1>1 DEF Shared, Sources
  <2>3. DOMAIN reports' = 0..(rules.relay - 1)
        /\ \A n \in 0..(rules.relay - 1) :
              LET set == IF n = 0 THEN seen ELSE reports[n - 1]
              IN  reports'[n] = (set \cup Shared(set, hear)) \cap (guards \X flying)
    BY <2>1 DEF Heard
  <2>4. seen \subseteq Pairs
    BY DEF Pairs
  <2>5. p \in reports'[0] <=> \E e \in Sources(d, hear) : <<e, a>> \in seen
    <3>1. 0 \in 0..(rules.relay - 1)
      BY <1>0
    <3>2. reports'[0] = (seen \cup Shared(seen, hear)) \cap (guards \X flying)
      BY <2>3, <3>1
    <3> QED BY <2>2, <2>4, <3>2
  <2>6. ASSUME NEW n \in 1..(rules.relay - 1)
        PROVE  p \in reports'[n] <=> \E e \in Sources(d, hear) : <<e, a>> \in reports[n - 1]
    <3>1. n \in 0..(rules.relay - 1) /\ n # 0 /\ n - 1 \in 0..(rules.relay - 1)
      BY <1>0
    <3>2. reports'[n] = (reports[n - 1] \cup Shared(reports[n - 1], hear)) \cap (guards \X flying)
      BY <2>3, <3>1
    <3>3. reports[n - 1] \subseteq Pairs
      BY <3>1 DEF ClashTypeOK
    <3> QED BY <2>2, <3>2, <3>3
  <2> QED BY <2>3, <2>5, <2>6
<1> HIDE DEF broadcast
<1>6. ASSUME NEW e \in Sources(d, hear)
      PROVE  broadcast[<<e, a>>] \in Ages(p)' /\ broadcast[<<e, a>>] \in Nat
  <2>0. Ages(p)' = {n \in DOMAIN reports' : p \in reports'[n]} \cup {Unknown}
    BY <1>0 DEF Ages
  <2>1. CASE <<e, a>> \in seen
    <3>1. broadcast[<<e, a>>] = 0 /\ p \in reports'[0] /\ 0 \in DOMAIN reports'
      BY <1>0, <1>4, <1>5, <2>1
    <3> QED BY <2>0, <3>1
  <2>2. CASE <<e, a>> \notin seen /\ tracks[<<e, a>>] + 1 < Unknown
    <3> DEFINE t == tracks[<<e, a>>]
    <3>1. t \in Ages(<<e, a>>) /\ t \in 0..Unknown
      BY <1>4
    <3> HIDE DEF t
    <3>2. broadcast[<<e, a>>] = t + 1 /\ t + 1 < Unknown
      BY <1>4, <2>2 DEF Aged, t
    <3>3. t \in 0..(rules.relay - 1) /\ t + 1 \in 1..(rules.relay - 1) /\ (t + 1) - 1 = t
      BY <1>0, <3>1, <3>2
    <3>4. <<e, a>> \in reports[t]
      BY <1>0, <3>1, <3>3 DEF Ages
    <3>5. p \in reports'[t + 1]
      BY <1>5, <3>3, <3>4
    <3>6. t + 1 \in DOMAIN reports'
      BY <1>5, <3>3
    <3> QED BY <2>0, <3>2, <3>3, <3>5, <3>6
  <2>3. CASE <<e, a>> \notin seen /\ ~(tracks[<<e, a>>] + 1 < Unknown)
    <3>1. broadcast[<<e, a>>] = Unknown
      BY <1>4, <2>3 DEF Aged
    <3> QED BY <1>0, <2>0, <3>1
  <2> QED BY <2>1, <2>2, <2>3
<1>7. ASSUME NEW n \in Ages(p)'
      PROVE  \E e \in Sources(d, hear) : broadcast[<<e, a>>] <= n
  <2>1. n = Unknown \/ (n \in 0..(rules.relay - 1) /\ p \in reports'[n])
    BY <1>0, <1>5 DEF Ages
  <2>2. ASSUME NEW e \in Sources(d, hear)
        PROVE  /\ tracks[<<e, a>>] \in 0..Unknown
               /\ broadcast[<<e, a>>] <= Unknown
               /\ <<e, a>> \in seen => broadcast[<<e, a>>] = 0
               /\ broadcast[<<e, a>>] <= tracks[<<e, a>>] + 1
    <3>1. tracks[<<e, a>>] \in 0..Unknown
      BY <1>4
    <3> DEFINE t == tracks[<<e, a>>]
    <3>2. broadcast[<<e, a>>] = IF <<e, a>> \in seen THEN 0 ELSE IF t + 1 < Unknown THEN t + 1 ELSE Unknown
      BY <1>4 DEF Aged
    <3> HIDE DEF t
    <3>3. t \in 0..Unknown
      BY <3>1 DEF t
    <3>4. broadcast[<<e, a>>] <= Unknown /\ broadcast[<<e, a>>] <= t + 1
      BY <1>0, <3>2, <3>3
    <3> QED BY <3>1, <3>2, <3>4 DEF t
  <2>3. d \in Sources(d, hear)
    BY <1>1 DEF Sources
  <2>4. CASE n = Unknown
    BY <2>2, <2>3, <2>4
  <2>5. CASE n = 0 /\ p \in reports'[n]
    <3>1. PICK e \in Sources(d, hear) : <<e, a>> \in seen
      BY <1>5, <2>5
    <3>2. broadcast[<<e, a>>] = 0
      BY <2>2, <3>1
    <3> QED BY <2>5, <3>2
  <2>6. CASE n \in 1..(rules.relay - 1) /\ p \in reports'[n]
    <3>1. PICK e \in Sources(d, hear) : <<e, a>> \in reports[n - 1]
      BY <1>5, <2>6
    <3>2. n - 1 \in 0..(rules.relay - 1)
      BY <1>0, <2>6
    <3>3. n - 1 \in Ages(<<e, a>>)
      BY <3>1, <3>2 DEF Ages, ClashTypeOK
    <3>4. tracks[<<e, a>>] <= n - 1
      BY <1>4, <3>3
    <3>5. broadcast[<<e, a>>] <= tracks[<<e, a>>] + 1 /\ tracks[<<e, a>>] \in 0..Unknown /\ broadcast[<<e, a>>] \in Nat
      BY <1>6, <2>2
    <3>6. broadcast[<<e, a>>] <= n
      BY <1>0, <2>6, <3>4, <3>5
    <3> QED BY <3>6
  <2>7. n = 0 \/ n \in 1..(rules.relay - 1) \/ n = Unknown
    BY <1>0, <2>1
  <2> QED BY <2>1, <2>4, <2>5, <2>6, <2>7
<1>8. Ages(p)' \subseteq Nat /\ Ages(p)' # {}
  BY <1>0, <1>5 DEF Ages
<1>9. heard \subseteq Nat /\ heard # {}
  <2>1. d \in Sources(d, hear)
    BY <1>1 DEF Sources
  <2> QED BY <1>6, <2>1
<1>10. Min(heard) \in heard /\ \A n \in heard : Min(heard) <= n
  BY <1>9, MinOf
<1>11. Min(heard) \in Ages(p)'
  BY <1>6, <1>10
<1>12. \A n \in Ages(p)' : Min(heard) <= n
  <2> SUFFICES ASSUME NEW n \in Ages(p)' PROVE Min(heard) <= n
    OBVIOUS
  <2>1. PICK e \in Sources(d, hear) : broadcast[<<e, a>>] <= n
    BY <1>7
  <2>2. broadcast[<<e, a>>] \in heard
    OBVIOUS
  <2>3. Min(heard) <= broadcast[<<e, a>>] /\ Min(heard) \in Nat /\ broadcast[<<e, a>>] \in Nat /\ n \in Nat
    BY <1>8, <1>9, <1>10, <2>2
  <2> QED BY <2>1, <2>3
<1>13. Min(Ages(p)') = Min(heard)
  <2> HIDE DEF heard
  <2> QED BY <1>8, <1>11, <1>12, MinIs
<1> QED BY <1>2, <1>13

\* A decision changes what is known and aimed at, and nothing of the fight.
LEMMA DefendersKeep == ClashInv /\ DefendersDecide => ClashInv'
<1> SUFFICES ASSUME ClashInv, DefendersDecide PROVE ClashInv'
  OBVIOUS
<1> USE DEF ClashInv
<1>0. /\ rules.relay \in Nat /\ rules.relay # 0 /\ Unknown = rules.relay
      /\ Team \subseteq Nat /\ Now \in Nat
  BY RuleTypes, NowType DEF ClashTypeOK, Unknown
<1>1. /\ UNCHANGED <<rules, steps, substep, done, guards, ammo, station, flying, killed, breached, endedAt, tEnd>>
      /\ phase' = "fly"
  BY DEF DefendersDecide
<1>2. Team' = Team /\ Foes' = Foes /\ Pairs' = Pairs /\ Now' = Now /\ Unknown' = Unknown
  BY <1>1 DEF Team, Foes, Pairs, Now, Unknown
<1>3. guards \subseteq Team /\ flying \subseteq Foes /\ guards \X flying \subseteq Pairs
  BY DEF LineExact, Fates, Pairs
<1>4. LineExact'
  BY <1>1, <1>2 DEF LineExact, PlaceAmong, Fired
<1>5. CASE UNCHANGED <<firstSeen, tracks, reports, target>>
  <2>1. ClashTypeOK'
    BY <1>1, <1>2, <1>5 DEF ClashTypeOK
  <2>2. Fates'
    BY <1>1, <1>2, <1>5 DEF Fates
  <2>3. SightingsExact'
    BY <1>1, <1>2, <1>5 DEF SightingsExact
  <2> QED BY <1>4, <2>1, <2>2, <2>3
<1>6. ASSUME NEW seen \in SUBSET (guards \X flying), NEW hear \in SUBSET Hearable,
             firstSeen' = Sighted(seen), tracks' = NewTracks(seen, hear), reports' = Heard(seen, hear),
             target' \in [Team -> Foes \cup {Nobody}],
             \A d \in Team : IF done \/ d \notin guards THEN target'[d] = target[d]
                             ELSE target'[d] = Nobody \/ <<d, target'[d]>> \in Known(seen, hear)
      PROVE  ClashInv'
  <2>1. firstSeen' \in [Foes -> Nat \cup {NoTime}]
    BY <1>0, <1>6 DEF Sighted, ClashTypeOK
  <2>2. reports' \in [0..(rules.relay - 1) -> SUBSET Pairs]
    <3>1. DOMAIN reports = 0..(rules.relay - 1)
      BY DEF ClashTypeOK
    <3> DEFINE onward(set) == (set \cup Shared(set, hear)) \cap (guards \X flying)
    <3>2. \A set : onward(set) \subseteq Pairs
      BY <1>3
    <3>3. reports' = [n \in DOMAIN reports |-> onward(IF n = 0 THEN seen ELSE reports[n - 1])]
      BY <1>6 DEF Heard
    <3> HIDE DEF onward
    <3> QED BY <3>1, <3>2, <3>3
  <2>3. ASSUME rules.relay > 1
        PROVE  /\ \A p \in guards \X flying : tracks'[p] = Min(Ages(p)')
               /\ tracks' \in [Pairs -> 0..Unknown]
    <3>1. tracks' = [p \in Pairs |-> IF p \in guards \X flying THEN RelayTracks(seen, hear)[p] ELSE Unknown]
      BY <1>6, <2>3 DEF NewTracks
    <3>2. \A q \in guards \X flying : tracks[q] = Min(Ages(q))
      BY <2>3 DEF SightingsExact, Ages
    <3>3. ASSUME NEW p \in guards \X flying
          PROVE  RelayTracks(seen, hear)[p] = Min(Ages(p)')
      BY <1>1, <1>3, <1>6, <3>2, RelayExact
    <3>4. ASSUME NEW p \in guards \X flying
          PROVE  Min(Ages(p)') \in 0..Unknown
      <4>1. Ages(p)' \subseteq 0..Unknown /\ Ages(p)' # {}
        BY <1>0, <1>2, <2>2 DEF Ages
      <4>2. 0..Unknown \subseteq Nat
        BY <1>0
      <4> HIDE DEF Ages
      <4>3. Min(Ages(p)') \in Ages(p)'
        BY <4>1, <4>2, MinOf
      <4> QED BY <4>1, <4>3
    <3>5. Unknown \in 0..Unknown
      BY <1>0
    <3>6. \A p \in guards \X flying : tracks'[p] = Min(Ages(p)')
      BY <1>3, <3>1, <3>3
    <3>7. \A p \in Pairs : (IF p \in guards \X flying THEN RelayTracks(seen, hear)[p] ELSE Unknown) \in 0..Unknown
      BY <3>3, <3>4, <3>5
    <3> QED BY <3>1, <3>6, <3>7
  <2>4. tracks' \in [Pairs -> 0..Unknown]
    <3>1. CASE rules.relay = 1
      BY <1>6, <3>1 DEF NewTracks, ClashTypeOK
    <3>2. CASE rules.relay # 1
      BY <1>0, <2>3, <3>2
    <3> QED BY <3>1, <3>2
  <2>5. ClashTypeOK'
    BY <1>1, <1>2, <1>6, <2>1, <2>2, <2>4 DEF ClashTypeOK
  <2>6. Fates'
    <3>1. \A x \in flying : firstSeen'[x] = firstSeen[x] \/ firstSeen'[x] = Now
      BY <1>3, <1>6 DEF Sighted
    <3>2. \A x \in Foes \ flying : firstSeen'[x] = firstSeen[x]
      BY <1>6 DEF Sighted
    <3>3. \A x \in flying : endedAt'[x] = NoTime /\ firstSeen'[x] <= Now'
      BY <1>0, <1>1, <1>2, <3>1 DEF Fates
    <3> QED BY <1>1, <1>2, <3>2, <3>3 DEF Fates
  <2>7. ASSUME ~done, NEW d \in guards, target'[d] # Nobody
        PROVE  \E n \in DOMAIN reports' : <<d, target'[d]>> \in reports'[n]
    <3>1. <<d, target'[d]>> \in Known(seen, hear)
      BY <1>3, <1>6, <2>7
    <3>2. DOMAIN reports' = 0..(rules.relay - 1)
      BY <2>2
    <3>3. CASE rules.relay = 1
      <4>1. <<d, target'[d]>> \in Shared(seen, hear)
        BY <3>1, <3>3 DEF Known
      <4>2. target'[d] \in flying
        BY <4>1 DEF Shared
      <4>3. 0 \in DOMAIN reports /\ 0 \in DOMAIN reports'
        BY <1>0, <3>2 DEF ClashTypeOK
      <4>4. reports'[0] = (seen \cup Shared(seen, hear)) \cap (guards \X flying)
        BY <1>6, <4>3 DEF Heard
      <4> QED BY <4>1, <4>2, <4>3, <4>4
    <3>4. CASE rules.relay # 1
      <4>0. PICK p \in Pairs : p = <<d, target'[d]>>
        BY <3>1, <3>4 DEF Known
      <4>1. p \in Pairs /\ tracks'[p] < Unknown
        BY <1>6, <3>1, <3>4, <4>0 DEF Known
      <4>2. p \in guards \X flying
        <5>1. tracks' = [q \in Pairs |-> IF q \in guards \X flying THEN RelayTracks(seen, hear)[q] ELSE Unknown]
          BY <1>6, <3>4 DEF NewTracks
        <5>2. p \notin guards \X flying => tracks'[p] = Unknown
          BY <4>1, <5>1
        <5> QED BY <1>0, <4>1, <5>2
      <4>3. tracks'[p] = Min(Ages(p)')
        BY <1>0, <2>3, <3>4, <4>2
      <4>4. Ages(p)' \subseteq Nat /\ Ages(p)' # {}
        BY <1>0, <1>2, <3>2 DEF Ages
      <4>5. tracks'[p] \in Ages(p)'
        BY <4>3, <4>4, MinOf
      <4>6. tracks'[p] \in DOMAIN reports' /\ p \in reports'[tracks'[p]]
        BY <1>0, <1>2, <4>1, <4>5 DEF Ages
      <4> QED BY <4>0, <4>6
    <3> QED BY <3>3, <3>4
  <2>8. SightingsExact'
    <3>1. rules'.relay > 1 => \A p \in (guards \X flying)' : tracks'[p] = Min(Ages(p)')
      BY <1>1, <2>3
    <3>2. ~done' => \A d \in guards' : target'[d] # Nobody => \E n \in DOMAIN reports' : <<d, target'[d]>> \in reports'[n]
      BY <1>1, <2>7
    <3> QED BY <3>1, <3>2 DEF SightingsExact, Ages
  <2> QED BY <1>4, <2>5, <2>6, <2>8
<1> QED BY <1>5, <1>6 DEF DefendersDecide

-----------------------------------------------------------------------------
\* A physics step.

\* A shot takes one attacker: those killed are no more than the shots.
LEMMA ShotsCount ==
  ASSUME NEW hits, NEW shots, IsFiniteSet(shots),
         NEW f, f \in [shots -> hits], \A x \in hits : \E s \in shots : f[s] = x
  PROVE  IsFiniteSet(hits) /\ Cardinality(hits) <= Cardinality(shots)
<1>1. f \in Surjection(shots, hits)
  BY DEF Surjection
<1> QED BY <1>1, FS_Surjection

LEMMA ClockTicks ==
  ASSUME ClashTypeOK,
         \/ substep + 1 = Substeps /\ substep' = 0 /\ steps' = steps + 1
         \/ substep' = substep + 1 /\ steps' = steps
  PROVE  Now' = Now + 1 /\ Now \in Nat
<1>1. steps \in Nat /\ substep \in Nat /\ Substeps \in Nat /\ Now \in Nat
  BY NowType DEF ClashTypeOK
<1>2. (steps + 1) * Substeps = steps * Substeps + Substeps /\ steps * Substeps \in Nat
  BY <1>1
<1>3. CASE substep + 1 = Substeps /\ substep' = 0 /\ steps' = steps + 1
  <2>1. Now' = steps * Substeps + Substeps + 0
    BY <1>2, <1>3 DEF Now
  <2> QED BY <1>1, <1>2, <1>3, <2>1 DEF Now
<1>4. CASE substep' = substep + 1 /\ steps' = steps
  <2>1. Now' = steps * Substeps + (substep + 1)
    BY <1>4 DEF Now
  <2> QED BY <1>1, <1>2, <2>1 DEF Now
<1> QED BY <1>1, <1>3, <1>4

LEMMA FlyKeeps == ClashInv /\ Fly => ClashInv'
<1> SUFFICES ASSUME ClashInv, Fly PROVE ClashInv'
  OBVIOUS
<1> USE DEF ClashInv
<1>0. /\ rules.shots \in Nat /\ rules.shots # 0 /\ Now \in Nat /\ Substeps \in Nat
      /\ IsFiniteSet(Foes) /\ IsFiniteSet(Team)
  BY RuleTypes, NowType DEF ClashTypeOK
<1>1. PICK shot \in [Team -> flying \cup {Nobody}], crossed \in SUBSET flying :
       LET fired == {d \in Team : shot[d] # Nobody}
           hit == {shot[d] : d \in fired}
           spent == {d \in fired : SpentBy(d)}
           time == Now + 1
           last == substep + 1 = Substeps
           ends == last /\ ~done /\ (flying' = {} \/ steps + 1 = Duration)
       IN  /\ fired \subseteq Fighting
           /\ crossed \subseteq Crossers(hit) /\ (done => crossed = {})
           /\ target' = [d \in Team |-> IF target[d] \in flying THEN target[d] ELSE Nobody]
           /\ killed' = killed \cup hit /\ breached' = breached \cup crossed
           /\ flying' = flying \ (hit \cup crossed)
           /\ endedAt' = [a \in Foes |-> IF a \in hit \cup crossed THEN time ELSE endedAt[a]]
           /\ ammo' = [d \in Team |-> IF d \in fired THEN ammo[d] - 1 ELSE ammo[d]]
           /\ guards' = guards \ spent
           /\ station' = IF spent # {} THEN Stations(guards \ spent) ELSE station
           /\ substep' = (IF last THEN 0 ELSE substep + 1)
           /\ steps' = (IF last THEN steps + 1 ELSE steps)
           /\ phase' = (IF last THEN "decide" ELSE "fly")
           /\ done' = (done \/ ends)
           /\ tEnd' = IF ends THEN time ELSE tEnd
  BY Zenon DEF Fly
<1> DEFINE fired == {d \in Team : shot[d] # Nobody}
           hit == {shot[d] : d \in fired}
           spent == {d \in fired : SpentBy(d)}
           last == substep + 1 = Substeps
           ends == last /\ ~done /\ (flying' = {} \/ steps + 1 = Duration)
<1>2. UNCHANGED <<rules, firstSeen, tracks, reports>>
  BY DEF Fly
<1>3. Team' = Team /\ Foes' = Foes /\ Pairs' = Pairs /\ Unknown' = Unknown
  BY <1>2 DEF Team, Foes, Pairs, Unknown
<1>4. /\ fired \subseteq Team /\ fired \subseteq guards /\ (done => fired = {})
      /\ \A d \in fired : ammo[d] \in 1..rules.shots
  <2>1. fired \subseteq Fighting
    BY <1>1
  <2>2. fired \subseteq guards /\ (done => fired = {})
    BY <2>1 DEF Fighting
  <2>3. \A d \in guards : d \in Team /\ ammo[d] \in 0..rules.shots /\ ammo[d] > 0
    BY DEF LineExact, ClashTypeOK
  <2> HIDE DEF fired
  <2>4. \A d \in fired : ammo[d] \in 1..rules.shots
    BY <1>0, <2>2, <2>3
  <2> QED BY <2>2, <2>3, <2>4
<1>5. /\ hit \subseteq flying /\ crossed \subseteq flying /\ hit \cap crossed = {}
      /\ (done => hit = {} /\ crossed = {})
  <2>1. hit \subseteq flying
    OBVIOUS
  <2>2. crossed \subseteq flying \ hit /\ (done => crossed = {})
    BY <1>1 DEF Crossers
  <2> QED BY <1>4, <2>1, <2>2
<1>6. /\ target' = [d \in Team |-> IF target[d] \in flying THEN target[d] ELSE Nobody]
      /\ killed' = killed \cup hit /\ breached' = breached \cup crossed
      /\ flying' = flying \ (hit \cup crossed)
      /\ endedAt' = [a \in Foes |-> IF a \in hit \cup crossed THEN Now + 1 ELSE endedAt[a]]
      /\ ammo' = [d \in Team |-> IF d \in fired THEN ammo[d] - 1 ELSE ammo[d]]
      /\ guards' = guards \ spent
      /\ station' = IF spent # {} THEN Stations(guards \ spent) ELSE station
  BY <1>1
<1>7. /\ substep' = (IF last THEN 0 ELSE substep + 1)
      /\ steps' = (IF last THEN steps + 1 ELSE steps)
      /\ phase' = (IF last THEN "decide" ELSE "fly")
      /\ done' = (done \/ ends)
      /\ tEnd' = IF ends THEN Now + 1 ELSE tEnd
  BY <1>1
<1> HIDE DEF last, ends, hit
<1>8. Now' = Now + 1
  BY <1>7, ClockTicks DEF last
<1>9. flying \subseteq Foes /\ hit \subseteq Foes /\ crossed \subseteq Foes
  BY <1>5 DEF Fates
<1>10. ammo' \in [Team -> 0..rules.shots]
  <2>1. ASSUME NEW d \in Team PROVE (IF d \in fired THEN ammo[d] - 1 ELSE ammo[d]) \in 0..rules.shots
    <3>1. ammo[d] \in 0..rules.shots
      BY DEF ClashTypeOK
    <3>2. d \in fired => ammo[d] \in 1..rules.shots
      BY <1>4
    <3> HIDE DEF fired
    <3> QED BY <1>0, <3>1, <3>2
  <2> QED BY <1>6, <2>1
<1>11. ClashTypeOK'
  <2>1. phase' \in {"decide", "fly"} /\ done' \in BOOLEAN
    <3>1. done' \in BOOLEAN
      BY <1>7, Zenon DEF ends
    <3> QED BY <1>7, <3>1
  <2>2. steps' \in Nat /\ substep' \in Nat /\ tEnd' \in Nat \cup {NoTime}
    BY <1>0, <1>7 DEF ClashTypeOK
  <2>3. target' \in [Team -> Foes \cup {Nobody}]
    BY <1>6, <1>9
  <2>4. endedAt' \in [Foes -> Nat \cup {NoTime}]
    <3>1. Now + 1 \in Nat
      BY <1>0
    <3> QED BY <1>6, <3>1 DEF ClashTypeOK
  <2>5. killed' \subseteq Foes /\ breached' \subseteq Foes
    BY <1>6, <1>9 DEF ClashTypeOK
  <2> QED BY <1>2, <1>3, <1>10, <2>1, <2>2, <2>3, <2>4, <2>5 DEF ClashTypeOK
<1>12. Fates'
  <2>1. killed' \cap breached' = {} /\ flying' = Foes \ (killed' \cup breached')
    BY <1>5, <1>6, <1>9 DEF Fates
  <2>2. ASSUME NEW a \in flying'
        PROVE  endedAt'[a] = NoTime /\ firstSeen'[a] <= Now'
    <3>1. a \in flying /\ a \in Foes /\ a \notin hit \cup crossed
      BY <1>6, <1>9, <2>2
    <3>2. endedAt'[a] = NoTime /\ firstSeen[a] <= Now
      BY <1>6, <3>1 DEF Fates
    <3>3. firstSeen[a] \in Int
      BY <3>1 DEF ClashTypeOK, NoTime
    <3> QED BY <1>0, <1>2, <1>8, <3>2, <3>3
  <2>3. ASSUME NEW a \in Foes \ flying'
        PROVE  /\ endedAt'[a] \in Nat /\ endedAt'[a] <= Now' /\ firstSeen'[a] < endedAt'[a]
               /\ done' => endedAt'[a] <= tEnd'
    <3>0. firstSeen[a] \in Int
      BY DEF ClashTypeOK, NoTime
    <3>1. CASE a \in hit \cup crossed
      <4>1. endedAt'[a] = Now + 1 /\ firstSeen[a] <= Now
        BY <1>5, <1>6, <3>1 DEF Fates
      <4>2. ~done
        BY <1>5, <3>1
      <4>3. done' => tEnd' = Now + 1
        BY <1>7, <4>2
      <4> QED BY <1>0, <1>2, <1>8, <3>0, <4>1, <4>3
    <3>2. CASE a \notin hit \cup crossed
      <4>1. a \notin flying
        BY <1>6, <2>3, <3>2
      <4>2. /\ endedAt[a] \in Nat /\ endedAt[a] <= Now /\ firstSeen[a] < endedAt[a]
            /\ done => endedAt[a] <= tEnd
        BY <4>1 DEF Fates
      <4>3. endedAt'[a] = endedAt[a]
        BY <1>6, <3>2
      <4>4. done' => endedAt'[a] <= tEnd'
        <5>1. CASE ends
          BY <1>0, <1>7, <4>2, <4>3, <5>1
        <5>2. CASE ~ends
          BY <1>7, <4>2, <4>3, <5>2
        <5> QED BY <5>1, <5>2
      <4> QED BY <1>0, <1>2, <1>8, <4>2, <4>3, <4>4
    <3> QED BY <3>1, <3>2
  <2> QED BY <1>3, <2>1, <2>2, <2>3 DEF Fates
<1>13. IsFiniteSet(killed) /\ IsFiniteSet(killed') /\ IsFiniteSet(hit)
       /\ Cardinality(killed) \in Nat /\ Cardinality(killed') \in Nat /\ Cardinality(killed) <= Cardinality(killed')
  <2>1. killed \subseteq Foes /\ killed' \subseteq Foes
    BY <1>3, <1>11 DEF ClashTypeOK
  <2>2. IsFiniteSet(killed) /\ IsFiniteSet(killed') /\ IsFiniteSet(hit)
    BY <1>0, <1>9, <2>1, FS_Subset
  <2>3. killed \in SUBSET killed'
    BY <1>6
  <2> QED BY <2>2, <2>3, FS_Subset, FS_CardinalityType
<1>14. guards' = {d \in Team : ammo'[d] > 0}
  <2>1. ASSUME NEW d \in Team PROVE d \in guards' <=> ammo'[d] > 0
    <3>1. ammo[d] \in 0..rules.shots /\ (d \in guards <=> ammo[d] > 0)
      BY DEF ClashTypeOK, LineExact
    <3>2. CASE d \in fired
      <4>1. d \in guards /\ ammo'[d] = ammo[d] - 1 /\ (d \in spent <=> ammo[d] = 1)
        BY <1>4, <1>6, <3>2 DEF SpentBy
      <4>2. ammo[d] \in Nat /\ ammo[d] > 0
        BY <3>1, <4>1
      <4> QED BY <1>6, <4>1, <4>2
    <3>3. CASE d \notin fired
      BY <1>6, <3>1, <3>3
    <3> QED BY <3>2, <3>3
  <2>2. guards' \subseteq Team
    BY <1>6 DEF LineExact
  <2> QED BY <2>1, <2>2
<1>15. \A d \in guards' : station'[d] = PlaceAmong(guards', d)
  <2>1. guards \subseteq Team
    BY DEF LineExact
  <2>2. CASE spent = {}
    BY <1>6, <2>2 DEF LineExact
  <2>3. CASE spent # {}
    BY <1>6, <2>1, <2>3 DEF Stations, PlaceAmong
  <2> QED BY <2>2, <2>3
<1>16. ASSUME NEW d \in Team PROVE rules.shots - ammo'[d] <= Cardinality(killed')
  <2>1. ammo[d] \in Int /\ rules.shots - ammo[d] <= Cardinality(killed)
    BY DEF ClashTypeOK, LineExact
  <2>2. CASE d \in fired
    <3>1. shot[d] \in hit /\ ammo'[d] = ammo[d] - 1
      BY <1>6, <2>2 DEF hit
    <3>2. shot[d] \notin killed
      BY <1>5, <3>1 DEF Fates
    <3>3. Cardinality(killed \cup {shot[d]}) = Cardinality(killed) + 1
      BY <1>13, <3>2, FS_AddElement
    <3>4. killed \cup {shot[d]} \in SUBSET killed'
      BY <1>6, <3>1
    <3>5. Cardinality(killed \cup {shot[d]}) <= Cardinality(killed')
      BY <1>13, <3>4, FS_Subset
    <3> QED BY <1>0, <1>13, <2>1, <3>1, <3>3, <3>5
  <2>3. CASE d \notin fired
    BY <1>0, <1>6, <1>13, <2>1, <2>3
  <2> QED BY <2>2, <2>3
<1>17. Cardinality(killed') <= Cardinality(Fired')
  <2> DEFINE new == {<<d, ammo[d]>> : d \in fired}
             f == [s \in new |-> shot[s[1]]]
             All == Team \X (1..rules.shots)
  <2>1. new \subseteq All /\ Fired \subseteq All
    BY <1>4 DEF Fired
  <2>2. IsFiniteSet(All)
    <3>1. IsFiniteSet(1..rules.shots)
      BY <1>0, FS_Interval
    <3> QED BY <1>0, <3>1, FS_Product
  <2>3. Fired \cap new = {}
    <3> SUFFICES ASSUME NEW d \in fired, <<d, ammo[d]>> \in Fired PROVE FALSE
      OBVIOUS
    <3>1. ammo[d] > ammo[d] /\ ammo[d] \in Int
      BY <1>4 DEF Fired
    <3> QED BY <3>1
  <2>4. Fired' = Fired \cup new
    <3>1. Fired' = {s \in All : s[2] > ammo'[s[1]]}
      BY <1>2, <1>3 DEF Fired
    <3>2. ASSUME NEW s \in All PROVE s[2] > ammo'[s[1]] <=> s \in Fired \/ s \in new
      <4>1. PICK d \in Team, n \in 1..rules.shots : s = <<d, n>>
        OBVIOUS
      <4>2. s \in Fired <=> n > ammo[d]
        BY <4>1 DEF Fired
      <4>3. s \in new <=> d \in fired /\ n = ammo[d]
        BY <4>1
      <4>4. ammo[d] \in Int /\ ammo'[d] = IF d \in fired THEN ammo[d] - 1 ELSE ammo[d]
        BY <1>6 DEF ClashTypeOK
      <4> HIDE DEF new, fired
      <4>5. n > ammo'[d] <=> n > ammo[d] \/ (d \in fired /\ n = ammo[d])
        BY <4>4
      <4> QED BY <4>1, <4>2, <4>3, <4>5
    <3> QED BY <2>1, <3>1, <3>2
  <2>5. IsFiniteSet(Fired) /\ IsFiniteSet(new)
    BY <2>1, <2>2, FS_Subset
  <2>6. Cardinality(Fired') = Cardinality(Fired) + Cardinality(new)
    <3>1. Cardinality(Fired \cap new) = 0
      BY <2>3, FS_EmptySet
    <3>2. Cardinality(Fired \cup new) = Cardinality(Fired) + Cardinality(new) - Cardinality(Fired \cap new)
      BY <2>5, FS_Union
    <3>3. Cardinality(Fired) \in Nat /\ Cardinality(new) \in Nat
      BY <2>5, FS_CardinalityType
    <3> QED BY <2>4, <3>1, <3>2, <3>3
  <2>7. Cardinality(hit) <= Cardinality(new)
    <3>1. f \in [new -> hit]
      BY DEF hit
    <3>2. \A x \in hit : \E s \in new : f[s] = x
      <4> SUFFICES ASSUME NEW d \in fired PROVE \E s \in new : f[s] = shot[d]
        BY DEF hit
      <4>1. <<d, ammo[d]>> \in new /\ f[<<d, ammo[d]>>] = shot[d]
        OBVIOUS
      <4> QED BY <4>1
    <3> HIDE DEF f, new
    <3> QED BY <2>5, <3>1, <3>2, ShotsCount
  <2>8. Cardinality(killed') <= Cardinality(killed) + Cardinality(hit)
    <3>1. Cardinality(killed \cup hit) = Cardinality(killed) + Cardinality(hit) - Cardinality(killed \cap hit)
      BY <1>13, FS_Union
    <3>2. IsFiniteSet(killed \cap hit)
      BY <1>13, FS_Intersection
    <3>3. Cardinality(killed \cap hit) \in Nat /\ Cardinality(hit) \in Nat
      BY <1>13, <3>2, FS_CardinalityType
    <3> QED BY <1>6, <1>13, <3>1, <3>3
  <2>9. Cardinality(Fired) \in Nat /\ Cardinality(new) \in Nat /\ Cardinality(hit) \in Nat
    BY <1>13, <2>5, FS_CardinalityType
  <2>10. Cardinality(killed) <= Cardinality(Fired)
    BY DEF LineExact
  <2> HIDE DEF new
  <2> QED BY <1>13, <2>6, <2>7, <2>8, <2>9, <2>10
<1>18. LineExact'
  BY <1>2, <1>3, <1>14, <1>15, <1>16, <1>17 DEF LineExact
<1>19. SightingsExact'
  <2>1. guards' \subseteq guards /\ flying' \subseteq flying /\ (~done' => ~done)
    BY <1>6, <1>7
  <2>2. \A d \in guards' : d \in Team
    BY <2>1 DEF LineExact
  <2>3. \A d \in guards' : target'[d] # Nobody => target'[d] = target[d]
    BY <1>6, <2>2
  <2>4. rules'.relay > 1 => \A p \in (guards \X flying)' :
           tracks'[p] = Min({n \in DOMAIN reports' : p \in reports'[n]} \cup {Unknown'})
    BY <1>2, <1>3, <2>1 DEF SightingsExact
  <2>5. ~done' => \A d \in guards' : target'[d] # Nobody => \E n \in DOMAIN reports' : <<d, target'[d]>> \in reports'[n]
    BY <1>2, <2>1, <2>3 DEF SightingsExact
  <2> QED BY <2>4, <2>5 DEF SightingsExact
<1> QED BY <1>11, <1>12, <1>18, <1>19

-----------------------------------------------------------------------------
\* The places of those that are alive are those from first to last, in their
\* order.
LEMMA PlacesInOrder ==
  ASSUME NEW alive, alive \subseteq Nat, IsFiniteSet(alive)
  PROVE  /\ \A d, e \in alive : d < e => PlaceAmong(alive, d)[1] < PlaceAmong(alive, e)[1]
         /\ {PlaceAmong(alive, d) : d \in alive} =
               {<<n, Cardinality(alive)>> : n \in 0..(Cardinality(alive) - 1)}
<1> DEFINE size == Cardinality(alive)
           before(d) == {e \in alive : e <= d}
           place(d) == Cardinality(before(d)) - 1
<1>1. size \in Nat
  BY FS_CardinalityType
<1>2. ASSUME NEW d \in alive
      PROVE  /\ IsFiniteSet(before(d)) /\ Cardinality(before(d)) \in Nat
             /\ Cardinality(before(d)) >= 1 /\ Cardinality(before(d)) <= size
  <2>1. before(d) \in SUBSET alive /\ d \in before(d)
    OBVIOUS
  <2> HIDE DEF before
  <2>2. IsFiniteSet(before(d)) /\ Cardinality(before(d)) <= size
    BY <2>1, FS_Subset
  <2>3. Cardinality(before(d)) \in Nat /\ Cardinality(before(d)) # 0
    BY <2>1, <2>2, FS_CardinalityType, FS_EmptySet
  <2> QED BY <2>2, <2>3
<1>3. ASSUME NEW d \in alive, NEW e \in alive, d < e
      PROVE  place(d) < place(e)
  <2>1. before(d) \in SUBSET before(e) /\ e \in before(e) /\ e \notin before(d)
    <3>1. d \in Nat /\ e \in Nat /\ d < e
      BY <1>3
    <3>2. \A x \in alive : x \in Nat /\ (x <= d => x <= e)
      BY <3>1
    <3>3. e <= e /\ ~(e <= d)
      BY <3>1
    <3> QED BY <3>2, <3>3
  <2>2. IsFiniteSet(before(e)) /\ Cardinality(before(d)) \in Nat /\ Cardinality(before(e)) \in Nat
    BY <1>2
  <2> HIDE DEF before
  <2>3. Cardinality(before(d)) <= Cardinality(before(e)) /\ Cardinality(before(d)) # Cardinality(before(e))
    BY <2>1, <2>2, FS_Subset
  <2> QED BY <2>2, <2>3
<1>4. \A d \in alive : place(d) \in 0..(size - 1)
  BY <1>1, <1>2
<1>5. ASSUME NEW n \in 0..(size - 1)
      PROVE  \E d \in alive : place(d) = n
  <2> DEFINE f == [d \in alive |-> place(d)]
  <2> HIDE DEF size, place
  <2>1. f \in [alive -> 0..(size - 1)]
    BY <1>4
  <2>2. \A d, e \in alive : f[d] = f[e] => d = e
    <3> SUFFICES ASSUME NEW d \in alive, NEW e \in alive, f[d] = f[e], d # e PROVE FALSE
      OBVIOUS
    <3>1. d < e \/ e < d
      OBVIOUS
    <3>2. place(d) = place(e) /\ place(d) \in 0..(size - 1)
      BY <1>4
    <3>3. place(d) < place(e) \/ place(e) < place(d)
      BY <1>3, <3>1
    <3> QED BY <1>1, <3>2, <3>3
  <2>3. f \in Injection(alive, 0..(size - 1))
    BY <2>1, <2>2 DEF Injection, IsInjective
  <2>4. IsFiniteSet(0..(size - 1)) /\ Cardinality(0..(size - 1)) = size
    <3>1. 0 \in Int /\ size - 1 \in Int
      BY <1>1
    <3> QED BY <1>1, <3>1, FS_Interval
  <2>5. f \in Surjection(alive, 0..(size - 1))
    <3>1. Cardinality(alive) = Cardinality(0..(size - 1))
      BY <2>4 DEF size
    <3> QED BY <2>3, <2>4, <3>1, FS_Injection
  <2>6. PICK d \in alive : f[d] = n
    BY <2>5 DEF Surjection
  <2> QED BY <2>6
<1>6. \A d \in alive : PlaceAmong(alive, d) = <<place(d), size>>
  BY DEF PlaceAmong
<1> HIDE DEF place, size
<1>7. \A d, e \in alive : d < e => PlaceAmong(alive, d)[1] < PlaceAmong(alive, e)[1]
  BY <1>3, <1>6
<1>8. {PlaceAmong(alive, d) : d \in alive} = {<<n, size>> : n \in 0..(size - 1)}
  BY <1>4, <1>5, <1>6
<1> QED BY <1>7, <1>8 DEF size

\* Everybody's end is a number, and those that ended add up.
LEMMA FatesHold == ClashInv => FatesExact
<1> SUFFICES ASSUME ClashInv PROVE FatesExact
  OBVIOUS
<1> USE DEF ClashInv
<1>0. /\ IsFiniteSet(Foes) /\ killed \in SUBSET Foes /\ breached \in SUBSET Foes
      /\ killed \cap breached = {} /\ flying = Foes \ (killed \cup breached)
  BY RuleTypes DEF ClashTypeOK, Fates
<1>1. ASSUME NEW a \in Foes
      PROVE  (endedAt[a] = NoTime) = (a \in flying) /\ (done => endedAt[a] <= tEnd)
  <2>1. CASE a \in flying
    <3>1. endedAt[a] = NoTime /\ tEnd \in Nat \cup {NoTime}
      BY <2>1 DEF Fates, ClashTypeOK
    <3> QED BY <2>1, <3>1 DEF NoTime
  <2>2. CASE a \notin flying
    <3>1. endedAt[a] \in Nat /\ (done => endedAt[a] <= tEnd)
      BY <2>2 DEF Fates
    <3> QED BY <2>2, <3>1 DEF NoTime
  <2> QED BY <2>1, <2>2
<1>2. Outcome.held = Cardinality(flying)
  <2>1. IsFiniteSet(killed) /\ IsFiniteSet(breached) /\ IsFiniteSet(killed \cup breached)
    BY <1>0, FS_Subset, FS_Union
  <2>2. Cardinality(killed \cap breached) = 0
    BY <1>0, FS_EmptySet
  <2>3. Cardinality(killed \cup breached) = Cardinality(killed) + Cardinality(breached) - 0
    BY <2>1, <2>2, FS_Union
  <2>4. Foes \cap (killed \cup breached) = killed \cup breached
    BY <1>0
  <2>5. Cardinality(flying) = Cardinality(Foes) - Cardinality(killed \cup breached)
    BY <1>0, <2>4, FS_Difference
  <2>6. Cardinality(killed) \in Nat /\ Cardinality(breached) \in Nat /\ Cardinality(Foes) \in Nat
    BY <1>0, <2>1, FS_CardinalityType
  <2>7. Outcome.held = Cardinality(Foes) - Cardinality(killed) - Cardinality(breached)
    BY DEF Outcome
  <2> QED BY <2>3, <2>5, <2>6, <2>7
<1>3. \A n \in Outcome.reactions : n > 0
  <2> SUFFICES ASSUME NEW a \in killed, firstSeen[a] # NoTime
               PROVE  endedAt[a] - firstSeen[a] > 0
    BY DEF Outcome
  <2>1. a \in Foes /\ a \notin flying
    BY <1>0
  <2>2. endedAt[a] \in Nat /\ firstSeen[a] < endedAt[a] /\ firstSeen[a] \in Nat
    BY <2>1 DEF Fates, ClashTypeOK
  <2> QED BY <2>2
<1> QED BY <1>0, <1>1, <1>2, <1>3 DEF FatesExact

LEMMA LineHolds == ClashInv => LineHeld
<1> SUFFICES ASSUME ClashInv PROVE LineHeld
  OBVIOUS
<1> USE DEF ClashInv
<1>0. /\ IsFiniteSet(Team) /\ Team \subseteq Nat /\ guards \in SUBSET Team
      /\ \A d \in guards : station[d] = PlaceAmong(guards, d)
  BY RuleTypes DEF ClashTypeOK, LineExact
<1>1. guards \subseteq Nat /\ IsFiniteSet(guards)
  BY <1>0, FS_Subset
<1>2. /\ \A d, e \in guards : d < e => PlaceAmong(guards, d)[1] < PlaceAmong(guards, e)[1]
      /\ {PlaceAmong(guards, d) : d \in guards} =
            {<<n, Cardinality(guards)>> : n \in 0..(Cardinality(guards) - 1)}
  BY <1>1, PlacesInOrder
<1>3. Range([d \in guards |-> station[d]]) = {PlaceAmong(guards, d) : d \in guards}
  BY <1>0 DEF Range
<1>4. \A d, e \in guards : d < e => station[d][1] < station[e][1]
  BY <1>0, <1>2
<1>5. \A d \in Team : ammo[d] >= 0
  BY RuleTypes DEF ClashTypeOK
<1> QED BY <1>2, <1>3, <1>4, <1>5 DEF LineHeld, LineExact

\* For any rules, any number of attackers and any flight: every attacker has
\* one fate and one time of it, no shot is lost or counted twice, those left
\* guard the whole line in order, and what a relayed table says is the age of
\* the freshest report that can have come through the mesh (step, _engagements,
\* summary of arena/clash.py; relay_tracks of arena/core.py).
THEOREM EngagementsAreExact == ClashSpec => []EngagementsExact
<1>1. ClashInv /\ [ClashNext]_clashVars => ClashInv'
  <2> SUFFICES ASSUME ClashInv, [ClashNext]_clashVars PROVE ClashInv'
    OBVIOUS
  <2>1. CASE UNCHANGED clashVars
    <3>1. /\ rules' = rules /\ Now' = Now /\ Team' = Team /\ Foes' = Foes /\ Pairs' = Pairs
          /\ Unknown' = Unknown /\ Fired' = Fired
      BY <2>1 DEF clashVars, Now, Team, Foes, Pairs, Unknown, Fired
    <3>2. ClashTypeOK'
      BY <2>1, <3>1 DEF clashVars, ClashInv, ClashTypeOK
    <3>3. Fates'
      BY <2>1, <3>1 DEF clashVars, ClashInv, Fates
    <3>4. LineExact'
      BY <2>1, <3>1 DEF clashVars, ClashInv, LineExact, PlaceAmong
    <3>5. SightingsExact'
      BY <2>1, <3>1 DEF clashVars, ClashInv, SightingsExact
    <3> QED BY <3>2, <3>3, <3>4, <3>5 DEF ClashInv
  <2>2. CASE ClashNext
    BY <2>2, DefendersKeep, FlyKeeps DEF ClashNext
  <2> QED BY <2>1, <2>2
<1>2. ClashInv => EngagementsExact
  BY FatesHold, LineHolds DEF ClashInv, EngagementsExact
<1> QED BY ClashStart, <1>1, <1>2, PTL DEF ClashSpec

-----------------------------------------------------------------------------
(* A generation of a training, and the processes that share it.            *)

\* A share is rounded by half at most, so that it is exact where it is even.
LEMMA ShareIsNear ==
  ASSUME NEW i \in Nat, NEW n \in Nat, NEW k \in Nat \ {0}
  PROVE  /\ RoundedShare(i, n, k) \in Nat
         /\ 2 * (k * RoundedShare(i, n, k)) <= 2 * (i * n) + k
         /\ 2 * (i * n) <= 2 * (k * RoundedShare(i, n, k)) + k
<1> DEFINE x == i * n
           q == x \div k
           r == x % k
<1>1. x \in Nat
  OBVIOUS
<1> HIDE DEF x
<1>2. q \in Nat /\ r \in 0..(k - 1) /\ x = q * k + r
  BY <1>1, DivMod
<1>3. RoundedShare(i, n, k) = IF 2 * r > k \/ (2 * r = k /\ q % 2 = 1) THEN q + 1 ELSE q
  BY DEF RoundedShare, x
<1> HIDE DEF q, r
<1>4. q * k \in Nat /\ k * q = q * k /\ k * (q + 1) = q * k + k
  BY <1>2
<1>5. CASE RoundedShare(i, n, k) = q + 1 /\ 2 * r >= k
  BY <1>1, <1>2, <1>4, <1>5 DEF x
<1>6. CASE RoundedShare(i, n, k) = q /\ 2 * r <= k
  BY <1>1, <1>2, <1>4, <1>6 DEF x
<1>7. (RoundedShare(i, n, k) = q + 1 /\ 2 * r >= k) \/ (RoundedShare(i, n, k) = q /\ 2 * r <= k)
  BY <1>2, <1>3
<1> QED BY <1>5, <1>6, <1>7

\* The shares of k processes start at none and end with all, and one is as
\* large as the others or has one more.
LEMMA SharesAreEven ==
  ASSUME NEW n \in Nat, NEW k \in Nat \ {0}
  PROVE  /\ RoundedShare(0, n, k) = 0 /\ RoundedShare(k, n, k) = n
         /\ \A i \in 1..k :
               LET size == RoundedShare(i, n, k) - RoundedShare(i - 1, n, k)
               IN  size \in (n \div k)..(n \div k + 1)
<1> DEFINE R(i) == RoundedShare(i, n, k)
           q == n \div k
           r == n % k
<1>1. q \in Nat /\ r \in 0..(k - 1) /\ n = q * k + r
  BY DivMod
<1> HIDE DEF q, r
<1>2. \A i \in Nat : R(i) \in Nat /\ 2 * (k * R(i)) <= 2 * (i * n) + k /\ 2 * (i * n) <= 2 * (k * R(i)) + k
  BY ShareIsNear
<1> HIDE DEF R
\* Numbers as near as that are equal.
<1>3. ASSUME NEW a \in Nat, NEW b \in Nat, 2 * (k * a) <= 2 * (k * b) + k, 2 * (k * b) <= 2 * (k * a) + k
      PROVE  a = b
  <2>1. ASSUME NEW u \in Nat, NEW v \in Nat, 2 * (k * u) <= 2 * (k * v) + k, v + 1 <= u PROVE FALSE
    <3>1. k * (v + 1) <= k * u
      BY <2>1
    <3>2. k * (v + 1) = k * v + k /\ k * v \in Nat /\ k * u \in Nat
      OBVIOUS
    <3> QED BY <2>1, <3>1, <3>2
  <2> QED BY <1>3, <2>1
<1>4. R(0) = 0
  <2>1. 0 * n = 0 /\ k * 0 = 0 /\ 0 \in Nat
    OBVIOUS
  <2>2. 2 * (k * R(0)) <= k /\ R(0) \in Nat
    BY <1>2, <2>1
  <2> QED BY <1>3, <2>1, <2>2
<1>5. R(k) = n
  <2>1. R(k) \in Nat /\ 2 * (k * R(k)) <= 2 * (k * n) + k /\ 2 * (k * n) <= 2 * (k * R(k)) + k
    BY <1>2
  <2> QED BY <1>3, <2>1
<1>6. ASSUME NEW i \in 1..k PROVE R(i) - R(i - 1) \in q..(q + 1)
  <2> DEFINE a == R(i - 1)
             b == R(i)
             x == (i - 1) * n
  <2>1. a \in Nat /\ b \in Nat /\ x \in Nat /\ i * n = x + n /\ i - 1 \in Nat /\ i \in Nat
    BY <1>2
  <2>2. 2 * (k * a) <= 2 * x + k /\ 2 * x <= 2 * (k * a) + k
    BY <1>2, <2>1
  <2>3. 2 * (k * b) <= 2 * (x + n) + k /\ 2 * (x + n) <= 2 * (k * b) + k
    <3>1. 2 * (k * b) <= 2 * (i * n) + k /\ 2 * (i * n) <= 2 * (k * b) + k
      BY <1>2, <2>1
    <3> QED BY <2>1, <3>1
  <2> HIDE DEF a, b, x
  <2>4. k * a \in Nat /\ k * b \in Nat /\ q * k \in Nat
    BY <1>1, <2>1
  <2>5. CASE r = 0
    \* Every bound is a whole number of shares.
    <3> DEFINE e == (i - 1) * q
    <3>1. e \in Nat /\ x = k * e /\ x + n = k * (e + q)
      <4>1. (i - 1) * (q * k) = k * ((i - 1) * q) /\ n = q * k
        BY <1>1, <2>1, <2>5
      <4>2. e \in Nat /\ x = k * e
        BY <1>1, <2>1, <4>1 DEF x
      <4>3. k * (e + q) = k * e + k * q /\ k * q = q * k
        BY <1>1, <4>2
      <4> QED BY <4>1, <4>2, <4>3
    <3> HIDE DEF e
    <3>2. a = e
      BY <1>3, <2>1, <2>2, <3>1
    <3>3. b = e + q
      <4>1. e + q \in Nat
        BY <1>1, <3>1
      <4> QED BY <1>3, <2>1, <2>3, <3>1, <4>1
    <3>4. b - a = q
      BY <1>1, <3>1, <3>2, <3>3
    <3> QED BY <1>1, <3>4 DEF a, b
  <2>6. CASE r > 0
    <3>1. k * b - k * a >= q * k + r - k /\ k * b - k * a <= q * k + r + k
      BY <1>1, <2>1, <2>2, <2>3, <2>4
    <3>2. b - a >= q
      <4> SUFFICES ASSUME b + 1 <= a + q PROVE FALSE
        BY <1>1, <2>1
      <4>1. k * (b + 1) <= k * (a + q)
        BY <1>1, <2>1
      <4>2. k * (b + 1) = k * b + k /\ k * (a + q) = k * a + q * k
        BY <1>1, <2>1
      <4> QED BY <1>1, <2>4, <2>6, <3>1, <4>1, <4>2
    <3>3. b - a <= q + 1
      <4> SUFFICES ASSUME a + q + 2 <= b PROVE FALSE
        BY <1>1, <2>1
      <4>1. k * (a + q + 2) <= k * b
        BY <1>1, <2>1
      <4>2. k * (a + q + 2) = k * a + q * k + 2 * k
        BY <1>1, <2>1
      <4> QED BY <1>1, <2>4, <2>6, <3>1, <4>1, <4>2
    <3> QED BY <1>1, <2>1, <3>2, <3>3 DEF a, b
  <2> QED BY <1>1, <2>5, <2>6
<1> QED BY <1>4, <1>5, <1>6 DEF R, q

\* The chunks of a generation follow each other, are as large as each other or
\* one larger, and are not many of less than the minimum.
Chunked(n, chunks, k, at) ==
  /\ k \in Nat /\ at \in [0..k -> Nat] /\ at[0] = 0 /\ at[k] = n
  /\ \A i \in 0..k : at[i] <= n
  /\ chunks = [i \in 1..k |-> <<at[i - 1], at[i]>>]
  /\ \E q \in Nat : /\ \A i \in 1..k : at[i] - at[i - 1] \in q..(q + 1)
                    /\ k > 1 => q >= MinChunk

LEMMA SplitIsChunked ==
  ASSUME NEW n \in Nat, NEW workers \in Nat
  PROVE  \E k, at : Chunked(n, Split(n, workers), k, at)
<1> DEFINE m == Min({workers, n \div MinChunk})
           k == Max({1, m})
           all == [i \in 1..k |-> <<RoundedShare(i - 1, n, k), RoundedShare(i, n, k)>>]
           K == {i \in 1..k : all[i][2] > all[i][1]}
           at == [i \in 0..k |-> RoundedShare(i, n, k)]
           q == n \div k
           T == Nat \X Nat
<1>1. MinChunk \in Nat \ {0} /\ n \div MinChunk \in Nat
  <2>1. MinChunk \in Nat \ {0}
    BY TrainingAssumption
  <2> QED BY <2>1, DivMod
<1>2. m \in Nat /\ m <= n \div MinChunk
  BY <1>1 DEF Min
<1> HIDE DEF m
<1>3. k \in Nat \ {0} /\ (k = 1 \/ k = m)
  BY <1>2 DEF Max
<1>4. Split(n, workers) = KeptOf(k, all, K)
  BY DEF Split, KeptOf, m
<1> HIDE DEF k
<1>5. /\ at \in [0..k -> Nat] /\ at[0] = 0 /\ at[k] = n
      /\ \A i \in 1..k : at[i] - at[i - 1] \in q..(q + 1)
      /\ \A i \in 1..k : all[i] = <<at[i - 1], at[i]>>
  <2>1. \A i \in 0..k : RoundedShare(i, n, k) \in Nat
    <3> SUFFICES ASSUME NEW i \in 0..k PROVE RoundedShare(i, n, k) \in Nat
      OBVIOUS
    <3>1. i \in Nat
      BY <1>3
    <3> QED BY <1>3, <3>1, ShareIsNear
  <2>2. RoundedShare(0, n, k) = 0 /\ RoundedShare(k, n, k) = n
    BY <1>3, SharesAreEven
  <2>3. \A i \in 1..k : RoundedShare(i, n, k) - RoundedShare(i - 1, n, k) \in (n \div k)..(n \div k + 1)
    BY <1>3, SharesAreEven
  <2>4. \A i \in 1..k : i \in 0..k /\ i - 1 \in 0..k
    BY <1>3
  <2>5. 0 \in 0..k /\ k \in 0..k
    BY <1>3
  <2> QED BY <2>1, <2>2, <2>3, <2>4, <2>5
<1>11. ASSUME NEW i \in 0..k PROVE at[i] <= n
  <2>1. i \in Nat /\ i <= k
    BY <1>3
  <2> DEFINE r == RoundedShare(i, n, k)
  <2>2. at[i] = r /\ r \in Nat /\ 2 * (k * r) <= 2 * (i * n) + k
    BY <1>3, <2>1, ShareIsNear
  <2> HIDE DEF r, at
  <2>3. i * n <= k * n /\ i * n \in Nat
    BY <1>3, <2>1
  <2> SUFFICES ASSUME n + 1 <= r PROVE FALSE
    BY <2>2
  <2>4. k * (n + 1) <= k * r
    BY <1>3, <2>2
  <2>5. k * (n + 1) = k * n + k /\ k * n \in Nat /\ k * r \in Nat
    BY <1>3, <2>2
  <2> QED BY <1>3, <2>2, <2>3, <2>4, <2>5
<1>6. q \in Nat /\ q * k <= n /\ n < (q + 1) * k
  <2>1. q \in Nat /\ n % k \in 0..(k - 1) /\ n = q * k + (n % k)
    BY <1>3, DivMod
  <2>2. (q + 1) * k = q * k + k
    BY <1>3, <2>1
  <2> HIDE DEF q
  <2> QED BY <1>3, <2>1, <2>2
<1>7. all \in [1..k -> T] /\ \A i \in 1..k : i \in K <=> at[i] > at[i - 1]
  BY <1>3, <1>5
<1> HIDE DEF all, at, q, T
<1>8. K \in SUBSET (1..k) /\ k \in Nat /\ all \in [1..k -> T]
  BY <1>3, <1>7
<1>9. CASE n = 0
  <2>1. k = 1
    <3>1. n \div MinChunk = 0
      BY <1>1, <1>9
    <3> QED BY <1>2, <1>3, <3>1
  <2>2. K = {}
    BY <1>5, <1>7, <1>8, <1>9, <2>1
  <2>3. PlaceIn(K, k) = 0
    BY <2>2, FS_EmptySet DEF PlaceIn
  <2>4. KeptOf(k, all, K) \in Seq(T) /\ Len(KeptOf(k, all, K)) = 0
    <3>1. KeptOf(k, all, K) \in Seq(T) /\ Len(KeptOf(k, all, K)) = PlaceIn(K, k)
      <4> HIDE DEF K
      <4> QED BY <1>8, Selected
    <3> QED BY <2>3, <3>1
  <2>5. Split(n, workers) = <<>>
    BY <1>4, <2>4
  <2> DEFINE none == [i \in 0..0 |-> 0]
  <2>6. Chunked(n, Split(n, workers), 0, none)
    BY <1>9, <2>5 DEF Chunked
  <2> QED BY <2>6
<1>10. CASE n > 0
  <2>1. q >= 1 /\ (k > 1 => q >= MinChunk)
    <3>1. CASE k = 1
      <4>1. (q + 1) * k = q + 1
        BY <1>6, <3>1
      <4> QED BY <1>6, <1>10, <3>1, <4>1
    <3>2. CASE k # 1
      <4> DEFINE r == n \div MinChunk
      <4>1. r \in Nat /\ r * MinChunk <= n /\ k <= r
        <5>1. r \in Nat /\ n % MinChunk \in 0..(MinChunk - 1) /\ n = r * MinChunk + (n % MinChunk)
          BY <1>1, DivMod
        <5>2. r * MinChunk \in Nat /\ k <= r
          BY <1>1, <1>2, <1>3, <3>2
        <5> HIDE DEF r
        <5> QED BY <1>1, <5>1, <5>2
      <4> HIDE DEF r
      <4>2. k * MinChunk <= n
        <5>1. k * MinChunk <= r * MinChunk
          BY <1>1, <1>3, <4>1
        <5> QED BY <1>1, <1>3, <4>1, <5>1
      <4>3. q >= MinChunk
        <5> SUFFICES ASSUME q + 1 <= MinChunk PROVE FALSE
          BY <1>1, <1>6
        <5>1. (q + 1) * k <= MinChunk * k
          BY <1>1, <1>3, <1>6
        <5>2. MinChunk * k = k * MinChunk
          BY <1>1, <1>3
        <5> QED BY <1>1, <1>3, <1>6, <4>2, <5>1, <5>2
      <4> QED BY <1>1, <1>6, <4>3
    <3> QED BY <3>1, <3>2
  <2>2. K = 1..k
    <3>1. \A i \in 1..k : at[i] > at[i - 1]
      <4> SUFFICES ASSUME NEW i \in 1..k PROVE at[i] > at[i - 1]
        OBVIOUS
      <4>1. at[i] \in Nat /\ at[i - 1] \in Nat /\ at[i] - at[i - 1] >= q
        BY <1>3, <1>5, <1>6
      <4> QED BY <1>6, <2>1, <4>1
    <3> QED BY <1>7, <1>8, <3>1
  <2>3. \A i \in 1..k : PlaceIn(K, i) = i
    <3> SUFFICES ASSUME NEW i \in 1..k PROVE PlaceIn(K, i) = i
      OBVIOUS
    <3>1. \A j \in 1..i : j \in 1..k
      BY <1>3
    <3>2. K \cap (1..i) = 1..i
      <4> HIDE DEF K
      <4> QED BY <2>2, <3>1
    <3>3. i \in Int /\ 1 \in Int /\ ~(1 > i) /\ i - 1 + 1 = i
      BY <1>3
    <3>4. Cardinality(1..i) = i
      BY <3>3, FS_Interval
    <3> QED BY <3>2, <3>4 DEF PlaceIn
  <2>4. /\ KeptOf(k, all, K) \in Seq(T) /\ Len(KeptOf(k, all, K)) = PlaceIn(K, k)
        /\ \A i \in K : KeptOf(k, all, K)[PlaceIn(K, i)] = all[i]
    <3> HIDE DEF K
    <3> QED BY <1>8, Selected
  <2>5. Split(n, workers) = [i \in 1..k |-> <<at[i - 1], at[i]>>]
    <3> DEFINE c == Split(n, workers)
    <3>1. c \in Seq(T) /\ Len(c) = k /\ \A i \in 1..k : c[i] = <<at[i - 1], at[i]>>
      <4>1. k \in 1..k
        BY <1>3
      <4> HIDE DEF K
      <4> QED BY <1>4, <1>5, <2>2, <2>3, <2>4, <4>1
    <3> HIDE DEF c
    <3>2. c = [i \in 1..Len(c) |-> c[i]]
      BY <3>1
    <3>3. c = [i \in 1..k |-> <<at[i - 1], at[i]>>]
      BY <3>1, <3>2
    <3> QED BY <3>3 DEF c
  <2>6. Chunked(n, Split(n, workers), k, at)
    BY <1>3, <1>5, <1>6, <1>11, <2>1, <2>5 DEF Chunked
  <2> QED BY <2>6
<1> QED BY <1>9, <1>10

\* A brain of one kind has its own row in each of its entries, or none.
LEMMA MixedIsItself ==
  ASSUME NEW n \in Nat, NEW e, e \in [1..n -> EntryForm], OneKind({e[i] : i \in 1..n})
  PROVE  Mixed(e) = e
<1>1. ASSUME NEW i \in 1..n PROVE RowInGroup(e, i) = e[i].row
  <2> DEFINE K == {j \in 1..n : e[j].brain = e[i].brain}
             group == GroupOf(e, e[i].brain)
  <2>1. DOMAIN e = 1..n
    OBVIOUS
  <2>2. group = KeptOf(n, e, K)
    <3>1. [j \in DOMAIN e |-> IF e[j].brain = e[i].brain THEN <<e[j]>> ELSE <<>>]
             = [j \in 1..n |-> IF j \in K THEN <<e[j]>> ELSE <<>>]
      BY <2>1
    <3> QED BY <3>1 DEF GroupOf, KeptOf
  <2>3. K \in SUBSET (1..n) /\ i \in K
    OBVIOUS
  <2>4. Cardinality({j \in 1..i : e[j].brain = e[i].brain}) = PlaceIn(K, i)
    <3>1. {j \in 1..i : e[j].brain = e[i].brain} = K \cap (1..i)
      OBVIOUS
    <3> QED BY <3>1 DEF PlaceIn
  <2>5. \A j \in K : e[j].brain = e[i].brain
    OBVIOUS
  <2>6. RowInGroup(e, i) = IF group[1].row = None THEN None
                           ELSE IF \E x \in Range(group) : x.row = None THEN Mismatch ELSE group[PlaceIn(K, i)].row
    <3> HIDE DEF K
    <3> QED BY <2>4 DEF RowInGroup
  <2> HIDE DEF K, group
  <2>7. /\ group \in Seq(EntryForm) /\ Len(group) = PlaceIn(K, n) /\ PlaceIn(K, n) \in Nat
        /\ PlaceIn(K, i) \in 1..PlaceIn(K, n) /\ group[PlaceIn(K, i)] = e[i]
        /\ \A k \in 1..PlaceIn(K, n) : \E j \in K : group[k] = e[j]
    <3>1. /\ KeptOf(n, e, K) \in Seq(EntryForm) /\ Len(KeptOf(n, e, K)) = PlaceIn(K, n)
          /\ PlaceIn(K, n) \in Nat
          /\ \A x \in K : PlaceIn(K, x) \in 1..PlaceIn(K, n) /\ KeptOf(n, e, K)[PlaceIn(K, x)] = e[x]
          /\ \A k \in 1..PlaceIn(K, n) : \E x \in K : k = PlaceIn(K, x) /\ KeptOf(n, e, K)[k] = e[x]
      BY ONLY n \in Nat, e \in [1..n -> EntryForm], <2>3, Selected
    <3> QED BY ONLY <2>2, <2>3, <3>1
  <2>8. \A k \in 1..PlaceIn(K, n) : group[k].row = None <=> e[i].row = None
    BY <2>3, <2>5, <2>7 DEF OneKind
  <2>9. 1 \in 1..PlaceIn(K, n) /\ \A x \in Range(group) : \E k \in 1..PlaceIn(K, n) : x = group[k]
    BY <2>7 DEF Range
  <2> QED BY <2>6, <2>7, <2>8, <2>9
<1>2. \A i \in 1..n : Entry(e[i].brain, RowInGroup(e, i)) = e[i]
  <2>1. \A i \in 1..n : [brain |-> e[i].brain, row |-> e[i].row] = e[i]
    BY DEF EntryForm
  <2> QED BY <1>1, <2>1 DEF Entry
<1> QED BY <1>2 DEF Mixed

\* What an episode is played with: its own situation and weights.
PlayedForm == [key : AnyWord \X Int, d : EntryForm, a : EntryForm]
Played(e) == [key |-> e.key, d |-> e.d, a |-> e.a]

\* The episodes of a chunk keep theirs, whichever others are with them.
LEMMA ChunkIsItself ==
  ASSUME NEW episodes, GenerationForm(episodes), NEW lo \in Nat, NEW hi \in Nat,
         lo <= hi, hi <= Len(episodes)
  PROVE  LET c == ClashChunk(SubSeq(episodes, lo + 1, hi))
         IN  /\ c \in Seq(PlayedForm) /\ Len(c) = hi - lo
             /\ \A j \in 1..(hi - lo) : c[j] = Played(episodes[lo + j])
<1> DEFINE part == SubSeq(episodes, lo + 1, hi)
           m == hi - lo
           ds == [i \in DOMAIN part |-> part[i].d]
           as == [i \in DOMAIN part |-> part[i].a]
<1>1. episodes \in Seq(EpisodeForm) /\ m \in Nat
  BY DEF GenerationForm
<1>2. \A j \in 1..m : lo + j \in 1..Len(episodes)
  BY <1>1
<1>3. part \in Seq(EpisodeForm) /\ Len(part) = m /\ \A j \in 1..m : part[j] = episodes[lo + j]
  <2>1. lo + 1 \in Int /\ hi \in Int /\ \A i \in (lo + 1)..hi : episodes[i] \in EpisodeForm
    BY <1>1
  <2>2. /\ part \in Seq(EpisodeForm) /\ Len(part) = (IF lo + 1 <= hi THEN hi - (lo + 1) + 1 ELSE 0)
        /\ \A j \in 1..(hi - (lo + 1) + 1) : part[j] = episodes[(lo + 1) + j - 1]
    BY <2>1, SubSeqProperties
  <2>3. hi - (lo + 1) + 1 = m /\ \A j \in 1..m : (lo + 1) + j - 1 = lo + j
    BY <1>1
  <2>4. (IF lo + 1 <= hi THEN hi - (lo + 1) + 1 ELSE 0) = m
    BY <1>1
  <2> HIDE DEF part, m
  <2> QED BY <2>2, <2>3, <2>4
<1> HIDE DEF part, m
<1>4. DOMAIN part = 1..m /\ \A j \in 1..m : episodes[lo + j] \in EpisodeForm
  BY <1>1, <1>2, <1>3
<1>5. ds \in [1..m -> EntryForm] /\ as \in [1..m -> EntryForm]
  BY <1>3, <1>4 DEF EpisodeForm
<1>6. \A j \in 1..m : ds[j] = episodes[lo + j].d /\ as[j] = episodes[lo + j].a
  BY <1>3, <1>4
<1>7. /\ {ds[j] : j \in 1..m} \subseteq {episodes[i].d : i \in DOMAIN episodes}
      /\ {as[j] : j \in 1..m} \subseteq {episodes[i].a : i \in DOMAIN episodes}
  <2>1. DOMAIN episodes = 1..Len(episodes)
    BY <1>1
  <2> HIDE DEF ds, as
  <2> QED BY <1>2, <1>6, <2>1
<1> HIDE DEF ds, as
<1>8. OneKind({ds[j] : j \in 1..m}) /\ OneKind({as[j] : j \in 1..m})
  BY <1>7 DEF GenerationForm, OneKind
<1>9. Mixed(ds) = ds /\ Mixed(as) = as
  BY <1>1, <1>5, <1>8, MixedIsItself
<1>10. ClashChunk(part) = [j \in DOMAIN part |-> [key |-> part[j].key, d |-> Mixed(ds)[j], a |-> Mixed(as)[j]]]
  BY DEF ClashChunk, ds, as
<1>11. ClashChunk(part) = [j \in 1..m |-> Played(episodes[lo + j])]
  <2>1. \A j \in 1..m : [key |-> part[j].key, d |-> Mixed(ds)[j], a |-> Mixed(as)[j]] = Played(episodes[lo + j])
    BY <1>3, <1>6, <1>9 DEF Played
  <2> QED BY <1>4, <1>10, <2>1
<1>12. \A j \in 1..m : Played(episodes[lo + j]) \in PlayedForm
  BY <1>4 DEF Played, PlayedForm, EpisodeForm
<1> DEFINE c == ClashChunk(part)
<1>13. c \in Seq(PlayedForm) /\ Len(c) = m /\ \A j \in 1..m : c[j] = Played(episodes[lo + j])
  BY <1>1, <1>11, <1>12
<1> QED BY <1>13 DEF part, m

\* The chunks, joined, are the generation.
LEMMA PlayedInPlace ==
  ASSUME NEW episodes, GenerationForm(episodes), NEW workers \in Nat
  PROVE  Play(episodes, workers) = [i \in 1..Len(episodes) |-> Played(episodes[i])]
<1> DEFINE n == Len(episodes)
           chunks == Split(n, workers)
<1>1. n \in Nat /\ episodes \in Seq(EpisodeForm)
  BY DEF GenerationForm
<1>2. PICK k, at : Chunked(n, chunks, k, at)
  BY <1>1, SplitIsChunked
<1> DEFINE s == [c \in 1..k |-> ClashChunk(SubSeq(episodes, at[c - 1] + 1, at[c]))]
<1>3. /\ k \in Nat /\ at \in [0..k -> Nat] /\ at[0] = 0 /\ at[k] = n
      /\ \A i \in 0..k : at[i] <= n
      /\ DOMAIN chunks = 1..k /\ \A c \in 1..k : chunks[c] = <<at[c - 1], at[c]>>
      /\ \A i \in 1..k : at[i - 1] <= at[i]
  <2>1. PICK q \in Nat : \A i \in 1..k : at[i] - at[i - 1] \in q..(q + 1)
    BY <1>2 DEF Chunked
  <2>2. k \in Nat /\ at \in [0..k -> Nat]
    BY <1>2 DEF Chunked
  <2>3. ASSUME NEW i \in 1..k PROVE at[i - 1] <= at[i]
    <3>1. at[i] \in Nat /\ at[i - 1] \in Nat
      BY <2>2
    <3> QED BY <2>1, <3>1
  <2> QED BY <1>2, <2>3 DEF Chunked
<1>4. Play(episodes, workers) = FlattenSeq(s)
  <2>1. Play(episodes, workers) = FlattenSeq([c \in DOMAIN chunks |->
            ClashChunk(SubSeq(episodes, chunks[c][1] + 1, chunks[c][2]))])
    BY DEF Play
  <2>2. \A c \in 1..k : chunks[c][1] = at[c - 1] /\ chunks[c][2] = at[c]
    BY <1>3
  <2>3. [c \in DOMAIN chunks |-> ClashChunk(SubSeq(episodes, chunks[c][1] + 1, chunks[c][2]))] = s
    <3> HIDE DEF chunks
    <3> QED BY <1>3, <2>2
  <2> QED BY <2>1, <2>3
<1> HIDE DEF chunks
<1>5. ASSUME NEW c \in 1..k
      PROVE  /\ s[c] \in Seq(PlayedForm) /\ Len(s[c]) = at[c] - at[c - 1]
             /\ \A j \in 1..(at[c] - at[c - 1]) : s[c][j] = Played(episodes[at[c - 1] + j])
  <2>1. at[c - 1] \in Nat /\ at[c] \in Nat /\ at[c - 1] <= at[c] /\ at[c] <= Len(episodes)
    <3>1. c \in 0..k /\ c - 1 \in 0..k
      BY <1>3
    <3>2. at[c - 1] <= at[c] /\ at[c] <= n
      BY <1>3, <3>1
    <3>3. at[c - 1] \in Nat /\ at[c] \in Nat
      BY <1>3, <3>1
    <3> QED BY <3>2, <3>3
  <2> DEFINE lo == at[c - 1]
             hi == at[c]
  <2>2. s[c] = ClashChunk(SubSeq(episodes, lo + 1, hi))
    OBVIOUS
  <2> HIDE DEF s
  <2>3. lo \in Nat /\ hi \in Nat /\ lo <= hi /\ hi <= Len(episodes)
    BY <2>1
  <2> HIDE DEF lo, hi
  <2>4. /\ s[c] \in Seq(PlayedForm) /\ Len(s[c]) = hi - lo
        /\ \A j \in 1..(hi - lo) : s[c][j] = Played(episodes[lo + j])
    BY ONLY GenerationForm(episodes), <2>2, <2>3, ChunkIsItself
  <2> QED BY <2>4 DEF lo, hi
<1>6. s \in [1..k -> Seq(PlayedForm)]
  BY <1>5
<1>7. PartsAt(k, s, at)
  <2>1. \A i \in 1..k : at[i] = at[i - 1] + Len(s[i])
    <3> SUFFICES ASSUME NEW i \in 1..k PROVE at[i] = at[i - 1] + Len(s[i])
      OBVIOUS
    <3>1. at[i] \in Nat /\ at[i - 1] \in Nat
      BY <1>3
    <3>2. Len(s[i]) = at[i] - at[i - 1]
      BY <1>5
    <3> HIDE DEF s
    <3> QED BY <3>1, <3>2
  <2> HIDE DEF s
  <2> QED BY <1>3, <2>1 DEF PartsAt
<1> HIDE DEF s
<1> DEFINE whole == FlattenSeq(s)
<1>8. whole \in Seq(PlayedForm)
  BY <1>3, <1>6, <1>7, BlocksJoined
<1>9. Located(s, at, whole, k)
  BY <1>3, <1>6, <1>7, BlocksJoined
<1> HIDE DEF whole
<1>10. Len(whole) = n
  BY <1>3, <1>9 DEF Located
<1>11. ASSUME NEW x \in 1..n PROVE whole[x] = Played(episodes[x])
  <2>1. PICK i \in 1..k : \E j \in 1..Len(s[i]) : x = at[i - 1] + j
    BY <1>3, <1>9 DEF Located
  <2>2. PICK j \in 1..Len(s[i]) : x = at[i - 1] + j
    BY <2>1
  <2>3. whole[at[i - 1] + j] = s[i][j]
    BY <1>9 DEF Located
  <2>4. s[i][j] = Played(episodes[at[i - 1] + j])
    BY <1>5
  <2> QED BY <2>2, <2>3, <2>4
<1>12. whole = [i \in 1..n |-> Played(episodes[i])]
  <2>1. whole = [i \in 1..Len(whole) |-> whole[i]]
    BY <1>8
  <2> QED BY <1>10, <1>11, <2>1
<1> QED BY <1>4, <1>12 DEF whole

\* A generation is played the same, whatever number of processes shares it
\* (parallel.split, Workers.play, clash_chunk).
THEOREM SharingChangesNothing ==
  ASSUME NEW episodes, GenerationForm(episodes), NEW workers \in Nat
  PROVE  SplitInvisible(episodes, workers)
<1> DEFINE n == Len(episodes)
           chunks == Split(n, workers)
           Size(i) == chunks[i][2] - chunks[i][1]
<1>1. Play(episodes, workers) = [i \in 1..n |-> [key |-> episodes[i].key, d |-> episodes[i].d, a |-> episodes[i].a]]
  BY PlayedInPlace DEF Played
<1>2. n \in Nat
  BY DEF GenerationForm
<1>3. PICK k, at : Chunked(n, chunks, k, at)
  BY <1>2, SplitIsChunked
<1>4. PICK q \in Nat : (\A i \in 1..k : at[i] - at[i - 1] \in q..(q + 1)) /\ (k > 1 => q >= MinChunk)
  BY <1>3 DEF Chunked
<1>5. k \in Nat /\ at \in [0..k -> Nat] /\ chunks = [i \in 1..k |-> <<at[i - 1], at[i]>>]
  BY <1>3 DEF Chunked
<1> HIDE DEF chunks
<1>6. DOMAIN chunks = 1..k /\ Len(chunks) = k
  BY <1>5
<1>7. MinChunk \in Nat
  BY TrainingAssumption
<1>8. ASSUME NEW i \in DOMAIN chunks, NEW j \in DOMAIN chunks
      PROVE  Size(i) <= Size(j) + 1 /\ (Len(chunks) > 1 => Size(i) >= MinChunk)
  <2>1. Size(i) = at[i] - at[i - 1] /\ Size(j) = at[j] - at[j - 1]
    BY <1>5, <1>6
  <2>2. at[i] - at[i - 1] \in q..(q + 1) /\ at[j] - at[j - 1] \in q..(q + 1)
    BY <1>4, <1>6
  <2> HIDE DEF Size
  <2>3. Size(i) \in q..(q + 1) /\ Size(j) \in q..(q + 1)
    BY <2>1, <2>2
  <2> QED BY <1>4, <1>6, <1>7, <2>3
<1> QED BY <1>1, <1>8 DEF SplitInvisible, chunks

\* Positions in a row that are kept follow each other.
InARow(n, lo, m) ==
  \A x \in 1..m : KeptOf(n, [i \in 1..n |-> i], (lo + 1)..(lo + m))[x] = lo + x

LEMMA KeptInARow ==
  ASSUME NEW n \in Nat, NEW lo \in Nat, NEW m \in Nat, lo + m <= n
  PROVE  InARow(n, lo, m)
<1> SUFFICES ASSUME NEW x \in 1..m
             PROVE  KeptOf(n, [i \in 1..n |-> i], (lo + 1)..(lo + m))[x] = lo + x
  BY DEF InARow
<1> DEFINE K == (lo + 1)..(lo + m)
           v == [i \in 1..n |-> i]
           T == Nat
<1>1. K \in SUBSET (1..n) /\ lo + x \in K /\ v[lo + x] = lo + x
  OBVIOUS
<1>2. v \in [1..n -> T] /\ K \in SUBSET (1..n)
  OBVIOUS
<1>3. PlaceIn(K, lo + x) = x
  <2>1. K \cap (1..(lo + x)) = (lo + 1)..(lo + x)
    OBVIOUS
  <2>2. Cardinality((lo + 1)..(lo + x)) = x
    <3>1. lo + 1 \in Int /\ lo + x \in Int /\ ~(lo + 1 > lo + x) /\ (lo + x) - (lo + 1) + 1 = x
      OBVIOUS
    <3> QED BY <3>1, FS_Interval
  <2> QED BY <2>1, <2>2 DEF PlaceIn
<1> HIDE DEF K, v, T
<1>4. /\ KeptOf(n, v, K) \in Seq(T) /\ Len(KeptOf(n, v, K)) = PlaceIn(K, n)
      /\ \A i \in K : KeptOf(n, v, K)[PlaceIn(K, i)] = v[i]
  BY <1>2, Selected
<1>5. KeptOf(n, v, K)[x] = v[lo + x]
  BY <1>1, <1>3, <1>4
<1> QED BY <1>1, <1>5 DEF K, v

\* A number has one quotient and one remainder.
LEMMA PairedOnce ==
  ASSUME NEW P \in Nat \ {0}, NEW E \in Nat, NEW e \in 1..E, NEW p \in 1..P
  PROVE  /\ (e - 1) * P + p \in 1..(P * E)
         /\ Pairing((e - 1) * P + p, P) = [opponent |-> e, variant |-> p]
<1> DEFINE i == (e - 1) * P + p
           x == (e - 1) * P
<1>1. x \in Nat /\ i = x + p
  OBVIOUS
<1>2. x + P <= P * E
  <2>1. x + P = P * e
    OBVIOUS
  <2>2. P * e <= P * E
    OBVIOUS
  <2> QED BY <2>1, <2>2
<1>3. i \in 1..(P * E)
  <2> HIDE DEF x
  <2> QED BY <1>1, <1>2
<1>4. (i - 1) \div P = e - 1 /\ (i - 1) % P = p - 1
  <2> DEFINE d == (i - 1) \div P
             r == (i - 1) % P
  <2>1. i - 1 \in Nat /\ i - 1 = x + (p - 1)
    BY <1>1
  <2>2. d \in Nat /\ r \in 0..(P - 1) /\ i - 1 = d * P + r
    <3> HIDE DEF i
    <3> QED BY <2>1, DivMod
  <2> HIDE DEF d, r, i
  <2>3. d * P + r = (e - 1) * P + (p - 1)
    BY <2>1, <2>2
  <2>4. d = e - 1
    <3>1. ASSUME d + 1 <= e - 1 PROVE FALSE
      <4>1. (d + 1) * P <= (e - 1) * P /\ (d + 1) * P = d * P + P /\ d * P \in Nat
        BY <2>2, <3>1
      <4> QED BY <2>2, <2>3, <4>1, <1>1
    <3>2. ASSUME e <= d PROVE FALSE
      <4>1. e * P <= d * P /\ e * P = (e - 1) * P + P /\ d * P \in Nat
        BY <2>2, <3>2
      <4> QED BY <2>2, <2>3, <4>1, <1>1
    <3> QED BY <2>2, <3>1, <3>2
  <2>5. d * P = (e - 1) * P
    BY <2>4
  <2>6. r = p - 1
    <3>1. (e - 1) * P \in Nat
      OBVIOUS
    <3> QED BY <2>2, <2>3, <2>5, <3>1
  <2> QED BY <2>4, <2>6 DEF d, r, i
<1> HIDE DEF i
<1>5. Pairing(i, P) = [opponent |-> e, variant |-> p]
  BY <1>4 DEF Pairing
<1> QED BY <1>3, <1>5 DEF i

\* What a side plays with in a generation.
SideSet(side, P, picks, builtin) ==
  IF side.learn
  THEN Range(picks) \cup {Entry(side.brain, Latest), Entry(builtin, None)}
         \cup {Entry(side.brain, v) : v \in 1..P}
  ELSE {Entry(side.brain, None), Entry(builtin, None)}

LEMMA SideIsOneKind ==
  ASSUME NEW side, NEW P \in Nat, NEW E \in Nat \ {0}, NEW picks, NEW builtin \in AnyWord,
         PicksForm(side, E, picks, builtin)
  PROVE  /\ SideSet(side, P, picks, builtin) \subseteq EntryForm
         /\ OneKind(SideSet(side, P, picks, builtin))
<1>1. side.learn \in BOOLEAN /\ side.brain \in AnyWord /\ picks \in Seq(EntryForm)
  BY DEF PicksForm, SideForm
<1>3. Latest \in Int /\ Latest # None /\ None = 0
  BY DEF Latest, None
<1>4. Range(picks) \subseteq EntryForm
  BY <1>1 DEF Range
<1>5. CASE ~side.learn
  <2>1. SideSet(side, P, picks, builtin) = {Entry(side.brain, None), Entry(builtin, None)}
    BY <1>5 DEF SideSet
  <2>2. \A x \in SideSet(side, P, picks, builtin) : x.row = None
    BY <2>1 DEF Entry
  <2>3. SideSet(side, P, picks, builtin) \subseteq EntryForm
    BY <1>1, <1>3, <2>1 DEF Entry, EntryForm
  <2> QED BY <2>2, <2>3 DEF OneKind
<1>6. CASE side.learn
  <2> DEFINE core == Range(picks) \cup {Entry(side.brain, Latest), Entry(builtin, None)}
             drawn == {Entry(side.brain, v) : v \in 1..P}
  <2>1. SideSet(side, P, picks, builtin) = core \cup drawn /\ OneKind(core)
    BY <1>6 DEF SideSet, PicksForm
  <2>2. core \subseteq EntryForm /\ drawn \subseteq EntryForm
    <3>1. Entry(side.brain, Latest) \in EntryForm /\ Entry(builtin, None) \in EntryForm
      BY <1>1, <1>3 DEF Entry, EntryForm
    <3>2. \A v \in 1..P : Entry(side.brain, v) \in EntryForm
      BY <1>1 DEF Entry, EntryForm
    <3> QED BY <1>4, <3>1, <3>2
  <2>3. \A x \in drawn : x.brain = side.brain /\ x.row # None
    <3> SUFFICES ASSUME NEW v \in 1..P
                 PROVE  Entry(side.brain, v).brain = side.brain /\ Entry(side.brain, v).row # None
      OBVIOUS
    <3>1. Entry(side.brain, v).brain = side.brain /\ Entry(side.brain, v).row = v
      BY DEF Entry
    <3> QED BY <1>3, <3>1
  <2>4. /\ Entry(side.brain, Latest) \in core /\ Entry(side.brain, Latest).brain = side.brain
        /\ Entry(side.brain, Latest).row # None
    <3>1. Entry(side.brain, Latest).brain = side.brain /\ Entry(side.brain, Latest).row = Latest
      BY DEF Entry
    <3> QED BY <1>3, <3>1
  <2>5. \A x \in core \cup drawn : \E y \in core : x.brain = y.brain /\ (x.row = None <=> y.row = None)
    <3> HIDE DEF core, drawn
    <3> QED BY <2>3, <2>4
  <2> HIDE DEF core, drawn
  <2>6. OneKind(core \cup drawn)
    BY <2>1, <2>5 DEF OneKind
  <2> QED BY <2>1, <2>2, <2>6
<1> QED BY <1>1, <1>5, <1>6

LEMMA SparringIsThere ==
  ASSUME NEW side, NEW P \in Nat, NEW E \in Nat \ {0}, NEW picks, NEW builtin \in AnyWord,
         PicksForm(side, E, picks, builtin)
  PROVE  /\ \A e \in 1..E : Sparring(side, E, picks)[e] \in SideSet(side, P, picks, builtin)
         /\ Current(side) \in SideSet(side, P, picks, builtin)
         /\ Entry(builtin, None) \in SideSet(side, P, picks, builtin)
         /\ side.learn => \A v \in 1..P : Entry(side.brain, v) \in SideSet(side, P, picks, builtin)
<1>1. side.learn \in BOOLEAN /\ side.brain \in AnyWord /\ picks \in Seq(EntryForm) /\ E <= Len(picks) + 1
  BY DEF PicksForm, SideForm
<1>2. ASSUME NEW e \in 1..E PROVE Sparring(side, E, picks)[e] \in SideSet(side, P, picks, builtin)
  <2>1. CASE ~side.learn
    BY <2>1 DEF Sparring, SideSet
  <2>2. CASE side.learn
    <3> DEFINE first == <<Entry(side.brain, Latest)>>
               rest == SubSeq(picks, 1, E - 1)
    <3>1. Sparring(side, E, picks) = first \o rest
      BY <2>2 DEF Sparring
    <3>2. first \in Seq(EntryForm) /\ Len(first) = 1 /\ first[1] = Entry(side.brain, Latest)
      BY <1>1 DEF Entry, EntryForm, Latest
    <3>3. rest \in Seq(EntryForm) /\ Len(rest) = E - 1 /\ \A j \in 1..(E - 1) : rest[j] = picks[j]
      <4>1. 1 \in Int /\ E - 1 \in Int /\ \A i \in 1..(E - 1) : picks[i] \in EntryForm
        BY <1>1
      <4>2. /\ rest \in Seq(EntryForm) /\ Len(rest) = (IF 1 <= E - 1 THEN (E - 1) - 1 + 1 ELSE 0)
            /\ \A j \in 1..((E - 1) - 1 + 1) : rest[j] = picks[1 + j - 1]
        BY <4>1, SubSeqProperties
      <4>3. (IF 1 <= E - 1 THEN (E - 1) - 1 + 1 ELSE 0) = E - 1 /\ (E - 1) - 1 + 1 = E - 1
        OBVIOUS
      <4>4. \A j \in 1..(E - 1) : 1 + j - 1 = j
        OBVIOUS
      <4> HIDE DEF rest
      <4> QED BY <4>2, <4>3, <4>4
    <3> HIDE DEF first, rest
    <3>4. /\ \A k \in 1..Len(first) : (first \o rest)[k] = first[k]
          /\ \A j \in 1..Len(rest) : (first \o rest)[Len(first) + j] = rest[j]
      <4>1. first \in Seq(EntryForm) /\ rest \in Seq(EntryForm)
        BY <3>2, <3>3
      <4> QED BY <4>1, Appended
    <3>5. CASE e = 1
      <4>1. (first \o rest)[1] = first[1]
        <5>1. 1 \in 1..Len(first)
          BY <3>2
        <5> QED BY <3>4, <5>1
      <4> QED BY <2>2, <3>1, <3>2, <3>5, <4>1 DEF SideSet
    <3>6. CASE e # 1
      <4>1. e - 1 \in 1..(E - 1) /\ 1 + (e - 1) = e /\ e - 1 \in 1..Len(picks)
        BY <1>1, <3>6
      <4>2. (first \o rest)[1 + (e - 1)] = rest[e - 1]
        BY <3>2, <3>3, <3>4, <4>1
      <4>3. (first \o rest)[e] = picks[e - 1]
        BY <3>3, <4>1, <4>2
      <4>4. picks[e - 1] \in Range(picks)
        BY <1>1, <4>1 DEF Range
      <4> QED BY <2>2, <3>1, <4>3, <4>4 DEF SideSet
    <3> QED BY <3>5, <3>6
  <2> QED BY <1>1, <2>1, <2>2
<1>3. Current(side) \in SideSet(side, P, picks, builtin)
  BY <1>1 DEF Current, SideSet
<1> QED BY <1>2, <1>3 DEF SideSet

\* What is trained with comes first; what follows it only tests.
Trailed(T, trained, s) ==
  /\ trained \in Seq(T) /\ s \in Seq(T) /\ Len(trained) <= Len(s)
  /\ \A i \in 1..Len(trained) : s[i] = trained[i]
  /\ \A i \in (Len(trained) + 1)..Len(s) : s[i].tag \notin {"d", "a"}

LEMMA TrailedOn ==
  ASSUME NEW T, NEW trained, NEW s, Trailed(T, trained, s), NEW more, more \in Seq(T),
         \A j \in 1..Len(more) : more[j].tag \notin {"d", "a"}
  PROVE  Trailed(T, trained, s \o more)
<1>1. trained \in Seq(T) /\ s \in Seq(T)
  BY DEF Trailed
<1>2. /\ s \o more \in Seq(T) /\ Len(s \o more) = Len(s) + Len(more)
      /\ \A k \in 1..Len(s) : (s \o more)[k] = s[k]
      /\ \A j \in 1..Len(more) : (s \o more)[Len(s) + j] = more[j]
  BY <1>1, Appended
<1>3. Len(trained) \in Nat /\ Len(s) \in Nat /\ Len(more) \in Nat /\ Len(trained) <= Len(s)
  BY <1>1 DEF Trailed
<1>4. \A i \in 1..Len(trained) : (s \o more)[i] = trained[i]
  <2>1. \A i \in 1..Len(trained) : i \in 1..Len(s) /\ s[i] = trained[i]
    BY <1>3 DEF Trailed
  <2> QED BY <1>2, <2>1
<1>5. ASSUME NEW i \in (Len(trained) + 1)..(Len(s) + Len(more)) PROVE (s \o more)[i].tag \notin {"d", "a"}
  <2>1. CASE i <= Len(s)
    <3>1. i \in 1..Len(s) /\ i \in (Len(trained) + 1)..Len(s)
      BY <1>3, <2>1
    <3>2. (s \o more)[i] = s[i]
      BY <1>2, <3>1
    <3> QED BY <3>1, <3>2 DEF Trailed
  <2>2. CASE ~(i <= Len(s))
    <3>1. i - Len(s) \in 1..Len(more) /\ Len(s) + (i - Len(s)) = i
      BY <1>3, <2>2
    <3>2. (s \o more)[Len(s) + (i - Len(s))] = more[i - Len(s)]
      BY <1>2, <3>1
    <3> QED BY <3>1, <3>2
  <2> QED BY <2>1, <2>2
<1>6. Len(trained) <= Len(s \o more)
  BY <1>2, <1>3
<1> QED BY <1>1, <1>2, <1>4, <1>5, <1>6 DEF Trailed

\* The episodes of variants of d, and those of variants of a.
DefendersTrain(d, a, P, E, picks) ==
  IF d.learn
  THEN [i \in 1..(P * E) |-> Episode("d", <<"train", Pairing(i, P).opponent>>,
                                Entry(d.brain, Pairing(i, P).variant),
                                Sparring(a, E, picks)[Pairing(i, P).opponent])]
  ELSE <<>>
AttackersTrain(d, a, P, E, picks) ==
  IF a.learn
  THEN [i \in 1..(P * E) |-> Episode("a", <<"train", Pairing(i, P).opponent>>,
                                Sparring(d, E, picks)[Pairing(i, P).opponent],
                                Entry(a.brain, Pairing(i, P).variant))]
  ELSE <<>>

\* The episodes whose two sides play with what they have.
Staffed(ds, as) == {e \in EpisodeForm : e.d \in ds /\ e.a \in as}

LEMMA ScheduleIsTrailed ==
  ASSUME NEW d, NEW a, NEW P \in Nat \ {0}, NEW E \in Nat \ {0}, NEW picks,
         PicksForm(d, E, picks, "auction"), PicksForm(a, E, picks, "rush"),
         NEW T, T = Staffed(SideSet(d, P, picks, "auction"), SideSet(a, P, picks, "rush"))
  PROVE  /\ DefendersTrain(d, a, P, E, picks) \in Seq(T)
         /\ AttackersTrain(d, a, P, E, picks) \in Seq(T)
         /\ Trailed(T, DefendersTrain(d, a, P, E, picks) \o AttackersTrain(d, a, P, E, picks),
                    Schedule(d, a, P, E, picks, picks))
<1> DEFINE ds == SideSet(d, P, picks, "auction")
           as == SideSet(a, P, picks, "rush")
           A == DefendersTrain(d, a, P, E, picks)
           B == AttackersTrain(d, a, P, E, picks)
           C == IF d.learn THEN <<Episode("ed", <<"eval", 1>>, Current(d), Entry("rush", None))>> ELSE <<>>
           D == IF a.learn THEN <<Episode("ea", <<"eval", 1>>, Entry("auction", None), Current(a))>> ELSE <<>>
           H == <<Episode("h2h", <<"h2h", 1>>, Current(d), Current(a))>>
<1>0. /\ P \in Nat /\ E \in Nat \ {0} /\ "auction" \in AnyWord /\ "rush" \in AnyWord
      /\ PicksForm(d, E, picks, "auction") /\ PicksForm(a, E, picks, "rush")
  BY DEF AnyWord
<1>1. ds \subseteq EntryForm /\ as \subseteq EntryForm
  <2>1. ds \subseteq EntryForm
    BY <1>0, SideIsOneKind
  <2>2. as \subseteq EntryForm
    BY <1>0, SideIsOneKind
  <2> QED BY <2>1, <2>2
<1>2. /\ \A e \in 1..E : Sparring(d, E, picks)[e] \in ds
      /\ Current(d) \in ds /\ Entry("auction", None) \in ds
      /\ d.learn => \A v \in 1..P : Entry(d.brain, v) \in ds
  BY <1>0, SparringIsThere
<1>3. /\ \A e \in 1..E : Sparring(a, E, picks)[e] \in as
      /\ Current(a) \in as /\ Entry("rush", None) \in as
      /\ a.learn => \A v \in 1..P : Entry(a.brain, v) \in as
  BY <1>0, SparringIsThere
<1>4. T = Staffed(ds, as)
  OBVIOUS
<1> HIDE DEF ds, as
<1>6. P * E \in Nat /\ \A i \in 1..(P * E) : /\ Pairing(i, P).opponent \in 1..E
                                            /\ Pairing(i, P).variant \in 1..P
  <2>1. P * E \in Nat
    OBVIOUS
  <2>2. ASSUME NEW i \in 1..(P * E) PROVE Pairing(i, P).opponent \in 1..E /\ Pairing(i, P).variant \in 1..P
    <3> DEFINE q == (i - 1) \div P
               r == (i - 1) % P
    <3>1. i - 1 \in Nat /\ i - 1 < P * E
      BY <2>1
    <3>2. q \in Nat /\ r \in 0..(P - 1) /\ i - 1 = q * P + r
      BY <3>1, DivMod
    <3> HIDE DEF q, r
    <3>3. q + 1 <= E
      <4> SUFFICES ASSUME E <= q PROVE FALSE
        BY <3>2
      <4>1. P * E <= P * q /\ P * q = q * P
        BY <3>2
      <4> QED BY <2>1, <3>1, <3>2, <4>1
    <3>4. q + 1 \in 1..E /\ r + 1 \in 1..P
      BY <3>2, <3>3
    <3> QED BY <3>4 DEF Pairing, q, r
  <2> QED BY <2>1, <2>2
<1>7. A \in Seq(T)
  <2>1. CASE d.learn
    <3>1. ASSUME NEW i \in 1..(P * E)
          PROVE  Episode("d", <<"train", Pairing(i, P).opponent>>, Entry(d.brain, Pairing(i, P).variant),
                         Sparring(a, E, picks)[Pairing(i, P).opponent]) \in T
      <4>1. Entry(d.brain, Pairing(i, P).variant) \in ds
        BY <1>2, <1>6, <2>1
      <4>2. Sparring(a, E, picks)[Pairing(i, P).opponent] \in as
        BY <1>3, <1>6
      <4>3. "d" \in AnyWord /\ "train" \in AnyWord /\ Pairing(i, P).opponent \in Int
        BY <1>6 DEF AnyWord
      <4> QED BY <1>1, <1>4, <4>1, <4>2, <4>3 DEF Episode, Staffed, EpisodeForm
    <3> QED BY <1>6, <2>1, <3>1 DEF DefendersTrain
  <2>2. CASE ~d.learn
    BY <2>2 DEF DefendersTrain
  <2> QED BY <2>1, <2>2
<1>8. B \in Seq(T)
  <2>1. CASE a.learn
    <3>1. ASSUME NEW i \in 1..(P * E)
          PROVE  Episode("a", <<"train", Pairing(i, P).opponent>>, Sparring(d, E, picks)[Pairing(i, P).opponent],
                         Entry(a.brain, Pairing(i, P).variant)) \in T
      <4>1. Entry(a.brain, Pairing(i, P).variant) \in as
        BY <1>3, <1>6, <2>1
      <4>2. Sparring(d, E, picks)[Pairing(i, P).opponent] \in ds
        BY <1>2, <1>6
      <4>3. "a" \in AnyWord /\ "train" \in AnyWord /\ Pairing(i, P).opponent \in Int
        BY <1>6 DEF AnyWord
      <4> QED BY <1>1, <1>4, <4>1, <4>2, <4>3 DEF Episode, Staffed, EpisodeForm
    <3> QED BY <1>6, <2>1, <3>1 DEF AttackersTrain
  <2>2. CASE ~a.learn
    BY <2>2 DEF AttackersTrain
  <2> QED BY <2>1, <2>2
<1>9. ASSUME NEW one, one \in T, one.tag \notin {"d", "a"}, NEW learn
      PROVE  LET c == IF learn THEN <<one>> ELSE <<>>
             IN  c \in Seq(T) /\ \A j \in 1..Len(c) : c[j].tag \notin {"d", "a"}
  <2>1. <<one>> \in Seq(T) /\ Len(<<one>>) = 1 /\ <<one>>[1] = one
    BY <1>9
  <2>2. <<>> \in Seq(T) /\ Len(<<>>) = 0
    OBVIOUS
  <2> QED BY <1>9, <2>1, <2>2
<1>10. C \in Seq(T) /\ \A j \in 1..Len(C) : C[j].tag \notin {"d", "a"}
  <2> DEFINE one == Episode("ed", <<"eval", 1>>, Current(d), Entry("rush", None))
  <2>1. one \in T /\ one.tag = "ed"
    <3>1. "ed" \in AnyWord /\ "eval" \in AnyWord /\ 1 \in Int
      BY DEF AnyWord
    <3> QED BY <1>1, <1>2, <1>3, <1>4, <3>1 DEF Episode, Staffed, EpisodeForm
  <2>2. C = IF d.learn THEN <<one>> ELSE <<>>
    OBVIOUS
  <2> HIDE DEF one, C
  <2> QED BY <1>9, <2>1, <2>2
<1>11. D \in Seq(T) /\ \A j \in 1..Len(D) : D[j].tag \notin {"d", "a"}
  <2> DEFINE one == Episode("ea", <<"eval", 1>>, Entry("auction", None), Current(a))
  <2>1. one \in T /\ one.tag = "ea"
    <3>1. "ea" \in AnyWord /\ "eval" \in AnyWord /\ 1 \in Int
      BY DEF AnyWord
    <3> QED BY <1>1, <1>2, <1>3, <1>4, <3>1 DEF Episode, Staffed, EpisodeForm
  <2>2. D = IF a.learn THEN <<one>> ELSE <<>>
    OBVIOUS
  <2> HIDE DEF one, D
  <2> QED BY <1>9, <2>1, <2>2
<1>12. H \in Seq(T) /\ \A j \in 1..Len(H) : H[j].tag \notin {"d", "a"}
  <2> DEFINE one == Episode("h2h", <<"h2h", 1>>, Current(d), Current(a))
  <2>1. one \in T /\ one.tag = "h2h"
    <3>1. "h2h" \in AnyWord /\ 1 \in Int
      BY DEF AnyWord
    <3> QED BY <1>1, <1>2, <1>3, <1>4, <3>1 DEF Episode, Staffed, EpisodeForm
  <2>2. H = <<one>>
    OBVIOUS
  <2> HIDE DEF one, H
  <2>3. <<one>> \in Seq(T) /\ Len(<<one>>) = 1 /\ <<one>>[1] = one
    BY <2>1
  <2> QED BY <2>1, <2>2, <2>3
<1>13. Schedule(d, a, P, E, picks, picks) = A \o B \o C \o D \o H
  BY DEF Schedule, DefendersTrain, AttackersTrain
<1> HIDE DEF A, B, C, D, H
<1>14. Trailed(T, A \o B, A \o B)
  <2>1. A \o B \in Seq(T) /\ Len(A \o B) \in Nat
    <3>1. A \o B \in Seq(T)
      BY <1>7, <1>8, Appended
    <3> QED BY <3>1
  <2> QED BY <2>1 DEF Trailed
<1>15. Trailed(T, A \o B, A \o B \o C)
  BY <1>10, <1>14, TrailedOn
<1>16. Trailed(T, A \o B, A \o B \o C \o D)
  BY <1>11, <1>15, TrailedOn
<1>17. Trailed(T, A \o B, A \o B \o C \o D \o H)
  BY <1>12, <1>16, TrailedOn
<1> QED BY <1>7, <1>8, <1>13, <1>17 DEF A, B

\* The episodes of one tag, when they are in a row, are scored as they were
\* played.
TaggedInARow(episodes, tag, lo, m) ==
  /\ lo \in Nat /\ lo + m <= Len(episodes)
  /\ \A i \in 1..Len(episodes) : episodes[i].tag = tag <=> i \in (lo + 1)..(lo + m)

ScoredAsPlayed(episodes, workers, tag, P, E, lo, p) ==
  Scores(episodes, Play(episodes, workers), tag, P, E, p)
     = [e \in 1..E |-> Played(episodes[lo + ((e - 1) * P + p)])]

LEMMA ScoredInARow ==
  ASSUME NEW episodes, GenerationForm(episodes), NEW workers \in Nat, NEW tag,
         NEW P \in Nat \ {0}, NEW E \in Nat \ {0}, NEW lo, TaggedInARow(episodes, tag, lo, P * E),
         NEW p \in 1..P
  PROVE  ScoredAsPlayed(episodes, workers, tag, P, E, lo, p)
<1> DEFINE n == Len(episodes)
           m == P * E
           K == (lo + 1)..(lo + m)
           v == [i \in 1..n |-> i]
           mine == KeptOf(n, v, K)
<1>1. n \in Nat /\ DOMAIN episodes = 1..n /\ m \in Nat /\ lo \in Nat /\ lo + m <= n
  BY DEF GenerationForm, TaggedInARow
<1>2. Play(episodes, workers) = [i \in 1..n |-> Played(episodes[i])]
  BY PlayedInPlace
<1>3. FlattenSeq([i \in DOMAIN episodes |-> IF episodes[i].tag = tag THEN <<i>> ELSE <<>>]) = mine
  <2>1. [i \in DOMAIN episodes |-> IF episodes[i].tag = tag THEN <<i>> ELSE <<>>]
          = [i \in 1..n |-> IF i \in K THEN <<v[i]>> ELSE <<>>]
    <3> HIDE DEF K
    <3>1. \A i \in 1..n : episodes[i].tag = tag <=> i \in K
      BY DEF K, TaggedInARow
    <3> QED BY <1>1, <3>1
  <2> QED BY <2>1 DEF KeptOf
<1>4. \A x \in 1..m : mine[x] = lo + x
  <2> HIDE DEF m, n
  <2>2. InARow(n, lo, m)
    BY <1>1, KeptInARow
  <2> QED BY <2>2 DEF InARow
<1>5. Scores(episodes, Play(episodes, workers), tag, P, E, p)
        = [e \in 1..E |-> Play(episodes, workers)[mine[(e - 1) * P + p]]]
  <2> HIDE DEF mine
  <2> QED BY <1>3 DEF Scores
<1>6. ASSUME NEW e \in 1..E
      PROVE  Play(episodes, workers)[mine[(e - 1) * P + p]] = Played(episodes[lo + ((e - 1) * P + p)])
  <2> DEFINE x == (e - 1) * P + p
  <2>1. x \in 1..m
    BY PairedOnce
  <2> HIDE DEF x
  <2>2. mine[x] = lo + x
    BY <1>4, <2>1
  <2>3. lo + x \in 1..n
    <3> HIDE DEF m, n
    <3> QED BY <1>1, <2>1
  <2> QED BY <1>2, <2>2, <2>3 DEF x
<1> QED BY <1>5, <1>6 DEF ScoredAsPlayed

\* Whichever sides learn and whoever they are set against, a variant is
\* scored by the episodes it played (es.ask, es.tell, train._scores).
THEOREM VariantsAreScored ==
  ASSUME NEW d, NEW a, NEW P \in Nat \ {0}, NEW E \in Nat \ {0}, NEW picks,
         PicksForm(d, E, picks, "auction"), PicksForm(a, E, picks, "rush"),
         NEW workers \in Nat
  PROVE  ScoresAreOwn(d, a, P, E, picks, picks, workers)
<1> DEFINE ds == SideSet(d, P, picks, "auction")
           as == SideSet(a, P, picks, "rush")
           T == Staffed(ds, as)
           A == DefendersTrain(d, a, P, E, picks)
           B == AttackersTrain(d, a, P, E, picks)
           episodes == Schedule(d, a, P, E, picks, picks)
           n == P * E
           played == Play(episodes, workers)
<1>1. A \in Seq(T) /\ B \in Seq(T) /\ Trailed(T, A \o B, episodes)
  BY ScheduleIsTrailed
<1>2. episodes \in Seq(T) /\ n \in Nat
  BY <1>1 DEF Trailed
<1>3. OneKind(ds) /\ OneKind(as)
  <2>1. "auction" \in AnyWord /\ "rush" \in AnyWord /\ P \in Nat
    BY DEF AnyWord
  <2> QED BY <2>1, SideIsOneKind
<1> HIDE DEF A, B, n, ds, as, episodes
<1>4. GenerationForm(episodes)
  <2>1. T \subseteq EpisodeForm /\ \A e \in T : e.d \in ds /\ e.a \in as
    BY DEF Staffed
  <2> HIDE DEF T
  <2>2. \A i \in DOMAIN episodes : episodes[i] \in T
    BY <1>2
  <2>3. episodes \in Seq(EpisodeForm)
    BY <1>2, <2>1, <2>2
  <2>4. /\ {episodes[i].d : i \in DOMAIN episodes} \subseteq ds
        /\ {episodes[i].a : i \in DOMAIN episodes} \subseteq as
    BY <2>1, <2>2
  <2> QED BY <1>3, <2>3, <2>4 DEF GenerationForm, OneKind
<1> HIDE DEF T
<1>5. Len(A) = (IF d.learn THEN n ELSE 0) /\ Len(B) = (IF a.learn THEN n ELSE 0)
  BY <1>2 DEF A, B, n, DefendersTrain, AttackersTrain
<1>6. /\ Len(A \o B) = Len(A) + Len(B) /\ Len(A) \in Nat /\ Len(B) \in Nat
      /\ \A k \in 1..Len(A) : (A \o B)[k] = A[k]
      /\ \A j \in 1..Len(B) : (A \o B)[Len(A) + j] = B[j]
  BY <1>1, Appended
<1>7. /\ Len(A) + Len(B) <= Len(episodes) /\ Len(episodes) \in Nat
      /\ \A k \in 1..Len(A) : episodes[k] = A[k]
      /\ \A j \in 1..Len(B) : episodes[Len(A) + j] = B[j]
      /\ \A i \in (Len(A) + Len(B) + 1)..Len(episodes) : episodes[i].tag \notin {"d", "a"}
  <2>1. /\ Len(A) + Len(B) <= Len(episodes) /\ Len(episodes) \in Nat
        /\ \A i \in 1..(Len(A) + Len(B)) : episodes[i] = (A \o B)[i]
        /\ \A i \in (Len(A) + Len(B) + 1)..Len(episodes) : episodes[i].tag \notin {"d", "a"}
    BY <1>1, <1>2, <1>6 DEF Trailed
  <2>2. \A k \in 1..Len(A) : k \in 1..(Len(A) + Len(B))
    BY <1>6
  <2>3. \A j \in 1..Len(B) : Len(A) + j \in 1..(Len(A) + Len(B))
    BY <1>6
  <2> QED BY <1>6, <2>1, <2>2, <2>3
<1>8. ASSUME d.learn, NEW i \in 1..n
      PROVE  A[i] = Episode("d", <<"train", Pairing(i, P).opponent>>,
                            Entry(d.brain, Pairing(i, P).variant), Sparring(a, E, picks)[Pairing(i, P).opponent])
  BY <1>8 DEF A, n, DefendersTrain
<1>9. ASSUME a.learn, NEW i \in 1..n
      PROVE  B[i] = Episode("a", <<"train", Pairing(i, P).opponent>>,
                            Sparring(d, E, picks)[Pairing(i, P).opponent], Entry(a.brain, Pairing(i, P).variant))
  BY <1>9 DEF B, n, AttackersTrain
<1>10. /\ \A i \in 1..Len(A) : A[i].tag = "d"
       /\ \A i \in 1..Len(B) : B[i].tag = "a"
  <2>1. \A i \in 1..Len(A) : d.learn /\ i \in 1..n
    BY <1>2, <1>5
  <2>2. \A i \in 1..Len(B) : a.learn /\ i \in 1..n
    BY <1>2, <1>5
  <2>3. ASSUME NEW i \in 1..Len(A) PROVE A[i].tag = "d"
    <3>1. A[i] = Episode("d", <<"train", Pairing(i, P).opponent>>,
                         Entry(d.brain, Pairing(i, P).variant), Sparring(a, E, picks)[Pairing(i, P).opponent])
      BY <1>8, <2>1
    <3> QED BY <3>1 DEF Episode
  <2>4. ASSUME NEW i \in 1..Len(B) PROVE B[i].tag = "a"
    <3>1. B[i] = Episode("a", <<"train", Pairing(i, P).opponent>>,
                         Sparring(d, E, picks)[Pairing(i, P).opponent], Entry(a.brain, Pairing(i, P).variant))
      BY <1>9, <2>2
    <3> QED BY <3>1 DEF Episode
  <2> QED BY <2>3, <2>4
\* Where the episodes of a tag are.
<1>11. ASSUME NEW i \in 1..Len(episodes)
       PROVE  /\ episodes[i].tag = "d" <=> i \in 1..Len(A)
              /\ episodes[i].tag = "a" <=> i \in (Len(A) + 1)..(Len(A) + Len(B))
  <2>1. CASE i <= Len(A)
    <3>1. i \in 1..Len(A) /\ i \notin (Len(A) + 1)..(Len(A) + Len(B))
      BY <1>6, <2>1
    <3>2. episodes[i].tag = "d"
      BY <1>7, <1>10, <3>1
    <3> QED BY <3>1, <3>2
  <2>2. CASE Len(A) < i /\ i <= Len(A) + Len(B)
    <3>1. i - Len(A) \in 1..Len(B) /\ Len(A) + (i - Len(A)) = i
          /\ i \notin 1..Len(A) /\ i \in (Len(A) + 1)..(Len(A) + Len(B))
      BY <1>6, <2>2
    <3>2. episodes[Len(A) + (i - Len(A))] = B[i - Len(A)]
      BY <1>7, <3>1
    <3>3. episodes[i].tag = "a"
      BY <1>10, <3>1, <3>2
    <3> QED BY <3>1, <3>3
  <2>3. CASE Len(A) + Len(B) < i
    <3>1. i \in (Len(A) + Len(B) + 1)..Len(episodes) /\ i \notin 1..Len(A)
          /\ i \notin (Len(A) + 1)..(Len(A) + Len(B))
      BY <1>6, <1>7, <2>3
    <3> QED BY <1>7, <3>1
  <2>4. i <= Len(A) \/ (Len(A) < i /\ i <= Len(A) + Len(B)) \/ Len(A) + Len(B) < i
    BY <1>6
  <2> QED BY <2>1, <2>2, <2>3, <2>4
<1>12. ASSUME NEW p \in 1..P, d.learn
       PROVE  Scores(episodes, played, "d", P, E, p) =
                [e \in 1..E |-> [key |-> <<"train", e>>, d |-> Entry(d.brain, p), a |-> Sparring(a, E, picks)[e]]]
  <2>1. Len(A) = n /\ 0 \in Nat /\ 0 + n <= Len(episodes)
    BY <1>2, <1>5, <1>6, <1>7, <1>12
  <2>2. TaggedInARow(episodes, "d", 0, P * E)
    <3>1. 0 + 1 = 1 /\ 0 + n = n
      BY <1>2
    <3>2. \A i \in 1..Len(episodes) : episodes[i].tag = "d" <=> i \in (0 + 1)..(0 + n)
      BY <1>11, <2>1, <3>1
    <3> QED BY <2>1, <3>2 DEF TaggedInARow, n
  <2>3. Scores(episodes, played, "d", P, E, p) = [e \in 1..E |-> Played(episodes[0 + ((e - 1) * P + p)])]
    <3>1. ScoredAsPlayed(episodes, workers, "d", P, E, 0, p)
      BY <1>4, <2>2, ScoredInARow
    <3> QED BY <3>1 DEF ScoredAsPlayed
  <2>4. ASSUME NEW e \in 1..E
        PROVE  Played(episodes[0 + ((e - 1) * P + p)])
                 = [key |-> <<"train", e>>, d |-> Entry(d.brain, p), a |-> Sparring(a, E, picks)[e]]
    <3> DEFINE x == (e - 1) * P + p
    <3>1. x \in 1..n /\ Pairing(x, P) = [opponent |-> e, variant |-> p]
      BY PairedOnce DEF n
    <3> HIDE DEF x
    <3>2. 0 + x = x
      BY <1>2, <3>1
    <3>3. episodes[x] = A[x]
      BY <1>7, <2>1, <3>1
    <3>4. A[x] = Episode("d", <<"train", e>>, Entry(d.brain, p), Sparring(a, E, picks)[e])
      BY <1>8, <1>12, <3>1
    <3> QED BY <3>2, <3>3, <3>4 DEF Played, Episode, x
  <2> QED BY <2>3, <2>4
<1>13. ASSUME NEW p \in 1..P, a.learn
       PROVE  Scores(episodes, played, "a", P, E, p) =
                [e \in 1..E |-> [key |-> <<"train", e>>, d |-> Sparring(d, E, picks)[e], a |-> Entry(a.brain, p)]]
  <2> DEFINE lo == Len(A)
  <2>1. Len(B) = n /\ lo \in Nat /\ lo + n <= Len(episodes)
    BY <1>2, <1>5, <1>6, <1>7, <1>13
  <2>2. TaggedInARow(episodes, "a", lo, P * E)
    <3>1. \A i \in 1..Len(episodes) : episodes[i].tag = "a" <=> i \in (lo + 1)..(lo + n)
      BY <1>11, <2>1
    <3> HIDE DEF lo
    <3> QED BY <2>1, <3>1 DEF TaggedInARow, n
  <2>3. Scores(episodes, played, "a", P, E, p) = [e \in 1..E |-> Played(episodes[lo + ((e - 1) * P + p)])]
    <3> HIDE DEF lo
    <3>1. ScoredAsPlayed(episodes, workers, "a", P, E, lo, p)
      BY <1>4, <2>2, ScoredInARow
    <3> QED BY <3>1 DEF ScoredAsPlayed
  <2>4. ASSUME NEW e \in 1..E
        PROVE  Played(episodes[lo + ((e - 1) * P + p)])
                 = [key |-> <<"train", e>>, d |-> Sparring(d, E, picks)[e], a |-> Entry(a.brain, p)]
    <3> DEFINE x == (e - 1) * P + p
    <3>1. x \in 1..n /\ Pairing(x, P) = [opponent |-> e, variant |-> p]
      BY PairedOnce DEF n
    <3> HIDE DEF x
    <3>2. episodes[lo + x] = B[x]
      BY <1>7, <2>1, <3>1
    <3>3. episodes[lo + x] = Episode("a", <<"train", e>>, Sparring(d, E, picks)[e], Entry(a.brain, p))
      BY <1>9, <1>13, <3>1, <3>2
    <3> QED BY <3>3 DEF Played, Episode, x
  <2> QED BY <2>3, <2>4
<1> QED BY <1>12, <1>13 DEF ScoresAreOwn, episodes

\* Training is the same however many processes play: each episode with its
\* own situation and weights, each variant with its own scores.
THEOREM ProcessesAreInvisible == Asked => ProcessesInvisible
<1> SUFFICES ASSUME Asked PROVE ProcessesInvisible
  OBVIOUS
<1>1. input.kind = "split" => SplitInvisible(input.episodes, input.workers)
  BY SharingChangesNothing DEF Asked
<1>2. input.kind = "scores" => ScoresAreOwn(input.d, input.a, input.P, input.E, input.picks, input.picks, input.workers)
  BY VariantsAreScored DEF Asked
<1> QED BY <1>1, <1>2 DEF ProcessesInvisible
=============================================================================
