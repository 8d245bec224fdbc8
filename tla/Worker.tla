------------------------------- MODULE Worker -------------------------------
(***************************************************************************)
(* The bounded inference worker of one SwarmRuntime (runtime/node.py):     *)
(* _accept, _worker, the bounded waits of submit and _reply, and close.    *)
(*                                                                         *)
(* All of it runs on one asyncio loop, so an action is the code between    *)
(* two awaits.  Only the plugin runs elsewhere, on a one-thread executor;  *)
(* it may never return.  A future of the code is the set of calls that     *)
(* wait for it: they share the job's key while the job is in _work.        *)
(***************************************************************************)
EXTENDS Naturals, Sequences, FiniteSets

CONSTANTS
  Calls,         \* invocations of _accept, each made at most once
  Keys,          \* job keys: the pairs (owner node, job id)
  Inputs,        \* payloads, told apart by their SHA-256 digest
  NoJob,         \* no key, no input, no job
  QueueLimit,    \* config.queue_limit
  CacheEntries,  \* config.cache_entries, 0 disables the cache
  CacheTTL,      \* 2 * config.job_timeout_s
  MaxTTL,        \* config.job_timeout_s
  MaxTime        \* bound of the clock

ASSUME LimitsAssumption == /\ QueueLimit \in Nat \ {0}
                           /\ CacheEntries \in Nat
                           /\ CacheTTL \in Nat \ {0}
                           /\ MaxTTL \in Nat \ {0}
                           /\ MaxTime \in Nat

VARIABLES
  now,       \* time.monotonic()
  phase,     \* "open", "closing" (_closing is set) or "closed"
  work,      \* _work: the accepted job of a key, or NoJob
  queue,     \* _queue
  running,   \* the key whose plugin call _worker awaits, or NoJob
  up,        \* the _worker task has not ended
  cache,     \* _cache, oldest entry first
  req,       \* what each call asked for and until when it waits
  status,    \* how each call stands
  got        \* the input a call's result was computed from (history)

vars == <<now, phase, work, queue, running, up, cache, req, status, got>>

Jobs     == [input: Inputs, deadline: Nat]
ASSUME KeysAssumption == NoJob \notin Keys \cup Inputs \cup Jobs

Results  == {"useful", "suppressed"}
Refusals == {"busy", "mismatch"}
Failures == {"failed", "stopped", "expired", "abandoned"}
Entries  == [key: Keys, expiry: Nat, input: Inputs, result: Results]
Requests == [key: Keys \cup {NoJob}, input: Inputs \cup {NoJob}, until: Nat]

TypeOK ==
  /\ now \in Nat
  /\ phase \in {"open", "closing", "closed"}
  /\ work \in [Keys -> Jobs \cup {NoJob}]
  /\ queue \in Seq(Keys)
  /\ running \in Keys \cup {NoJob}
  /\ up \in BOOLEAN
  /\ cache \in Seq(Entries)
  /\ req \in [Calls -> Requests]
  /\ status \in [Calls -> {"unused", "waiting"} \cup Results \cup Refusals \cup Failures]
  /\ got \in [Calls -> Inputs \cup {NoJob}]

Init ==
  /\ now = 0 /\ phase = "open"
  /\ work = [k \in Keys |-> NoJob]
  /\ queue = <<>> /\ running = NoJob /\ up = TRUE
  /\ cache = <<>>
  /\ req = [c \in Calls |-> [key |-> NoJob, input |-> NoJob, until |-> 0]]
  /\ status = [c \in Calls |-> "unused"]
  /\ got = [c \in Calls |-> NoJob]

-----------------------------------------------------------------------------
Accepted == {k \in Keys : work[k] # NoJob}
Waiting(k) == {c \in Calls : status[c] = "waiting" /\ req[c].key = k}

\* The future of k is done: every call that waits for it gets s.
Settle(k, s) ==
  /\ status' = [c \in Calls |-> IF c \in Waiting(k) THEN s ELSE status[c]]
  /\ got' = [c \in Calls |-> IF c \in Waiting(k) /\ s \in Results
                             THEN work[k].input ELSE got[c]]

Answer(c, s, i) ==
  /\ status' = [status EXCEPT ![c] = s]
  /\ got' = [got EXCEPT ![c] = i]

\* The expired entries at the old end are popped.
PopExpired ==
  \E n \in 0..Len(cache) :
    /\ \A j \in 1..n : cache[j].expiry <= now
    /\ n < Len(cache) => cache[n + 1].expiry > now
    /\ cache' = SubSeq(cache, n + 1, Len(cache))

Cached(entries, k) == {n \in 1..Len(entries) : entries[n].key = k}

\* Mutant: the newest entry goes instead of the oldest.
RememberEvictsNewest(e) ==
  cache' = IF CacheEntries = 0 THEN cache
           ELSE IF Len(cache) = CacheEntries THEN Append(SubSeq(cache, 1, Len(cache) - 1), e)
           ELSE Append(cache, e)

\* Assigning an OrderedDict key keeps the place of one that exists; then the
\* oldest entry goes when there is one too many.
Remember(e) ==
  LET put == IF Cached(cache, e.key) = {}
             THEN Append(cache, e)
             ELSE [n \in 1..Len(cache) |-> IF n \in Cached(cache, e.key) THEN e ELSE cache[n]]
  IN  cache' = IF CacheEntries = 0 THEN cache
               ELSE IF Len(put) > CacheEntries THEN Tail(put) ELSE put

-----------------------------------------------------------------------------
(* _accept, reached from submit for a local job and from _message for a    *)
(* peer's.  The call then waits at most ttl for the future.                *)

Join(c, k, i) ==
  /\ work[k] # NoJob
  /\ Answer(c, IF work[k].input = i THEN "waiting" ELSE "mismatch", NoJob)
  /\ UNCHANGED <<work, queue>>

\* Mutant: the digest of a remembered job is not compared.
ReplayUnchecked(c, k, i) ==
  /\ work[k] = NoJob
  /\ \E n \in Cached(cache', k) : Answer(c, cache'[n].result, cache'[n].input)
  /\ UNCHANGED <<work, queue>>

Replay(c, k, i) ==
  /\ work[k] = NoJob
  /\ \E n \in Cached(cache', k) :
       IF cache'[n].input = i THEN Answer(c, cache'[n].result, cache'[n].input)
                              ELSE Answer(c, "mismatch", NoJob)
  /\ UNCHANGED <<work, queue>>

HasRoom == phase = "open" /\ Cardinality(Accepted) < QueueLimit

Refuse(c, k) ==
  /\ work[k] = NoJob /\ Cached(cache', k) = {}
  /\ ~HasRoom
  /\ Answer(c, "busy", NoJob)
  /\ UNCHANGED <<work, queue>>

Enqueue(c, k, i, ttl) ==
  /\ work[k] = NoJob /\ Cached(cache', k) = {}
  /\ HasRoom
  /\ work' = [work EXCEPT ![k] = [input |-> i, deadline |-> now + ttl]]
  /\ queue' = Append(queue, k)
  /\ Answer(c, "waiting", NoJob)

Accept(c, k, i, ttl) ==
  /\ phase # "closed"
  /\ status[c] = "unused"
  /\ now + ttl <= MaxTime                    \* bound: every wait can end
  /\ req' = [req EXCEPT ![c] = [key |-> k, input |-> i, until |-> now + ttl]]
  /\ PopExpired
  /\ \/ Join(c, k, i)
     \/ Replay(c, k, i)
     \/ Refuse(c, k)
     \/ Enqueue(c, k, i, ttl)
  /\ UNCHANGED <<now, phase, running, up>>

\* Mutant: a call does not time out once the plugin runs its job.
ExpireOnlyQueued(c) ==
  /\ status[c] = "waiting" /\ now >= req[c].until /\ running # req[c].key
  /\ status' = [status EXCEPT ![c] = "expired"]
  /\ UNCHANGED <<now, phase, work, queue, running, up, cache, req, got>>

\* wait_for(shield(future), ttl) of submit and _reply runs out.
Expire(c) ==
  /\ status[c] = "waiting" /\ now >= req[c].until
  /\ status' = [status EXCEPT ![c] = "expired"]
  /\ UNCHANGED <<now, phase, work, queue, running, up, cache, req, got>>

\* Mutant: no shield, the cancelled caller takes the job with it.
AbandonUnshielded(c) ==
  /\ status[c] = "waiting"
  /\ status' = [status EXCEPT ![c] = "abandoned"]
  /\ work' = [work EXCEPT ![req[c].key] = NoJob]
  /\ UNCHANGED <<now, phase, queue, running, up, cache, req, got>>

\* The caller's task is cancelled: a peer session ends (reply.cancel()) or the
\* local application gives up its submit.  shield keeps the job.
Abandon(c) ==
  /\ status[c] = "waiting"
  /\ status' = [status EXCEPT ![c] = "abandoned"]
  /\ UNCHANGED <<now, phase, work, queue, running, up, cache, req, got>>

-----------------------------------------------------------------------------
(* _worker.  It is blocked in queue.get() while running = NoJob; the loop  *)
(* condition is read only after a job, so one job may still start after    *)
(* close has set _closing.                                                 *)

Forget(k) == work' = [work EXCEPT ![k] = NoJob]

\* Mutant: the deadline is not read again at the head of the queue.
StartAnyJob ==
  /\ up /\ running = NoJob /\ queue # <<>>
  /\ queue' = Tail(queue)
  /\ running' = Head(queue)
  /\ UNCHANGED <<now, phase, work, up, cache, req, status, got>>

StartJob ==
  /\ up /\ running = NoJob /\ queue # <<>>
  /\ work[Head(queue)].deadline > now
  /\ queue' = Tail(queue)
  /\ running' = Head(queue)
  /\ UNCHANGED <<now, phase, work, up, cache, req, status, got>>

\* Mutant: an expired job is answered but keeps its place in _work.
DropLeaks ==
  /\ up /\ running = NoJob /\ queue # <<>>
  /\ work[Head(queue)].deadline <= now
  /\ queue' = Tail(queue)
  /\ Settle(Head(queue), "failed")
  /\ up' = (phase = "open")
  /\ UNCHANGED <<now, phase, work, running, cache, req>>

DropExpiredJob ==
  /\ up /\ running = NoJob /\ queue # <<>>
  /\ work[Head(queue)].deadline <= now
  /\ queue' = Tail(queue)
  /\ Settle(Head(queue), "failed")
  /\ Forget(Head(queue))
  /\ up' = (phase = "open")
  /\ UNCHANGED <<now, phase, running, cache, req>>

\* The plugin returned, raised, or returned something invalid or oversized.
FinishJob(outcome) ==
  /\ up /\ running # NoJob
  /\ LET s == IF work[running].deadline <= now THEN "failed" ELSE outcome
     IN  /\ Settle(running, s)
         /\ IF s = "failed" THEN UNCHANGED cache
            ELSE Remember([key |-> running, expiry |-> now + CacheTTL,
                           input |-> work[running].input, result |-> s])
  /\ Forget(running)
  /\ running' = NoJob
  /\ up' = (phase = "open")
  /\ UNCHANGED <<now, phase, queue, req>>

-----------------------------------------------------------------------------
(* close: _closing is set, the listening socket closes, the tasks are      *)
(* cancelled and gathered, and what is left in _work fails.                *)

BeginClose ==
  /\ phase = "open"
  /\ phase' = "closing"
  /\ UNCHANGED <<now, work, queue, running, up, cache, req, status, got>>

\* Mutant: the cancelled worker forgets its job without failing the future.
CancelSilently ==
  /\ phase = "closing" /\ up
  /\ up' = FALSE
  /\ running' = NoJob
  /\ work' = [k \in Keys |-> IF k = running THEN NoJob ELSE work[k]]
  /\ UNCHANGED <<now, phase, queue, cache, req, status, got>>

CancelWorker ==
  /\ phase = "closing" /\ up
  /\ up' = FALSE
  /\ running' = NoJob
  /\ IF running = NoJob THEN UNCHANGED <<work, status, got>>
     ELSE Settle(running, "stopped") /\ Forget(running)
  /\ UNCHANGED <<now, phase, queue, cache, req>>

EndClose ==
  /\ phase = "closing" /\ ~up
  /\ phase' = "closed"
  /\ work' = [k \in Keys |-> NoJob]
  /\ cache' = <<>>
  /\ status' = [c \in Calls |-> IF status[c] = "waiting" THEN "stopped" ELSE status[c]]
  /\ UNCHANGED <<now, queue, running, up, req, got>>

Tick ==
  /\ now < MaxTime
  /\ now' = now + 1
  /\ UNCHANGED <<phase, work, queue, running, up, cache, req, status, got>>

Next ==
  \/ \E c \in Calls, k \in Keys, i \in Inputs, ttl \in 1..MaxTTL : Accept(c, k, i, ttl)
  \/ \E c \in Calls : Expire(c) \/ Abandon(c)
  \/ StartJob \/ DropExpiredJob
  \/ \E outcome \in Results \cup {"failed"} : FinishJob(outcome)
  \/ BeginClose \/ CancelWorker \/ EndClose
  \/ Tick

\* The loop and the clock go on; the plugin need not return, and nobody need
\* call close.
Fairness ==
  /\ WF_vars(Tick)
  /\ WF_vars(StartJob) /\ WF_vars(DropExpiredJob)
  /\ WF_vars(CancelWorker) /\ WF_vars(EndClose)
  /\ \A c \in Calls : WF_vars(Expire(c))

Spec == Init /\ [][Next]_vars /\ Fairness

\* A plugin that keeps the documented promise to return.
PromptPlugin == WF_vars(\E outcome \in Results \cup {"failed"} : FinishJob(outcome))

-----------------------------------------------------------------------------
(* Properties.                                                             *)

Queued == {queue[n] : n \in 1..Len(queue)}

\* Until close has cleared it, _work is exactly the queue and the running job,
\* each once: so put_nowait never meets a full queue, and no accepted job is
\* lost between the queue and the plugin.
WorkAccounted ==
  phase # "closed" =>
    /\ Accepted = Queued \cup ({running} \ {NoJob})
    /\ running \notin Queued
    /\ \A m, n \in 1..Len(queue) : queue[m] = queue[n] => m = n

\* The queue of the code has queue_limit places; the running job counts too.
BoundedWork == phase # "closed" => Cardinality(Accepted) <= QueueLimit

\* A call never waits for a job that is gone, or for one with another input.
NoLostWaiter ==
  \A c \in Calls : status[c] = "waiting" =>
    /\ req[c].key \in Accepted
    /\ work[req[c].key].input = req[c].input

\* A result was computed from the input the call sent, whoever sent the job
\* first and however it was shared, cached or retried.
OwnResult == \A c \in Calls : status[c] \in Results => got[c] = req[c].input

\* The cache keeps its time: an answer that needed no waiting comes from an
\* entry that has not expired, although only expired heads are popped; and a
\* remembered result is dropped only when it has expired, when it is the oldest
\* of a full cache, or by close.
CacheKeepsTime ==
  [][/\ \A c \in Calls : status[c] = "unused" /\ status'[c] \in Results =>
          \E n \in 1..Len(cache) : cache[n].key = req'[c].key /\ cache[n].expiry > now
     /\ \A n \in 1..Len(cache) :
          \/ \E m \in 1..Len(cache') : cache'[m] = cache[n]
          \/ cache[n].expiry <= now
          \/ n = 1 /\ Len(cache) = CacheEntries
          \/ phase' = "closed"]_vars

\* While a job is accepted or its result remembered, it is not run again.
NoRerun ==
  [][running' # running /\ running' # NoJob =>
       /\ \A n \in 1..Len(cache) : cache[n].key # running'
       /\ work[running'].deadline > now]_vars

\* Every call is answered, refused or given up, and close ends, even if the
\* plugin hangs.
EveryCallEnds == /\ \A c \in Calls : status[c] = "waiting" ~> status[c] # "waiting"
                 /\ phase = "closing" ~> phase = "closed"

\* With a plugin that returns, every accepted job leaves _work, so the worker
\* regains its capacity.
CapacityReturns == PromptPlugin => \A k \in Keys : work[k] # NoJob ~> work[k] = NoJob
=============================================================================
