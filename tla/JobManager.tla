----------------------------- MODULE JobManager -----------------------------
(***************************************************************************)
(* The studio's background jobs (studio/jobs.py), the server's actions on  *)
(* them (studio/server.py) and the worker process (studio/worker.py).      *)
(*                                                                         *)
(* Every job here is a training: it is the kind whose status.json the      *)
(* server, the worker and on_done all write.  A job is started by one      *)
(* request; one more request stops or cancels it; the main thread may shut *)
(* the studio down at any moment.                                          *)
(***************************************************************************)
EXTENDS Naturals, Sequences, FiniteSets, SequencesExt

CONSTANTS
  Jobs,         \* requests to train, each with the job and the training it makes
  Withdrawn,    \* those that somebody may stop or cancel
  MaxParallel   \* max_parallel

ASSUME JobManagerAssumption ==
  /\ IsFiniteSet(Jobs) /\ Withdrawn \subseteq Jobs
  /\ MaxParallel \in Nat \ {0}

VARIABLES
  poster,   \* the handler of POST train
  caller,   \* the handler of POST stop or cancel
  thread,   \* _run of a job
  main,     \* the main thread
  queue,    \* _queue
  running,  \* _running
  closed,   \* _closed
  state,    \* job.state, "none" before submit
  flagged,  \* job._cancel
  asked,    \* the file stop exists in the job's directory
  proc,     \* the worker process
  file,     \* state in the status.json of the training
  told      \* calls of on_done (history)

manager == <<queue, running, closed>>
job == <<state, flagged, asked>>
worker == <<proc, file>>
vars == <<poster, caller, thread, main, manager, job, worker, told>>

Final == {"done", "error", "cancelled"}
Exited == {"ok", "failed", "killed"}

TypeOK ==
  /\ poster \in [Jobs -> {"idle", "submitted", "pumped", "answered", "refused"}]
  /\ caller \in [Jobs -> {"idle", "cancelling", "flagged", "removed", "finished", "returned"}]
  /\ thread \in [Jobs -> {"none", "started", "begun", "watching", "finished", "told", "freed", "ended"}]
  /\ main \in {"serving", "closing", "killed", "exited"}
  /\ queue \in Seq(Jobs) /\ running \in Nat /\ closed \in BOOLEAN
  /\ state \in [Jobs -> {"none", "queued", "running"} \cup Final]
  /\ flagged \in [Jobs -> BOOLEAN] /\ asked \in [Jobs -> BOOLEAN]
  /\ proc \in [Jobs -> {"none", "running"} \cup Exited]
  /\ file \in [Jobs -> {"none", "queued", "running", "stopped"} \cup Final]
  /\ told \in [Jobs -> Nat]

Init ==
  /\ poster = [j \in Jobs |-> "idle"] /\ caller = [j \in Jobs |-> "idle"]
  /\ thread = [j \in Jobs |-> "none"] /\ main = "serving"
  /\ queue = <<>> /\ running = 0 /\ closed = FALSE
  /\ state = [j \in Jobs |-> "none"]
  /\ flagged = [j \in Jobs |-> FALSE] /\ asked = [j \in Jobs |-> FALSE]
  /\ proc = [j \in Jobs |-> "none"] /\ file = [j \in Jobs |-> "none"]
  /\ told = [j \in Jobs |-> 0]

Alive == main # "exited"
Moves(who, j, from, to) == Alive /\ who[j] = from /\ who' = [who EXCEPT ![j] = to]

-----------------------------------------------------------------------------
\* Mutant: the threads that run are not counted.
RoomForgetful == IF closed THEN 0 ELSE MaxParallel

\* _pump, under the lock: as many jobs are started as there is room for.
Room == IF closed THEN 0 ELSE MaxParallel - running
Pumped(q, free) == IF Len(q) < free THEN Len(q) ELSE free

Pump(free) ==
  LET n == Pumped(queue, free)
      begun == {queue[i] : i \in 1..n}
  IN  /\ queue' = SubSeq(queue, n + 1, Len(queue))
      /\ running' = running + n
      /\ thread' = [j \in Jobs |-> IF j \in begun THEN "started" ELSE thread[j]]

\* _finish calls on_done, which marks the training as over unless the worker did.
OnDone(j) ==
  /\ file' = [file EXCEPT ![j] =
                IF @ \in {"none", "queued", "running"}
                THEN IF state[j] = "cancelled" THEN "cancelled" ELSE "error" ELSE @]
  /\ told' = [told EXCEPT ![j] = @ + 1]

-----------------------------------------------------------------------------
\* _start_training: submit queues the job, pumps, and the handler writes the
\* status of the training when submit has returned.
Submit(j) ==
  /\ IF closed
     THEN Moves(poster, j, "idle", "refused") /\ UNCHANGED <<queue, state>>
     ELSE /\ Moves(poster, j, "idle", "submitted")
          /\ queue' = Append(queue, j)
          /\ state' = [state EXCEPT ![j] = "queued"]
  /\ UNCHANGED <<caller, thread, main, running, closed, flagged, asked, worker, told>>

SubmitPump(j) ==
  /\ Moves(poster, j, "submitted", "pumped")
  /\ Pump(Room)
  /\ UNCHANGED <<caller, main, closed, job, worker, told>>

WriteStatus(j) ==
  /\ Moves(poster, j, "pumped", "answered")
  /\ file' = [file EXCEPT ![j] = "queued"]
  /\ UNCHANGED <<caller, thread, main, manager, job, proc, told>>

-----------------------------------------------------------------------------
\* stop: a queued job is cancelled, a running one is asked to wrap up.
Stop(j) ==
  /\ j \in Withdrawn /\ state[j] # "none"
  /\ Moves(caller, j, "idle", IF state[j] = "queued" THEN "cancelling" ELSE "returned")
  /\ asked' = [asked EXCEPT ![j] = @ \/ state[j] = "running"]
  /\ UNCHANGED <<poster, thread, main, manager, state, flagged, worker, told>>

Cancel(j) ==
  /\ j \in Withdrawn /\ state[j] # "none" /\ Moves(caller, j, "idle", "cancelling")
  /\ UNCHANGED <<poster, thread, main, manager, job, worker, told>>

Flag(j) ==
  /\ Moves(caller, j, "cancelling", "flagged")
  /\ flagged' = [flagged EXCEPT ![j] = TRUE]
  /\ UNCHANGED <<poster, thread, main, manager, state, asked, worker, told>>

\* Mutant: what decides is the state of the job, not the queue.
QueuedByState(j) == state[j] = "queued"

\* Under the lock the job is taken off the queue, if it still is there;
\* otherwise its process is killed, if there is one.
Queued(j) == j \in ToSet(queue)

\* Mutant: the job is not removed.
CancelInPlace(j) ==
  /\ Queued(j) /\ Moves(caller, j, "flagged", "removed")
  /\ UNCHANGED <<poster, thread, main, manager, job, worker, told>>

CancelQueued(j) ==
  /\ Queued(j) /\ Moves(caller, j, "flagged", "removed")
  /\ \E i \in DOMAIN queue : queue[i] = j /\ queue' = RemoveAt(queue, i)
  /\ UNCHANGED <<poster, thread, main, running, closed, job, worker, told>>

CancelStarted(j) ==
  /\ ~Queued(j) /\ Moves(caller, j, "flagged", "returned")
  /\ proc' = [proc EXCEPT ![j] = IF @ = "running" THEN "killed" ELSE @]
  /\ UNCHANGED <<poster, thread, main, manager, job, file, told>>

\* _finish of a job that never started.
CancelFinish(j) ==
  /\ Moves(caller, j, "removed", "finished")
  /\ state' = [state EXCEPT ![j] = "cancelled"]
  /\ UNCHANGED <<poster, thread, main, manager, flagged, asked, worker, told>>

CancelTell(j) ==
  /\ Moves(caller, j, "finished", "returned")
  /\ OnDone(j)
  /\ UNCHANGED <<poster, thread, main, manager, job, proc>>

-----------------------------------------------------------------------------
\* _run.
Begin(j) ==
  /\ Moves(thread, j, "started", "begun")
  /\ state' = [state EXCEPT ![j] = "running"]
  /\ UNCHANGED <<poster, caller, main, manager, flagged, asked, worker, told>>

Spawn(j) ==
  /\ Moves(thread, j, "begun", "watching")
  /\ proc' = [proc EXCEPT ![j] = "running"]
  /\ UNCHANGED <<poster, caller, main, manager, job, file, told>>

\* The directory cannot be written, or Popen raises.
SpawnFails(j) ==
  /\ Alive /\ thread[j] \in {"started", "begun"}
  /\ thread' = [thread EXCEPT ![j] = "finished"]
  /\ state' = [state EXCEPT ![j] = "error"]
  /\ UNCHANGED <<poster, caller, main, manager, flagged, asked, worker, told>>

Finish(j) ==
  /\ proc[j] \in Exited /\ Moves(thread, j, "watching", "finished")
  /\ state' = [state EXCEPT ![j] = IF flagged[j] THEN "cancelled"
                                   ELSE IF proc[j] = "ok" THEN "done" ELSE "error"]
  /\ UNCHANGED <<poster, caller, main, manager, flagged, asked, worker, told>>

Tell(j) ==
  /\ Moves(thread, j, "finished", "told")
  /\ OnDone(j)
  /\ UNCHANGED <<poster, caller, main, manager, job, proc>>

\* Mutant: the slot is not given back.
FreeLeaks(j) ==
  /\ Moves(thread, j, "told", "freed")
  /\ asked' = [asked EXCEPT ![j] = FALSE]
  /\ UNCHANGED <<poster, caller, main, manager, state, flagged, worker, told>>

\* The finally: the directory goes, the slot is given back, the next job starts.
Free(j) ==
  /\ Moves(thread, j, "told", "freed")
  /\ asked' = [asked EXCEPT ![j] = FALSE]
  /\ running' = running - 1
  /\ UNCHANGED <<poster, caller, main, queue, closed, state, flagged, worker, told>>

PumpNext(j) ==
  /\ Alive /\ thread[j] = "freed"
  /\ LET n == Pumped(queue, Room)
         begun == {queue[i] : i \in 1..n}
     IN  /\ queue' = SubSeq(queue, n + 1, Len(queue))
         /\ running' = running + n
         /\ thread' = [k \in Jobs |-> IF k = j THEN "ended"
                                      ELSE IF k \in begun THEN "started" ELSE thread[k]]
  /\ UNCHANGED <<poster, caller, main, closed, job, worker, told>>

-----------------------------------------------------------------------------
\* The worker process: it marks the training as running, and as over when it
\* succeeds; a failure is left to on_done.  It outlives the studio.
WorkerRuns(j) ==
  /\ proc[j] = "running"
  /\ file' = [file EXCEPT ![j] = "running"]
  /\ UNCHANGED <<poster, caller, thread, main, manager, job, proc, told>>

WorkerSucceeds(j) ==
  /\ proc[j] = "running"
  /\ file' = [file EXCEPT ![j] = IF asked[j] THEN "stopped" ELSE "done"]
  /\ proc' = [proc EXCEPT ![j] = "ok"]
  /\ UNCHANGED <<poster, caller, thread, main, manager, job, told>>

WorkerFails(j) ==
  /\ proc[j] = "running"
  /\ proc' = [proc EXCEPT ![j] = "failed"]
  /\ UNCHANGED <<poster, caller, thread, main, manager, job, file, told>>

\* The timer of _run kills a worker that takes too long.
Timeout(j) ==
  /\ Alive /\ proc[j] = "running"
  /\ proc' = [proc EXCEPT ![j] = "killed"]
  /\ UNCHANGED <<poster, caller, thread, main, manager, job, file, told>>

-----------------------------------------------------------------------------
\* shutdown, then the main thread returns and its daemon threads die with it.
Close ==
  /\ main = "serving" /\ main' = "closing"
  /\ closed' = TRUE /\ queue' = <<>>
  /\ UNCHANGED <<poster, caller, thread, running, job, worker, told>>

KillAll ==
  /\ main = "closing" /\ main' = "killed"
  /\ proc' = [j \in Jobs |-> IF proc[j] = "running" THEN "killed" ELSE proc[j]]
  /\ UNCHANGED <<poster, caller, thread, manager, job, file, told>>

Exit ==
  /\ main = "killed" /\ main' = "exited"
  /\ UNCHANGED <<poster, caller, thread, manager, job, worker, told>>

-----------------------------------------------------------------------------
Post(j) == Submit(j) \/ SubmitPump(j) \/ WriteStatus(j)
Withdraw(j) == Flag(j) \/ CancelQueued(j) \/ CancelStarted(j) \/ CancelFinish(j) \/ CancelTell(j)
Run(j) == Begin(j) \/ Spawn(j) \/ SpawnFails(j) \/ Finish(j) \/ Tell(j) \/ Free(j) \/ PumpNext(j)
Work(j) == WorkerRuns(j) \/ WorkerSucceeds(j) \/ WorkerFails(j) \/ Timeout(j)

Next ==
  \/ \E j \in Jobs : Post(j) \/ Stop(j) \/ Cancel(j) \/ Withdraw(j) \/ Run(j) \/ Work(j)
  \/ Close \/ KillAll \/ Exit

\* The threads of the studio are scheduled; a worker may run for ever, its
\* timer does not.
Spec == /\ Init /\ [][Next]_vars
        /\ \A j \in Jobs : /\ WF_vars(SubmitPump(j) \/ WriteStatus(j)) /\ WF_vars(Withdraw(j))
                           /\ WF_vars(Run(j)) /\ WF_vars(Timeout(j))

-----------------------------------------------------------------------------
\* _running counts exactly the threads that have not given their slot back, and
\* never exceeds max_parallel, through cancels, failures and shutdown.
SlotsExact ==
  /\ running = Cardinality({j \in Jobs : thread[j] \notin {"none", "freed", "ended"}})
  /\ running <= MaxParallel

\* A job is finished once: cancel and the job's own thread never both finish
\* it, and on_done is told once.
FinishedOnce ==
  \A j \in Jobs : /\ told[j] <= 1
                  /\ caller[j] \in {"removed", "finished"} => thread[j] = "none" /\ ~Queued(j)
                  /\ told[j] = 1 => state[j] \in Final

\* Slots and ends of jobs are accounted for.
JobsAccounted == TypeOK /\ SlotsExact /\ FinishedOnce

\* A job that was cancelled before it was started is never started.
NoLateStart ==
  [][\A j \in Jobs : state[j] = "cancelled" => proc'[j] = proc[j] /\ state'[j] = state[j]]_vars

\* Every job that was submitted is finished, unless the studio shuts down.
EveryJobEnds == \A j \in Jobs : state[j] = "queued" ~> state[j] \in Final \/ closed

\* "cancel kills it": when cancel has returned, the worker does not run.
CancelKills == \A j \in Jobs : flagged[j] /\ caller[j] = "returned" => proc[j] # "running"

\* A training whose job is over can be deleted: its status says so, once the
\* handler that started it and on_done have both written it.
OverMeansDeletable ==
  \A j \in Jobs : poster[j] = "answered" /\ told[j] = 1 => file[j] \notin {"queued", "running"}
=============================================================================
